------------------------------ MODULE ViewMap -------------------------------
(***************************************************************************)
(* What a table of reducer views promises: a partial map from the keys of  *)
(* reducers to their views.                                                *)
(***************************************************************************)
CONSTANTS Keys, Values, NoView

VARIABLE views   \* key |-> its view, or NoView

Insert(k, v) == views' = [views EXCEPT ![k] = v]
Remove(k) == views' = [views EXCEPT ![k] = NoView]
Clear == views' = [k \in Keys |-> NoView]

MapInit == views = [k \in Keys |-> NoView]

MapNext ==
    \/ \E k \in Keys, v \in Values : Insert(k, v)
    \/ \E k \in Keys : Remove(k)
    \/ Clear

MapSpec == MapInit /\ [][MapNext]_views
=============================================================================
