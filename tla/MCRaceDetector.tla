--------------------------- MODULE MCRaceDetector ---------------------------
(* A model-checking instance of RaceDetector: every program with three     *)
(* frames, and those with four that have no parallel loop and one call.    *)
EXTENDS RaceDetector

SmallPrograms ==
    \/ frame_id < MaxFrames
    \/ /\ \A f \in 1..MaxFrames : tree[f].type # "loop"
       /\ Cardinality({f \in 1..MaxFrames : tree[f].type = "spawner"}) <= 1
=============================================================================
