---------------------------- MODULE DriverProofs ----------------------------
(***************************************************************************)
(* Proofs about Driver: its stacks keep in step with the program and with  *)
(* the frame stack, and nothing that could race goes unchecked while the   *)
(* execution is regarded as serial.                                        *)
(***************************************************************************)
EXTENDS Driver, SPBagsProofs, FiniteSetTheorems, SequenceTheorems

USE BoundsAssumption DEF Slots, Regs, DS, Frames, Loop

(***************************************************************************)
(* Counting the entries of a program.                                      *)
(***************************************************************************)
\* One more entry counts if it is at one of the places.
LEMMA CountStep ==
    ASSUME NEW p, NEW ats, NEW j \in Nat
    PROVE  /\ CountTo(p, j, ats) \in Nat /\ CountTo(p, 0, ats) = 0
           /\ CountTo(p, j + 1, ats) = CountTo(p, j, ats)
                                         + (IF p[j + 1].at \in ats THEN 1 ELSE 0)
<1>. DEFINE At1(k) == {i \in 1..k : p[i].at \in ats}
<1>1. IsFiniteSet(At1(j)) /\ Cardinality(At1(j)) \in Nat
  <2>1. IsFiniteSet(1..j)
    BY FS_Interval
  <2>. QED
    BY <2>1, FS_Subset, FS_CardinalityType
<1>2. Cardinality(At1(0)) = 0
  <2>1. At1(0) = {}
    OBVIOUS
  <2>. QED
    BY <2>1, FS_EmptySet
<1>3. CASE p[j + 1].at \in ats
  <2>1. At1(j + 1) = At1(j) \cup {j + 1} /\ j + 1 \notin At1(j)
    BY <1>3
  <2>2. Cardinality(At1(j + 1)) = Cardinality(At1(j)) + 1
    BY <1>1, <2>1, FS_AddElement
  <2>. QED
    BY <1>1, <1>2, <1>3, <2>2 DEF CountTo
<1>4. CASE p[j + 1].at \notin ats
  <2>1. At1(j + 1) = At1(j)
    BY <1>4
  <2>2. Cardinality(At1(j + 1)) = Cardinality(At1(j))
    BY <2>1
  <2>. QED
    BY <1>1, <1>2, <1>4, <2>2 DEF CountTo
<1>. QED
  BY <1>3, <1>4

\* Entries are counted from below.
LEMMA CountPrefix ==
    ASSUME NEW p, NEW q, NEW ats, NEW j \in Nat, \A i \in 1..j : q[i] = p[i]
    PROVE  CountTo(q, j, ats) = CountTo(p, j, ats)
<1>1. {i \in 1..j : q[i].at \in ats} = {i \in 1..j : p[i].at \in ats}
  OBVIOUS
<1>. QED
  BY <1>1 DEF CountTo

\* Counts grow.
LEMMA CountGrows ==
    ASSUME NEW p, NEW ats, NEW i \in Nat, NEW j \in Nat, i <= j
    PROVE  /\ CountTo(p, i, ats) <= CountTo(p, j, ats)
           /\ i < j /\ p[j].at \in ats => CountTo(p, i, ats) < CountTo(p, j, ats)
<1>1. ASSUME NEW k \in Nat, i <= k PROVE CountTo(p, i, ats) <= CountTo(p, k, ats)
  <2>1. {n \in 1..i : p[n].at \in ats} \subseteq {n \in 1..k : p[n].at \in ats}
    BY <1>1
  <2>2. IsFiniteSet({n \in 1..k : p[n].at \in ats})
    <3>1. IsFiniteSet(1..k) /\ {n \in 1..k : p[n].at \in ats} \subseteq 1..k
      BY FS_Interval
    <3>. QED
      BY <3>1, FS_Subset
  <2>. QED
    BY <2>1, <2>2, FS_Subset DEF CountTo
<1>2. ASSUME i < j, p[j].at \in ats PROVE CountTo(p, i, ats) < CountTo(p, j, ats)
  <2>1. j - 1 \in Nat /\ i <= j - 1 /\ (j - 1) + 1 = j
    BY <1>2
  <2>2. /\ CountTo(p, j - 1, ats) \in Nat /\ CountTo(p, i, ats) \in Nat
        /\ CountTo(p, (j - 1) + 1, ats) = CountTo(p, j - 1, ats)
              + (IF p[(j - 1) + 1].at \in ats THEN 1 ELSE 0)
    BY <2>1, CountStep
  <2>3. CountTo(p, i, ats) <= CountTo(p, j - 1, ats)
    BY <1>1, <2>1
  <2>. QED
    BY <1>2, <2>1, <2>2, <2>3
<1>. QED
  BY <1>1, <1>2

(***************************************************************************)
(* Sequences.                                                              *)
(***************************************************************************)
\* What Append and Front do to a stack.
LEMMA StackPush ==
    ASSUME NEW S, NEW s \in Seq(S), NEW e \in S
    PROVE  /\ Append(s, e) \in Seq(S) /\ Len(Append(s, e)) = Len(s) + 1
           /\ Len(s) \in Nat /\ Append(s, e)[Len(s) + 1] = e
           /\ \A i \in 1..Len(s) : Append(s, e)[i] = s[i]
           /\ Last(Append(s, e)) = e
<1>1. /\ Append(s, e) \in Seq(S) /\ Len(Append(s, e)) = Len(s) + 1 /\ Len(s) \in Nat
      /\ Append(s, e)[Len(s) + 1] = e
      /\ \A i \in 1..Len(s) : Append(s, e)[i] = s[i]
  BY AppendProperties, LenProperties
<1>. QED
  BY <1>1 DEF Last

\* Taking the last entry.
LEMMA StackPop ==
    ASSUME NEW S, NEW s \in Seq(S), Len(s) # 0
    PROVE  /\ Front(s) \in Seq(S) /\ Len(Front(s)) = Len(s) - 1
           /\ Len(s) \in Nat \ {0} /\ Last(s) = s[Len(s)] /\ Last(s) \in S
           /\ \A i \in 1..(Len(s) - 1) : Front(s)[i] = s[i]
<1>1. Len(s) \in Nat \ {0} /\ s[Len(s)] \in S
  BY LenProperties, ElementOfSeq
<1>2. /\ 1 \in 1..(Len(s) + 1) /\ Len(s) - 1 \in 0..Len(s) /\ 1 \in 1..Len(s)
      /\ \A i \in 1..(Len(s) - 1) : i \in 1..Len(s)
  BY <1>1
<1>3. PICK n : n = Len(s) - 1
  OBVIOUS
<1>4. n \in Nat /\ \A i \in 1..n : s[i] \in S
  BY <1>1, <1>2, <1>3, ElementOfSeq
<1>5. /\ SubSeq(s, 1, n) \in Seq(S) /\ Len(SubSeq(s, 1, n)) = n
      /\ \A i \in 1..n : SubSeq(s, 1, n)[i] = s[i]
  BY <1>4, SubSeqProperties
<1>. QED
  BY <1>1, <1>3, <1>5 DEF Front, Last

\* What push_parallel_execution and pop_parallel_execution do.
LEMMA StackPushTwo ==
    ASSUME NEW S, NEW s \in Seq(S), NEW e \in S
    PROVE  /\ s \o <<e, e>> \in Seq(S) /\ Len(s \o <<e, e>>) = Len(s) + 2
           /\ Len(s) \in Nat
           /\ \A i \in 1..Len(s) : (s \o <<e, e>>)[i] = s[i]
           /\ (s \o <<e, e>>)[Len(s) + 1] = e /\ (s \o <<e, e>>)[Len(s) + 2] = e
<1>1. PICK t : t = <<e, e>>
  OBVIOUS
<1>2. t \in Seq(S) /\ Len(t) = 2 /\ t[1] = e /\ t[2] = e
  BY <1>1
<1>3. /\ s \o t \in Seq(S) /\ Len(s \o t) = Len(s) + Len(t) /\ Len(s) \in Nat
      /\ \A i \in 1..(Len(s) + Len(t)) :
            (s \o t)[i] = IF i <= Len(s) THEN s[i] ELSE t[i - Len(s)]
  BY <1>2, ConcatProperties, LenProperties
<1>4. Len(s) + 1 \in 1..(Len(s) + 2) /\ Len(s) + 2 \in 1..(Len(s) + 2)
  BY <1>3
<1>. QED
  BY <1>1, <1>2, <1>3, <1>4

\* Taking the last two entries.
LEMMA StackPopTwo ==
    ASSUME NEW S, NEW s \in Seq(S), Len(s) > 2
    PROVE  /\ Front(Front(s)) \in Seq(S) /\ Len(Front(Front(s))) = Len(s) - 2
           /\ \A i \in 1..(Len(s) - 2) : Front(Front(s))[i] = s[i]
<1>1. Len(s) \in Nat /\ Len(s) # 0 /\ Len(s) - 1 # 0
  BY LenProperties
<1>2. /\ Front(s) \in Seq(S) /\ Len(Front(s)) = Len(s) - 1
      /\ \A i \in 1..(Len(s) - 1) : Front(s)[i] = s[i]
  BY <1>1, StackPop
<1>3. PICK t : t = Front(s)
  OBVIOUS
<1>4. /\ Front(t) \in Seq(S) /\ Len(Front(t)) = Len(t) - 1
      /\ \A i \in 1..(Len(t) - 1) : Front(t)[i] = t[i]
  BY <1>1, <1>2, <1>3, StackPop
<1>. QED
  BY <1>1, <1>2, <1>3, <1>4

-----------------------------------------------------------------------------
(***************************************************************************)
(* parallel_execution.  A program p and the stack s of its states: the     *)
(* entry at place j runs in state StateIn(p, s, j).                        *)
(***************************************************************************)
LevelIn(p, j) == CountTo(p, j, Pushing)
StateIn(p, s, j) == s[1 + 2 * LevelIn(p, j)]

\* Places at which a task or an iteration is about to start or has started.
Parallel == {"detach", "task", "idetach", "iter"}

\* A state is inherited from below, is noted twice, and may be changed to
\* parallel; below a task or an iteration it is parallel.
Alignment(p, s) ==
    /\ p \in Seq(Entry) /\ Len(p) # 0 /\ p[1].at = "call"
    /\ s \in Seq({0, 1}) /\ Len(s) = 1 + 2 * LevelIn(p, Len(p))
    /\ \A i, j \in 1..Len(p) : i <= j => StateIn(p, s, i) <= StateIn(p, s, j)
    /\ \A j \in 2..Len(p) :
          p[j].at \in Pushing => s[2 * LevelIn(p, j)] = StateIn(p, s, j - 1)
    /\ \A j \in 1..Len(p) : p[j].at \in Parallel => StateIn(p, s, j) = 1

\* Levels and states.
LEMMA LevelFacts ==
    ASSUME NEW p, NEW s, Alignment(p, s)
    PROVE  /\ Len(p) \in Nat \ {0} /\ Len(s) \in Nat \ {0}
           /\ Last(s) = StateIn(p, s, Len(p)) /\ Last(s) = s[Len(s)]
           /\ Last(p) = p[Len(p)]
           /\ \A j \in 0..Len(p) : LevelIn(p, j) \in Nat
           /\ LevelIn(p, 1) = 0
           /\ \A j \in 1..Len(p) :
                 /\ StateIn(p, s, j) \in {0, 1} /\ p[j] \in Entry
                 /\ LevelIn(p, j) = LevelIn(p, j - 1)
                                      + (IF p[j].at \in Pushing THEN 1 ELSE 0)
           /\ \A i, j \in 1..Len(p) :
                 /\ i <= j => LevelIn(p, i) <= LevelIn(p, j)
                 /\ i < j /\ p[j].at \in Pushing => LevelIn(p, i) < LevelIn(p, j)
<1>1. /\ p \in Seq(Entry) /\ Len(p) # 0 /\ p[1].at = "call"
      /\ s \in Seq({0, 1}) /\ Len(s) = 1 + 2 * LevelIn(p, Len(p))
  BY DEF Alignment
<1>2. Len(p) \in Nat \ {0} /\ Len(s) \in Nat
  BY <1>1, LenProperties
<1>3. ASSUME NEW j \in 0..Len(p) PROVE LevelIn(p, j) \in Nat
  BY <1>2, CountStep DEF LevelIn
<1>4. ASSUME NEW i \in 1..Len(p), NEW j \in 1..Len(p)
      PROVE  /\ i <= j => LevelIn(p, i) <= LevelIn(p, j)
             /\ i < j /\ p[j].at \in Pushing => LevelIn(p, i) < LevelIn(p, j)
  BY <1>2, CountGrows DEF LevelIn
<1>5. Len(p) \in 1..Len(p) /\ Len(p) \in 0..Len(p)
  BY <1>2
<1>6. ASSUME NEW j \in 1..Len(p) PROVE StateIn(p, s, j) \in {0, 1} /\ p[j] \in Entry
  <2>1. LevelIn(p, j) \in Nat /\ LevelIn(p, Len(p)) \in Nat
    BY <1>2, <1>3, <1>5
  <2>2. LevelIn(p, j) <= LevelIn(p, Len(p))
    BY <1>2, <1>4, <1>5
  <2>3. 1 + 2 * LevelIn(p, j) \in 1..Len(s)
    BY <1>1, <2>1, <2>2
  <2>. QED
    BY <1>1, <2>3, ElementOfSeq DEF StateIn
<1>7. ASSUME NEW j \in 1..Len(p)
      PROVE  LevelIn(p, j) = LevelIn(p, j - 1) + (IF p[j].at \in Pushing THEN 1 ELSE 0)
  <2>1. PICK k \in Nat : k = j - 1 /\ k + 1 = j
    BY <1>2
  <2>2. CountTo(p, k + 1, Pushing) = CountTo(p, k, Pushing)
                                       + (IF p[k + 1].at \in Pushing THEN 1 ELSE 0)
    BY CountStep
  <2>. QED
    BY <2>1, <2>2 DEF LevelIn
<1>8. LevelIn(p, 1) = 0
  <2>1. 1 \in 1..Len(p) /\ 1 - 1 = 0 /\ "call" \notin Pushing
    BY <1>2 DEF Pushing, Functions
  <2>2. LevelIn(p, 0) = 0
    BY CountStep DEF LevelIn
  <2>. QED
    BY <1>1, <1>7, <2>1, <2>2
<1>9. Len(s) \in Nat \ {0}
  BY <1>1, <1>2, <1>3, <1>5
<1>10. Last(s) = s[Len(s)] /\ Last(p) = p[Len(p)] /\ Last(s) = StateIn(p, s, Len(p))
  BY <1>1 DEF Last, StateIn
<1>. QED
  BY <1>2, <1>3, <1>4, <1>6, <1>7, <1>8, <1>9, <1>10

Agree(f, g, n) == \A i \in 1..n : f[i] = g[i]

\* Programs that agree up to a place have the levels and the states there.
LEMMA SameBelow ==
    ASSUME NEW p, NEW q, NEW s, NEW t, NEW n \in Nat,
           Agree(q, p, n), Agree(t, s, 1 + 2 * LevelIn(p, n))
    PROVE  \A j \in 0..n : LevelIn(q, j) = LevelIn(p, j) /\ StateIn(q, t, j) = StateIn(p, s, j)
<1>1. ASSUME NEW j \in 0..n
      PROVE  LevelIn(q, j) = LevelIn(p, j) /\ StateIn(q, t, j) = StateIn(p, s, j)
  <2>1. j \in Nat /\ j <= n /\ \A i \in 1..j : q[i] = p[i]
    BY DEF Agree
  <2>2. LevelIn(q, j) = LevelIn(p, j)
    BY <2>1, CountPrefix DEF LevelIn
  <2>3. LevelIn(p, j) \in Nat /\ LevelIn(p, n) \in Nat /\ LevelIn(p, j) <= LevelIn(p, n)
    BY <2>1, CountStep, CountGrows DEF LevelIn
  <2>4. 1 + 2 * LevelIn(p, j) \in 1..(1 + 2 * LevelIn(p, n))
    BY <2>3
  <2>. QED
    BY <2>2, <2>4 DEF StateIn, Agree
<1>. QED
  BY <1>1

\* A site, or an iteration, is entered in the state of the code below it.
LEMMA EnterSite ==
    ASSUME NEW p, NEW s, Alignment(p, s), NEW e \in Entry, e.at \notin Pushing,
           e.at \in Parallel => Last(s) = 1
    PROVE  /\ Alignment(Append(p, e), s)
           /\ \A j \in 1..Len(p) : StateIn(Append(p, e), s, j) = StateIn(p, s, j)
           /\ StateIn(Append(p, e), s, Len(p) + 1) = Last(s)
<1>0. PICK n, q : n = Len(p) /\ q = Append(p, e)
  OBVIOUS
<1>1. n \in Nat \ {0} /\ p \in Seq(Entry) /\ s \in Seq({0, 1})
  BY <1>0, LevelFacts DEF Alignment
<1>2. /\ q \in Seq(Entry) /\ Len(q) = n + 1 /\ q[n + 1] = e
      /\ \A i \in 1..n : q[i] = p[i]
  BY <1>0, <1>1, StackPush
<1>3. \A j \in 0..n : LevelIn(q, j) = LevelIn(p, j) /\ StateIn(q, s, j) = StateIn(p, s, j)
  <2>1. Agree(s, s, 1 + 2 * LevelIn(p, n))
    BY DEF Agree
  <2>2. n \in Nat /\ Agree(q, p, n)
    BY <1>1, <1>2 DEF Agree
  <2>. QED
    BY <2>1, <2>2, SameBelow
<1>4. LevelIn(q, n + 1) = LevelIn(p, n)
  <2>0. n \in Nat
    BY <1>1
  <2>1. LevelIn(q, n + 1) = LevelIn(q, n) + (IF q[n + 1].at \in Pushing THEN 1 ELSE 0)
    BY <2>0, CountStep DEF LevelIn
  <2>2. LevelIn(q, n) = LevelIn(p, n) /\ LevelIn(p, n) \in Nat
    <3>1. n \in 0..n
      BY <1>1
    <3>. QED
      BY <1>0, <1>3, <3>1, LevelFacts
  <2>. QED
    BY <1>2, <2>1, <2>2
<1>5. StateIn(q, s, n + 1) = StateIn(p, s, n) /\ StateIn(p, s, n) = Last(s)
  BY <1>0, <1>4, LevelFacts DEF StateIn
<1>6. \A j \in 1..(n + 1) : j \in 1..n \/ j = n + 1
  BY <1>1
<1>7. Len(q) # 0 /\ q[1].at = "call" /\ Len(s) = 1 + 2 * LevelIn(q, Len(q))
  BY <1>0, <1>1, <1>2, <1>4 DEF Alignment
<1>8. ASSUME NEW i \in 1..Len(q), NEW j \in 1..Len(q), i <= j
      PROVE  StateIn(q, s, i) <= StateIn(q, s, j)
  <2>1. ASSUME NEW k \in 1..n
        PROVE  StateIn(q, s, k) = StateIn(p, s, k) /\ StateIn(p, s, k) <= StateIn(p, s, n)
    <3>1. k \in 0..n /\ k \in 1..n /\ n \in 1..n /\ k <= n
      BY <1>1
    <3>. QED
      BY <1>0, <1>3, <3>1 DEF Alignment
  <2>2. CASE i \in 1..n /\ j \in 1..n
    BY <1>0, <1>8, <2>1, <2>2 DEF Alignment
  <2>3. CASE i \in 1..n /\ j = n + 1
    BY <1>5, <2>1, <2>3
  <2>4. CASE i = n + 1 /\ j = n + 1
    <3>1. StateIn(p, s, n) \in {0, 1}
      BY <1>0, <1>1, LevelFacts
    <3>. QED
      BY <1>5, <2>4, <3>1
  <2>. QED
    BY <1>1, <1>2, <1>8, <2>2, <2>3, <2>4
<1>9. ASSUME NEW j \in 2..Len(q), q[j].at \in Pushing
      PROVE  s[2 * LevelIn(q, j)] = StateIn(q, s, j - 1)
  <2>1. j \in 2..n /\ j - 1 \in 0..n /\ j \in 0..n /\ j \in 1..n
    BY <1>1, <1>2, <1>6, <1>9
  <2>. QED
    BY <1>0, <1>2, <1>3, <1>9, <2>1 DEF Alignment
<1>10. ASSUME NEW j \in 1..Len(q), q[j].at \in Parallel PROVE StateIn(q, s, j) = 1
  <2>1. CASE j \in 1..n
    BY <1>0, <1>2, <1>3, <1>10, <2>1 DEF Alignment
  <2>2. CASE j = n + 1
    BY <1>2, <1>5, <1>10, <2>2
  <2>. QED
    BY <1>2, <1>6, <2>1, <2>2
<1>11. Alignment(q, s)
  BY <1>1, <1>2, <1>7, <1>8, <1>9, <1>10 DEF Alignment
<1>. QED
  BY <1>0, <1>1, <1>3, <1>5, <1>11

\* push_parallel_execution: the state of the code below is noted twice.
LEMMA EnterPushing ==
    ASSUME NEW p, NEW s, Alignment(p, s), NEW e \in Entry, e.at \in Pushing,
           e.at \in Parallel => Last(s) = 1
    PROVE  LET t == s \o <<Last(s), Last(s)>> IN
           /\ Alignment(Append(p, e), t)
           /\ \A j \in 1..Len(p) : StateIn(Append(p, e), t, j) = StateIn(p, s, j)
           /\ StateIn(Append(p, e), t, Len(p) + 1) = Last(s)
<1>0. PICK n, q, t : n = Len(p) /\ q = Append(p, e) /\ t = s \o <<Last(s), Last(s)>>
  OBVIOUS
<1>1. /\ n \in Nat \ {0} /\ p \in Seq(Entry) /\ s \in Seq({0, 1})
      /\ Last(s) \in {0, 1} /\ Last(s) = StateIn(p, s, n) /\ LevelIn(p, n) \in Nat
      /\ Len(s) = 1 + 2 * LevelIn(p, n)
  <2>1. Len(p) \in 1..Len(p) /\ Len(p) \in 0..Len(p)
    BY LevelFacts
  <2>2. /\ Len(p) \in Nat \ {0} /\ Last(s) = StateIn(p, s, Len(p))
        /\ StateIn(p, s, Len(p)) \in {0, 1} /\ LevelIn(p, Len(p)) \in Nat
    BY <2>1, LevelFacts
  <2>. QED
    BY <1>0, <2>2 DEF Alignment
<1>2. /\ q \in Seq(Entry) /\ Len(q) = n + 1 /\ q[n + 1] = e
      /\ \A i \in 1..n : q[i] = p[i]
  BY <1>0, <1>1, StackPush
<1>3. /\ t \in Seq({0, 1}) /\ Len(t) = Len(s) + 2
      /\ \A i \in 1..Len(s) : t[i] = s[i]
      /\ t[Len(s) + 1] = Last(s) /\ t[Len(s) + 2] = Last(s)
  <2>1. PICK x : x = Last(s)
    OBVIOUS
  <2>2. x \in {0, 1} /\ s \in Seq({0, 1})
    BY <1>1, <2>1
  <2>3. /\ s \o <<x, x>> \in Seq({0, 1}) /\ Len(s \o <<x, x>>) = Len(s) + 2
        /\ \A i \in 1..Len(s) : (s \o <<x, x>>)[i] = s[i]
        /\ (s \o <<x, x>>)[Len(s) + 1] = x /\ (s \o <<x, x>>)[Len(s) + 2] = x
    BY <2>2, StackPushTwo
  <2>. QED
    BY <1>0, <2>1, <2>3
<1>4. \A j \in 0..n : LevelIn(q, j) = LevelIn(p, j) /\ StateIn(q, t, j) = StateIn(p, s, j)
  <2>1. Agree(t, s, 1 + 2 * LevelIn(p, n))
    BY <1>1, <1>3 DEF Agree
  <2>2. n \in Nat /\ Agree(q, p, n)
    BY <1>1, <1>2 DEF Agree
  <2>. QED
    BY <2>1, <2>2, SameBelow
<1>5. LevelIn(q, n + 1) = LevelIn(p, n) + 1
  <2>1. LevelIn(q, n + 1) = LevelIn(q, n) + (IF q[n + 1].at \in Pushing THEN 1 ELSE 0)
    BY <1>1, CountStep DEF LevelIn
  <2>2. LevelIn(q, n) = LevelIn(p, n)
    BY <1>1, <1>4
  <2>. QED
    BY <1>2, <2>1, <2>2
<1>6. StateIn(q, t, n + 1) = Last(s) /\ t[2 * LevelIn(q, n + 1)] = Last(s)
  <2>1. /\ 1 + 2 * LevelIn(q, n + 1) = Len(s) + 2
        /\ 2 * LevelIn(q, n + 1) = Len(s) + 1
    BY <1>1, <1>5
  <2>. QED
    BY <1>3, <2>1 DEF StateIn
<1>7. Len(q) # 0 /\ q[1].at = "call" /\ Len(t) = 1 + 2 * LevelIn(q, Len(q))
  <2>1. 1 \in 1..n
    BY <1>1
  <2>2. Len(t) = 1 + 2 * LevelIn(q, n + 1)
    BY <1>1, <1>3, <1>5
  <2>. QED
    BY <1>1, <1>2, <2>1, <2>2 DEF Alignment
<1>8. ASSUME NEW i \in 1..Len(q), NEW j \in 1..Len(q), i <= j
      PROVE  StateIn(q, t, i) <= StateIn(q, t, j)
  <2>1. ASSUME NEW k \in 1..n
        PROVE  StateIn(q, t, k) = StateIn(p, s, k) /\ StateIn(p, s, k) <= StateIn(p, s, n)
    <3>1. k \in 0..n /\ k \in 1..n /\ n \in 1..n /\ k <= n
      BY <1>1
    <3>. QED
      BY <1>0, <1>4, <3>1 DEF Alignment
  <2>2. CASE i \in 1..n /\ j \in 1..n
    BY <1>0, <1>8, <2>1, <2>2 DEF Alignment
  <2>3. CASE i \in 1..n /\ j = n + 1
    BY <1>1, <1>6, <2>1, <2>3
  <2>4. CASE i = n + 1 /\ j = n + 1
    BY <1>1, <1>6, <2>4
  <2>. QED
    BY <1>1, <1>2, <1>8, <2>2, <2>3, <2>4
<1>9. ASSUME NEW j \in 2..Len(q), q[j].at \in Pushing
      PROVE  t[2 * LevelIn(q, j)] = StateIn(q, t, j - 1)
  <2>1. CASE j \in 2..n
    <3>1. /\ j - 1 \in 0..n /\ j \in 0..n /\ j \in 1..n /\ n \in 1..n /\ j <= n
          /\ j - 1 \in 0..Len(p)
      BY <1>0, <1>1, <2>1
    <3>2. p[j].at \in Pushing /\ LevelIn(q, j) = LevelIn(p, j)
      BY <1>2, <1>4, <1>9, <3>1
    <3>3. /\ LevelIn(p, j) \in Nat /\ LevelIn(p, j - 1) \in Nat
          /\ LevelIn(p, j) = LevelIn(p, j - 1) + 1 /\ LevelIn(p, j) <= LevelIn(p, n)
      BY <1>0, <3>1, <3>2, LevelFacts
    <3>4. 2 * LevelIn(p, j) \in 1..Len(s)
      BY <1>1, <3>3
    <3>5. s[2 * LevelIn(p, j)] = StateIn(p, s, j - 1)
      BY <1>0, <2>1, <3>2 DEF Alignment
    <3>. QED
      BY <1>3, <1>4, <3>1, <3>2, <3>4, <3>5
  <2>2. CASE j = n + 1
    <3>1. n \in 0..n /\ j - 1 = n
      BY <1>1, <2>2
    <3>. QED
      BY <1>1, <1>4, <1>6, <2>2, <3>1
  <2>. QED
    BY <1>1, <1>2, <2>1, <2>2
<1>10. ASSUME NEW j \in 1..Len(q), q[j].at \in Parallel PROVE StateIn(q, t, j) = 1
  <2>1. CASE j \in 1..n
    <3>1. j \in 0..n /\ p[j].at \in Parallel
      BY <1>2, <1>10, <2>1
    <3>2. StateIn(p, s, j) = 1
      BY <1>0, <2>1, <3>1 DEF Alignment
    <3>. QED
      BY <1>4, <3>1, <3>2
  <2>2. CASE j = n + 1
    BY <1>2, <1>6, <1>10, <2>2
  <2>. QED
    BY <1>1, <1>2, <2>1, <2>2
<1>11. Alignment(q, t)
  BY <1>1, <1>2, <1>3, <1>7, <1>8, <1>9, <1>10 DEF Alignment
<1>12. /\ \A j \in 1..n : StateIn(q, t, j) = StateIn(p, s, j)
       /\ StateIn(q, t, n + 1) = Last(s)
  BY <1>1, <1>4, <1>6
<1>. QED
  BY <1>0, <1>11, <1>12

\* A lower part of a program has its states in the lower part of the stack.
LEMMA PrefixAligned ==
    ASSUME NEW p, NEW s, Alignment(p, s), NEW n \in 1..Len(p),
           NEW q \in Seq(Entry), Len(q) = n, \A i \in 1..n : q[i] = p[i],
           NEW t \in Seq({0, 1}), Len(t) = 1 + 2 * LevelIn(p, n),
           \A i \in 1..Len(t) : t[i] = s[i]
    PROVE  /\ Alignment(q, t)
           /\ \A j \in 1..n : StateIn(q, t, j) = StateIn(p, s, j)
<1>1. /\ Len(p) \in Nat \ {0} /\ n \in Nat \ {0} /\ n \in 0..n /\ LevelIn(p, n) \in Nat
      /\ \A j \in 1..n : j \in 1..Len(p) /\ j \in 0..n
      /\ \A j \in 2..n : j \in 2..Len(p) /\ j - 1 \in 0..n /\ j \in 1..Len(p)
                          /\ j - 1 \in 0..Len(p) /\ j \in 0..n /\ j - 1 \in 1..n
  <2>1. Len(p) \in Nat \ {0}
    BY LevelFacts
  <2>2. n \in 0..Len(p)
    BY <2>1
  <2>. QED
    BY <2>1, <2>2, LevelFacts
<1>2. \A j \in 0..n : LevelIn(q, j) = LevelIn(p, j) /\ StateIn(q, t, j) = StateIn(p, s, j)
  <2>1. Agree(t, s, 1 + 2 * LevelIn(p, n))
    BY DEF Agree
  <2>2. n \in Nat /\ Agree(q, p, n)
    BY <1>1 DEF Agree
  <2>. QED
    BY <2>1, <2>2, SameBelow
<1>3. Len(q) # 0 /\ q[1].at = "call" /\ Len(t) = 1 + 2 * LevelIn(q, Len(q))
  <2>1. 1 \in 1..n
    BY <1>1
  <2>. QED
    BY <1>1, <1>2, <2>1 DEF Alignment
<1>4. ASSUME NEW i \in 1..Len(q), NEW j \in 1..Len(q), i <= j
      PROVE  StateIn(q, t, i) <= StateIn(q, t, j)
  <2>1. i \in 1..Len(p) /\ j \in 1..Len(p) /\ i \in 0..n /\ j \in 0..n
    BY <1>1
  <2>. QED
    BY <1>2, <1>4, <2>1 DEF Alignment
<1>5. ASSUME NEW j \in 2..Len(q), q[j].at \in Pushing
      PROVE  t[2 * LevelIn(q, j)] = StateIn(q, t, j - 1)
  <2>1. /\ j \in 2..Len(p) /\ j - 1 \in 0..n /\ j \in 0..n /\ j \in 1..n /\ j \in 1..Len(p)
        /\ p[j].at \in Pushing /\ n \in 1..Len(p) /\ j <= n /\ j - 1 \in 0..Len(p)
    BY <1>1, <1>5
  <2>2. /\ LevelIn(p, j) \in Nat /\ LevelIn(p, j - 1) \in Nat
        /\ LevelIn(p, j) = LevelIn(p, j - 1) + 1 /\ LevelIn(p, j) <= LevelIn(p, n)
    <3>1. j \in 0..Len(p)
      BY <1>1, <2>1
    <3>. QED
      BY <2>1, <3>1, LevelFacts
  <2>3. 2 * LevelIn(p, j) \in 1..Len(t)
    BY <1>1, <2>2
  <2>4. s[2 * LevelIn(p, j)] = StateIn(p, s, j - 1)
    BY <2>1 DEF Alignment
  <2>. QED
    BY <1>2, <2>1, <2>3, <2>4
<1>6. ASSUME NEW j \in 1..Len(q), q[j].at \in Parallel PROVE StateIn(q, t, j) = 1
  <2>1. j \in 0..n /\ j \in 1..Len(p) /\ p[j].at \in Parallel
    BY <1>1, <1>6
  <2>2. StateIn(p, s, j) = 1
    BY <2>1 DEF Alignment
  <2>. QED
    BY <1>2, <2>1, <2>2
<1>7. Alignment(q, t)
  BY <1>3, <1>4, <1>5, <1>6 DEF Alignment
<1>8. \A j \in 1..n : StateIn(q, t, j) = StateIn(p, s, j)
  BY <1>1, <1>2
<1>. QED
  BY <1>7, <1>8

\* The end of a site or of an iteration leaves the states alone.
LEMMA LeaveSite ==
    ASSUME NEW p, NEW s, Alignment(p, s), Len(p) > 1, Last(p).at \notin Pushing
    PROVE  /\ Alignment(Front(p), s) /\ Len(Front(p)) = Len(p) - 1
           /\ \A j \in 1..(Len(p) - 1) :
                 Front(p)[j] = p[j] /\ StateIn(Front(p), s, j) = StateIn(p, s, j)
<1>0. PICK n, q : n = Len(p) - 1 /\ q = Front(p)
  OBVIOUS
<1>1. /\ Len(p) \in Nat \ {0} /\ n \in Nat \ {0} /\ p \in Seq(Entry) /\ s \in Seq({0, 1})
      /\ Last(p) = p[n + 1] /\ n + 1 = Len(p)
      /\ LevelIn(p, n) = LevelIn(p, n + 1) /\ LevelIn(p, n) \in Nat
  <2>1. Len(p) \in Nat \ {0} /\ Last(p) = p[Len(p)]
    BY LevelFacts
  <2>2. n \in 0..Len(p) /\ Len(p) \in 1..Len(p) /\ n = Len(p) - 1 /\ Len(p) = n + 1
    BY <1>0, <2>1
  <2>3. LevelIn(p, n) \in Nat /\ LevelIn(p, Len(p)) = LevelIn(p, Len(p) - 1) + 0
    BY <2>1, <2>2, LevelFacts
  <2>. QED
    BY <1>0, <2>1, <2>2, <2>3 DEF Alignment
<1>2. /\ q \in Seq(Entry) /\ Len(q) = n /\ \A i \in 1..n : q[i] = p[i]
  BY <1>0, <1>1, StackPop
<1>3. \A j \in 0..n : LevelIn(q, j) = LevelIn(p, j) /\ StateIn(q, s, j) = StateIn(p, s, j)
  <2>1. Agree(s, s, 1 + 2 * LevelIn(p, n))
    BY DEF Agree
  <2>2. n \in Nat /\ Agree(q, p, n)
    BY <1>1, <1>2 DEF Agree
  <2>. QED
    BY <2>1, <2>2, SameBelow
<1>4. Len(s) = 1 + 2 * LevelIn(q, n)
  <2>1. Len(s) = 1 + 2 * LevelIn(p, n)
    BY <1>1 DEF Alignment
  <2>. QED
    BY <1>1, <1>3, <2>1
<1>5. Alignment(q, s)
  BY <1>1, <1>2, <1>3, <1>4, PrefixAligned
<1>6. \A j \in 1..n : q[j] = p[j] /\ StateIn(q, s, j) = StateIn(p, s, j)
  BY <1>1, <1>2, <1>3
<1>. QED
  BY <1>0, <1>2, <1>5, <1>6

\* pop_parallel_execution: the code below goes on in its own state.
LEMMA LeavePushing ==
    ASSUME NEW p, NEW s, Alignment(p, s), Len(p) > 1, Last(p).at \in Pushing
    PROVE  /\ Alignment(Front(p), Front(Front(s))) /\ Len(Front(p)) = Len(p) - 1
           /\ \A j \in 1..(Len(p) - 1) :
                 Front(p)[j] = p[j] /\ StateIn(Front(p), Front(Front(s)), j) = StateIn(p, s, j)
<1>0. PICK n, q, t : n = Len(p) - 1 /\ q = Front(p) /\ t = Front(Front(s))
  OBVIOUS
<1>1. /\ Len(p) \in Nat \ {0} /\ n \in Nat \ {0} /\ p \in Seq(Entry) /\ s \in Seq({0, 1})
      /\ Last(p) = p[n + 1] /\ n + 1 = Len(p) /\ n \in 1..Len(p)
      /\ LevelIn(p, n + 1) = LevelIn(p, n) + 1 /\ LevelIn(p, n) \in Nat
  <2>1. Len(p) \in Nat \ {0} /\ Last(p) = p[Len(p)]
    BY LevelFacts
  <2>2. n \in 0..Len(p) /\ Len(p) \in 1..Len(p) /\ n = Len(p) - 1 /\ Len(p) = n + 1
    BY <1>0, <2>1
  <2>3. LevelIn(p, n) \in Nat /\ LevelIn(p, Len(p)) = LevelIn(p, Len(p) - 1) + 1
    BY <2>1, <2>2, LevelFacts
  <2>4. p \in Seq(Entry) /\ s \in Seq({0, 1})
    BY DEF Alignment
  <2>5. n \in Nat \ {0} /\ n + 1 = Len(p) /\ n \in 1..Len(p)
    BY <1>0, <2>1
  <2>6. Last(p) = p[n + 1] /\ LevelIn(p, n + 1) = LevelIn(p, n) + 1
    BY <2>1, <2>2, <2>3
  <2>. QED
    BY <2>1, <2>3, <2>4, <2>5, <2>6
<1>2. q \in Seq(Entry) /\ Len(q) = n /\ \A i \in 1..n : q[i] = p[i]
  BY <1>0, <1>1, StackPop
<1>3. Len(s) = 1 + 2 * (LevelIn(p, n) + 1)
  BY <1>1 DEF Alignment
<1>4. /\ t \in Seq({0, 1}) /\ Len(t) = 1 + 2 * LevelIn(p, n)
      /\ \A i \in 1..Len(t) : t[i] = s[i]
  <2>1. Len(s) > 2 /\ Len(s) - 2 = 1 + 2 * LevelIn(p, n)
    BY <1>1, <1>3
  <2>. QED
    BY <1>0, <1>1, <2>1, StackPopTwo
<1>5. Alignment(q, t) /\ \A j \in 1..n : StateIn(q, t, j) = StateIn(p, s, j)
  <2>1. n \in 1..Len(p) /\ q \in Seq(Entry) /\ Len(q) = n
    BY <1>1, <1>2
  <2>. QED
    BY <1>2, <1>4, <2>1, PrefixAligned
<1>. QED
  BY <1>0, <1>2, <1>5

\* t is s but for the state x at its top.
Topped(p, s, x, t) ==
    /\ t \in Seq({0, 1}) /\ Len(t) = Len(s) /\ Last(t) = x
    /\ \A j \in 1..Len(p) :
          /\ LevelIn(p, j) = LevelIn(p, Len(p)) => StateIn(p, t, j) = x
          /\ LevelIn(p, j) # LevelIn(p, Len(p)) => StateIn(p, t, j) = StateIn(p, s, j)
    /\ \A i \in 1..Len(s) : i # Len(s) => t[i] = s[i]

\* The top of the states is the state at every place of the top level.
LEMMA TopState ==
    ASSUME NEW p, NEW s, Alignment(p, s), NEW x \in {0, 1}
    PROVE  Topped(p, s, x, [s EXCEPT ![Len(s)] = x])
<1>t. PICK t : t = [s EXCEPT ![Len(s)] = x]
  OBVIOUS
<1>0. PICK n : n = Len(s)
  OBVIOUS
<1>1. s \in Seq({0, 1}) /\ n \in Nat \ {0} /\ n = 1 + 2 * LevelIn(p, Len(p))
  BY <1>0, LevelFacts DEF Alignment
<1>2. /\ t \in Seq({0, 1}) /\ Len(t) = n
      /\ \A i \in 1..n : t[i] = IF i = n THEN x ELSE s[i]
  <2>1. n \in 1..Len(s)
    BY <1>0, <1>1
  <2>2. /\ [s EXCEPT ![n] = x] \in Seq({0, 1}) /\ Len([s EXCEPT ![n] = x]) = Len(s)
        /\ \A i \in 1..Len(s) : [s EXCEPT ![n] = x][i] = IF i = n THEN x ELSE s[i]
    BY <1>1, <2>1, ExceptSeq
  <2>. QED
    BY <1>t, <1>0, <2>2
<1>3. t[n] = x /\ \A i \in 1..n : i # n => t[i] = s[i]
  <2>1. n \in 1..n
    BY <1>1
  <2>. QED
    BY <1>2, <2>1
<1>4. ASSUME NEW j \in 1..Len(p)
      PROVE  /\ LevelIn(p, j) = LevelIn(p, Len(p)) => StateIn(p, t, j) = x
             /\ LevelIn(p, j) # LevelIn(p, Len(p)) => StateIn(p, t, j) = StateIn(p, s, j)
  <2>1. Len(p) \in 1..Len(p) /\ Len(p) \in 0..Len(p) /\ j \in 0..Len(p) /\ j <= Len(p)
    BY LevelFacts
  <2>2. LevelIn(p, j) \in Nat /\ LevelIn(p, Len(p)) \in Nat /\ LevelIn(p, j) <= LevelIn(p, Len(p))
    BY <2>1, LevelFacts
  <2>3. CASE LevelIn(p, j) = LevelIn(p, Len(p))
    BY <1>1, <1>3, <2>3 DEF StateIn
  <2>4. CASE LevelIn(p, j) # LevelIn(p, Len(p))
    <3>1. 1 + 2 * LevelIn(p, j) \in 1..n /\ 1 + 2 * LevelIn(p, j) # n
      BY <1>1, <2>2, <2>4
    <3>. QED
      BY <1>3, <2>4, <3>1 DEF StateIn
  <2>. QED
    BY <2>3, <2>4
<1>. QED
  BY <1>t, <1>0, <1>2, <1>3, <1>4 DEF Last, Topped

\* A detach notes that the code at the top is parallel from now on.
LEMMA Raise ==
    ASSUME NEW p, NEW s, Alignment(p, s)
    PROVE  LET t == [s EXCEPT ![Len(s)] = 1] IN
           /\ Alignment(p, t) /\ Last(t) = 1
           /\ \A j \in 1..Len(p) : StateIn(p, t, j) = 0 => StateIn(p, s, j) = 0
<1>0. PICK n, L : n = Len(p) /\ L = LevelIn(p, Len(p))
  OBVIOUS
<1>t. PICK t : t = [s EXCEPT ![Len(s)] = 1]
  OBVIOUS
<1>1. /\ t \in Seq({0, 1}) /\ Len(t) = Len(s) /\ Last(t) = 1
      /\ \A j \in 1..n : /\ LevelIn(p, j) = L => StateIn(p, t, j) = 1
                         /\ LevelIn(p, j) # L => StateIn(p, t, j) = StateIn(p, s, j)
      /\ \A i \in 1..Len(s) : i # Len(s) => t[i] = s[i]
  <2>1. /\ t \in Seq({0, 1}) /\ Len(t) = Len(s) /\ Last(t) = 1
        /\ \A j \in 1..Len(p) :
              /\ LevelIn(p, j) = LevelIn(p, Len(p)) => StateIn(p, t, j) = 1
              /\ LevelIn(p, j) # LevelIn(p, Len(p)) => StateIn(p, t, j) = StateIn(p, s, j)
        /\ \A i \in 1..Len(s) : i # Len(s) => t[i] = s[i]
    <3>1. Topped(p, s, 1, t)
      BY <1>t, TopState
    <3>. QED
      BY <3>1 DEF Topped
  <2>. QED
    BY <1>0, <2>1
<1>2. /\ n \in Nat \ {0} /\ L \in Nat /\ Len(s) = 1 + 2 * L
      /\ \A j \in 0..n : LevelIn(p, j) \in Nat
      /\ \A j \in 1..n : StateIn(p, s, j) \in {0, 1} /\ LevelIn(p, j) <= L
      /\ \A i, j \in 1..n : i <= j => LevelIn(p, i) <= LevelIn(p, j)
      /\ \A j \in 1..n : p[j].at \in Pushing => LevelIn(p, j) = LevelIn(p, j - 1) + 1
  <2>1. /\ n \in Nat \ {0}
        /\ \A j \in 0..n : LevelIn(p, j) \in Nat
        /\ \A j \in 1..n : StateIn(p, s, j) \in {0, 1}
        /\ \A i, j \in 1..n : i <= j => LevelIn(p, i) <= LevelIn(p, j)
        /\ \A j \in 1..n : p[j].at \in Pushing => LevelIn(p, j) = LevelIn(p, j - 1) + 1
    BY <1>0, LevelFacts
  <2>2. n \in 1..n /\ n \in 0..n /\ \A j \in 1..n : j <= n
    BY <2>1
  <2>. QED
    BY <1>0, <2>1, <2>2 DEF Alignment
<1>3. ASSUME NEW i \in 1..n, NEW j \in 1..n, i <= j
      PROVE  StateIn(p, t, i) <= StateIn(p, t, j)
  <2>1. /\ LevelIn(p, i) \in Nat /\ LevelIn(p, j) \in Nat /\ LevelIn(p, i) <= LevelIn(p, j)
        /\ LevelIn(p, j) <= L
    BY <1>2, <1>3
  <2>2. StateIn(p, s, i) <= StateIn(p, s, j) /\ StateIn(p, s, i) \in {0, 1}
    BY <1>0, <1>2, <1>3 DEF Alignment
  <2>3. CASE LevelIn(p, j) = L
    BY <1>1, <2>2, <2>3
  <2>4. CASE LevelIn(p, j) # L
    <3>1. LevelIn(p, i) # L
      BY <1>2, <2>1, <2>4
    <3>. QED
      BY <1>1, <2>2, <2>4, <3>1
  <2>. QED
    BY <2>3, <2>4
<1>4. ASSUME NEW j \in 2..n, p[j].at \in Pushing
      PROVE  t[2 * LevelIn(p, j)] = StateIn(p, t, j - 1)
  <2>1. j \in 1..n /\ j - 1 \in 1..n /\ j - 1 \in 0..n
    BY <1>2
  <2>2. /\ LevelIn(p, j - 1) \in Nat /\ LevelIn(p, j) = LevelIn(p, j - 1) + 1
        /\ LevelIn(p, j) <= L
    BY <1>2, <1>4, <2>1
  <2>3. /\ 2 * LevelIn(p, j) \in 1..Len(s) /\ 2 * LevelIn(p, j) # Len(s)
        /\ LevelIn(p, j - 1) # L
    BY <1>2, <2>2
  <2>4. s[2 * LevelIn(p, j)] = StateIn(p, s, j - 1)
    BY <1>0, <1>4 DEF Alignment
  <2>. QED
    BY <1>1, <2>1, <2>3, <2>4
<1>5. ASSUME NEW j \in 1..n PROVE StateIn(p, t, j) = StateIn(p, s, j) \/ StateIn(p, t, j) = 1
  BY <1>1
<1>6. ASSUME NEW j \in 1..n, p[j].at \in Parallel PROVE StateIn(p, t, j) = 1
  <2>1. StateIn(p, s, j) = 1
    BY <1>0, <1>6 DEF Alignment
  <2>. QED
    BY <1>5, <2>1
<1>7. Alignment(p, t)
  <2>1. /\ p \in Seq(Entry) /\ Len(p) # 0 /\ p[1].at = "call"
        /\ Len(t) = 1 + 2 * LevelIn(p, Len(p))
    BY <1>1 DEF Alignment
  <2>. QED
    BY <1>0, <1>1, <1>3, <1>4, <1>6, <2>1 DEF Alignment
<1>8. \A j \in 1..n : StateIn(p, t, j) = 0 => StateIn(p, s, j) = 0
  BY <1>5
<1>. QED
  BY <1>0, <1>t, <1>1, <1>7, <1>8

\* A sync gives the top function or task, at place m, the state of the code
\* that called or spawned it.
LEMMA Restore ==
    ASSUME NEW p, NEW s, Alignment(p, s), NEW m \in 2..Len(p), p[m].at \in Pushing,
           \/ m = Len(p)
           \/ m = Len(p) - 1 /\ p[Len(p)].at \notin Pushing \cup Parallel,
           p[m].at \in Parallel => p[m - 1].at \in Parallel
    PROVE  LET t == [s EXCEPT ![Len(s)] = s[Len(s) - 1]] IN
           /\ Alignment(p, t)
           /\ \A j \in 1..Len(p) :
                 StateIn(p, t, j) = IF j < m THEN StateIn(p, s, j) ELSE StateIn(p, s, m - 1)
<1>0. PICK n, L : n = Len(p) /\ L = LevelIn(p, Len(p))
  OBVIOUS
<1>x. PICK x : x = s[Len(s) - 1]
  OBVIOUS
<1>t. PICK t : t = [s EXCEPT ![Len(s)] = x]
  OBVIOUS
<1>m. m \in 2..n /\ (m = n \/ (m = n - 1 /\ p[n].at \notin Pushing \cup Parallel))
  BY <1>0
<1>1. /\ n \in Nat \ {0} /\ L \in Nat /\ Len(s) = 1 + 2 * L
      /\ \A j \in 0..n : LevelIn(p, j) \in Nat
      /\ \A j \in 1..n : StateIn(p, s, j) \in {0, 1} /\ LevelIn(p, j) <= L
      /\ \A i, j \in 1..n : /\ i <= j => LevelIn(p, i) <= LevelIn(p, j)
                            /\ i < j /\ p[j].at \in Pushing => LevelIn(p, i) < LevelIn(p, j)
      /\ \A j \in 1..n : LevelIn(p, j) = LevelIn(p, j - 1)
                                          + (IF p[j].at \in Pushing THEN 1 ELSE 0)
  <2>1. /\ n \in Nat \ {0}
        /\ \A j \in 0..n : LevelIn(p, j) \in Nat
        /\ \A j \in 1..n : StateIn(p, s, j) \in {0, 1}
        /\ \A i, j \in 1..n : /\ i <= j => LevelIn(p, i) <= LevelIn(p, j)
                              /\ i < j /\ p[j].at \in Pushing => LevelIn(p, i) < LevelIn(p, j)
        /\ \A j \in 1..n : LevelIn(p, j) = LevelIn(p, j - 1)
                                            + (IF p[j].at \in Pushing THEN 1 ELSE 0)
    BY <1>0, LevelFacts
  <2>2. n \in 1..n /\ n \in 0..n /\ \A j \in 1..n : j <= n
    BY <2>1
  <2>. QED
    BY <1>0, <2>1, <2>2 DEF Alignment
<1>2. m \in 1..n /\ m - 1 \in 1..n /\ m - 1 \in 0..n /\ n \in 1..n
  BY <1>1, <1>m
<1>3. LevelIn(p, m) = L
  <2>1. CASE m = n
    BY <1>0, <2>1
  <2>2. CASE m = n - 1 /\ p[n].at \notin Pushing
    <3>1. n \in 1..n /\ n - 1 \in 0..n /\ p[n].at \notin Pushing
      BY <1>2, <2>2
    <3>2. LevelIn(p, n) = LevelIn(p, n - 1) + (IF p[n].at \in Pushing THEN 1 ELSE 0)
      BY <1>1, <3>1
    <3>3. LevelIn(p, n - 1) \in Nat
      BY <1>1, <3>1
    <3>4. LevelIn(p, n) = LevelIn(p, n - 1)
      BY <3>1, <3>2, <3>3
    <3>. QED
      BY <1>0, <2>2, <3>4
  <2>. QED
    BY <1>m, <2>1, <2>2
<1>4. x = StateIn(p, s, m - 1) /\ x \in {0, 1}
  <2>1. Len(s) - 1 = 2 * LevelIn(p, m)
    BY <1>1, <1>3
  <2>2. s[2 * LevelIn(p, m)] = StateIn(p, s, m - 1)
    BY DEF Alignment
  <2>. QED
    BY <1>1, <1>2, <1>x, <2>1, <2>2
<1>5. /\ t \in Seq({0, 1}) /\ Len(t) = Len(s)
      /\ \A j \in 1..n : /\ LevelIn(p, j) = L => StateIn(p, t, j) = x
                         /\ LevelIn(p, j) # L => StateIn(p, t, j) = StateIn(p, s, j)
      /\ \A i \in 1..Len(s) : i # Len(s) => t[i] = s[i]
  <2>1. /\ t \in Seq({0, 1}) /\ Len(t) = Len(s)
        /\ \A j \in 1..Len(p) :
              /\ LevelIn(p, j) = LevelIn(p, Len(p)) => StateIn(p, t, j) = x
              /\ LevelIn(p, j) # LevelIn(p, Len(p)) => StateIn(p, t, j) = StateIn(p, s, j)
        /\ \A i \in 1..Len(s) : i # Len(s) => t[i] = s[i]
    <3>1. Topped(p, s, x, t)
      BY <1>t, <1>4, TopState
    <3>. QED
      BY <3>1 DEF Topped
  <2>. QED
    BY <1>0, <2>1
<1>6. ASSUME NEW j \in 1..n
      PROVE  StateIn(p, t, j) = IF j < m THEN StateIn(p, s, j) ELSE x
  <2>1. CASE j < m
    <3>1. LevelIn(p, j) < LevelIn(p, m) /\ j \in 0..n
      BY <1>1, <1>2, <2>1
    <3>. QED
      BY <1>1, <1>3, <1>5, <2>1, <3>1
  <2>2. CASE m <= j
    <3>1. LevelIn(p, m) <= LevelIn(p, j) /\ LevelIn(p, j) <= L /\ j \in 0..n
      BY <1>1, <1>2, <2>2
    <3>2. LevelIn(p, j) = L
      BY <1>1, <1>3, <3>1
    <3>. QED
      BY <1>5, <2>2, <3>2
  <2>. QED
    BY <1>2, <2>1, <2>2
<1>7. ASSUME NEW i \in 1..n, NEW j \in 1..n, i <= j
      PROVE  StateIn(p, t, i) <= StateIn(p, t, j)
  <2>1. CASE j < m
    <3>1. StateIn(p, s, i) <= StateIn(p, s, j) /\ i < m
      BY <1>0, <1>2, <1>7, <2>1 DEF Alignment
    <3>. QED
      BY <1>6, <2>1, <3>1
  <2>2. CASE i < m /\ ~(j < m)
    <3>1. i <= m - 1
      BY <1>2, <2>2
    <3>2. StateIn(p, s, i) <= StateIn(p, s, m - 1)
      BY <1>0, <1>2, <3>1 DEF Alignment
    <3>. QED
      BY <1>4, <1>6, <2>2, <3>2
  <2>3. CASE ~(i < m) /\ ~(j < m)
    BY <1>4, <1>6, <2>3
  <2>. QED
    BY <1>2, <1>7, <2>1, <2>2, <2>3
<1>8. ASSUME NEW j \in 2..n, p[j].at \in Pushing
      PROVE  t[2 * LevelIn(p, j)] = StateIn(p, t, j - 1)
  <2>1. j \in 1..n /\ j - 1 \in 1..n /\ j - 1 \in 0..n /\ j <= m /\ j - 1 < m
    <3>1. j = n => m = n
      BY <1>m, <1>8
    <3>. QED
      BY <1>m, <1>1, <3>1
  <2>2. /\ LevelIn(p, j - 1) \in Nat /\ LevelIn(p, j) = LevelIn(p, j - 1) + 1
        /\ LevelIn(p, j) <= L
    BY <1>1, <1>8, <2>1
  <2>3. 2 * LevelIn(p, j) \in 1..Len(s) /\ 2 * LevelIn(p, j) # Len(s)
    BY <1>1, <2>2
  <2>4. s[2 * LevelIn(p, j)] = StateIn(p, s, j - 1)
    BY <1>0, <1>8 DEF Alignment
  <2>. QED
    BY <1>5, <1>6, <2>1, <2>3, <2>4
<1>9. ASSUME NEW j \in 1..n, p[j].at \in Parallel PROVE StateIn(p, t, j) = 1
  <2>1. CASE j < m
    BY <1>0, <1>6, <1>9, <2>1 DEF Alignment
  <2>2. CASE ~(j < m)
    <3>1. j = m
      <4>1. j = n => m = n
        BY <1>m, <1>9
      <4>. QED
        BY <1>m, <1>1, <2>2, <4>1
    <3>2. StateIn(p, s, m - 1) = 1
      BY <1>0, <1>2, <1>9, <3>1 DEF Alignment
    <3>. QED
      BY <1>4, <1>6, <2>2, <3>2
  <2>. QED
    BY <2>1, <2>2
<1>10. Alignment(p, t)
  <2>1. /\ p \in Seq(Entry) /\ Len(p) # 0 /\ p[1].at = "call"
        /\ Len(t) = 1 + 2 * LevelIn(p, Len(p))
    BY <1>5 DEF Alignment
  <2>. QED
    BY <1>0, <1>5, <1>7, <1>8, <1>9, <2>1 DEF Alignment
<1>. QED
  BY <1>0, <1>x, <1>t, <1>4, <1>6, <1>10

-----------------------------------------------------------------------------
(***************************************************************************)
(* The call stack and spbags_frame_skipped.                                *)
(***************************************************************************)
\* What entering or leaving a place does to the counts.
LEMMA EnterCount ==
    ASSUME NEW p \in Seq(Entry), NEW e \in Entry, NEW ats
    PROVE  /\ Append(p, e) \in Seq(Entry) /\ Len(Append(p, e)) = Len(p) + 1
           /\ Len(p) \in Nat /\ Append(p, e)[Len(p) + 1] = e
           /\ \A j \in 1..Len(p) : Append(p, e)[j] = p[j]
           /\ \A j \in 0..Len(p) : /\ CountTo(Append(p, e), j, ats) = CountTo(p, j, ats)
                                   /\ CountTo(p, j, ats) \in Nat
           /\ CountTo(Append(p, e), Len(p) + 1, ats)
                 = CountTo(p, Len(p), ats) + (IF e.at \in ats THEN 1 ELSE 0)
<1>0. PICK n, q : n = Len(p) /\ q = Append(p, e)
  OBVIOUS
<1>1. /\ q \in Seq(Entry) /\ Len(q) = n + 1 /\ n \in Nat /\ q[n + 1] = e
      /\ \A i \in 1..n : q[i] = p[i]
  BY <1>0, StackPush
<1>2. ASSUME NEW j \in 0..n
      PROVE  CountTo(q, j, ats) = CountTo(p, j, ats) /\ CountTo(p, j, ats) \in Nat
  <2>1. j \in Nat /\ \A i \in 1..j : q[i] = p[i]
    BY <1>1
  <2>2. CountTo(q, j, ats) = CountTo(p, j, ats)
    BY <2>1, CountPrefix
  <2>3. CountTo(p, j, ats) \in Nat
    BY <2>1, CountStep
  <2>. QED
    BY <2>2, <2>3
<1>3. CountTo(q, n + 1, ats) = CountTo(p, n, ats) + (IF e.at \in ats THEN 1 ELSE 0)
  <2>0. n \in Nat
    BY <1>1
  <2>1. CountTo(q, n + 1, ats) = CountTo(q, n, ats) + (IF q[n + 1].at \in ats THEN 1 ELSE 0)
    BY <2>0, CountStep
  <2>2. n \in 0..n
    BY <1>1
  <2>. QED
    BY <1>1, <1>2, <2>1, <2>2
<1>. QED
  BY <1>0, <1>1, <1>2, <1>3

\* Leaving takes the top entry out of the count.
LEMMA LeaveCount ==
    ASSUME NEW p \in Seq(Entry), Len(p) # 0, NEW ats
    PROVE  /\ Front(p) \in Seq(Entry) /\ Len(Front(p)) = Len(p) - 1
           /\ Len(p) \in Nat \ {0} /\ Last(p) = p[Len(p)] /\ Last(p) \in Entry
           /\ \A j \in 1..(Len(p) - 1) : Front(p)[j] = p[j]
           /\ \A j \in 0..(Len(p) - 1) : /\ CountTo(Front(p), j, ats) = CountTo(p, j, ats)
                                         /\ CountTo(p, j, ats) \in Nat
           /\ CountTo(p, Len(p), ats)
                 = CountTo(p, Len(p) - 1, ats) + (IF Last(p).at \in ats THEN 1 ELSE 0)
<1>0. PICK n, q : n = Len(p) - 1 /\ q = Front(p)
  OBVIOUS
<1>1. /\ q \in Seq(Entry) /\ Len(q) = n /\ Len(p) = n + 1 /\ n \in Nat
      /\ Last(p) = p[n + 1] /\ Last(p) \in Entry
      /\ \A i \in 1..n : q[i] = p[i]
  <2>1. /\ Front(p) \in Seq(Entry) /\ Len(Front(p)) = Len(p) - 1 /\ Len(p) \in Nat \ {0}
        /\ Last(p) = p[Len(p)] /\ Last(p) \in Entry
        /\ \A i \in 1..(Len(p) - 1) : Front(p)[i] = p[i]
    BY StackPop
  <2>2. Len(p) = n + 1 /\ n \in Nat
    BY <1>0, <2>1
  <2>. QED
    BY <1>0, <2>1, <2>2
<1>2. ASSUME NEW j \in 0..n
      PROVE  CountTo(q, j, ats) = CountTo(p, j, ats) /\ CountTo(p, j, ats) \in Nat
  <2>1. j \in Nat /\ \A i \in 1..j : q[i] = p[i]
    BY <1>1
  <2>2. CountTo(q, j, ats) = CountTo(p, j, ats)
    BY <2>1, CountPrefix
  <2>3. CountTo(p, j, ats) \in Nat
    BY <2>1, CountStep
  <2>. QED
    BY <2>2, <2>3
<1>3. CountTo(p, n + 1, ats) = CountTo(p, n, ats) + (IF Last(p).at \in ats THEN 1 ELSE 0)
  <2>1. n \in Nat
    BY <1>1
  <2>2. CountTo(p, n + 1, ats) = CountTo(p, n, ats) + (IF p[n + 1].at \in ats THEN 1 ELSE 0)
    BY <2>1, CountStep
  <2>. QED
    BY <1>1, <2>2
<1>. QED
  BY <1>0, <1>1, <1>2, <1>3

\* The call stack c says what sites program p is in.
Calls(p, c) ==
    /\ p \in Seq(Entry) /\ Len(p) # 0 /\ p[1].at = "call"
    /\ c \in Seq({"CALL", "SPAWN", "LOOP"})
    /\ Len(c) = CountTo(p, Len(p), Sites) - 1
    /\ \A j \in 2..Len(p) :
          p[j].at \in Sites => c[CountTo(p, j, Sites) - 1] = Record[p[j].at]

\* Places of the call stack.
LEMMA CallPlaces ==
    ASSUME NEW p, NEW c, Calls(p, c)
    PROVE  /\ Len(p) \in Nat \ {0} /\ Len(c) \in Nat
           /\ CountTo(p, Len(p), Sites) \in Nat
           /\ \A j \in 2..Len(p) : p[j].at \in Sites =>
                 CountTo(p, j, Sites) \in Nat /\ CountTo(p, j, Sites) - 1 \in 1..Len(c)
<1>1. p \in Seq(Entry) /\ Len(p) \in Nat \ {0} /\ Len(c) \in Nat /\ p[1].at = "call"
  BY LenProperties DEF Calls
<1>2. CountTo(p, 1, Sites) = 1
  <2>1. /\ CountTo(p, 0 + 1, Sites)
              = CountTo(p, 0, Sites) + (IF p[0 + 1].at \in Sites THEN 1 ELSE 0)
        /\ CountTo(p, 0, Sites) = 0
    BY CountStep
  <2>2. 0 + 1 = 1 /\ "call" \in Sites
    BY DEF Sites
  <2>. QED
    BY <1>1, <2>1, <2>2
<1>3. ASSUME NEW j \in 2..Len(p), p[j].at \in Sites
      PROVE  CountTo(p, j, Sites) \in Nat /\ CountTo(p, j, Sites) - 1 \in 1..Len(c)
  <2>1. j \in Nat /\ Len(p) \in Nat /\ 1 \in Nat /\ 1 < j /\ 1 <= j /\ j <= Len(p)
    BY <1>1
  <2>2. CountTo(p, 1, Sites) < CountTo(p, j, Sites)
    BY <1>3, <2>1, CountGrows
  <2>3. CountTo(p, j, Sites) <= CountTo(p, Len(p), Sites)
    BY <2>1, CountGrows
  <2>4. CountTo(p, j, Sites) \in Nat /\ CountTo(p, Len(p), Sites) \in Nat
    BY <2>1, CountStep
  <2>. QED
    BY <1>2, <2>2, <2>3, <2>4 DEF Calls
<1>. QED
  BY <1>1, <1>3, CountStep

\* A place that is no site is not on the call stack.
LEMMA CallsEnter ==
    ASSUME NEW p, NEW c, Calls(p, c), NEW e \in Entry, e.at \notin Sites
    PROVE  Calls(Append(p, e), c)
<1>0. PICK n, q : n = Len(p) /\ q = Append(p, e)
  OBVIOUS
<1>1. p \in Seq(Entry)
  BY DEF Calls
<1>2. /\ q \in Seq(Entry) /\ Len(q) = n + 1 /\ n \in Nat \ {0} /\ q[n + 1] = e
      /\ \A j \in 1..n : q[j] = p[j]
      /\ \A j \in 0..n : CountTo(q, j, Sites) = CountTo(p, j, Sites)
      /\ CountTo(p, n, Sites) \in Nat
      /\ CountTo(q, n + 1, Sites) = CountTo(p, n, Sites) + 0
  BY <1>0, <1>1, EnterCount, CallPlaces
<1>3. /\ q[1].at = "call" /\ Len(q) # 0 /\ c \in Seq({"CALL", "SPAWN", "LOOP"})
      /\ Len(c) = CountTo(q, Len(q), Sites) - 1
  <2>1. 1 \in 1..n
    BY <1>2
  <2>. QED
    BY <1>0, <1>2, <2>1 DEF Calls
<1>4. ASSUME NEW j \in 2..Len(q), q[j].at \in Sites
      PROVE  c[CountTo(q, j, Sites) - 1] = Record[q[j].at]
  <2>1. j # n + 1
    BY <1>2, <1>4
  <2>2. j \in 2..n /\ j \in 1..n /\ j \in 0..n
    BY <1>2, <2>1
  <2>. QED
    BY <1>0, <1>2, <1>4, <2>2 DEF Calls
<1>. QED
  BY <1>0, <1>2, <1>3, <1>4 DEF Calls

\* record_call at a site.
LEMMA CallsEnterSite ==
    ASSUME NEW p, NEW c, Calls(p, c), NEW e \in Entry, e.at \in Sites
    PROVE  Calls(Append(p, e), Append(c, Record[e.at]))
<1>0. PICK n, q, m, x : n = Len(p) /\ q = Append(p, e) /\ m = Len(c) /\ x = Record[e.at]
  OBVIOUS
<1>d. PICK d : d = Append(c, x)
  OBVIOUS
<1>1. p \in Seq(Entry) /\ c \in Seq({"CALL", "SPAWN", "LOOP"}) /\ x \in {"CALL", "SPAWN", "LOOP"}
  BY <1>0 DEF Calls, Sites, Record
<1>2. /\ q \in Seq(Entry) /\ Len(q) = n + 1 /\ n \in Nat \ {0} /\ q[n + 1] = e
      /\ \A j \in 1..n : q[j] = p[j]
      /\ \A j \in 0..n : CountTo(q, j, Sites) = CountTo(p, j, Sites)
      /\ CountTo(p, n, Sites) \in Nat /\ m = CountTo(p, n, Sites) - 1 /\ m \in Nat
      /\ CountTo(q, n + 1, Sites) = CountTo(p, n, Sites) + 1
      /\ \A j \in 2..n : p[j].at \in Sites => CountTo(p, j, Sites) - 1 \in 1..m
  <2>1. /\ n \in Nat \ {0} /\ CountTo(p, n, Sites) \in Nat /\ m \in Nat
        /\ \A j \in 2..n : p[j].at \in Sites => CountTo(p, j, Sites) - 1 \in 1..m
    BY <1>0, CallPlaces
  <2>2. m = CountTo(p, n, Sites) - 1
    BY <1>0 DEF Calls
  <2>3. /\ q \in Seq(Entry) /\ Len(q) = n + 1 /\ q[n + 1] = e
        /\ \A j \in 1..n : q[j] = p[j]
        /\ \A j \in 0..n : CountTo(q, j, Sites) = CountTo(p, j, Sites)
        /\ CountTo(q, n + 1, Sites) = CountTo(p, n, Sites) + 1
    BY <1>0, <1>1, EnterCount
  <2>. QED
    BY <2>1, <2>2, <2>3
<1>3. /\ d \in Seq({"CALL", "SPAWN", "LOOP"}) /\ Len(d) = m + 1 /\ d[m + 1] = x
      /\ \A i \in 1..m : d[i] = c[i]
  BY <1>0, <1>d, <1>1, StackPush
<1>4. /\ q[1].at = "call" /\ Len(q) # 0
      /\ Len(d) = CountTo(q, Len(q), Sites) - 1
  <2>1. 1 \in 1..n
    BY <1>2
  <2>. QED
    BY <1>0, <1>2, <1>3, <2>1 DEF Calls
<1>5. ASSUME NEW j \in 2..Len(q), q[j].at \in Sites
      PROVE  d[CountTo(q, j, Sites) - 1] = Record[q[j].at]
  <2>1. CASE j = n + 1
    <3>1. CountTo(q, j, Sites) - 1 = m + 1
      BY <1>2, <2>1
    <3>. QED
      BY <1>0, <1>2, <1>3, <2>1, <3>1
  <2>2. CASE j # n + 1
    <3>1. j \in 2..n /\ j \in 1..n /\ j \in 0..n
      BY <1>2, <2>2
    <3>2. c[CountTo(p, j, Sites) - 1] = Record[p[j].at] /\ p[j].at \in Sites
      BY <1>0, <1>2, <1>5, <3>1 DEF Calls
    <3>. QED
      BY <1>2, <1>3, <3>1, <3>2
  <2>. QED
    BY <2>1, <2>2
<1>. QED
  BY <1>0, <1>d, <1>2, <1>3, <1>4, <1>5 DEF Calls

\* The end of a place that is no site leaves the call stack alone.
LEMMA CallsLeave ==
    ASSUME NEW p, NEW c, Calls(p, c), Len(p) > 1, Last(p).at \notin Sites
    PROVE  Calls(Front(p), c)
<1>0. PICK n, q : n = Len(p) - 1 /\ q = Front(p)
  OBVIOUS
<1>1. p \in Seq(Entry) /\ Len(p) # 0
  BY DEF Calls
<1>2. /\ q \in Seq(Entry) /\ Len(q) = n /\ n \in Nat \ {0} /\ Len(p) = n + 1
      /\ \A j \in 1..n : q[j] = p[j]
      /\ \A j \in 0..n : CountTo(q, j, Sites) = CountTo(p, j, Sites)
      /\ CountTo(p, n, Sites) \in Nat
      /\ CountTo(p, n + 1, Sites) = CountTo(p, n, Sites) + 0
  <2>1. n \in Nat \ {0} /\ Len(p) = n + 1
    BY <1>0, <1>1, LeaveCount
  <2>2. n \in 0..n
    BY <2>1
  <2>. QED
    BY <1>0, <1>1, <2>1, <2>2, LeaveCount
<1>3. /\ q[1].at = "call" /\ Len(q) # 0 /\ c \in Seq({"CALL", "SPAWN", "LOOP"})
      /\ Len(c) = CountTo(q, Len(q), Sites) - 1
  <2>1. 1 \in 1..n /\ n \in 0..n
    BY <1>2
  <2>. QED
    BY <1>2, <2>1 DEF Calls
<1>4. ASSUME NEW j \in 2..Len(q), q[j].at \in Sites
      PROVE  c[CountTo(q, j, Sites) - 1] = Record[q[j].at]
  <2>1. j \in 2..Len(p) /\ j \in 1..n /\ j \in 0..n
    BY <1>2
  <2>. QED
    BY <1>2, <1>4, <2>1 DEF Calls
<1>. QED
  BY <1>0, <1>2, <1>3, <1>4 DEF Calls

\* record_call_return at the end of a site.
LEMMA CallsLeaveSite ==
    ASSUME NEW p, NEW c, Calls(p, c), Len(p) > 1, Last(p).at \in Sites
    PROVE  Calls(Front(p), Front(c))
<1>0. PICK n, q, m : n = Len(p) - 1 /\ q = Front(p) /\ m = Len(c) - 1
  OBVIOUS
<1>d. PICK d : d = Front(c)
  OBVIOUS
<1>1. p \in Seq(Entry) /\ Len(p) # 0 /\ c \in Seq({"CALL", "SPAWN", "LOOP"})
  BY DEF Calls
<1>2. /\ q \in Seq(Entry) /\ Len(q) = n /\ n \in Nat \ {0} /\ Len(p) = n + 1
      /\ \A j \in 1..n : q[j] = p[j]
      /\ \A j \in 0..n : CountTo(q, j, Sites) = CountTo(p, j, Sites)
      /\ CountTo(p, n, Sites) \in Nat /\ Last(p) = p[n + 1]
      /\ CountTo(p, n + 1, Sites) = CountTo(p, n, Sites) + 1
  <2>1. n \in Nat \ {0} /\ Len(p) = n + 1
    BY <1>0, <1>1, LeaveCount
  <2>2. n \in 0..n
    BY <2>1
  <2>. QED
    BY <1>0, <1>1, <2>1, <2>2, LeaveCount
<1>3. Len(c) # 0 /\ m \in Nat /\ Len(c) = m + 1
  <2>1. n + 1 \in 2..Len(p) /\ p[n + 1].at \in Sites
    BY <1>2
  <2>2. CountTo(p, n + 1, Sites) - 1 \in 1..Len(c) /\ Len(c) \in Nat
    BY <2>1, CallPlaces
  <2>. QED
    BY <1>0, <2>2
<1>4. /\ d \in Seq({"CALL", "SPAWN", "LOOP"}) /\ Len(d) = m
      /\ \A i \in 1..m : d[i] = c[i]
  BY <1>0, <1>d, <1>1, <1>3, StackPop
<1>5. /\ q[1].at = "call" /\ Len(q) # 0
      /\ Len(d) = CountTo(q, Len(q), Sites) - 1
  <2>1. 1 \in 1..n /\ n \in 0..n
    BY <1>2
  <2>. QED
    BY <1>2, <1>3, <1>4, <2>1 DEF Calls
<1>6. ASSUME NEW j \in 2..Len(q), q[j].at \in Sites
      PROVE  d[CountTo(q, j, Sites) - 1] = Record[q[j].at]
  <2>1. /\ j \in 2..Len(p) /\ j \in 1..n /\ j \in 0..n /\ n \in 0..n
        /\ n \in Nat /\ j \in Nat /\ j <= n
    BY <1>2
  <2>2. p[j].at \in Sites
    BY <1>2, <1>6, <2>1
  <2>3. c[CountTo(p, j, Sites) - 1] = Record[p[j].at]
    BY <2>1, <2>2 DEF Calls
  <2>4. CountTo(p, j, Sites) - 1 \in 1..Len(c) /\ CountTo(p, j, Sites) \in Nat
    BY <2>1, <2>2, CallPlaces
  <2>5. CountTo(p, j, Sites) <= CountTo(p, n, Sites) /\ Len(c) = CountTo(p, n + 1, Sites) - 1
    BY <1>2, <2>1, CountGrows DEF Calls
  <2>6. CountTo(p, j, Sites) - 1 \in 1..m
    BY <1>2, <1>3, <2>4, <2>5
  <2>. QED
    BY <1>2, <1>4, <2>1, <2>3, <2>6
<1>. QED
  BY <1>0, <1>d, <1>2, <1>4, <1>5, <1>6 DEF Calls

-----------------------------------------------------------------------------
(***************************************************************************)
(* The program and the frames.                                             *)
(***************************************************************************)
\* Activations that have a frame of their own.
Spawners == {"cilk", "task", "iter"}

\* What may stand above what in a program.
Fits(at, below) ==
    /\ at \in Functions => below = "call"
    /\ at = "task" => below = "detach"
    /\ at = "idetach" => below = "loop"
    /\ at = "iter" => below = "idetach"
    /\ at = "call" => below \in Activations
    /\ at \in {"detach", "loop", "loopsync"} => below \in Spawners

\* A program whose activations, sites and loops are nested as the hooks are.
WellFormed(p) ==
    /\ p \in Seq(Entry) /\ Len(p) # 0 /\ p[1].at = "call"
    /\ \A j \in 2..Len(p) : Fits(p[j].at, p[j - 1].at)

\* Programs are entered and left at the top.
LEMMA WellEnter ==
    ASSUME NEW p, WellFormed(p), NEW e \in Entry, Fits(e.at, Last(p).at)
    PROVE  WellFormed(Append(p, e))
<1>0. PICK n, q : n = Len(p) /\ q = Append(p, e)
  OBVIOUS
<1>1. p \in Seq(Entry) /\ n # 0
  BY <1>0 DEF WellFormed
<1>2. /\ q \in Seq(Entry) /\ Len(q) = n + 1 /\ n \in Nat \ {0} /\ q[n + 1] = e
      /\ \A i \in 1..n : q[i] = p[i]
  BY <1>0, <1>1, StackPush
<1>3. Last(p) = p[n]
  BY <1>0 DEF Last
<1>4. q[1].at = "call" /\ Len(q) # 0
  <2>1. 1 \in 1..n
    BY <1>2
  <2>. QED
    BY <1>2, <2>1 DEF WellFormed
<1>5. ASSUME NEW j \in 2..Len(q) PROVE Fits(q[j].at, q[j - 1].at)
  <2>1. CASE j = n + 1
    <3>1. j - 1 = n /\ n \in 1..n
      BY <1>2, <2>1
    <3>. QED
      BY <1>2, <1>3, <2>1, <3>1
  <2>2. CASE j # n + 1
    <3>1. j \in 2..n /\ j \in 1..n /\ j - 1 \in 1..n
      BY <1>2, <2>2
    <3>. QED
      BY <1>0, <1>2, <3>1 DEF WellFormed
  <2>. QED
    BY <2>1, <2>2
<1>. QED
  BY <1>0, <1>2, <1>4, <1>5 DEF WellFormed

\* Leaving keeps a program well formed.
LEMMA WellLeave ==
    ASSUME NEW p, WellFormed(p), Len(p) > 1
    PROVE  /\ WellFormed(Front(p)) /\ Len(Front(p)) = Len(p) - 1
           /\ Len(p) - 1 \in 1..Len(p) /\ Agree(Front(p), p, Len(p) - 1)
<1>0. PICK n, q : n = Len(p) - 1 /\ q = Front(p)
  OBVIOUS
<1>1. p \in Seq(Entry) /\ Len(p) # 0
  BY DEF WellFormed
<1>2. /\ q \in Seq(Entry) /\ Len(q) = n /\ Len(p) \in Nat
      /\ \A i \in 1..n : q[i] = p[i]
  BY <1>0, <1>1, StackPop
<1>3. n \in Nat \ {0} /\ n \in 1..Len(p) /\ 1 \in 1..n
  BY <1>0, <1>2
<1>4. q[1].at = "call" /\ Len(q) # 0
  BY <1>2, <1>3 DEF WellFormed
<1>5. ASSUME NEW j \in 2..n PROVE Fits(q[j].at, q[j - 1].at)
  <2>1. j \in 2..Len(p) /\ j \in 1..n /\ j - 1 \in 1..n
    BY <1>3
  <2>. QED
    BY <1>2, <2>1 DEF WellFormed
<1>6. WellFormed(q) /\ Agree(q, p, n)
  BY <1>2, <1>4, <1>5 DEF WellFormed, Agree
<1>. QED
  BY <1>0, <1>2, <1>3, <1>6

\* The frame the code at place j of program p runs on.
FidIn(p, j) ==
    IF j = 1 THEN 0
    ELSE IF p[j].at \in Activations THEN p[j].fid
    ELSE IF p[j].at = "idetach" THEN p[j - 2].fid
    ELSE p[j - 1].fid

\* A site is in the frame of the code below it.
LEMMA FidBelow ==
    ASSUME NEW p, WellFormed(p), NEW j \in 2..Len(p), p[j].at \notin Activations
    PROVE  FidIn(p, j) = FidIn(p, j - 1)
<1>1. p \in Seq(Entry) /\ Len(p) \in Nat /\ p[1].at = "call"
  BY LenProperties DEF WellFormed
<1>2. j \in 1..Len(p) /\ j # 1 /\ p[j] \in Entry /\ Fits(p[j].at, p[j - 1].at)
  BY <1>1, ElementOfSeq DEF WellFormed
<1>3. CASE p[j].at = "idetach"
  <2>1. p[j - 1].at = "loop"
    BY <1>2, <1>3 DEF Fits
  <2>2. j - 1 # 1 /\ (j - 1) - 1 = j - 2
    BY <1>1, <1>2, <2>1
  <2>. QED
    BY <1>2, <1>3, <2>1, <2>2 DEF FidIn, Activations
<1>4. CASE p[j].at # "idetach"
  <2>1. p[j - 1].at \in Activations
    BY <1>2, <1>4 DEF Fits, Entry, Activations, Spawners
  <2>2. j - 1 # 1
    BY <1>1, <2>1 DEF Activations
  <2>. QED
    BY <1>2, <1>4, <2>1, <2>2 DEF FidIn
<1>. QED
  BY <1>3, <1>4

\* Programs that agree up to a place run on the same frames there.
LEMMA FidAgrees ==
    ASSUME NEW p, NEW q, WellFormed(p), NEW n \in 1..Len(p), Agree(q, p, n)
    PROVE  \A j \in 1..n : FidIn(q, j) = FidIn(p, j)
<1>. SUFFICES ASSUME NEW j \in 1..n PROVE FidIn(q, j) = FidIn(p, j)
  OBVIOUS
<1>1. p \in Seq(Entry) /\ Len(p) \in Nat /\ p[1].at = "call" /\ n \in Nat
  BY LenProperties DEF WellFormed
<1>2. q[j] = p[j]
  BY DEF Agree
<1>3. CASE j = 1
  BY <1>3 DEF FidIn
<1>4. CASE j # 1
  <2>1. j \in 2..Len(p) /\ j - 1 \in 1..n
    BY <1>1, <1>4
  <2>2. q[j - 1] = p[j - 1]
    BY <2>1 DEF Agree
  <2>3. CASE p[j].at = "idetach"
    <3>1. p[j - 1].at = "loop"
      BY <2>1, <2>3 DEF Fits, WellFormed
    <3>2. j - 2 \in 1..n
      BY <1>1, <2>1, <3>1
    <3>3. q[j - 2] = p[j - 2]
      BY <3>2 DEF Agree
    <3>. QED
      BY <1>2, <1>4, <2>3, <3>3 DEF FidIn
  <2>4. CASE p[j].at # "idetach"
    BY <1>2, <1>4, <2>2, <2>4 DEF FidIn
  <2>. QED
    BY <2>3, <2>4
<1>. QED
  BY <1>3, <1>4

\* The slot of frame_stack that frame is in.
SlotIn(p, j) == tree[FidIn(p, j)].level

\* The function at place j runs without a frame.
Skips(p, k, j) == p[j].at \in Functions /\ k[CountTo(p, j, Functions)]

\* The frames that activations push.
FrameType ==
    [func |-> "spawner", cilk |-> "spawner", task |-> "detacher", iter |-> "loop"]

\* The frame of the code at place j is on the stack; it is the frame of the
\* code below if the function runs without one, and else a frame of the
\* activation's type on top of it.
StandsAt(p, k, j) ==
    /\ FidIn(p, j) \in 0..frame_id /\ SlotIn(p, j) \in 1..depth
    /\ frames[SlotIn(p, j)].fid = FidIn(p, j)
    /\ j > 1 /\ p[j].at \in Activations =>
          IF Skips(p, k, j) THEN p[j].at = "func" /\ FidIn(p, j) = FidIn(p, j - 1)
          ELSE /\ SlotIn(p, j) = SlotIn(p, j - 1) + 1
               /\ frames[SlotIn(p, j)].type = FrameType[p[j].at]

\* Code above stands above.
Climbs(p, i, j) ==
    /\ i <= j => SlotIn(p, i) <= SlotIn(p, j)
    /\ i < j /\ p[j].at \in Spawners => SlotIn(p, i) < SlotIn(p, j)

\* Every place of the program is on the stack, the top one on the head.
OnFrames(p, k) ==
    /\ \A j \in 1..Len(p) : StandsAt(p, k, j)
    /\ \A i, j \in 1..Len(p) : Climbs(p, i, j)
    /\ SlotIn(p, Len(p)) = IF pc = "between" THEN depth - 1 ELSE depth

\* The engine leaves the frames up to slot d where they are.
Keeps(d) ==
    /\ d \in 1..depth /\ d <= depth' /\ frame_id <= frame_id'
    /\ \A f \in 0..frame_id : tree'[f] = tree[f]
    /\ \A i \in 1..d : frames'[i].fid = frames[i].fid /\ frames'[i].type = frames[i].type

\* Up to place n the same functions run without a frame.
SameSkips(q, l, p, k, n) == \A j \in 1..n : Skips(q, l, j) <=> Skips(p, k, j)

\* What stands on frames the engine leaves alone stands.
LEMMA StandsStill ==
    ASSUME TypeOK, TypeOK', NEW p, NEW k, NEW q, NEW l, NEW n \in 1..Len(p), NEW d,
           WellFormed(p), Agree(q, p, n), SameSkips(q, l, p, k, n), Keeps(d),
           OnFrames(p, k), SlotIn(p, n) <= d
    PROVE  /\ \A j \in 1..n : /\ StandsAt(q, l, j)' /\ FidIn(q, j) = FidIn(p, j)
                              /\ SlotIn(q, j)' = SlotIn(p, j)
           /\ \A i, j \in 1..n : Climbs(q, i, j)'
<1>0. Len(p) \in Nat /\ n \in Nat \ {0} /\ depth \in Nat /\ depth' \in Nat /\ frame_id \in Nat
      /\ frame_id' \in Nat /\ \A j \in 1..n : j \in 1..Len(p)
  <2>1. Len(p) \in Nat
    BY LenProperties DEF WellFormed
  <2>2. depth \in Nat /\ depth' \in Nat /\ frame_id \in Nat /\ frame_id' \in Nat
    BY DEF TypeOK
  <2>. QED
    BY <2>1, <2>2
<1>1. \A j \in 1..n : FidIn(q, j) = FidIn(p, j) /\ q[j] = p[j]
  BY FidAgrees DEF Agree
<1>2. ASSUME NEW j \in 1..n
      PROVE  /\ SlotIn(q, j)' = SlotIn(p, j) /\ SlotIn(p, j) \in 1..d
             /\ SlotIn(p, j) \in 1..depth /\ SlotIn(p, j) \in 1..depth'
             /\ FidIn(p, j) \in 0..frame_id
  <2>1. /\ FidIn(p, j) \in 0..frame_id /\ SlotIn(p, j) \in 1..depth
        /\ SlotIn(p, j) <= SlotIn(p, n)
    <3>1. n \in 1..Len(p) /\ j \in 1..Len(p) /\ j <= n
      BY <1>0
    <3>2. Climbs(p, j, n) /\ StandsAt(p, k, j)
      BY <3>1 DEF OnFrames
    <3>. QED
      BY <3>1, <3>2 DEF Climbs, StandsAt
  <2>2. tree'[FidIn(q, j)] = tree[FidIn(p, j)]
    BY <1>1, <2>1 DEF Keeps
  <2>3. SlotIn(q, j)' = SlotIn(p, j)
    <3>1. SlotIn(q, j)' = tree'[FidIn(q, j)].level
      BY DEF SlotIn, FidIn
    <3>. QED
      BY <2>2, <3>1 DEF SlotIn
  <2>4. SlotIn(p, n) \in 1..depth
    <3>1. StandsAt(p, k, n)
      BY DEF OnFrames
    <3>. QED
      BY <3>1 DEF StandsAt
  <2>5. d \in Nat /\ d <= depth'
    BY <1>0 DEF Keeps
  <2>6. SlotIn(p, j) \in 1..d
    BY <1>0, <2>1, <2>4, <2>5
  <2>7. SlotIn(p, j) \in 1..depth'
    BY <1>0, <2>5, <2>6
  <2>. QED
    BY <2>1, <2>3, <2>6, <2>7
<1>3. ASSUME NEW j \in 1..n PROVE StandsAt(q, l, j)'
  <2>1. /\ FidIn(q, j) \in 0..frame_id' /\ SlotIn(q, j)' \in 1..depth'
        /\ frames'[SlotIn(q, j)'].fid = FidIn(q, j)
        /\ frames'[SlotIn(q, j)'].type = frames[SlotIn(p, j)].type
    <3>1. StandsAt(p, k, j)
      BY <1>0 DEF OnFrames
    <3>2. frames[SlotIn(p, j)].fid = FidIn(p, j)
      BY <3>1 DEF StandsAt
    <3>3. 0..frame_id \subseteq 0..frame_id'
      BY <1>0 DEF Keeps
    <3>. QED
      BY <1>1, <1>2, <3>2, <3>3 DEF Keeps
  <2>2. ASSUME j > 1, q[j].at \in Activations
        PROVE  IF Skips(q, l, j) THEN q[j].at = "func" /\ FidIn(q, j) = FidIn(q, j - 1)
               ELSE /\ SlotIn(q, j)' = SlotIn(q, j - 1)' + 1
                    /\ frames'[SlotIn(q, j)'].type = FrameType[q[j].at]
    <3>1. j - 1 \in 1..n
      BY <1>0, <2>2
    <3>2. StandsAt(p, k, j) /\ (Skips(q, l, j) <=> Skips(p, k, j)) /\ p[j].at \in Activations
      BY <1>0, <1>1, <2>2 DEF OnFrames, SameSkips
    <3>3. IF Skips(p, k, j) THEN p[j].at = "func" /\ FidIn(p, j) = FidIn(p, j - 1)
          ELSE /\ SlotIn(p, j) = SlotIn(p, j - 1) + 1
               /\ frames[SlotIn(p, j)].type = FrameType[p[j].at]
      BY <2>2, <3>2 DEF StandsAt
    <3>. QED
      BY <1>1, <1>2, <2>1, <3>1, <3>2, <3>3
  <2>3. /\ FidIn(q, j)' = FidIn(q, j) /\ FidIn(q, j - 1)' = FidIn(q, j - 1)
        /\ Skips(q, l, j)' = Skips(q, l, j)
    BY DEF FidIn, Skips
  <2>. QED
    BY <2>1, <2>2, <2>3 DEF StandsAt
<1>4. ASSUME NEW i \in 1..n, NEW j \in 1..n PROVE Climbs(q, i, j)'
  <2>1. Climbs(p, i, j)
    BY <1>0 DEF OnFrames
  <2>. QED
    BY <1>1, <1>2, <2>1 DEF Climbs
<1>. QED
  BY <1>1, <1>2, <1>3, <1>4

\* The program is left at, or entered above, place n.
LEMMA OnFramesBelow ==
    ASSUME TypeOK, TypeOK', NEW p, NEW k, NEW q, NEW l, NEW n \in 1..Len(p), NEW d,
           WellFormed(p), Agree(q, p, n), SameSkips(q, l, p, k, n), Keeps(d),
           OnFrames(p, k), SlotIn(p, n) <= d, Len(q) = n,
           SlotIn(p, n) = IF pc' = "between" THEN depth' - 1 ELSE depth'
    PROVE  OnFrames(q, l)'
<1>1. /\ \A j \in 1..n : StandsAt(q, l, j)' /\ SlotIn(q, j)' = SlotIn(p, j)
      /\ \A i, j \in 1..n : Climbs(q, i, j)'
  BY StandsStill
<1>2. n \in 1..n
  BY LenProperties DEF WellFormed
<1>. QED
  BY <1>1, <1>2 DEF OnFrames

\* Code entered above what stands on frames the engine leaves alone stands.
LEMMA OnFramesAbove ==
    ASSUME TypeOK, TypeOK', NEW p, NEW k, NEW q, NEW l, NEW n \in 1..Len(p), NEW d,
           WellFormed(p), Agree(q, p, n), SameSkips(q, l, p, k, n), Keeps(d),
           OnFrames(p, k), SlotIn(p, n) <= d, Len(q) = n + 1,
           StandsAt(q, l, n + 1)', SlotIn(p, n) <= SlotIn(q, n + 1)',
           q[n + 1].at \in Spawners => SlotIn(p, n) < SlotIn(q, n + 1)',
           SlotIn(q, n + 1)' = IF pc' = "between" THEN depth' - 1 ELSE depth'
    PROVE  OnFrames(q, l)'
<1>1. /\ \A j \in 1..n : StandsAt(q, l, j)' /\ SlotIn(q, j)' = SlotIn(p, j)
      /\ \A i, j \in 1..n : Climbs(q, i, j)'
  BY StandsStill
<1>2. n \in 1..n /\ Len(p) \in Nat /\ n \in Nat
  BY LenProperties DEF WellFormed
<1>3. \A j \in 1..(n + 1) : j \in 1..n \/ j = n + 1
  BY <1>2
<1>4. PICK x : x = SlotIn(q, n + 1)'
  OBVIOUS
<1>5. ASSUME NEW j \in 1..n PROVE SlotIn(q, j)' \in Nat /\ SlotIn(q, j)' <= SlotIn(p, n)
  <2>1. j \in 1..Len(p) /\ j <= n
    BY <1>2
  <2>2. StandsAt(p, k, j) /\ Climbs(p, j, n)
    BY <2>1 DEF OnFrames
  <2>3. SlotIn(p, j) \in Nat /\ SlotIn(p, j) <= SlotIn(p, n)
    BY <2>1, <2>2 DEF StandsAt, Climbs
  <2>. QED
    BY <1>1, <2>3
<1>6. SlotIn(p, n) \in Nat /\ x \in Nat
  <2>1. SlotIn(p, n) \in Nat
    BY <1>1, <1>2, <1>5
  <2>. QED
    BY <1>4, <2>1 DEF StandsAt
<1>7. ASSUME NEW i \in 1..(n + 1), NEW j \in 1..(n + 1) PROVE Climbs(q, i, j)'
  <2>1. CASE i \in 1..n /\ j \in 1..n
    BY <1>1, <2>1
  <2>2. CASE i \in 1..n /\ j = n + 1
    BY <1>4, <1>5, <1>6, <2>2 DEF Climbs
  <2>3. CASE i = n + 1 /\ j \in 1..n
    <3>1. ~(i <= j) /\ ~(i < j)
      BY <1>2, <2>3
    <3>. QED
      BY <3>1 DEF Climbs
  <2>4. CASE i = n + 1 /\ j = n + 1
    <3>1. ~(i < j) /\ SlotIn(q, i)' = x /\ SlotIn(q, j)' = x
      BY <1>2, <1>4, <2>4
    <3>. QED
      BY <1>6, <3>1 DEF Climbs
  <2>. QED
    BY <1>3, <2>1, <2>2, <2>3, <2>4
<1>. QED
  BY <1>1, <1>3, <1>7 DEF OnFrames

\* The frames that the next program runs on.
LEMMA OnFramesNext ==
    ASSUME NEW q, NEW l, q = prog', l = spbags_frame_skipped', OnFrames(q, l)'
    PROVE  OnFrames(prog, spbags_frame_skipped)'
<1>1. \A j : FidIn(prog, j)' = FidIn(q, j)'
  BY DEF FidIn
<1>2. \A j : SlotIn(prog, j)' = SlotIn(q, j)'
  BY <1>1 DEF SlotIn
<1>3. \A j : Skips(prog, spbags_frame_skipped, j)' <=> Skips(q, l, j)'
  BY DEF Skips
<1>4. \A j : StandsAt(prog, spbags_frame_skipped, j)' <=> StandsAt(q, l, j)'
  BY <1>1, <1>2, <1>3 DEF StandsAt
<1>5. \A i, j : Climbs(prog, i, j)' <=> Climbs(q, i, j)'
  BY <1>2 DEF Climbs
<1>. QED
  BY <1>2, <1>4, <1>5 DEF OnFrames

\* spbags_frame_skipped has one entry for each function of program p.
SkipsOf(p, k) ==
    p \in Seq(Entry) /\ k \in Seq(BOOLEAN) /\ Len(k) = CountTo(p, Len(p), Functions)

\* Entering a function adds its entry, and changes no entry below it.
LEMMA SkipsEnter ==
    ASSUME NEW p, NEW k, SkipsOf(p, k), NEW e \in Entry, NEW x \in BOOLEAN,
           NEW l, l = IF e.at \in Functions THEN Append(k, x) ELSE k
    PROVE  /\ SkipsOf(Append(p, e), l)
           /\ SameSkips(Append(p, e), l, p, k, Len(p))
           /\ e.at \in Functions => (Skips(Append(p, e), l, Len(p) + 1) <=> x)
<1>0. PICK n, q, m : n = Len(p) /\ q = Append(p, e) /\ m = Len(k)
  OBVIOUS
<1>1. p \in Seq(Entry) /\ k \in Seq(BOOLEAN) /\ m = CountTo(p, n, Functions) /\ m \in Nat
  BY <1>0, LenProperties DEF SkipsOf
<1>2. /\ q \in Seq(Entry) /\ Len(q) = n + 1 /\ n \in Nat /\ q[n + 1] = e
      /\ \A j \in 1..n : q[j] = p[j]
      /\ \A j \in 0..n : CountTo(q, j, Functions) = CountTo(p, j, Functions)
      /\ CountTo(q, n + 1, Functions) = m + (IF e.at \in Functions THEN 1 ELSE 0)
  BY <1>0, <1>1, EnterCount
<1>3. /\ l \in Seq(BOOLEAN) /\ Len(l) = m + (IF e.at \in Functions THEN 1 ELSE 0)
      /\ \A i \in 1..m : l[i] = k[i]
      /\ e.at \in Functions => l[m + 1] = x
  <2>1. CASE e.at \in Functions
    <3>1. l = Append(k, x)
      BY <2>1
    <3>2. /\ Append(k, x) \in Seq(BOOLEAN) /\ Len(Append(k, x)) = m + 1
          /\ Append(k, x)[m + 1] = x /\ \A i \in 1..m : Append(k, x)[i] = k[i]
      <4>1. PICK B, y : B = BOOLEAN /\ y = x
        OBVIOUS
      <4>2. k \in Seq(B) /\ y \in B
        BY <1>1, <4>1
      <4>3. /\ Append(k, y) \in Seq(B) /\ Len(Append(k, y)) = Len(k) + 1
            /\ Append(k, y)[Len(k) + 1] = y
            /\ \A i \in 1..Len(k) : Append(k, y)[i] = k[i]
        BY <4>2, StackPush
      <4>. QED
        BY <1>0, <4>1, <4>3
    <3>. QED
      BY <1>1, <2>1, <3>1, <3>2
  <2>2. CASE e.at \notin Functions
    <3>1. l = k
      BY <2>2
    <3>2. Len(l) = m /\ l \in Seq(BOOLEAN)
      BY <1>0, <1>1, <3>1
    <3>. QED
      BY <1>1, <2>2, <3>1, <3>2
  <2>. QED
    BY <2>1, <2>2
<1>4. ASSUME NEW j \in 1..n, p[j].at \in Functions
      PROVE  CountTo(p, j, Functions) \in 1..m
  <2>1. 0 \in Nat /\ j \in Nat /\ 0 < j /\ 0 <= j /\ j <= n /\ n \in Nat
    BY <1>2
  <2>2. CountTo(p, 0, Functions) < CountTo(p, j, Functions)
    BY <1>4, <2>1, CountGrows
  <2>3. CountTo(p, j, Functions) <= CountTo(p, n, Functions)
    BY <2>1, CountGrows
  <2>4. CountTo(p, j, Functions) \in Nat /\ CountTo(p, 0, Functions) = 0
    BY <2>1, CountStep
  <2>. QED
    BY <1>1, <2>2, <2>3, <2>4
<1>5. SameSkips(q, l, p, k, n)
  <2>. SUFFICES ASSUME NEW j \in 1..n PROVE Skips(q, l, j) <=> Skips(p, k, j)
    BY DEF SameSkips
  <2>1. j \in 0..n /\ q[j] = p[j]
    BY <1>2
  <2>. QED
    BY <1>2, <1>3, <1>4, <2>1 DEF Skips
<1>6. e.at \in Functions => (Skips(q, l, n + 1) <=> x)
  BY <1>2, <1>3 DEF Skips
<1>7. SkipsOf(q, l)
  BY <1>2, <1>3 DEF SkipsOf
<1>. QED
  BY <1>0, <1>5, <1>6, <1>7

\* Leaving a function takes its entry, and changes no entry below it.
LEMMA SkipsLeave ==
    ASSUME NEW p, NEW k, SkipsOf(p, k), Len(p) > 1,
           NEW l, l = IF Last(p).at \in Functions THEN Front(k) ELSE k
    PROVE  /\ SkipsOf(Front(p), l)
           /\ SameSkips(Front(p), l, p, k, Len(p) - 1)
           /\ Last(p).at \in Functions => (Skips(p, k, Len(p)) <=> Last(k))
<1>0. PICK n, q, m : n = Len(p) - 1 /\ q = Front(p) /\ m = CountTo(p, Len(p) - 1, Functions)
  OBVIOUS
<1>1. /\ p \in Seq(Entry) /\ Len(p) # 0 /\ k \in Seq(BOOLEAN)
      /\ Len(k) = CountTo(p, Len(p), Functions)
  <2>1. Len(p) # 0
    BY LenProperties DEF SkipsOf
  <2>. QED
    BY <2>1 DEF SkipsOf
<1>2. /\ q \in Seq(Entry) /\ Len(q) = n /\ n \in Nat \ {0} /\ Len(p) = n + 1
      /\ \A j \in 1..n : q[j] = p[j]
      /\ \A j \in 0..n : CountTo(q, j, Functions) = CountTo(p, j, Functions)
      /\ m \in Nat /\ Last(p) = p[n + 1]
      /\ CountTo(p, n + 1, Functions) = m + (IF Last(p).at \in Functions THEN 1 ELSE 0)
  <2>1. n \in Nat \ {0} /\ Len(p) = n + 1
    BY <1>0, <1>1, LeaveCount
  <2>2. n \in 0..n
    BY <2>1
  <2>. QED
    BY <1>0, <1>1, <2>1, <2>2, LeaveCount
<1>3. /\ l \in Seq(BOOLEAN) /\ Len(l) = m
      /\ \A i \in 1..m : l[i] = k[i]
      /\ Last(p).at \in Functions => Last(k) = k[m + 1]
  <2>1. CASE Last(p).at \in Functions
    <3>1. CountTo(p, Len(p), Functions) = m + 1 /\ m \in Nat
      BY <1>2, <2>1
    <3>2. Len(k) = m + 1
      BY <1>1, <3>1
    <3>3. Len(k) # 0 /\ Len(k) - 1 = m
      BY <3>1, <3>2
    <3>. QED
      BY <1>1, <2>1, <3>2, <3>3, StackPop
  <2>2. CASE Last(p).at \notin Functions
    BY <1>1, <1>2, <2>2
  <2>. QED
    BY <2>1, <2>2
<1>4. ASSUME NEW j \in 1..n, p[j].at \in Functions
      PROVE  CountTo(p, j, Functions) \in 1..m
  <2>1. 0 \in Nat /\ j \in Nat /\ 0 < j /\ 0 <= j /\ j <= n /\ n \in Nat
    BY <1>2
  <2>2. CountTo(p, 0, Functions) < CountTo(p, j, Functions)
    BY <1>4, <2>1, CountGrows
  <2>3. CountTo(p, j, Functions) <= CountTo(p, n, Functions)
    BY <2>1, CountGrows
  <2>4. CountTo(p, j, Functions) \in Nat /\ CountTo(p, 0, Functions) = 0
    BY <2>1, CountStep
  <2>. QED
    BY <1>0, <1>2, <2>2, <2>3, <2>4
<1>5. SameSkips(q, l, p, k, n)
  <2>. SUFFICES ASSUME NEW j \in 1..n PROVE Skips(q, l, j) <=> Skips(p, k, j)
    BY DEF SameSkips
  <2>1. j \in 0..n /\ q[j] = p[j]
    BY <1>2
  <2>. QED
    BY <1>2, <1>3, <1>4, <2>1 DEF Skips
<1>6. Last(p).at \in Functions => (Skips(p, k, n + 1) <=> Last(k))
  BY <1>2, <1>3 DEF Skips
<1>7. SkipsOf(q, l)
  <2>1. n \in 0..n
    BY <1>2
  <2>. QED
    BY <1>0, <1>2, <1>3, <2>1 DEF SkipsOf
<1>. QED
  BY <1>0, <1>2, <1>5, <1>6, <1>7

-----------------------------------------------------------------------------
(***************************************************************************)
(* What the engine's steps leave alone.                                    *)
(***************************************************************************)
\* Every step of the hooks is a step of the engine, or none.
LEMMA EngineStep == [DriverNext]_hvars => [Next]_vars
<1>. SUFFICES ASSUME DriverNext PROVE [Next]_vars
  BY DEF hvars, vars
<1>1. CASE \E n \in SyncRegCounts, may_spawn \in BOOLEAN : func_entry(may_spawn, n)
  BY <1>1 DEF func_entry, Next
<1>2. CASE func_exit
  BY <1>2 DEF func_exit, Next
<1>3. CASE \E n \in SyncRegCounts, r \in Regs : task(n, r)
  BY <1>3 DEF task, Next
<1>4. CASE task_exit \/ task_exit_iteration
  BY <1>4 DEF task_exit, task_exit_iteration, Next
<1>5. CASE \E is_unwind \in BOOLEAN : detach_continue(is_unwind)
  BY <1>5 DEF detach_continue, Next
<1>6. CASE \E r \in Regs : sync(r)
  BY <1>6 DEF sync, Next
<1>7. CASE before_loop \/ after_loop
  BY <1>7 DEF before_loop, after_loop, Next
<1>8. CASE \E n \in SyncRegCounts, r \in Regs : task_iteration(n, r)
  BY <1>8 DEF task_iteration, Next
<1>9. CASE access
  BY <1>9 DEF access, Next
<1>10. CASE before_call \/ after_call \/ detach \/ detach_iteration \/ detach_continue_iteration
  BY <1>10 DEF before_call, after_call, detach, detach_iteration, detach_continue_iteration
<1>. QED
  BY <1>1, <1>2, <1>3, <1>4, <1>5, <1>6, <1>7, <1>8, <1>9, <1>10 DEF DriverNext

\* A push.
LEMMA PushKeeps ==
    ASSUME TypeOK, NEW type \in {"spawner", "detacher", "loop"}, NEW n \in 0..MaxRegs,
           NEW r \in Regs, CanPush, start_new_function(type, n, r)
    PROVE  /\ Keeps(depth) /\ depth' = depth + 1 /\ frame_id' = frame_id + 1
           /\ frames'[depth + 1].fid = frame_id + 1 /\ frames'[depth + 1].type = type
           /\ tree'[frame_id + 1].level = depth + 1 /\ frame_id + 1 \in Frames
<1>1. /\ depth' = depth + 1 /\ frame_id' = frame_id + 1
      /\ \A f \in 0..frame_id : tree'[f] = tree[f]
      /\ \A i \in 1..depth : frames'[i] = frames[i]
      /\ frames'[depth + 1].fid = frame_id + 1 /\ frames'[depth + 1].type = type
      /\ tree'[frame_id + 1].level = depth + 1
  BY PushFacts, PushTree
<1>2. depth \in Nat \ {0} /\ frame_id \in Nat /\ frame_id + 1 \in Frames
  BY DEF TypeOK, CanPush
<1>3. Keeps(depth)
  <2>1. depth \in 1..depth /\ depth <= depth + 1 /\ frame_id <= frame_id + 1
    BY <1>2
  <2>. QED
    BY <1>1, <2>1 DEF Keeps
<1>. QED
  BY <1>1, <1>2, <1>3

\* A pop.
LEMMA PopKeeps ==
    ASSUME TypeOK, Shape, Pop
    PROVE  Keeps(depth - 1) /\ depth > 1 /\ depth' = depth - 1 /\ pc' # "between"
<1>1. /\ depth > 1 /\ depth' = depth - 1 /\ pc' # "between"
      /\ frame_id' = frame_id /\ tree' = tree
      /\ \A i \in 1..depth' :
            frames'[i].type = frames[i].type /\ frames'[i].fid = frames[i].fid
  BY PopFacts, PopTree
<1>2. depth \in Nat /\ frame_id \in Nat
  BY DEF TypeOK
<1>3. depth - 1 \in 1..depth /\ depth - 1 <= depth' /\ frame_id <= frame_id'
  BY <1>1, <1>2
<1>. QED
  BY <1>1, <1>3 DEF Keeps

\* The other steps.
LEMMA HeadKeeps ==
    ASSUME TypeOK, Shape, LoopsApart,
           \/ HeadOnly \/ do_loop_iteration_end
           \/ UNCHANGED <<depth, frames, frame_id, tree>>
    PROVE  Keeps(depth) /\ depth' = depth
<1>1. depth \in 1..depth /\ depth <= depth /\ frame_id <= frame_id
  BY DEF TypeOK
<1>2. /\ depth' = depth /\ frame_id' = frame_id /\ tree' = tree
      /\ \A i \in 1..depth :
            frames'[i].type = frames[i].type /\ frames'[i].fid = frames[i].fid
  <2>0. \A i \in 1..depth : i \in Slots
    BY DEF TypeOK
  <2>1. CASE HeadOnly
    BY <2>0, <2>1, HeadFacts, HeadTree
  <2>2. CASE do_loop_iteration_end
    BY <2>0, <2>2, IterationTree
  <2>3. CASE UNCHANGED <<depth, frames, frame_id, tree>>
    BY <2>3
  <2>. QED
    BY <2>1, <2>2, <2>3
<1>. QED
  BY <1>1, <1>2 DEF Keeps

-----------------------------------------------------------------------------
(***************************************************************************)
(* The hooks keep the program on its frames.                               *)
(***************************************************************************)
Standing ==
    /\ WellFormed(prog)
    /\ SkipsOf(prog, spbags_frame_skipped)
    /\ OnFrames(prog, spbags_frame_skipped)

\* What is at the top of the program.
LEMMA TopPlace ==
    ASSUME TypeOK, Standing
    PROVE  /\ Len(prog) \in Nat \ {0} /\ Len(prog) \in 1..Len(prog)
           /\ Last(prog) = prog[Len(prog)] /\ Last(prog) \in Entry
           /\ depth \in Nat \ {0}
           /\ SlotIn(prog, Len(prog)) = IF pc = "between" THEN depth - 1 ELSE depth
           /\ SlotIn(prog, Len(prog)) \in 1..depth
           /\ frames[SlotIn(prog, Len(prog))].fid = FidIn(prog, Len(prog))
           /\ FidIn(prog, Len(prog)) \in 0..frame_id
<1>1. prog \in Seq(Entry) /\ Len(prog) # 0
  BY DEF Standing, WellFormed
<1>2. Len(prog) \in Nat \ {0} /\ Last(prog) = prog[Len(prog)] /\ Last(prog) \in Entry
  BY <1>1, StackPop
<1>3. Len(prog) \in 1..Len(prog)
  BY <1>2
<1>4. StandsAt(prog, spbags_frame_skipped, Len(prog))
  BY <1>3 DEF Standing, OnFrames
<1>5. depth \in Nat \ {0}
  BY DEF TypeOK
<1>. QED
  BY <1>2, <1>3, <1>4, <1>5 DEF StandsAt, Standing, OnFrames

\* A site is entered.
LEMMA EnterSiteStands ==
    ASSUME TypeOK, TypeOK', Standing, NEW e \in Entry, e.at \notin Activations,
           Fits(e.at, Last(prog).at), prog' = Append(prog, e),
           UNCHANGED spbags_frame_skipped, Keeps(depth), depth' = depth,
           pc' = "between" <=> pc = "between"
    PROVE  Standing'
<1>0. PICK p, k, q, l, n : /\ p = prog /\ k = spbags_frame_skipped /\ q = prog'
                           /\ l = spbags_frame_skipped' /\ n = Len(prog)
  OBVIOUS
<1>1. WellFormed(q)
  BY <1>0, WellEnter DEF Standing
<1>2. e.at \notin Functions /\ e.at \notin Spawners
  BY DEF Activations, Functions, Spawners
<1>3. SkipsOf(q, l) /\ SameSkips(q, l, p, k, n)
  <2>1. SkipsOf(p, k) /\ l = IF e.at \in Functions THEN Append(k, TRUE) ELSE k
    BY <1>0, <1>2 DEF Standing
  <2>2. q = Append(p, e) /\ n = Len(p) /\ TRUE \in BOOLEAN
    BY <1>0
  <2>. QED
    BY <2>1, <2>2, SkipsEnter
<1>4. /\ p \in Seq(Entry) /\ n \in 1..Len(p) /\ n \in Nat \ {0}
      /\ Len(q) = n + 1 /\ q[n + 1] = e /\ Agree(q, p, n)
      /\ SlotIn(p, n) = IF pc = "between" THEN depth - 1 ELSE depth
      /\ SlotIn(p, n) \in 1..depth /\ frames[SlotIn(p, n)].fid = FidIn(p, n)
      /\ FidIn(p, n) \in 0..frame_id
  <2>1. prog \in Seq(Entry)
    BY DEF Standing, WellFormed
  <2>. QED
    BY <1>0, <2>1, TopPlace, StackPush DEF Agree
<1>5. FidIn(q, n + 1) = FidIn(p, n)
  <2>1. n + 1 \in 2..Len(q) /\ (n + 1) - 1 = n /\ n \in 1..n
    BY <1>4
  <2>2. FidIn(q, n + 1) = FidIn(q, n)
    BY <1>1, <1>4, <2>1, FidBelow
  <2>3. WellFormed(p)
    BY <1>0 DEF Standing
  <2>4. FidIn(q, n) = FidIn(p, n)
    BY <1>4, <2>1, <2>3, FidAgrees
  <2>. QED
    BY <2>2, <2>4
<1>6. /\ SlotIn(q, n + 1)' = SlotIn(p, n) /\ FidIn(q, n + 1) \in 0..frame_id'
      /\ frames'[SlotIn(p, n)].fid = FidIn(q, n + 1)
  <2>1. frame_id \in Nat /\ frame_id' \in Nat /\ frame_id <= frame_id'
    BY DEF TypeOK, Keeps
  <2>2. SlotIn(q, n + 1)' = tree'[FidIn(q, n + 1)].level
    BY DEF SlotIn, FidIn
  <2>. QED
    BY <1>4, <1>5, <2>1, <2>2 DEF Keeps, SlotIn
<1>7. StandsAt(q, l, n + 1)'
  <2>1. FidIn(q, n + 1)' = FidIn(q, n + 1)
    BY DEF FidIn
  <2>. QED
    BY <1>4, <1>6, <2>1 DEF StandsAt
<1>8. OnFrames(q, l)'
  <2>1. WellFormed(p) /\ OnFrames(p, k)
    BY <1>0 DEF Standing
  <2>2. /\ SlotIn(p, n) <= depth /\ SlotIn(p, n) <= SlotIn(q, n + 1)'
        /\ q[n + 1].at \notin Spawners
        /\ SlotIn(q, n + 1)' = IF pc' = "between" THEN depth' - 1 ELSE depth'
    BY <1>2, <1>4, <1>6
  <2>. QED
    BY <1>3, <1>4, <1>7, <2>1, <2>2, OnFramesAbove
<1>9. OnFrames(prog, spbags_frame_skipped)'
  BY <1>0, <1>8, OnFramesNext
<1>. QED
  BY <1>0, <1>1, <1>3, <1>9 DEF Standing

\* An activation is entered: with x, a function that runs without a frame.
LEMMA EnterActivationStands ==
    ASSUME TypeOK, TypeOK', Standing, NEW e \in Entry, e.at \in Activations, NEW x \in BOOLEAN,
           Fits(e.at, Last(prog).at), prog' = Append(prog, e),
           spbags_frame_skipped' = IF e.at \in Functions THEN Append(spbags_frame_skipped, x)
                                   ELSE spbags_frame_skipped,
           Keeps(depth), pc' # "between",
           e.fid \in 0..frame_id', tree'[e.fid].level = depth', frames'[depth'].fid = e.fid,
           x => e.at = "func" /\ e.fid = FidIn(prog, Len(prog)) /\ pc # "between",
           ~x => /\ depth' = SlotIn(prog, Len(prog)) + 1
                 /\ frames'[depth'].type = FrameType[e.at]
    PROVE  Standing'
<1>0. PICK p, k, q, l, n : /\ p = prog /\ k = spbags_frame_skipped /\ q = prog'
                           /\ l = spbags_frame_skipped' /\ n = Len(prog)
  OBVIOUS
<1>1. WellFormed(q)
  BY <1>0, WellEnter DEF Standing
<1>2. /\ SkipsOf(q, l) /\ SameSkips(q, l, p, k, n)
      /\ e.at \in Functions => (Skips(q, l, n + 1) <=> x)
  <2>1. SkipsOf(p, k) /\ l = IF e.at \in Functions THEN Append(k, x) ELSE k
    BY <1>0 DEF Standing
  <2>2. q = Append(p, e) /\ n = Len(p)
    BY <1>0
  <2>. QED
    BY <2>1, <2>2, SkipsEnter
<1>3. /\ p \in Seq(Entry) /\ n \in 1..Len(p) /\ n \in Nat \ {0}
      /\ Len(q) = n + 1 /\ q[n + 1] = e /\ Agree(q, p, n)
      /\ SlotIn(p, n) = IF pc = "between" THEN depth - 1 ELSE depth
      /\ SlotIn(p, n) \in 1..depth /\ depth \in Nat /\ depth' \in Nat \ {0}
      /\ FidIn(p, n) \in 0..frame_id
  <2>1. prog \in Seq(Entry)
    BY DEF Standing, WellFormed
  <2>2. depth' \in Nat \ {0}
    BY DEF TypeOK
  <2>. QED
    BY <1>0, <2>1, <2>2, TopPlace, StackPush DEF Agree
<1>4. /\ FidIn(q, n + 1) = e.fid /\ (n + 1) - 1 = n /\ n + 1 > 1 /\ n \in 1..n
      /\ FidIn(q, n) = FidIn(p, n) /\ SlotIn(q, n)' = SlotIn(p, n)
  <2>1. n + 1 # 1 /\ n + 1 > 1 /\ (n + 1) - 1 = n /\ n \in 1..n
    BY <1>3
  <2>2. WellFormed(p)
    BY <1>0 DEF Standing
  <2>3. FidIn(q, n) = FidIn(p, n)
    BY <1>3, <2>1, <2>2, FidAgrees
  <2>4. SlotIn(q, n)' = tree'[FidIn(q, n)].level
    BY DEF SlotIn, FidIn
  <2>5. SlotIn(q, n)' = SlotIn(p, n)
    BY <1>3, <2>3, <2>4 DEF Keeps, SlotIn
  <2>6. FidIn(q, n + 1) = e.fid
    BY <1>3, <2>1 DEF FidIn
  <2>. QED
    BY <2>1, <2>3, <2>5, <2>6
<1>5. SlotIn(q, n + 1)' = depth'
  <2>1. SlotIn(q, n + 1)' = tree'[FidIn(q, n + 1)].level
    BY DEF SlotIn, FidIn
  <2>. QED
    BY <1>4, <2>1
<1>6. IF Skips(q, l, n + 1) THEN e.at = "func" /\ FidIn(q, n + 1) = FidIn(q, n)
      ELSE /\ SlotIn(q, n + 1)' = SlotIn(q, n)' + 1
           /\ frames'[SlotIn(q, n + 1)'].type = FrameType[e.at]
  <2>1. CASE x
    BY <1>0, <1>2, <1>4, <2>1 DEF Functions
  <2>2. CASE ~x
    <3>1. ~Skips(q, l, n + 1)
      BY <1>2, <1>3, <2>2 DEF Skips
    <3>. QED
      BY <1>0, <1>4, <1>5, <2>2, <3>1
  <2>. QED
    BY <2>1, <2>2
<1>7. StandsAt(q, l, n + 1)'
  <2>1. /\ FidIn(q, n + 1)' = FidIn(q, n + 1) /\ FidIn(q, n)' = FidIn(q, n)
        /\ Skips(q, l, n + 1)' = Skips(q, l, n + 1)
    BY DEF FidIn, Skips
  <2>2. depth' \in 1..depth'
    BY <1>3
  <2>. QED
    BY <1>3, <1>4, <1>5, <1>6, <2>1, <2>2 DEF StandsAt
<1>8. SlotIn(p, n) <= depth' /\ (e.at \in Spawners => SlotIn(p, n) < depth')
  <2>1. CASE x
    BY <1>3, <2>1 DEF Keeps, Spawners
  <2>2. CASE ~x
    BY <1>0, <1>3, <2>2
  <2>. QED
    BY <2>1, <2>2
<1>9. OnFrames(q, l)'
  <2>1. WellFormed(p) /\ OnFrames(p, k)
    BY <1>0 DEF Standing
  <2>2. /\ SlotIn(p, n) <= depth /\ SlotIn(p, n) <= SlotIn(q, n + 1)'
        /\ q[n + 1].at \in Spawners => SlotIn(p, n) < SlotIn(q, n + 1)'
        /\ SlotIn(q, n + 1)' = IF pc' = "between" THEN depth' - 1 ELSE depth'
    BY <1>3, <1>5, <1>8
  <2>. QED
    BY <1>2, <1>3, <1>7, <2>1, <2>2, OnFramesAbove
<1>10. OnFrames(prog, spbags_frame_skipped)'
  BY <1>0, <1>9, OnFramesNext
<1>. QED
  BY <1>0, <1>1, <1>2, <1>10 DEF Standing

\* The program leaves its top place.
LEMMA LeaveStands ==
    ASSUME TypeOK, TypeOK', Standing, Len(prog) > 1, prog' = Front(prog),
           spbags_frame_skipped' = IF Last(prog).at \in Functions THEN Front(spbags_frame_skipped)
                                   ELSE spbags_frame_skipped,
           NEW d, Keeps(d), SlotIn(prog, Len(prog) - 1) <= d,
           SlotIn(prog, Len(prog) - 1) = IF pc' = "between" THEN depth' - 1 ELSE depth'
    PROVE  Standing'
<1>0. PICK p, k, q, l, n : /\ p = prog /\ k = spbags_frame_skipped /\ q = prog'
                           /\ l = spbags_frame_skipped' /\ n = Len(prog) - 1
  OBVIOUS
<1>1. WellFormed(p) /\ SkipsOf(p, k) /\ OnFrames(p, k)
  BY <1>0 DEF Standing
<1>2. WellFormed(q) /\ Len(q) = n /\ n \in 1..Len(p) /\ Agree(q, p, n)
  BY <1>0, <1>1, WellLeave
<1>3. SkipsOf(q, l) /\ SameSkips(q, l, p, k, n)
  <2>1. /\ q = Front(p) /\ n = Len(p) - 1 /\ Len(p) > 1
        /\ l = IF Last(p).at \in Functions THEN Front(k) ELSE k
    BY <1>0
  <2>. QED
    BY <1>1, <2>1, SkipsLeave
<1>4. OnFrames(q, l)'
  BY <1>0, <1>1, <1>2, <1>3, OnFramesBelow
<1>5. OnFrames(prog, spbags_frame_skipped)'
  BY <1>0, <1>4, OnFramesNext
<1>. QED
  BY <1>0, <1>2, <1>3, <1>5 DEF Standing

\* The places under the top: a site is in the frame of the code below it, a
\* function that skipped its frame too, and other code is one frame up.
LEMMA TopTwo ==
    ASSUME TypeOK, Standing, Len(prog) > 1
    PROVE  /\ Len(prog) - 1 \in 1..Len(prog) /\ Fits(Last(prog).at, prog[Len(prog) - 1].at)
           /\ \/ Last(prog).at \notin Activations
              \/ Last(prog).at \in Functions /\ Last(spbags_frame_skipped)
              => SlotIn(prog, Len(prog) - 1) = SlotIn(prog, Len(prog))
           /\ \/ Last(prog).at \in Activations \ Functions
              \/ Last(prog).at \in Functions /\ ~Last(spbags_frame_skipped)
              => /\ SlotIn(prog, Len(prog)) = SlotIn(prog, Len(prog) - 1) + 1
                 /\ frames[SlotIn(prog, Len(prog))].type = FrameType[Last(prog).at]
           /\ Last(prog).at \in Functions /\ Last(spbags_frame_skipped) => Last(prog).at = "func"
<1>0. PICK p, k, n : p = prog /\ k = spbags_frame_skipped /\ n = Len(prog)
  OBVIOUS
<1>1. WellFormed(p) /\ SkipsOf(p, k) /\ OnFrames(p, k)
  BY <1>0 DEF Standing
<1>2. /\ n \in Nat \ {0} /\ n \in 1..n /\ Last(p) = p[n] /\ n \in 2..n /\ n - 1 \in 1..n /\ n > 1
  <2>1. n \in Nat \ {0} /\ n > 1 /\ Last(p) = p[n]
    BY <1>0, TopPlace
  <2>. QED
    BY <2>1
<1>3. Fits(p[n].at, p[n - 1].at)
  BY <1>0, <1>1, <1>2 DEF WellFormed
<1>4. StandsAt(p, k, n)
  BY <1>0, <1>1, <1>2 DEF OnFrames
<1>5. Last(p).at \in Functions => (Skips(p, k, n) <=> Last(k))
  <2>1. PICK l : l = IF Last(p).at \in Functions THEN Front(k) ELSE k
    OBVIOUS
  <2>. QED
    BY <1>0, <1>1, <1>2, <2>1, SkipsLeave
<1>6. ASSUME p[n].at \notin Activations PROVE SlotIn(p, n - 1) = SlotIn(p, n)
  <2>1. FidIn(p, n) = FidIn(p, n - 1)
    BY <1>0, <1>1, <1>2, <1>6, FidBelow
  <2>. QED
    BY <2>1 DEF SlotIn
<1>7. ASSUME p[n].at \in Functions, Last(k)
      PROVE  SlotIn(p, n - 1) = SlotIn(p, n) /\ p[n].at = "func"
  <2>1. p[n].at = "func" /\ FidIn(p, n) = FidIn(p, n - 1)
    BY <1>2, <1>4, <1>5, <1>7 DEF StandsAt, Functions, Activations
  <2>. QED
    BY <2>1 DEF SlotIn
<1>8. ASSUME p[n].at \in Activations, p[n].at \in Functions => ~Last(k)
      PROVE  /\ SlotIn(p, n) = SlotIn(p, n - 1) + 1
             /\ frames[SlotIn(p, n)].type = FrameType[p[n].at]
  <2>1. ~Skips(p, k, n)
    BY <1>2, <1>5, <1>8 DEF Skips
  <2>. QED
    BY <1>2, <1>4, <1>8, <2>1 DEF StandsAt
<1>9. /\ p[n].at \notin Activations \/ (p[n].at \in Functions /\ Last(k))
           => SlotIn(p, n - 1) = SlotIn(p, n)
      /\ p[n].at \in Activations \ Functions \/ (p[n].at \in Functions /\ ~Last(k))
           => /\ SlotIn(p, n) = SlotIn(p, n - 1) + 1
              /\ frames[SlotIn(p, n)].type = FrameType[p[n].at]
      /\ p[n].at \in Functions /\ Last(k) => p[n].at = "func"
  BY <1>6, <1>7, <1>8 DEF Activations, Functions
<1>. QED
  BY <1>0, <1>2, <1>3, <1>9

\* A finished loop is followed by its sync.
LEMMA LoopSyncStands ==
    ASSUME TypeOK, TypeOK', Standing, NEW e \in Entry, e.at = "loopsync", Len(prog) > 1,
           Last(prog).at = "loop", prog' = Append(Front(prog), e),
           UNCHANGED spbags_frame_skipped, Keeps(depth - 1), depth' = depth - 1,
           pc' # "between", pc = "between"
    PROVE  Standing'
<1>0. PICK p, k, o, q, n : /\ p = prog /\ k = spbags_frame_skipped /\ o = Front(prog)
                           /\ q = prog' /\ n = Len(prog) - 1
  OBVIOUS
<1>1. WellFormed(p) /\ SkipsOf(p, k) /\ OnFrames(p, k)
  BY <1>0 DEF Standing
<1>2. /\ WellFormed(o) /\ o \in Seq(Entry) /\ Len(o) = n /\ n \in 1..Len(p) /\ Agree(o, p, n)
      /\ n \in Nat \ {0} /\ n \in 1..n
  <2>1. WellFormed(o) /\ Len(o) = n /\ n \in 1..Len(p) /\ Agree(o, p, n)
    BY <1>0, <1>1, WellLeave
  <2>2. Len(o) \in Nat /\ o \in Seq(Entry) /\ Len(o) # 0
    BY <2>1, LenProperties DEF WellFormed
  <2>. QED
    BY <2>1, <2>2
<1>3. /\ SlotIn(p, n) = depth - 1 /\ Last(p).at = "loop" /\ p[n].at \in Spawners
      /\ depth \in Nat /\ depth' = depth - 1
  <2>1. SlotIn(prog, Len(prog)) = depth - 1 /\ depth \in Nat
    BY TopPlace
  <2>2. /\ SlotIn(prog, Len(prog) - 1) = SlotIn(prog, Len(prog))
        /\ Fits(Last(prog).at, prog[Len(prog) - 1].at)
    BY TopTwo DEF Activations
  <2>. QED
    BY <1>0, <2>1, <2>2 DEF Fits
<1>4. Last(o).at \in Spawners
  BY <1>2, <1>3 DEF Last, Agree
<1>5. WellFormed(q)
  <2>1. q = Append(o, e) /\ Fits(e.at, Last(o).at)
    BY <1>0, <1>4 DEF Fits, Functions
  <2>. QED
    BY <1>2, <2>1, WellEnter
<1>6. /\ Len(q) = n + 1 /\ q[n + 1] = e /\ Agree(q, p, n)
  <2>1. /\ Len(q) = n + 1 /\ q[n + 1] = e /\ \A i \in 1..n : q[i] = o[i]
    BY <1>0, <1>2, StackPush
  <2>. QED
    BY <1>2, <2>1 DEF Agree
<1>7. SkipsOf(q, k) /\ SameSkips(q, k, p, k, n)
  <2>1. SkipsOf(o, k) /\ SameSkips(o, k, p, k, n)
    <3>1. k = IF Last(p).at \in Functions THEN Front(k) ELSE k
      BY <1>3 DEF Functions
    <3>2. o = Front(p) /\ n = Len(p) - 1 /\ Len(p) > 1
      BY <1>0
    <3>. QED
      BY <1>1, <3>1, <3>2, SkipsLeave
  <2>2. SkipsOf(q, k) /\ SameSkips(q, k, o, k, n)
    <3>1. k = IF e.at \in Functions THEN Append(k, TRUE) ELSE k
      BY DEF Functions
    <3>2. q = Append(o, e) /\ n = Len(o) /\ TRUE \in BOOLEAN
      BY <1>0, <1>2
    <3>. QED
      BY <2>1, <3>1, <3>2, SkipsEnter
  <2>. QED
    BY <2>1, <2>2 DEF SameSkips
<1>8. FidIn(q, n + 1) = FidIn(p, n)
  <2>1. n + 1 \in 2..Len(q) /\ (n + 1) - 1 = n
    BY <1>2, <1>6
  <2>2. FidIn(q, n + 1) = FidIn(q, n)
    BY <1>5, <1>6, <2>1, FidBelow DEF Activations
  <2>3. FidIn(q, n) = FidIn(p, n)
    BY <1>1, <1>2, <1>6, FidAgrees
  <2>. QED
    BY <2>2, <2>3
<1>9. StandsAt(p, k, n)
  BY <1>1, <1>2 DEF OnFrames
<1>10. /\ SlotIn(q, n + 1)' = SlotIn(p, n) /\ FidIn(q, n + 1) \in 0..frame_id'
       /\ frames'[SlotIn(p, n)].fid = FidIn(q, n + 1) /\ SlotIn(p, n) \in 1..depth'
  <2>1. frame_id \in Nat /\ frame_id' \in Nat /\ frame_id <= frame_id'
    BY DEF TypeOK, Keeps
  <2>2. SlotIn(q, n + 1)' = tree'[FidIn(q, n + 1)].level
    BY DEF SlotIn, FidIn
  <2>3. SlotIn(p, n) \in 1..(depth - 1)
    BY <1>3, <1>9 DEF StandsAt
  <2>. QED
    BY <1>3, <1>8, <1>9, <2>1, <2>2, <2>3 DEF Keeps, SlotIn, StandsAt
<1>11. StandsAt(q, k, n + 1)'
  <2>1. FidIn(q, n + 1)' = FidIn(q, n + 1)
    BY DEF FidIn
  <2>. QED
    BY <1>6, <1>10, <2>1 DEF StandsAt, Activations
<1>12. OnFrames(q, k)'
  <2>1. /\ SlotIn(p, n) <= depth - 1 /\ SlotIn(p, n) <= SlotIn(q, n + 1)'
        /\ q[n + 1].at \notin Spawners
        /\ SlotIn(q, n + 1)' = IF pc' = "between" THEN depth' - 1 ELSE depth'
    BY <1>3, <1>6, <1>10 DEF Spawners
  <2>. QED
    BY <1>1, <1>2, <1>6, <1>7, <1>11, <2>1, OnFramesAbove
<1>13. OnFrames(prog, spbags_frame_skipped)'
  BY <1>0, <1>12, OnFramesNext
<1>. QED
  BY <1>0, <1>5, <1>7, <1>13 DEF Standing

\* What a step enters is an entry.
LEMMA EntryTypes ==
    ASSUME TypeOK
    PROVE  /\ \A at \in {"call", "detach", "loop", "idetach", "loopsync"} :
                 At(at) \in Entry /\ At(at).at = at
           /\ \A at \in Activations :
                 /\ CanPush => /\ Activation(at, TRUE) \in Entry
                               /\ Activation(at, TRUE).at = at
                               /\ Activation(at, TRUE).fid = frame_id + 1
                 /\ Activation(at, FALSE) \in Entry /\ Activation(at, FALSE).at = at
                 /\ Activation(at, FALSE).fid = head.fid
           /\ [at |-> "loopsync", fid |-> 0, reg |-> tree[head.fid].reg] \in Entry
<1>1. 0 \in Frames /\ 0 \in Regs /\ head.fid \in Frames
  BY HeadType, FrameFields
<1>2. CanPush => frame_id + 1 \in Frames
  BY DEF TypeOK, CanPush
<1>3. tree[head.fid].reg \in Regs
  BY <1>1 DEF TypeOK
<1>. QED
  BY <1>1, <1>2, <1>3 DEF Entry, At, Activation, Activations

\* Nothing happens to the program or its frames.
LEMMA StandingStays ==
    ASSUME TypeOK, TypeOK', Standing, UNCHANGED <<prog, spbags_frame_skipped>>,
           Keeps(depth), depth' = depth, pc' = "between" <=> pc = "between"
    PROVE  Standing'
<1>0. PICK p, k, n : p = prog /\ k = spbags_frame_skipped /\ n = Len(prog)
  OBVIOUS
<1>1. WellFormed(p) /\ SkipsOf(p, k) /\ OnFrames(p, k)
  BY <1>0 DEF Standing
<1>2. /\ n \in 1..Len(p) /\ Agree(p, p, n) /\ SameSkips(p, k, p, k, n) /\ Len(p) = n
      /\ SlotIn(p, n) = IF pc = "between" THEN depth - 1 ELSE depth
      /\ SlotIn(p, n) \in 1..depth /\ depth \in Nat
  BY <1>0, TopPlace DEF Agree, SameSkips
<1>3. SlotIn(p, n) <= depth /\ SlotIn(p, n) = IF pc' = "between" THEN depth' - 1 ELSE depth'
  BY <1>2
<1>4. OnFrames(p, k)'
  BY <1>1, <1>2, <1>3, OnFramesBelow
<1>5. OnFrames(prog, spbags_frame_skipped)'
  <2>1. p = prog' /\ k = spbags_frame_skipped'
    BY <1>0
  <2>. QED
    BY <1>4, <2>1, OnFramesNext
<1>. QED
  BY <1>0, <1>1, <1>5 DEF Standing

\* What is known of the engine.
Engine == TypeOK /\ Shape /\ InTree /\ LoopsApart

\* The frame at the head is the frame of the code at the top.
LEMMA TopFrame ==
    ASSUME TypeOK, Standing, pc # "between"
    PROVE  /\ SlotIn(prog, Len(prog)) = depth /\ FidIn(prog, Len(prog)) = head.fid
           /\ Last(prog).at \in Activations => Last(prog).fid = head.fid
<1>1. SlotIn(prog, Len(prog)) = depth /\ FidIn(prog, Len(prog)) = head.fid
  BY TopPlace DEF head
<1>2. Last(prog).at \in Activations => Len(prog) # 1
  <2>1. prog[1].at = "call"
    BY DEF Standing, WellFormed
  <2>. QED
    BY <2>1, TopPlace DEF Activations
<1>3. Last(prog).at \in Activations => Last(prog).fid = FidIn(prog, Len(prog))
  BY <1>2, TopPlace DEF FidIn
<1>. QED
  BY <1>1, <1>3

\* Only the first place of a program is a call from outside.
LEMMA TopLong ==
    ASSUME TypeOK, Standing, Last(prog).at # "call"
    PROVE  Len(prog) > 1
<1>0. PICK n : n = Len(prog)
  OBVIOUS
<1>1. n \in Nat \ {0} /\ Last(prog) = prog[n]
  BY <1>0, TopPlace
<1>2. n # 1
  BY <1>1 DEF Standing, WellFormed
<1>3. n > 1
  BY <1>1, <1>2
<1>. QED
  BY <1>0, <1>3

\* Sites are entered from activations and from loops.
LEMMA SitesStand ==
    ASSUME Engine, TypeOK', Standing, before_call \/ detach \/ before_loop \/ detach_iteration
    PROVE  Standing'
<1>1. ASSUME NEW at \in {"call", "detach", "loop", "idetach"}, Enter(At(at)),
             Fits(at, Last(prog).at), UNCHANGED <<depth, frames, frame_id, tree>>,
             pc' = "between" <=> pc = "between", UNCHANGED spbags_frame_skipped
      PROVE  Standing'
  <2>1. Keeps(depth) /\ depth' = depth
    BY <1>1, HeadKeeps DEF Engine
  <2>2. At(at) \in Entry /\ At(at).at = at /\ at \notin Activations
    BY EntryTypes DEF Engine, Activations
  <2>3. prog' = Append(prog, At(at))
    BY <1>1 DEF Enter
  <2>. QED
    BY <1>1, <2>1, <2>2, <2>3, EnterSiteStands DEF Engine
<1>2. CASE before_call
  <2>1. /\ Enter(At("call")) /\ Last(prog).at \in Activations
        /\ UNCHANGED <<vars, spbags_frame_skipped>>
    BY <1>2 DEF before_call, Running
  <2>. QED
    BY <1>1, <2>1 DEF vars, Fits, Functions
<1>3. CASE detach
  <2>1. /\ Enter(At("detach")) /\ Last(prog).at \in Spawners
        /\ UNCHANGED <<vars, spbags_frame_skipped>>
    BY <1>3 DEF detach, Spawning, Running, Activations, Spawners
  <2>. QED
    BY <1>1, <2>1 DEF vars, Fits, Functions
<1>4. CASE before_loop
  <2>1. /\ Enter(At("loop")) /\ Last(prog).at \in Spawners
        /\ UNCHANGED <<depth, frames, frame_id, tree, spbags_frame_skipped>>
        /\ pc = "body" /\ pc' = "newloop"
    BY <1>4 DEF before_loop, do_loop_begin, Spawning, Running, Activations, Spawners
  <2>. QED
    BY <1>1, <2>1 DEF Fits, Functions
<1>5. CASE detach_iteration
  <2>1. /\ Enter(At("idetach")) /\ Last(prog).at = "loop"
        /\ UNCHANGED <<vars, spbags_frame_skipped>>
    BY <1>5 DEF detach_iteration, InSite
  <2>. QED
    BY <1>1, <2>1 DEF vars, Fits, Functions
<1>. QED
  BY <1>2, <1>3, <1>4, <1>5

\* A frame is pushed for an activation.
LEMMA FramedStands ==
    ASSUME Engine, TypeOK', Standing, NEW at \in Activations, pc # "between", pc' # "between",
           CanPush, NEW n \in 0..MaxRegs, NEW r \in Regs, start_new_function(FrameType[at], n, r),
           Fits(at, Last(prog).at), prog' = Append(prog, Activation(at, TRUE)),
           spbags_frame_skipped' = IF at \in Functions THEN Append(spbags_frame_skipped, FALSE)
                                   ELSE spbags_frame_skipped
    PROVE  Standing'
<1>0. PICK e, type : e = Activation(at, TRUE) /\ type = FrameType[at]
  OBVIOUS
<1>1. e \in Entry /\ e.at = at /\ e.fid = frame_id + 1
  BY <1>0, EntryTypes DEF Engine
<1>2. type \in {"spawner", "detacher", "loop"}
  BY <1>0 DEF FrameType, Activations
<1>3. /\ Keeps(depth) /\ depth' = depth + 1 /\ frame_id' = frame_id + 1
      /\ frames'[depth + 1].fid = frame_id + 1 /\ frames'[depth + 1].type = type
      /\ tree'[frame_id + 1].level = depth + 1
  BY <1>0, <1>2, PushKeeps DEF Engine
<1>4. /\ e.fid \in 0..frame_id' /\ tree'[e.fid].level = depth' /\ frames'[depth'].fid = e.fid
      /\ frames'[depth'].type = FrameType[e.at]
  <2>1. frame_id \in Nat
    BY DEF Engine, TypeOK
  <2>2. frame_id + 1 \in 0..(frame_id + 1)
    BY <2>1
  <2>. QED
    BY <1>0, <1>1, <1>3, <2>2
<1>5. depth' = SlotIn(prog, Len(prog)) + 1
  BY <1>3, TopFrame DEF Engine
<1>6. FALSE \in BOOLEAN
  OBVIOUS
<1>. QED
  BY <1>0, <1>1, <1>3, <1>4, <1>5, <1>6, EnterActivationStands DEF Engine

\* Functions and tasks are entered.
LEMMA EntriesStand ==
    ASSUME Engine, TypeOK', Standing,
           \/ \E n \in SyncRegCounts, may_spawn \in BOOLEAN : func_entry(may_spawn, n)
           \/ \E n \in SyncRegCounts, r \in Regs : task(n, r)
           \/ \E n \in SyncRegCounts, r \in Regs : task_iteration(n, r)
    PROVE  Standing'
<1>0. SyncRegCounts \subseteq 0..MaxRegs /\ 0 \in Regs
  OBVIOUS
<1>1. ASSUME NEW n \in SyncRegCounts, NEW may_spawn \in BOOLEAN, func_entry(may_spawn, n)
      PROVE  Standing'
  <2>0. PICK at : at = IF may_spawn THEN "cilk" ELSE "func"
    OBVIOUS
  <2>1. /\ Last(prog).at = "call" /\ at \in Functions /\ at \in Activations
        /\ FrameType[at] = "spawner" /\ Fits(at, Last(prog).at)
        /\ prog' = Append(prog, Activation(at, ~SkipsFrame(may_spawn)))
        /\ spbags_frame_skipped' = Append(spbags_frame_skipped, SkipsFrame(may_spawn))
    BY <1>1, <2>0 DEF func_entry, InSite, Enter, Functions, Activations, FrameType, Fits, Spawners
  <2>2. CASE ~SkipsFrame(may_spawn)
    <3>1. /\ pc = "body" /\ CanPush /\ start_new_function("spawner", n, 0) /\ pc' = pc
          /\ n \in 0..MaxRegs
      BY <1>0, <1>1, <2>2 DEF func_entry, do_enter
    <3>2. /\ prog' = Append(prog, Activation(at, TRUE))
          /\ spbags_frame_skipped' = Append(spbags_frame_skipped, FALSE)
      <4>1. (~SkipsFrame(may_spawn)) = TRUE /\ SkipsFrame(may_spawn) = FALSE
        BY <2>2 DEF SkipsFrame, is_local_synced
      <4>. QED
        BY <2>1, <4>1
    <3>. QED
      BY <1>0, <2>1, <3>1, <3>2, FramedStands
  <2>3. CASE SkipsFrame(may_spawn)
    <3>1. pc = "body" /\ UNCHANGED vars /\ at = "func"
      BY <1>1, <2>0, <2>3 DEF func_entry, SkipsFrame
    <3>2. /\ prog' = Append(prog, Activation(at, FALSE))
          /\ spbags_frame_skipped' = Append(spbags_frame_skipped, TRUE)
      <4>1. (~SkipsFrame(may_spawn)) = FALSE /\ SkipsFrame(may_spawn) = TRUE
        BY <2>3 DEF SkipsFrame, is_local_synced
      <4>. QED
        BY <2>1, <4>1
    <3>0. PICK e : e = Activation(at, FALSE)
      OBVIOUS
    <3>3. e \in Entry /\ e.at = at /\ e.fid = head.fid
      BY <2>1, <3>0, EntryTypes DEF Engine
    <3>4. Keeps(depth) /\ depth' = depth
      BY <3>1, HeadKeeps DEF Engine, vars
    <3>5. /\ head.fid \in 0..frame_id /\ tree[head.fid].level = depth
          /\ FidIn(prog, Len(prog)) = head.fid
      <4>1. depth \in 1..depth /\ head = frames[depth]
        BY DEF Engine, TypeOK, head
      <4>2. FidIn(prog, Len(prog)) = head.fid
        BY <3>1, TopFrame DEF Engine
      <4>. QED
        BY <4>1, <4>2 DEF Engine, InTree, OnStack
    <3>6. /\ e.fid \in 0..frame_id' /\ tree'[e.fid].level = depth'
          /\ frames'[depth'].fid = e.fid /\ pc' # "between" /\ pc # "between"
      BY <3>1, <3>3, <3>5 DEF vars, head
    <3>7. /\ TRUE \in BOOLEAN /\ e.at \in Activations /\ e.at \in Functions
          /\ Fits(e.at, Last(prog).at)
      BY <2>1, <3>3
    <3>. QED
      BY <3>0, <3>1, <3>2, <3>3, <3>4, <3>5, <3>6, <3>7, EnterActivationStands DEF Engine
  <2>. QED
    BY <2>2, <2>3
<1>2. ASSUME NEW n \in SyncRegCounts, NEW r \in Regs, task(n, r) PROVE Standing'
  <2>1. /\ Last(prog).at = "detach" /\ pc = "body" /\ CanPush /\ pc' = pc
        /\ start_new_function("detacher", n, r) /\ UNCHANGED spbags_frame_skipped
        /\ prog' = Append(prog, Activation("task", TRUE)) /\ n \in 0..MaxRegs
    BY <1>0, <1>2 DEF task, InSite, do_task, Enter
  <2>2. /\ "task" \in Activations /\ "task" \notin Functions /\ FrameType["task"] = "detacher"
        /\ Fits("task", Last(prog).at)
    BY <2>1 DEF Activations, Functions, FrameType, Fits
  <2>. QED
    BY <2>1, <2>2, FramedStands
<1>3. ASSUME NEW n \in SyncRegCounts, NEW r \in Regs, task_iteration(n, r) PROVE Standing'
  <2>1. /\ "iter" \in Activations /\ "iter" \notin Functions /\ FrameType["iter"] = "loop"
        /\ Fits("iter", Last(prog).at) /\ UNCHANGED spbags_frame_skipped
    BY <1>3 DEF task_iteration, stacks, InSite, Activations, Functions, FrameType, Fits
  <2>2. CASE do_loop_iteration_first(n, r) /\ Enter(Activation("iter", TRUE))
    <3>1. /\ pc = "newloop" /\ CanPush /\ pc' = "body"
          /\ start_new_function("loop", IF n > 0 THEN n ELSE 1, r)
          /\ prog' = Append(prog, Activation("iter", TRUE))
      BY <2>2 DEF do_loop_iteration_first, Enter
    <3>2. (IF n > 0 THEN n ELSE 1) \in 0..MaxRegs
      BY <1>0
    <3>. QED
      BY <2>1, <3>1, <3>2, FramedStands
  <2>3. CASE do_loop_iteration_begin /\ Enter(Activation("iter", FALSE))
    <3>0. PICK e : e = Activation("iter", FALSE)
      OBVIOUS
    <3>1. /\ pc = "between" /\ pc' = "body" /\ HeadOnly /\ UNCHANGED <<frame_id, tree>>
          /\ prog' = Append(prog, e)
      BY <2>3, <3>0 DEF do_loop_iteration_begin, HeadOnly, Enter
    <3>2. e \in Entry /\ e.at = "iter" /\ e.fid = head.fid
      BY <2>1, <3>0, EntryTypes DEF Engine
    <3>3. Keeps(depth) /\ depth' = depth
      BY <3>1, HeadKeeps DEF Engine
    <3>4. /\ head.fid \in 0..frame_id /\ tree[head.fid].level = depth /\ head.type = "loop"
          /\ frames'[depth].fid = head.fid /\ frames'[depth].type = head.type
      <4>1. depth \in 1..depth /\ head = frames[depth]
        BY DEF Engine, TypeOK, head
      <4>. QED
        BY <3>1, <3>3, <4>1 DEF Engine, Shape, InTree, OnStack, Keeps
    <3>5. depth' = SlotIn(prog, Len(prog)) + 1
      BY <3>1, <3>3, TopPlace DEF Engine
    <3>6. /\ e.fid \in 0..frame_id' /\ tree'[e.fid].level = depth'
          /\ frames'[depth'].fid = e.fid /\ pc' # "between"
          /\ frames'[depth'].type = FrameType[e.at] /\ e.at \in Activations /\ e.at \notin Functions
          /\ Fits(e.at, Last(prog).at) /\ FALSE \in BOOLEAN
      BY <2>1, <3>1, <3>2, <3>3, <3>4
    <3>. QED
      BY <2>1, <3>1, <3>2, <3>3, <3>5, <3>6, EnterActivationStands DEF Engine
  <2>. QED
    BY <1>3, <2>2, <2>3 DEF task_iteration
<1>. QED
  BY <1>1, <1>2, <1>3

\* The end of a site, where the engine pops nothing.
LEMMA SiteEnds ==
    ASSUME Engine, TypeOK', Standing, Len(prog) > 1, Last(prog).at \notin Activations,
           prog' = Front(prog), UNCHANGED spbags_frame_skipped,
           Keeps(depth), depth' = depth, pc' = "between" <=> pc = "between"
    PROVE  Standing'
<1>1. /\ SlotIn(prog, Len(prog) - 1) = SlotIn(prog, Len(prog))
      /\ SlotIn(prog, Len(prog)) = IF pc = "between" THEN depth - 1 ELSE depth
      /\ depth \in Nat
  BY TopPlace, TopTwo DEF Engine
<1>2. /\ SlotIn(prog, Len(prog) - 1) <= depth
      /\ SlotIn(prog, Len(prog) - 1) = IF pc' = "between" THEN depth' - 1 ELSE depth'
  BY <1>1
<1>3. spbags_frame_skipped' = IF Last(prog).at \in Functions THEN Front(spbags_frame_skipped)
                              ELSE spbags_frame_skipped
  BY DEF Functions, Activations
<1>. QED
  BY <1>2, <1>3, LeaveStands DEF Engine

\* The end of an activation whose frame is popped.
LEMMA FramedEnds ==
    ASSUME Engine, TypeOK', Standing, Pop, pc # "between",
           \/ Last(prog).at \in Activations \ Functions
           \/ Last(prog).at \in Functions /\ ~Last(spbags_frame_skipped),
           prog' = Front(prog),
           spbags_frame_skipped' = IF Last(prog).at \in Functions THEN Front(spbags_frame_skipped)
                                   ELSE spbags_frame_skipped
    PROVE  Standing'
<1>1. Keeps(depth - 1) /\ depth > 1 /\ depth' = depth - 1 /\ pc' # "between"
  BY PopKeeps DEF Engine
<1>2. Len(prog) > 1
  BY TopLong DEF Engine, Activations, Functions
<1>3. /\ SlotIn(prog, Len(prog)) = SlotIn(prog, Len(prog) - 1) + 1
      /\ SlotIn(prog, Len(prog)) = depth /\ depth \in Nat
  BY <1>2, TopPlace, TopTwo DEF Engine
<1>4. SlotIn(prog, Len(prog) - 1) \in Nat
  <2>1. Len(prog) - 1 \in 1..Len(prog)
    BY <1>2, TopTwo DEF Engine
  <2>2. StandsAt(prog, spbags_frame_skipped, Len(prog) - 1)
    BY <2>1 DEF Standing, OnFrames
  <2>. QED
    BY <2>2 DEF StandsAt
<1>5. SlotIn(prog, Len(prog) - 1) = depth - 1 /\ SlotIn(prog, Len(prog) - 1) <= depth - 1
  BY <1>3, <1>4
<1>. QED
  BY <1>1, <1>2, <1>5, LeaveStands DEF Engine

\* Functions, tasks and iterations are left.
LEMMA ExitsStand ==
    ASSUME Engine, TypeOK', Standing, func_exit \/ task_exit \/ task_exit_iteration
    PROVE  Standing'
<1>1. CASE func_exit
  <2>1. /\ pc = "body" /\ Last(prog).at \in Functions /\ prog' = Front(prog)
        /\ spbags_frame_skipped' = Front(spbags_frame_skipped)
        /\ Last(prog).at # "call"
    BY <1>1 DEF func_exit, Running, Leave, Functions
  <2>2. CASE ~Last(spbags_frame_skipped)
    <3>1. Pop
      BY <1>1, <2>2 DEF func_exit, LeavesFrame, Pop
    <3>. QED
      BY <2>1, <2>2, <3>1, FramedEnds
  <2>3. CASE Last(spbags_frame_skipped)
    <3>1. UNCHANGED vars
      BY <1>1, <2>3 DEF func_exit, LeavesFrame
    <3>2. Keeps(depth) /\ depth' = depth /\ pc' # "between"
      BY <2>1, <3>1, HeadKeeps DEF Engine, vars
    <3>3. /\ Len(prog) > 1
          /\ SlotIn(prog, Len(prog) - 1) = SlotIn(prog, Len(prog))
          /\ SlotIn(prog, Len(prog)) = depth /\ depth \in Nat
      <4>1. Len(prog) > 1
        BY <2>1, TopLong DEF Engine
      <4>. QED
        BY <2>1, <2>3, <4>1, TopPlace, TopTwo DEF Engine
    <3>4. SlotIn(prog, Len(prog) - 1) <= depth
      BY <3>3
    <3>. QED
      BY <2>1, <3>2, <3>3, <3>4, LeaveStands DEF Engine
  <2>. QED
    BY <2>2, <2>3
<1>2. CASE task_exit
  <2>1. /\ pc = "body" /\ Last(prog).at = "task" /\ prog' = Front(prog)
        /\ UNCHANGED spbags_frame_skipped /\ Pop
        /\ "task" \in Activations \ Functions
    BY <1>2 DEF task_exit, InSite, return_from_detach, Leave, Pop, Activations, Functions
  <2>. QED
    BY <2>1, FramedEnds
<1>3. CASE task_exit_iteration
  <2>1. /\ pc = "body" /\ pc' = "between" /\ Last(prog).at = "iter" /\ prog' = Front(prog)
        /\ UNCHANGED spbags_frame_skipped /\ do_loop_iteration_end
        /\ "iter" \in Activations \ Functions
    BY <1>3 DEF task_exit_iteration, stacks, InSite, do_loop_iteration_end, Leave,
                Activations, Functions
  <2>2. Keeps(depth) /\ depth' = depth
    BY <2>1, HeadKeeps DEF Engine
  <2>3. Len(prog) > 1
    BY <2>1, TopLong DEF Engine
  <2>4. /\ SlotIn(prog, Len(prog)) = SlotIn(prog, Len(prog) - 1) + 1
        /\ SlotIn(prog, Len(prog)) = depth /\ depth \in Nat
    BY <2>1, <2>3, TopPlace, TopTwo DEF Engine
  <2>5. SlotIn(prog, Len(prog) - 1) \in Nat
    <3>1. Len(prog) - 1 \in 1..Len(prog)
      BY <2>3, TopTwo DEF Engine
    <3>2. StandsAt(prog, spbags_frame_skipped, Len(prog) - 1)
      BY <3>1 DEF Standing, OnFrames
    <3>. QED
      BY <3>2 DEF StandsAt
  <2>6. SlotIn(prog, Len(prog) - 1) = depth - 1 /\ SlotIn(prog, Len(prog) - 1) <= depth
    BY <2>4, <2>5
  <2>. QED
    BY <2>1, <2>2, <2>3, <2>6, LeaveStands DEF Engine
<1>. QED
  BY <1>1, <1>2, <1>3

\* Sites are left, the program goes on or syncs.
LEMMA OthersStand ==
    ASSUME Engine, TypeOK', Standing,
           \/ after_call \/ detach_continue_iteration \/ access \/ after_loop
           \/ \E is_unwind \in BOOLEAN : detach_continue(is_unwind)
           \/ \E r \in Regs : sync(r)
           \/ UNCHANGED hvars
    PROVE  Standing'
<1>1. CASE after_call
  <2>1. /\ Len(prog) > 1 /\ Last(prog).at = "call" /\ prog' = Front(prog)
        /\ UNCHANGED <<vars, spbags_frame_skipped>>
    BY <1>1 DEF after_call, InSite, Leave
  <2>2. Keeps(depth) /\ depth' = depth /\ pc' = pc
    BY <2>1, HeadKeeps DEF Engine, vars
  <2>. QED
    BY <2>1, <2>2, SiteEnds DEF Activations
<1>2. CASE detach_continue_iteration
  <2>1. /\ Last(prog).at = "idetach" /\ prog' = Front(prog)
        /\ UNCHANGED <<vars, spbags_frame_skipped>>
    BY <1>2 DEF detach_continue_iteration, InSite, Leave, stacks
  <2>2. Keeps(depth) /\ depth' = depth /\ pc' = pc
    BY <2>1, HeadKeeps DEF Engine, vars
  <2>3. Len(prog) > 1
    BY <2>1, TopLong DEF Engine
  <2>. QED
    BY <2>1, <2>2, <2>3, SiteEnds DEF Activations
<1>3. CASE access
  <2>1. UNCHANGED <<prog, spbags_frame_skipped>> /\ pc' = pc /\ (HeadOnly \/ UNCHANGED vars)
    BY <1>3 DEF access, stacks, HeadOnly, record_access, vars
  <2>2. Keeps(depth) /\ depth' = depth
    BY <2>1, HeadKeeps DEF Engine, vars
  <2>. QED
    BY <2>1, <2>2, StandingStays DEF Engine
<1>4. CASE \E is_unwind \in BOOLEAN : detach_continue(is_unwind)
  <2>1. /\ Last(prog).at = "detach" /\ prog' = Front(prog) /\ HeadOnly
        /\ UNCHANGED spbags_frame_skipped /\ pc = "continue" /\ pc' = "body"
    BY <1>4 DEF detach_continue, InSite, Leave, do_detach_unwind, do_detach_continue, HeadOnly
  <2>2. Keeps(depth) /\ depth' = depth
    BY <2>1, HeadKeeps DEF Engine
  <2>3. Len(prog) > 1
    BY <2>1, TopLong DEF Engine
  <2>. QED
    BY <2>1, <2>2, <2>3, SiteEnds DEF Activations
<1>5. ASSUME NEW r \in Regs, sync(r) PROVE Standing'
  <2>1. HeadOnly /\ UNCHANGED spbags_frame_skipped /\ pc' = pc
    BY <1>5 DEF sync, do_sync, HeadOnly
  <2>2. Keeps(depth) /\ depth' = depth
    BY <2>1, HeadKeeps DEF Engine
  <2>3. CASE UNCHANGED prog
    BY <2>1, <2>2, <2>3, StandingStays DEF Engine
  <2>4. CASE Last(prog).at = "loopsync" /\ prog' = Front(prog)
    <3>1. Len(prog) > 1
      BY <2>4, TopLong DEF Engine
    <3>. QED
      BY <2>1, <2>2, <2>4, <3>1, SiteEnds DEF Activations
  <2>. QED
    BY <1>5, <2>3, <2>4 DEF sync, InSite, Leave
<1>6. CASE after_loop
  <2>1. /\ Last(prog).at = "loop" /\ UNCHANGED spbags_frame_skipped /\ Pop /\ pc = "between"
    BY <1>6 DEF after_loop, InSite, do_loop_end, Pop
  <2>2. Keeps(depth - 1) /\ depth' = depth - 1 /\ pc' # "between"
    BY <2>1, PopKeeps DEF Engine
  <2>3. Len(prog) > 1
    BY <2>1, TopLong DEF Engine
  <2>4. CASE SyncAfterLoop
    <3>0. PICK e : e = [at |-> "loopsync", fid |-> 0, reg |-> tree[head.fid].reg]
      OBVIOUS
    <3>1. e \in Entry /\ e.at = "loopsync" /\ prog' = Append(Front(prog), e)
      BY <1>6, <2>4, <3>0, EntryTypes DEF after_loop, Engine
    <3>. QED
      BY <2>1, <2>2, <2>3, <3>1, LoopSyncStands DEF Engine
  <2>5. CASE ~SyncAfterLoop
    <3>1. prog' = Front(prog)
      BY <1>6, <2>5 DEF after_loop
    <3>2. /\ SlotIn(prog, Len(prog) - 1) = SlotIn(prog, Len(prog))
          /\ SlotIn(prog, Len(prog)) = depth - 1 /\ depth \in Nat
      BY <2>1, <2>3, TopPlace, TopTwo DEF Engine, Activations
    <3>3. SlotIn(prog, Len(prog) - 1) <= depth - 1
      BY <3>2
    <3>. QED
      BY <2>1, <2>2, <2>3, <3>1, <3>2, <3>3, LeaveStands DEF Engine, Functions
  <2>. QED
    BY <2>4, <2>5
<1>7. CASE UNCHANGED hvars
  <2>1. UNCHANGED <<prog, spbags_frame_skipped, depth, frames, frame_id, tree, pc>>
    BY <1>7 DEF hvars, vars, stacks
  <2>2. Keeps(depth) /\ depth' = depth
    BY <2>1, HeadKeeps DEF Engine
  <2>. QED
    BY <2>1, <2>2, StandingStays DEF Engine
<1>. QED
  BY <1>1, <1>2, <1>3, <1>4, <1>5, <1>6, <1>7

\* Every step keeps the program on its frames.
LEMMA StandingStep ==
    ASSUME Engine, TypeOK', Standing, [DriverNext]_hvars
    PROVE  Standing'
  BY SitesStand, EntriesStand, ExitsStand, OthersStand DEF DriverNext

-----------------------------------------------------------------------------
(***************************************************************************)
(* The hooks keep the states and the call stack beside the program.        *)
(***************************************************************************)
\* Program q keeps the first n places of p and may have one more; no place
\* is serial that was not, and the new one only above a serial place.
Moves(p, s, q, t, n) ==
    /\ Alignment(q, t) /\ n \in 1..Len(p) /\ Agree(q, p, n)
    /\ Len(q) = n \/ Len(q) = n + 1
    /\ \A j \in 1..n : StateIn(q, t, j) = 0 => StateIn(p, s, j) = 0
    /\ Len(q) = n + 1 /\ StateIn(q, t, n + 1) = 0 => StateIn(p, s, n) = 0

\* A place is entered.
LEMMA MoveEnter ==
    ASSUME NEW p, NEW s, Alignment(p, s), NEW e \in Entry,
           e.at \in Parallel => Last(s) = 1,
           NEW t, t = IF e.at \in Pushing THEN s \o <<Last(s), Last(s)>> ELSE s
    PROVE  Moves(p, s, Append(p, e), t, Len(p))
<1>0. PICK n, q : n = Len(p) /\ q = Append(p, e)
  OBVIOUS
<1>1. p \in Seq(Entry) /\ n \in Nat \ {0} /\ Last(s) = StateIn(p, s, n)
  BY <1>0, LevelFacts DEF Alignment
<1>2. Len(q) = n + 1 /\ Agree(q, p, n)
  BY <1>0, <1>1, StackPush DEF Agree
<1>3. /\ Alignment(q, t) /\ StateIn(q, t, n + 1) = StateIn(p, s, n)
      /\ \A j \in 1..n : StateIn(q, t, j) = StateIn(p, s, j)
  <2>1. CASE e.at \in Pushing
    BY <1>0, <1>1, <2>1, EnterPushing
  <2>2. CASE e.at \notin Pushing
    BY <1>0, <1>1, <2>2, EnterSite
  <2>. QED
    BY <2>1, <2>2
<1>4. n \in 1..Len(p)
  BY <1>0, <1>1
<1>. QED
  BY <1>0, <1>2, <1>3, <1>4 DEF Moves

\* A place is entered by a detach.
LEMMA MoveRaise ==
    ASSUME NEW p, NEW s, Alignment(p, s), NEW e \in Entry, e.at \notin Pushing
    PROVE  Moves(p, s, Append(p, e), [s EXCEPT ![Len(s)] = 1], Len(p))
<1>0. PICK n, q, t : n = Len(p) /\ q = Append(p, e) /\ t = [s EXCEPT ![Len(s)] = 1]
  OBVIOUS
<1>1. p \in Seq(Entry) /\ n \in Nat \ {0}
  BY <1>0, LevelFacts DEF Alignment
<1>2. /\ Alignment(p, t) /\ Last(t) = 1
      /\ \A j \in 1..n : StateIn(p, t, j) = 0 => StateIn(p, s, j) = 0
  BY <1>0, Raise
<1>3. /\ Len(q) = n + 1 /\ Agree(q, p, n) /\ n \in 1..Len(p)
  BY <1>0, <1>1, StackPush DEF Agree
<1>4. /\ Alignment(q, t) /\ StateIn(q, t, n + 1) = 1
      /\ \A j \in 1..n : StateIn(q, t, j) = StateIn(p, t, j)
  BY <1>0, <1>2, EnterSite
<1>5. Moves(p, s, q, t, n)
  <2>1. /\ \A j \in 1..n : StateIn(q, t, j) = 0 => StateIn(p, s, j) = 0
        /\ StateIn(q, t, n + 1) # 0
    BY <1>2, <1>4
  <2>. QED
    BY <1>3, <1>4, <2>1 DEF Moves
<1>. QED
  BY <1>0, <1>5

\* The top place is left.
LEMMA MoveLeave ==
    ASSUME NEW p, NEW s, Alignment(p, s), Len(p) > 1,
           NEW t, t = IF Last(p).at \in Pushing THEN Front(Front(s)) ELSE s
    PROVE  Moves(p, s, Front(p), t, Len(p) - 1)
<1>0. PICK n, q : n = Len(p) - 1 /\ q = Front(p)
  OBVIOUS
<1>1. n \in Nat \ {0} /\ n \in 1..Len(p)
  BY <1>0, LevelFacts
<1>2. /\ Alignment(q, t) /\ Len(q) = n
      /\ \A j \in 1..n : q[j] = p[j] /\ StateIn(q, t, j) = StateIn(p, s, j)
  <2>1. CASE Last(p).at \in Pushing
    BY <1>0, <2>1, LeavePushing
  <2>2. CASE Last(p).at \notin Pushing
    BY <1>0, <2>2, LeaveSite
  <2>. QED
    BY <2>1, <2>2
<1>3. Agree(q, p, n)
  BY <1>2 DEF Agree
<1>. QED
  BY <1>0, <1>1, <1>2, <1>3 DEF Moves

\* A finished loop gives place to its sync.
LEMMA MoveReplace ==
    ASSUME NEW p, NEW s, Alignment(p, s), Len(p) > 1, Last(p).at \in Pushing,
           NEW e \in Entry, e.at \notin Pushing \cup Parallel
    PROVE  Moves(p, s, Append(Front(p), e), Front(Front(s)), Len(p) - 1)
<1>0. PICK n, o, t : n = Len(p) - 1 /\ o = Front(p) /\ t = Front(Front(s))
  OBVIOUS
<1>1. Moves(p, s, o, t, n)
  BY <1>0, MoveLeave
<1>2. n \in Nat \ {0} /\ n \in 1..Len(p) /\ n \in 1..n
  BY <1>0, LevelFacts
<1>3. Len(o) = n /\ Alignment(o, t)
  BY <1>0, <1>1, LeavePushing DEF Moves
<1>4. PICK q : q = Append(o, e)
  OBVIOUS
<1>5. Moves(o, t, q, t, n)
  <2>1. t = IF e.at \in Pushing THEN t \o <<Last(t), Last(t)>> ELSE t
    OBVIOUS
  <2>. QED
    BY <1>3, <1>4, <2>1, MoveEnter
<1>6. Len(q) = n + 1
  <2>1. o \in Seq(Entry)
    BY <1>3 DEF Alignment
  <2>. QED
    BY <1>3, <1>4, <2>1, StackPush
<1>7. Agree(q, p, n)
  BY <1>1, <1>5 DEF Moves, Agree
<1>8. /\ \A j \in 1..n : StateIn(q, t, j) = 0 => StateIn(p, s, j) = 0
      /\ StateIn(q, t, n + 1) = 0 => StateIn(p, s, n) = 0
  <2>1. \A j \in 1..n : StateIn(o, t, j) = 0 => StateIn(p, s, j) = 0
    BY <1>1 DEF Moves
  <2>2. /\ \A j \in 1..n : StateIn(q, t, j) = 0 => StateIn(o, t, j) = 0
        /\ StateIn(q, t, n + 1) = 0 => StateIn(o, t, n) = 0
    BY <1>5, <1>6 DEF Moves
  <2>. QED
    BY <1>2, <2>1, <2>2
<1>9. Alignment(q, t)
  BY <1>5 DEF Moves
<1>. QED
  BY <1>0, <1>2, <1>4, <1>6, <1>7, <1>8, <1>9 DEF Moves

\* The program stays where it is.
LEMMA MoveStay ==
    ASSUME NEW p, NEW s, Alignment(p, s)
    PROVE  Moves(p, s, p, s, Len(p))
<1>1. Len(p) \in Nat \ {0} /\ Len(p) \in 1..Len(p) /\ Len(p) # Len(p) + 1
  BY LevelFacts
<1>. QED
  BY <1>1 DEF Moves, Agree

\* A sync of the code at place m: no place is serial from there on unless
\* the code that called it is.
Restored(p, s, q, t, m) ==
    /\ Alignment(q, t) /\ m \in 2..Len(p) /\ Len(q) \in 1..Len(p) /\ Agree(q, p, Len(q))
    /\ \A j \in 1..Len(q) :
          StateIn(q, t, j) = IF j < m THEN StateIn(p, s, j) ELSE StateIn(p, s, m - 1)

\* The sync of a function or a task, or of its finished loop.
LEMMA MoveRestore ==
    ASSUME NEW p, NEW s, Alignment(p, s), NEW m \in 2..Len(p), p[m].at \in Pushing,
           p[m].at \in Parallel => p[m - 1].at \in Parallel,
           NEW q, \/ m = Len(p) /\ q = p
                  \/ /\ m = Len(p) - 1 /\ p[Len(p)].at \notin Pushing \cup Parallel
                     /\ q = p \/ q = Front(p)
    PROVE  Restored(p, s, q, [s EXCEPT ![Len(s)] = s[Len(s) - 1]], m)
<1>0. PICK t : t = [s EXCEPT ![Len(s)] = s[Len(s) - 1]]
  OBVIOUS
<1>1. /\ Alignment(p, t)
      /\ \A j \in 1..Len(p) :
            StateIn(p, t, j) = IF j < m THEN StateIn(p, s, j) ELSE StateIn(p, s, m - 1)
  BY <1>0, Restore
<1>2. Len(p) \in Nat \ {0} /\ Len(p) \in 1..Len(p) /\ Last(p) = p[Len(p)]
  BY LevelFacts
<1>3. CASE q = p
  <2>1. Agree(p, p, Len(p))
    BY DEF Agree
  <2>. QED
    BY <1>0, <1>1, <1>2, <1>3, <2>1 DEF Restored
<1>4. CASE m = Len(p) - 1 /\ p[Len(p)].at \notin Pushing \cup Parallel /\ q = Front(p)
  <2>0. PICK n : n = Len(p) - 1
    OBVIOUS
  <2>1. Len(p) > 1 /\ Last(p).at \notin Pushing /\ n \in 1..Len(p)
    BY <1>2, <1>4, <2>0
  <2>2. /\ Alignment(q, t) /\ Len(q) = n
        /\ \A j \in 1..n : q[j] = p[j] /\ StateIn(q, t, j) = StateIn(p, t, j)
    BY <1>1, <1>4, <2>0, <2>1, LeaveSite
  <2>3. \A j \in 1..n : j \in 1..Len(p)
    BY <2>1
  <2>4. Agree(q, p, n)
    BY <2>2 DEF Agree
  <2>5. \A j \in 1..n :
            StateIn(q, t, j) = IF j < m THEN StateIn(p, s, j) ELSE StateIn(p, s, m - 1)
    BY <1>1, <2>2, <2>3
  <2>. QED
    BY <1>0, <2>1, <2>2, <2>4, <2>5 DEF Restored
<1>. QED
  BY <1>3, <1>4

Aligned == Alignment(prog, parallel_execution)

\* Place m is that of the function or task whose frame is at the head.
SyncsAt(m) ==
    /\ m \in 2..Len(prog) /\ prog[m].at \in {"cilk", "task"}
    /\ prog[m].at = "task" => prog[m - 1].at = "detach"
    /\ m = Len(prog) \/ (m = Len(prog) - 1 /\ Last(prog).at = "loopsync")
    /\ SlotIn(prog, m) = depth
    /\ prog[m].at = "cilk" => SlotIn(prog, m - 1) = depth - 1 /\ head.type = "spawner"

\* Who syncs outside a loop's frame.
LEMMA SyncPlace ==
    ASSUME Engine, Standing, pc = "body", head.type # "loop",
           Last(prog).at \in Spawners \cup {"loopsync"}
    PROVE  \E m \in 2..Len(prog) : SyncsAt(m)
<1>0. PICK p, k, n : p = prog /\ k = spbags_frame_skipped /\ n = Len(prog)
  OBVIOUS
<1>1. WellFormed(p) /\ OnFrames(p, k)
  BY <1>0 DEF Standing
<1>2. /\ n \in Nat /\ n > 1 /\ Last(prog) = p[n] /\ SlotIn(p, n) = depth /\ depth \in Nat
      /\ head = frames[depth]
  BY <1>0, TopPlace, TopLong DEF Engine, Spawners, head
<1>3. ASSUME NEW m \in 2..n, p[m].at \in Spawners, SlotIn(p, m) = depth,
             m = n \/ (m = n - 1 /\ p[n].at = "loopsync")
      PROVE  SyncsAt(m)
  <2>1. m \in 1..Len(p) /\ m - 1 \in 1..Len(p) /\ m > 1
    BY <1>0, <1>2
  <2>2. StandsAt(p, k, m) /\ StandsAt(p, k, m - 1) /\ Fits(p[m].at, p[m - 1].at)
    BY <1>0, <1>1, <1>3, <2>1 DEF OnFrames, WellFormed
  <2>3. /\ ~Skips(p, k, m) /\ SlotIn(p, m) = SlotIn(p, m - 1) + 1
        /\ frames[depth].type = FrameType[p[m].at] /\ SlotIn(p, m - 1) \in Nat
    BY <1>3, <2>1, <2>2 DEF StandsAt, Spawners, Activations
  <2>4. p[m].at # "iter"
    BY <1>2, <2>3 DEF FrameType
  <2>5. p[m].at \in {"cilk", "task"} /\ (p[m].at = "cilk" => head.type = "spawner")
    BY <1>2, <1>3, <2>3, <2>4 DEF FrameType, Spawners
  <2>6. p[m].at = "task" => p[m - 1].at = "detach"
    BY <2>2 DEF Fits
  <2>7. SlotIn(p, m - 1) = depth - 1
    BY <1>2, <1>3, <2>3
  <2>. QED
    BY <1>0, <1>2, <1>3, <2>5, <2>6, <2>7 DEF SyncsAt
<1>4. CASE p[n].at \in Spawners
  <2>1. n \in 2..n
    BY <1>2
  <2>. QED
    BY <1>0, <1>2, <1>3, <1>4, <2>1
<1>5. CASE p[n].at = "loopsync"
  <2>1. n - 1 \in 1..Len(p)
    BY <1>0, <1>2
  <2>2. Fits("loopsync", p[n - 1].at) /\ SlotIn(p, n - 1) = SlotIn(p, n)
    BY <1>0, <1>2, <1>5, TopTwo DEF Engine, Activations
  <2>3. p[n - 1].at \in Spawners
    BY <2>2 DEF Fits
  <2>4. n - 1 # 1
    BY <1>1, <2>3 DEF WellFormed, Spawners
  <2>5. n - 1 \in 2..n /\ n - 1 \in 2..Len(prog)
    BY <1>0, <1>2, <2>4
  <2>. QED
    BY <1>2, <1>3, <1>5, <2>2, <2>3, <2>5
<1>. QED
  BY <1>2, <1>4, <1>5

\* A function that is entered has no task outstanding.
NewFunction(n) ==
    Len(prog') = n + 1 /\ Last(prog').at \in Functions
      => \/ Last(spbags_frame_skipped')
         \/ pc' = "body" /\ ~HasPbags(frames'[depth'])

\* A step keeps the first n places of the program and enters at most one.
StepMoves ==
    \E n \in Nat : /\ Moves(prog, parallel_execution, prog', parallel_execution', n)
                   /\ NewFunction(n)

\* A sync takes the state of the activation at place m back to its entry.
StepRestores ==
    \E m \in Nat :
        /\ Restored(prog, parallel_execution, prog', parallel_execution', m)
        /\ SyncsAt(m) /\ depth' = depth /\ pc = "body" /\ pc' = "body"
        /\ ~HasPbags(frames'[depth]) /\ frames'[depth].type = head.type

\* The states when a site is entered.
LEMMA SiteMoves ==
    ASSUME TypeOK, Standing, Aligned, NEW e \in Entry, e.at \notin Activations,
           prog' = Append(prog, e),
           \/ /\ e.at \notin Parallel
              /\ parallel_execution' =
                    IF e.at \in Pushing
                    THEN parallel_execution \o <<Last(parallel_execution), Last(parallel_execution)>>
                    ELSE parallel_execution
           \/ e.at \notin Pushing /\ parallel_execution' = PeersChanged
    PROVE  StepMoves
<1>0. PICK p, s, n : p = prog /\ s = parallel_execution /\ n = Len(prog)
  OBVIOUS
<1>1. n \in Nat /\ p \in Seq(Entry)
  BY <1>0, TopPlace DEF Standing, WellFormed
<1>2. Moves(p, s, prog', parallel_execution', n)
  <2>1. CASE /\ e.at \notin Parallel
             /\ parallel_execution' = IF e.at \in Pushing THEN s \o <<Last(s), Last(s)>> ELSE s
    BY <1>0, <2>1, MoveEnter DEF Aligned
  <2>2. CASE e.at \notin Pushing /\ parallel_execution' = [s EXCEPT ![Len(s)] = 1]
    BY <1>0, <2>2, MoveRaise DEF Aligned
  <2>. QED
    BY <1>0, <2>1, <2>2 DEF PeersChanged
<1>3. NewFunction(n)
  <2>1. Last(prog') = e
    BY <1>0, <1>1, StackPush
  <2>. QED
    BY <2>1 DEF NewFunction, Functions, Activations
<1>. QED
  BY <1>0, <1>1, <1>2, <1>3 DEF StepMoves

\* The states when an activation is entered.
LEMMA EntryMoves ==
    ASSUME TypeOK, Standing, Aligned, NEW e \in Entry, e.at \in Activations,
           prog' = Append(prog, e), e.at \in Parallel => Last(prog).at \in Parallel,
           parallel_execution' =
              IF e.at \in Pushing
              THEN parallel_execution \o <<Last(parallel_execution), Last(parallel_execution)>>
              ELSE parallel_execution,
           e.at \in Functions => \/ Last(spbags_frame_skipped')
                                 \/ pc' = "body" /\ ~HasPbags(frames'[depth'])
    PROVE  StepMoves
<1>0. PICK p, s, n : p = prog /\ s = parallel_execution /\ n = Len(prog)
  OBVIOUS
<1>1. n \in Nat /\ n \in 1..n /\ Last(p) = p[n] /\ p \in Seq(Entry)
  BY <1>0, TopPlace DEF Standing, WellFormed
<1>2. e.at \in Parallel => Last(s) = 1
  <2>1. Last(p).at \in Parallel => StateIn(p, s, n) = 1
    BY <1>0, <1>1 DEF Aligned, Alignment
  <2>2. Last(s) = StateIn(p, s, n)
    BY <1>0, LevelFacts DEF Aligned
  <2>. QED
    BY <1>0, <2>1, <2>2
<1>3. Moves(p, s, prog', parallel_execution', n)
  BY <1>0, <1>2, MoveEnter DEF Aligned
<1>4. NewFunction(n)
  <2>1. Last(prog') = e
    BY <1>0, <1>1, StackPush
  <2>. QED
    BY <2>1 DEF NewFunction
<1>. QED
  BY <1>0, <1>1, <1>3, <1>4 DEF StepMoves

\* The states when the top place is left.
LEMMA LeaveMoves ==
    ASSUME TypeOK, Standing, Aligned, Len(prog) > 1, prog' = Front(prog),
           parallel_execution' =
              IF Last(prog).at \in Pushing THEN Front(Front(parallel_execution))
              ELSE parallel_execution
    PROVE  StepMoves
<1>0. PICK n : n = Len(prog) - 1
  OBVIOUS
<1>1. Moves(prog, parallel_execution, prog', parallel_execution', n)
  BY <1>0, MoveLeave DEF Aligned
<1>2. n \in Nat /\ Len(prog') = n /\ n # n + 1
  <2>1. Len(prog) \in Nat /\ prog \in Seq(Entry) /\ Len(prog) # 0
    BY TopPlace DEF Standing, WellFormed
  <2>2. Len(Front(prog)) = Len(prog) - 1
    BY <2>1, StackPop
  <2>. QED
    BY <1>0, <2>1, <2>2
<1>3. NewFunction(n)
  BY <1>2 DEF NewFunction
<1>. QED
  BY <1>1, <1>2, <1>3 DEF StepMoves

\* The states when the program stays where it is.
LEMMA StayMoves ==
    ASSUME TypeOK, Standing, Aligned, UNCHANGED <<prog, parallel_execution>>
    PROVE  StepMoves
<1>0. PICK n : n = Len(prog)
  OBVIOUS
<1>1. n \in Nat /\ n # n + 1 /\ Len(prog') = n
  BY <1>0, TopPlace
<1>2. Moves(prog, parallel_execution, prog', parallel_execution', n)
  BY <1>0, MoveStay DEF Aligned
<1>3. NewFunction(n)
  BY <1>1 DEF NewFunction
<1>. QED
  BY <1>1, <1>2, <1>3 DEF StepMoves

\* The states at a call, a spawn or a loop.
LEMMA SitesMove ==
    ASSUME TypeOK, Standing, Aligned, before_call \/ detach \/ before_loop \/ detach_iteration
    PROVE  StepMoves
<1>0. ASSUME NEW at \in {"call", "detach", "loop", "idetach"}, prog' = Append(prog, At(at)),
             \/ /\ at \notin Parallel
                /\ parallel_execution' =
                      IF at \in Pushing
                      THEN parallel_execution
                             \o <<Last(parallel_execution), Last(parallel_execution)>>
                      ELSE parallel_execution
             \/ at \notin Pushing /\ parallel_execution' = PeersChanged
      PROVE  StepMoves
  <2>1. PICK e : e = At(at)
    OBVIOUS
  <2>2. e \in Entry /\ e.at = at /\ at \notin Activations
    BY <2>1, EntryTypes DEF Activations
  <2>. QED
    BY <1>0, <2>1, <2>2, SiteMoves
<1>1. CASE before_call
  <2>1. prog' = Append(prog, At("call")) /\ parallel_execution' = parallel_execution
    BY <1>1 DEF before_call, Enter
  <2>2. "call" \notin Parallel /\ "call" \notin Pushing
    BY DEF Parallel, Pushing, Functions
  <2>. QED
    BY <1>0, <2>1, <2>2
<1>2. CASE detach
  <2>1. prog' = Append(prog, At("detach")) /\ parallel_execution' = PeersChanged
    BY <1>2 DEF detach, Enter
  <2>2. "detach" \notin Pushing
    BY DEF Pushing, Functions
  <2>. QED
    BY <1>0, <2>1, <2>2
<1>3. CASE before_loop
  <2>1. /\ prog' = Append(prog, At("loop"))
        /\ parallel_execution' =
              parallel_execution \o <<Last(parallel_execution), Last(parallel_execution)>>
    BY <1>3 DEF before_loop, Enter, push_parallel_execution
  <2>2. "loop" \in Pushing /\ "loop" \notin Parallel
    BY DEF Pushing, Parallel
  <2>. QED
    BY <1>0, <2>1, <2>2
<1>4. CASE detach_iteration
  <2>1. prog' = Append(prog, At("idetach")) /\ parallel_execution' = PeersChanged
    BY <1>4 DEF detach_iteration, Enter
  <2>2. "idetach" \notin Pushing
    BY DEF Pushing, Functions
  <2>. QED
    BY <1>0, <2>1, <2>2
<1>. QED
  BY <1>1, <1>2, <1>3, <1>4

\* The states at the entry of a function, a task or an iteration.
LEMMA EntriesMove ==
    ASSUME TypeOK, Standing, Aligned,
           \/ \E n \in SyncRegCounts, may_spawn \in BOOLEAN : func_entry(may_spawn, n)
           \/ \E n \in SyncRegCounts, r \in Regs : task(n, r)
           \/ \E n \in SyncRegCounts, r \in Regs : task_iteration(n, r)
    PROVE  StepMoves
<1>0. ASSUME NEW at \in Activations, NEW framed \in BOOLEAN, framed => CanPush,
             prog' = Append(prog, Activation(at, framed)),
             at \in Parallel => Last(prog).at \in Parallel,
             parallel_execution' =
                IF at \in Pushing
                THEN parallel_execution
                       \o <<Last(parallel_execution), Last(parallel_execution)>>
                ELSE parallel_execution,
             at \in Functions => \/ Last(spbags_frame_skipped')
                                 \/ pc' = "body" /\ ~HasPbags(frames'[depth'])
      PROVE  StepMoves
  <2>1. PICK e : e = Activation(at, framed)
    OBVIOUS
  <2>2. e \in Entry /\ e.at = at
    BY <1>0, <2>1, EntryTypes
  <2>. QED
    BY <1>0, <2>1, <2>2, EntryMoves
<1>1. ASSUME NEW n \in SyncRegCounts, NEW may_spawn \in BOOLEAN, func_entry(may_spawn, n)
      PROVE  StepMoves
  <2>0. PICK at, framed : /\ at = (IF may_spawn THEN "cilk" ELSE "func")
                          /\ framed = ~SkipsFrame(may_spawn)
    OBVIOUS
  <2>1. /\ prog' = Append(prog, Activation(at, framed))
        /\ spbags_frame_skipped' = Append(spbags_frame_skipped, SkipsFrame(may_spawn))
        /\ parallel_execution' =
              parallel_execution \o <<Last(parallel_execution), Last(parallel_execution)>>
    BY <1>1, <2>0 DEF func_entry, Enter, push_parallel_execution
  <2>2. /\ at \in Activations /\ at \in Functions /\ at \in Pushing /\ at \notin Parallel
        /\ framed \in BOOLEAN
    BY <2>0 DEF Activations, Functions, Pushing, Parallel, SkipsFrame, is_local_synced
  <2>3. CASE ~framed
    <3>1. Last(spbags_frame_skipped')
      <4>1. SkipsFrame(may_spawn) = TRUE /\ TRUE \in BOOLEAN
        BY <2>0, <2>3 DEF SkipsFrame, is_local_synced
      <4>2. spbags_frame_skipped \in Seq(BOOLEAN)
        BY DEF Standing, SkipsOf
      <4>3. Last(Append(spbags_frame_skipped, TRUE)) = TRUE
        BY <4>1, <4>2, StackPush
      <4>. QED
        BY <2>1, <4>1, <4>3
    <3>. QED
      BY <1>0, <2>1, <2>2, <2>3, <3>1
  <2>4. CASE framed
    <3>1. CanPush /\ pc' = "body" /\ start_new_function("spawner", n, 0) /\ n \in 0..MaxRegs
      BY <1>1, <2>0, <2>4 DEF func_entry, do_enter
    <3>2. 0 \in Regs
      OBVIOUS
    <3>3. depth' = depth + 1 /\ frames'[depth + 1] = NewFrame("spawner", n)
      BY <3>1, <3>2, PushFacts
    <3>4. ~HasPbags(NewFrame("spawner", n))
      BY DEF NewFrame, HasPbags
    <3>. QED
      BY <1>0, <2>1, <2>2, <3>1, <3>3, <3>4
  <2>. QED
    BY <2>2, <2>3, <2>4
<1>2. ASSUME NEW n \in SyncRegCounts, NEW r \in Regs, task(n, r) PROVE StepMoves
  <2>1. /\ Last(prog).at = "detach" /\ CanPush
        /\ prog' = Append(prog, Activation("task", TRUE))
        /\ parallel_execution' =
              parallel_execution \o <<Last(parallel_execution), Last(parallel_execution)>>
    BY <1>2 DEF task, InSite, do_task, Enter, push_parallel_execution
  <2>2. /\ "task" \in Activations /\ "task" \notin Functions /\ "task" \in Pushing
        /\ "detach" \in Parallel /\ TRUE \in BOOLEAN
    BY DEF Activations, Functions, Pushing, Parallel
  <2>. QED
    BY <1>0, <2>1, <2>2
<1>3. ASSUME NEW n \in SyncRegCounts, NEW r \in Regs, task_iteration(n, r) PROVE StepMoves
  <2>1. Last(prog).at = "idetach" /\ parallel_execution' = parallel_execution
    BY <1>3 DEF task_iteration, InSite, stacks
  <2>2. /\ "iter" \in Activations /\ "iter" \notin Functions /\ "iter" \notin Pushing
        /\ "idetach" \in Parallel /\ TRUE \in BOOLEAN /\ FALSE \in BOOLEAN
    BY DEF Activations, Functions, Pushing, Parallel
  <2>3. CASE do_loop_iteration_first(n, r) /\ Enter(Activation("iter", TRUE))
    <3>1. CanPush /\ prog' = Append(prog, Activation("iter", TRUE))
      BY <2>3 DEF do_loop_iteration_first, Enter
    <3>. QED
      BY <1>0, <2>1, <2>2, <3>1
  <2>4. CASE do_loop_iteration_begin /\ Enter(Activation("iter", FALSE))
    <3>1. prog' = Append(prog, Activation("iter", FALSE))
      BY <2>4 DEF Enter
    <3>. QED
      BY <1>0, <2>1, <2>2, <3>1
  <2>. QED
    BY <1>3, <2>3, <2>4 DEF task_iteration
<1>. QED
  BY <1>1, <1>2, <1>3

\* The states when an activation or a site is left.
LEMMA ExitsMove ==
    ASSUME TypeOK, Standing, Aligned,
           \/ after_call \/ func_exit \/ task_exit \/ task_exit_iteration
           \/ detach_continue_iteration
           \/ \E is_unwind \in BOOLEAN : detach_continue(is_unwind)
    PROVE  StepMoves
<1>1. CASE func_exit \/ task_exit
  <2>1. /\ Last(prog).at \in Pushing /\ Last(prog).at # "call" /\ prog' = Front(prog)
        /\ parallel_execution' = Front(Front(parallel_execution))
    BY <1>1 DEF func_exit, task_exit, InSite, Leave, pop_parallel_execution, Pushing, Functions
  <2>. QED
    BY <2>1, TopLong, LeaveMoves
<1>2. CASE after_call
  <2>1. /\ Last(prog).at \notin Pushing /\ Len(prog) > 1 /\ prog' = Front(prog)
        /\ UNCHANGED parallel_execution
    BY <1>2 DEF after_call, InSite, Leave, Pushing, Functions
  <2>. QED
    BY <2>1, LeaveMoves
<1>3. CASE \/ task_exit_iteration \/ detach_continue_iteration
           \/ \E is_unwind \in BOOLEAN : detach_continue(is_unwind)
  <2>1. /\ Last(prog).at \notin Pushing /\ Last(prog).at # "call" /\ prog' = Front(prog)
        /\ UNCHANGED parallel_execution
    BY <1>3 DEF task_exit_iteration, detach_continue_iteration, detach_continue, InSite,
                Leave, Pushing, Functions, stacks
  <2>. QED
    BY <2>1, TopLong, LeaveMoves
<1>. QED
  BY <1>1, <1>2, <1>3

\* The states after a loop.
LEMMA LoopMoves ==
    ASSUME TypeOK, Standing, Aligned, after_loop
    PROVE  StepMoves
<1>1. /\ Last(prog).at = "loop" /\ Last(prog).at \in Pushing
      /\ parallel_execution' = Front(Front(parallel_execution))
  BY DEF after_loop, InSite, pop_parallel_execution, Pushing
<1>2. Len(prog) > 1
  BY <1>1, TopLong
<1>3. CASE ~SyncAfterLoop
  <2>1. prog' = Front(prog)
    BY <1>3 DEF after_loop
  <2>. QED
    BY <1>1, <1>2, <2>1, LeaveMoves
<1>4. CASE SyncAfterLoop
  <2>0. PICK e, n : /\ e = [at |-> "loopsync", fid |-> 0, reg |-> tree[head.fid].reg]
                    /\ n = Len(prog) - 1
    OBVIOUS
  <2>1. e \in Entry /\ e.at = "loopsync" /\ prog' = Append(Front(prog), e)
    BY <1>4, <2>0, EntryTypes DEF after_loop
  <2>2. e.at \notin Pushing \cup Parallel /\ e.at \notin Functions
    BY <2>1 DEF Pushing, Parallel, Functions
  <2>3. Moves(prog, parallel_execution, prog', parallel_execution', n)
    BY <1>1, <1>2, <2>0, <2>1, <2>2, MoveReplace DEF Aligned
  <2>4. NewFunction(n)
    <3>1. prog \in Seq(Entry) /\ Len(prog) # 0
      BY DEF Standing, WellFormed
    <3>2. Front(prog) \in Seq(Entry)
      BY <3>1, StackPop
    <3>3. Last(prog') = e
      BY <2>1, <3>2, StackPush
    <3>. QED
      BY <2>2, <3>3 DEF NewFunction
  <2>5. n \in Nat
    <3>1. Len(prog) \in Nat
      BY TopPlace
    <3>. QED
      BY <1>2, <2>0, <3>1
  <2>. QED
    BY <2>3, <2>4, <2>5 DEF StepMoves
<1>. QED
  BY <1>3, <1>4

\* The states after a sync.
LEMMA SyncMoves ==
    ASSUME Engine, Standing, Aligned, NEW r \in Regs, sync(r)
    PROVE  StepMoves \/ StepRestores
<1>0. PICK synced : synced = (~is_loop_frame(depth) /\ \A q \in Regs \ {r} : ~head.Pbags[q])
  OBVIOUS
<1>1. /\ pc = "body" /\ do_sync(r)
      /\ \/ Last(prog).at \in Spawners /\ prog' = prog
         \/ Last(prog).at = "loopsync" /\ prog' = Front(prog)
  BY DEF sync, Spawning, Running, InSite, Leave, Activations, Spawners
<1>2. parallel_execution' = IF synced THEN EntryStateRestored(synced) ELSE parallel_execution
  BY <1>0 DEF sync, StateAfterSync, EntryStateRestored
<1>3. CASE ~synced
  <2>1. parallel_execution' = parallel_execution
    BY <1>2, <1>3
  <2>2. CASE prog' = prog
    BY <2>1, <2>2, StayMoves DEF Engine
  <2>3. CASE Last(prog).at = "loopsync" /\ prog' = Front(prog)
    <3>1. Len(prog) > 1 /\ Last(prog).at \notin Pushing
      BY <2>3, TopLong DEF Engine, Pushing, Functions
    <3>. QED
      BY <2>1, <2>3, <3>1, LeaveMoves DEF Engine
  <2>. QED
    BY <1>1, <2>2, <2>3
<1>4. CASE synced
  <2>0. PICK p, s : p = prog /\ s = parallel_execution
    OBVIOUS
  <2>1. parallel_execution' = [s EXCEPT ![Len(s)] = s[Len(s) - 1]]
    BY <1>2, <1>4, <2>0 DEF EntryStateRestored
  <2>2. head.type # "loop" /\ \A q \in Regs \ {r} : ~head.Pbags[q]
    BY <1>0, <1>4 DEF is_loop_frame, head
  <2>3. PICK m \in 2..Len(prog) : SyncsAt(m)
    BY <1>1, <2>2, SyncPlace
  <2>4. /\ p[m].at \in Pushing
        /\ p[m].at \in Parallel => p[m - 1].at \in Parallel
        /\ Last(p) = p[Len(p)]
        /\ m = Len(p) \/ (m = Len(p) - 1 /\ Last(p).at = "loopsync")
    <3>1. Last(p) = p[Len(p)]
      BY <2>0 DEF Last
    <3>. QED
      BY <2>0, <2>3, <3>1 DEF SyncsAt, Pushing, Parallel, Functions
  <2>5. p[m].at # "loopsync" /\ "loopsync" \notin Pushing \cup Parallel
    BY <2>4 DEF Pushing, Parallel, Functions
  <2>6. ASSUME m = Len(p) PROVE Restored(p, s, prog', parallel_execution', m)
    <3>1. prog' = p
      BY <1>1, <2>0, <2>4, <2>5, <2>6
    <3>. QED
      BY <2>0, <2>1, <2>4, <2>6, <3>1, MoveRestore DEF Aligned
  <2>7. ASSUME m = Len(p) - 1, Last(p).at = "loopsync"
        PROVE  Restored(p, s, prog', parallel_execution', m)
    <3>1. prog' = Front(p)
      BY <1>1, <2>0, <2>7 DEF Spawners
    <3>. QED
      BY <2>0, <2>1, <2>4, <2>5, <2>7, <3>1, MoveRestore DEF Aligned
  <2>8. Restored(p, s, prog', parallel_execution', m)
    BY <2>4, <2>6, <2>7
  <2>9. /\ depth' = depth /\ pc' = "body" /\ ~HasPbags(frames'[depth])
        /\ frames'[depth].type = head.type
    <3>1. /\ depth' = depth /\ pc' = pc
          /\ frames' = [frames EXCEPT ![depth].Sbag_used = @ \/ head.Pbags[r],
                                      ![depth].Pbags[r] = FALSE,
                                      ![depth].InContin = @ \ {r + 1}]
      BY <1>1 DEF do_sync
    <3>2. depth \in Slots /\ frames \in [Slots -> FrameData] /\ frames[depth] \in FrameData
          /\ frames[depth].Pbags \in [Regs -> BOOLEAN]
      BY FrameFields DEF Engine, TypeOK
    <3>3. /\ frames'[depth].Pbags = [frames[depth].Pbags EXCEPT ![r] = FALSE]
          /\ frames'[depth].type = frames[depth].type
      BY <3>1, <3>2 DEF FrameData
    <3>. QED
      BY <1>1, <2>2, <3>1, <3>2, <3>3 DEF HasPbags, head
  <2>10. m \in Nat
    <3>1. Len(prog) \in Nat
      BY TopPlace DEF Engine
    <3>. QED
      BY <2>3, <3>1
  <2>. QED
    BY <1>1, <2>0, <2>3, <2>8, <2>9, <2>10 DEF StepRestores
<1>. QED
  BY <1>3, <1>4

\* Every step keeps the states beside the program.
LEMMA StatesStep ==
    ASSUME Engine, Standing, Aligned, [DriverNext]_hvars
    PROVE  StepMoves \/ StepRestores
<1>1. CASE access \/ UNCHANGED hvars
  <2>1. UNCHANGED <<prog, parallel_execution>>
    BY <1>1 DEF access, stacks, hvars
  <2>. QED
    BY <2>1, StayMoves DEF Engine
<1>2. CASE ~(access \/ UNCHANGED hvars)
  BY <1>2, SitesMove, EntriesMove, ExitsMove, LoopMoves, SyncMoves DEF Engine, DriverNext
<1>. QED
  BY <1>1, <1>2

\* The states stay aligned.
LEMMA AlignedStep ==
    ASSUME Engine, Standing, Aligned, [DriverNext]_hvars
    PROVE  Aligned'
<1>1. CASE StepMoves
  BY <1>1 DEF StepMoves, Moves, Aligned
<1>2. CASE StepRestores
  BY <1>2 DEF StepRestores, Restored, Aligned
<1>. QED
  BY <1>1, <1>2, StatesStep

Recorded == Calls(prog, call_stack)

\* Every step keeps the call stack beside the program.
LEMMA RecordedStep ==
    ASSUME TypeOK, Standing, Recorded, [DriverNext]_hvars
    PROVE  Recorded'
<1>0. PICK p, c : p = prog /\ c = call_stack
  OBVIOUS
<1>1. Calls(p, c)
  BY <1>0 DEF Recorded
<1>2. /\ "call" \in Sites /\ Record["call"] = "CALL" /\ "detach" \in Sites
      /\ Record["detach"] = "SPAWN" /\ "loop" \in Sites /\ Record["loop"] = "LOOP"
      /\ "idetach" \notin Sites /\ "loopsync" \notin Sites
      /\ \A at \in Activations : at \notin Sites
  BY DEF Sites, Record, Activations
<1>3. ASSUME NEW at \in Sites, prog' = Append(p, At(at)), call_stack' = Append(c, Record[at])
      PROVE  Recorded'
  <2>1. PICK e : e = At(at)
    OBVIOUS
  <2>2. e \in Entry /\ e.at = at
    BY <2>1, EntryTypes DEF Sites
  <2>3. Calls(Append(p, e), Append(c, Record[e.at]))
    BY <1>1, <2>2, CallsEnterSite
  <2>. QED
    BY <1>3, <2>1, <2>2, <2>3 DEF Recorded
<1>4. ASSUME NEW e \in Entry, e.at \notin Sites, prog' = Append(p, e), call_stack' = c
      PROVE  Recorded'
  BY <1>1, <1>4, CallsEnter DEF Recorded
<1>5. ASSUME Last(prog).at \notin Sites, prog' = Front(p), call_stack' = c
      PROVE  Recorded'
  <2>1. Len(p) > 1
    BY <1>0, <1>2, <1>5, TopLong
  <2>. QED
    BY <1>0, <1>1, <1>5, <2>1, CallsLeave DEF Recorded
<1>6. ASSUME Len(prog) > 1, Last(prog).at \in Sites, prog' = Front(p), call_stack' = Front(c)
      PROVE  Recorded'
  BY <1>0, <1>1, <1>6, CallsLeaveSite DEF Recorded
<1>7. CASE before_call
  <2>1. prog' = Append(p, At("call")) /\ call_stack' = Append(c, "CALL")
    BY <1>0, <1>7 DEF before_call, Enter, record_call
  <2>. QED
    BY <1>2, <1>3, <2>1
<1>8. CASE detach
  <2>1. prog' = Append(p, At("detach")) /\ call_stack' = Append(c, "SPAWN")
    BY <1>0, <1>8 DEF detach, Enter, record_call
  <2>. QED
    BY <1>2, <1>3, <2>1
<1>9. CASE before_loop
  <2>1. prog' = Append(p, At("loop")) /\ call_stack' = Append(c, "LOOP")
    BY <1>0, <1>9 DEF before_loop, Enter, record_call
  <2>. QED
    BY <1>2, <1>3, <2>1
<1>10. CASE detach_iteration
  <2>1. PICK e : e = At("idetach")
    OBVIOUS
  <2>2. e \in Entry /\ e.at = "idetach" /\ prog' = Append(p, e) /\ call_stack' = c
    BY <1>0, <1>10, <2>1, EntryTypes DEF detach_iteration, Enter
  <2>. QED
    BY <1>2, <1>4, <2>2
<1>11. ASSUME NEW at \in Activations, NEW framed \in BOOLEAN, framed => CanPush,
              prog' = Append(p, Activation(at, framed)), call_stack' = c
       PROVE  Recorded'
  <2>1. PICK e : e = Activation(at, framed)
    OBVIOUS
  <2>2. e \in Entry /\ e.at = at
    BY <1>11, <2>1, EntryTypes
  <2>. QED
    BY <1>2, <1>4, <1>11, <2>1, <2>2
<1>12. ASSUME NEW n \in SyncRegCounts, NEW may_spawn \in BOOLEAN, func_entry(may_spawn, n)
       PROVE  Recorded'
  <2>0. PICK at, framed : /\ at = (IF may_spawn THEN "cilk" ELSE "func")
                          /\ framed = ~SkipsFrame(may_spawn)
    OBVIOUS
  <2>1. prog' = Append(p, Activation(at, framed)) /\ call_stack' = c
    BY <1>0, <1>12, <2>0 DEF func_entry, Enter
  <2>2. at \in Activations /\ framed \in BOOLEAN
    BY <2>0 DEF Activations, SkipsFrame, is_local_synced
  <2>3. framed => CanPush
    BY <1>12, <2>0 DEF func_entry, do_enter
  <2>. QED
    BY <1>11, <2>1, <2>2, <2>3
<1>13. ASSUME NEW n \in SyncRegCounts, NEW r \in Regs, task(n, r) PROVE Recorded'
  <2>1. prog' = Append(p, Activation("task", TRUE)) /\ call_stack' = c /\ CanPush
    BY <1>0, <1>13 DEF task, Enter, do_task
  <2>2. "task" \in Activations /\ TRUE \in BOOLEAN
    BY DEF Activations
  <2>. QED
    BY <1>11, <2>1, <2>2
<1>14. ASSUME NEW n \in SyncRegCounts, NEW r \in Regs, task_iteration(n, r) PROVE Recorded'
  <2>1. "iter" \in Activations /\ TRUE \in BOOLEAN /\ FALSE \in BOOLEAN /\ call_stack' = c
    BY <1>0, <1>14 DEF Activations, task_iteration, stacks
  <2>2. CASE do_loop_iteration_first(n, r) /\ Enter(Activation("iter", TRUE))
    <3>1. CanPush /\ prog' = Append(p, Activation("iter", TRUE))
      BY <1>0, <2>2 DEF do_loop_iteration_first, Enter
    <3>. QED
      BY <1>11, <2>1, <3>1
  <2>3. CASE do_loop_iteration_begin /\ Enter(Activation("iter", FALSE))
    <3>1. prog' = Append(p, Activation("iter", FALSE))
      BY <1>0, <2>3 DEF Enter
    <3>. QED
      BY <1>11, <2>1, <3>1
  <2>. QED
    BY <1>14, <2>2, <2>3 DEF task_iteration
<1>15. CASE func_exit \/ task_exit \/ task_exit_iteration \/ detach_continue_iteration
  <2>1. Last(prog).at \notin Sites /\ prog' = Front(p) /\ call_stack' = c
    BY <1>0, <1>15 DEF func_exit, task_exit, task_exit_iteration, detach_continue_iteration,
                       InSite, Leave, stacks, Sites
  <2>. QED
    BY <1>5, <2>1
<1>16. CASE after_call \/ \E is_unwind \in BOOLEAN : detach_continue(is_unwind)
  <2>1. /\ Last(prog).at \in Sites /\ prog' = Front(p) /\ call_stack' = Front(c)
        /\ Len(prog) > 1 \/ Last(prog).at # "call"
    BY <1>0, <1>16 DEF after_call, detach_continue, InSite, Leave, record_call_return, Sites
  <2>. QED
    BY <1>6, <2>1, TopLong
<1>17. ASSUME NEW r \in Regs, sync(r) PROVE Recorded'
  <2>1. /\ call_stack' = c
        /\ prog' = p \/ (Last(prog).at = "loopsync" /\ prog' = Front(p))
    BY <1>0, <1>17 DEF sync, InSite, Leave
  <2>. QED
    BY <1>1, <1>2, <1>5, <2>1 DEF Recorded
<1>18. CASE after_loop
  <2>1. Last(prog).at = "loop" /\ call_stack' = Front(c) /\ Len(prog) > 1
    BY <1>0, <1>18, TopLong DEF after_loop, InSite, record_call_return
  <2>2. CASE ~SyncAfterLoop
    <3>1. prog' = Front(p)
      BY <1>0, <1>18, <2>2 DEF after_loop
    <3>. QED
      BY <1>2, <1>6, <2>1, <3>1
  <2>3. CASE SyncAfterLoop
    <3>0. PICK e, o, d : /\ e = [at |-> "loopsync", fid |-> 0, reg |-> tree[head.fid].reg]
                         /\ o = Front(p) /\ d = Front(c)
      OBVIOUS
    <3>1. e \in Entry /\ e.at = "loopsync" /\ prog' = Append(o, e) /\ call_stack' = d
      BY <1>0, <1>18, <2>1, <2>3, <3>0, EntryTypes DEF after_loop
    <3>2. Calls(o, d)
      BY <1>0, <1>1, <1>2, <2>1, <3>0, CallsLeaveSite
    <3>. QED
      BY <1>2, <3>1, <3>2, CallsEnter DEF Recorded
  <2>. QED
    BY <2>2, <2>3
<1>19. CASE access \/ UNCHANGED hvars
  <2>1. prog' = p /\ call_stack' = c
    BY <1>0, <1>19 DEF access, stacks, hvars
  <2>. QED
    BY <1>1, <2>1 DEF Recorded
<1>. QED
  BY <1>7, <1>8, <1>9, <1>10, <1>12, <1>13, <1>14, <1>15, <1>16, <1>17, <1>18, <1>19
     DEF DriverNext

\* What a step does to the unseen accesses.
LEMMA UnseenStep ==
    ASSUME [DriverNext]_hvars
    PROVE  \/ unseen' = unseen
           \/ /\ access /\ Last(parallel_execution) # 1
              /\ unseen' = unseen \cup {CurrentAccess}
  BY DEF DriverNext, hvars, before_call, after_call, func_entry, func_exit, detach, task,
         task_exit, detach_continue, sync, before_loop, detach_iteration, task_iteration,
         task_exit_iteration, detach_continue_iteration, after_loop, access,
         is_execution_parallel

-----------------------------------------------------------------------------
(***************************************************************************)
(* The driver over the engine, and its stacks.                             *)
(***************************************************************************)
EngineOK ==
    TypeOK /\ Shape /\ BagsInPlace /\ NoDanglingBag /\ InTree /\ LoopsApart /\ AllPlaced

StacksOK == Standing /\ Aligned /\ Recorded /\ unseen \subseteq MemoryAccess

\* Initially only the call of main is pending.
LEMMA StacksInit == DriverInit => StacksOK
<1>. SUFFICES ASSUME DriverInit PROVE StacksOK
  OBVIOUS
<1>0. PICK e : e = At("call")
  OBVIOUS
<1>1. /\ prog = <<e>> /\ parallel_execution = <<0>> /\ spbags_frame_skipped = <<>>
      /\ call_stack = <<>> /\ unseen = {} /\ e \in Entry /\ e.at = "call"
  <2>1. TypeOK
    BY InitFacts DEF DriverInit
  <2>. QED
    BY <1>0, <2>1, EntryTypes DEF DriverInit
<1>2. prog \in Seq(Entry) /\ Len(prog) = 1 /\ prog[1] = e
  BY <1>1
<1>3. \A ats : CountTo(prog, 1, ats) = IF "call" \in ats THEN 1 ELSE 0
  <2>1. ASSUME NEW ats PROVE CountTo(prog, 1, ats) = IF "call" \in ats THEN 1 ELSE 0
    <3>1. 0 \in Nat /\ 0 + 1 = 1
      OBVIOUS
    <3>2. /\ CountTo(prog, 0, ats) = 0
          /\ CountTo(prog, 0 + 1, ats)
                = CountTo(prog, 0, ats) + (IF prog[0 + 1].at \in ats THEN 1 ELSE 0)
      BY <3>1, CountStep
    <3>. QED
      BY <1>1, <1>2, <3>1, <3>2
  <2>. QED
    BY <2>1
<1>4. /\ CountTo(prog, 1, Pushing) = 0 /\ CountTo(prog, 1, Functions) = 0
      /\ CountTo(prog, 1, Sites) = 1
  BY <1>3 DEF Pushing, Functions, Sites
<1>5. \A j \in 1..Len(prog) : j = 1
  BY <1>2
<1>6. \A j \in 2..Len(prog) : FALSE
  BY <1>2
<1>7. WellFormed(prog)
  BY <1>1, <1>2, <1>6 DEF WellFormed
<1>8. SkipsOf(prog, spbags_frame_skipped)
  BY <1>1, <1>2, <1>4 DEF SkipsOf
<1>9. OnFrames(prog, spbags_frame_skipped)
  <2>1. TypeOK /\ InTree
    BY InitFacts, TreeInit DEF DriverInit
  <2>2. /\ depth = 1 /\ frame_id = 0 /\ pc = "body" /\ tree[0].level = 1
        /\ frames[1].fid \in 0..frame_id
    BY <2>1 DEF DriverInit, Init, InTree, OnStack
  <2>3. frames[1].fid = 0
    BY <2>2
  <2>4. FidIn(prog, 1) = 0 /\ SlotIn(prog, 1) = 1
    BY <2>2 DEF FidIn, SlotIn
  <2>5. StandsAt(prog, spbags_frame_skipped, 1) /\ Climbs(prog, 1, 1)
    BY <2>2, <2>3, <2>4 DEF StandsAt, Climbs
  <2>. QED
    BY <1>2, <1>5, <2>2, <2>4, <2>5 DEF OnFrames
<1>10. Aligned
  <2>1. LevelIn(prog, 1) = 0 /\ StateIn(prog, parallel_execution, 1) = 0
    BY <1>1, <1>4 DEF LevelIn, StateIn
  <2>2. /\ parallel_execution \in Seq({0, 1}) /\ Len(parallel_execution) = 1
        /\ "call" \notin Parallel
    BY <1>1 DEF Parallel
  <2>. QED
    BY <1>1, <1>2, <1>5, <1>6, <2>1, <2>2 DEF Aligned, Alignment
<1>11. Recorded
  <2>1. call_stack \in Seq({"CALL", "SPAWN", "LOOP"}) /\ Len(call_stack) = 0
    BY <1>1
  <2>. QED
    BY <1>1, <1>2, <1>4, <1>6, <2>1 DEF Recorded, Calls
<1>. QED
  BY <1>1, <1>7, <1>8, <1>9, <1>10, <1>11 DEF StacksOK, Standing

\* Every step keeps the stacks.
LEMMA StacksStep ==
    ASSUME EngineOK, TypeOK', StacksOK, [DriverNext]_hvars
    PROVE  StacksOK'
<1>1. Engine /\ TypeOK /\ Standing /\ Aligned /\ Recorded
  BY DEF EngineOK, Engine, StacksOK
<1>2. Standing' /\ Aligned' /\ Recorded'
  BY <1>1, StandingStep, AlignedStep, RecordedStep
<1>3. CurrentAccess \in MemoryAccess
  BY CurrentPlaced DEF EngineOK
<1>4. unseen' \subseteq MemoryAccess
  BY <1>3, UnseenStep DEF StacksOK
<1>. QED
  BY <1>2, <1>4 DEF StacksOK

\* The hooks drive the engine as SPBags says it may be driven: every step of
\* the driver is a step of the engine or leaves it alone, so that what is
\* proved of the engine holds under the driver.
THEOREM DriverDrivesEngine == DriverSpec => Spec
<1>1. DriverInit => Init
  BY DEF DriverInit
<1>2. [DriverNext]_hvars => [Next]_vars
  BY EngineStep
<1>. QED
  BY <1>1, <1>2, PTL DEF DriverSpec, Spec

\* The driver's stacks stay beside the program.
LEMMA StacksInvariant == DriverSpec => [](EngineOK /\ StacksOK)
<1>1. DriverSpec => []EngineOK
  BY DriverDrivesEngine, ParallelismInvariant, PTL DEF EngineOK
<1>2. EngineOK /\ EngineOK' /\ StacksOK /\ [DriverNext]_hvars => StacksOK'
  BY StacksStep DEF EngineOK
<1>. QED
  BY <1>1, <1>2, StacksInit, PTL DEF DriverSpec

\* The stacks of driver.cpp are well typed and as long as the nesting of the
\* program asks for: what is pushed at an entry is popped at its exit.
THEOREM DriverTypeCorrect == DriverSpec => []DriverTypeOK
<1>1. StacksOK => DriverTypeOK
  BY DEF StacksOK, Standing, WellFormed, SkipsOf, Aligned, Alignment, Recorded, Calls,
         DriverTypeOK, Count, LevelIn
<1>. QED
  BY <1>1, StacksInvariant, PTL

\* Whatever an activation calls, spawns or loops over, and whichever of those
\* run without a frame, it goes on with the frame it was entered with on top
\* of frame_stack.
THEOREM ActivationsKeepFrames == DriverSpec => []RunsOnItsFrame
<1>1. EngineOK /\ StacksOK => RunsOnItsFrame
  BY TopFrame DEF EngineOK, StacksOK, RunsOnItsFrame, Running
<1>. QED
  BY <1>1, StacksInvariant, PTL

-----------------------------------------------------------------------------
(***************************************************************************)
(* What a frame waits for.                                                 *)
(***************************************************************************)
\* Task or loop c, a child of the frame in slot i, has ended unsynced.
Unjoined(c, i) ==
    /\ tree[c].type # "spawner" /\ c \notin joined
    /\ tree[c].level = i + 1 /\ tree[c].path[i] = frames[i].fid
    /\ i < depth => frames[i + 1].fid # c

\* A frame has a P-bag for every region that an ended task or loop of its
\* own, not synced since, is to join.
Owed ==
    \A c \in 1..frame_id, i \in 1..depth :
        Unjoined(c, i) => frames[i].Pbags[tree[c].reg]

\* Initially there are no tasks.
LEMMA OwedInit == Init => Owed
  BY DEF Init, Owed

\* A push.
LEMMA OwedPush ==
    ASSUME Engine, TypeOK', Owed, NEW type \in {"spawner", "detacher", "loop"},
           NEW n \in 0..MaxRegs, NEW r \in Regs, CanPush, start_new_function(type, n, r)
    PROVE  Owed'
<1>. SUFFICES ASSUME NEW c \in 1..frame_id', NEW i \in 1..depth', Unjoined(c, i)'
              PROVE  frames'[i].Pbags[tree'[c].reg]
  BY DEF Owed
<1>1. /\ depth \in Nat \ {0} /\ frame_id \in Nat /\ depth' = depth + 1
      /\ frame_id' = frame_id + 1 /\ joined' = joined
      /\ \A f \in 0..frame_id : tree'[f] = tree[f]
      /\ tree'[frame_id + 1].level = depth + 1
      /\ frames'[depth + 1].fid = frame_id + 1
      /\ \A j \in 1..depth : frames'[j] = frames[j]
  <2>1. TypeOK
    BY DEF Engine
  <2>2. depth \in Nat \ {0} /\ frame_id \in Nat
    BY <2>1 DEF TypeOK
  <2>3. /\ depth' = depth + 1 /\ \A j \in 1..depth : frames'[j] = frames[j]
    BY <2>1, PushFacts
  <2>4. /\ frame_id' = frame_id + 1 /\ joined' = joined
        /\ \A f \in 0..frame_id : tree'[f] = tree[f]
        /\ tree'[frame_id + 1].level = depth + 1
        /\ frames'[depth + 1].fid = frame_id + 1
    BY <2>1, PushTree
  <2>. QED
    BY <2>2, <2>3, <2>4
<1>2. CASE c = frame_id + 1
  <2>1. i = depth
    BY <1>1, <1>2 DEF Unjoined
  <2>2. i < depth' /\ frames'[i + 1].fid = c
    BY <1>1, <1>2, <2>1
  <2>. QED
    BY <2>2 DEF Unjoined
<1>3. CASE c # frame_id + 1
  <2>1. c \in 1..frame_id /\ c \in 0..frame_id /\ tree'[c] = tree[c]
    BY <1>1, <1>3
  <2>2. CASE i = depth + 1
    <3>1. tree[c].level = depth + 2 /\ tree[c].path[depth + 1] = frame_id + 1
      BY <1>1, <2>1, <2>2 DEF Unjoined
    <3>2. depth + 1 \in 1..tree[c].level
      BY <1>1, <3>1
    <3>3. tree[c].path[depth + 1] \in 0..frame_id
      BY <2>1, <3>2 DEF Engine, InTree, PathsAgree
    <3>. QED
      BY <1>1, <3>1, <3>3
  <2>3. CASE i # depth + 1
    <3>1. i \in 1..depth /\ frames'[i] = frames[i]
      BY <1>1, <2>3
    <3>2. ASSUME i < depth PROVE frames[i + 1].fid # c
      <4>1. i + 1 \in 1..depth /\ i < depth'
        BY <1>1, <3>1, <3>2
      <4>2. frames'[i + 1] = frames[i + 1]
        BY <1>1, <4>1
      <4>. QED
        BY <4>1, <4>2 DEF Unjoined
    <3>3. Unjoined(c, i)
      BY <1>1, <2>1, <3>1, <3>2 DEF Unjoined
    <3>. QED
      BY <2>1, <3>1, <3>3 DEF Owed
  <2>. QED
    BY <2>2, <2>3
<1>. QED
  BY <1>2, <1>3

\* What a return from a task or a loop leaves to its parent.
LEMMA PopOwes ==
    ASSUME TypeOK, Shape, Pop
    PROVE  head.type = "spawner" \/ frames'[depth - 1].Pbags[tree[head.fid].reg]
<1>1. /\ depth \in Slots /\ depth - 1 \in Slots /\ depth - 1 # depth
      /\ frames \in [Slots -> FrameData] /\ frames[depth - 1] \in FrameData
  <2>1. depth \in Slots /\ frames \in [Slots -> FrameData] /\ depth > 1
    BY PopFacts DEF TypeOK
  <2>2. depth - 1 \in Slots /\ depth - 1 # depth
    BY <2>1
  <2>. QED
    BY <2>1, <2>2
<1>2. /\ frames[depth - 1].Pbags \in [Regs -> BOOLEAN] /\ tree[head.fid].reg \in Regs
  <2>1. head.fid \in Frames
    BY HeadType, FrameFields
  <2>. QED
    BY <1>1, <2>1, FrameFields DEF TypeOK
<1>3. CASE leave_cilk_function
  BY <1>3 DEF leave_cilk_function
<1>4. CASE return_from_detach \/ do_loop_end
  <2>1. frames' = [frames EXCEPT ![depth - 1].Pbags[tree[head.fid].reg] = TRUE,
                                 ![depth] = ResetFrame]
    BY <1>4 DEF return_from_detach, do_loop_end, merge_from_detach
  <2>. QED
    BY <1>1, <1>2, <2>1 DEF FrameData
<1>. QED
  BY <1>3, <1>4 DEF Pop

\* A pop.
LEMMA OwedPop ==
    ASSUME Engine, TypeOK', Owed, Pop
    PROVE  Owed'
<1>. SUFFICES ASSUME NEW c \in 1..frame_id', NEW i \in 1..depth', Unjoined(c, i)'
              PROVE  frames'[i].Pbags[tree'[c].reg]
  BY DEF Owed
<1>1. /\ depth \in Nat /\ depth > 1 /\ depth' = depth - 1 /\ frame_id' = frame_id
      /\ joined' = joined /\ tree' = tree
      /\ \A j \in 1..depth' : frames'[j].fid = frames[j].fid
  <2>1. TypeOK /\ Shape
    BY DEF Engine
  <2>2. depth \in Nat
    BY <2>1 DEF TypeOK
  <2>. QED
    BY <2>1, <2>2, PopFacts, PopTree
<1>2. i \in 1..depth /\ i \in 1..(depth - 1) /\ i < depth /\ i + 1 \in 1..depth
  BY <1>1
<1>3. c \in Frames /\ tree[c].reg \in Regs
  <2>1. c \in Frames
    BY <1>1 DEF Engine, TypeOK
  <2>. QED
    BY <2>1 DEF Engine, TypeOK
<1>4. CASE frames[i + 1].fid # c
  <2>1. Unjoined(c, i)
    BY <1>1, <1>2, <1>4 DEF Unjoined
  <2>2. frames[i].Pbags[tree[c].reg]
    BY <1>1, <1>2, <2>1 DEF Owed
  <2>. QED
    BY <1>1, <1>2, <1>3, <2>2, PopMarks DEF Engine
<1>5. CASE frames[i + 1].fid = c
  <2>1. i = depth - 1
    <3>1. ASSUME i # depth - 1 PROVE FALSE
      <4>1. i < depth' /\ i + 1 \in 1..depth'
        BY <1>1, <1>2, <3>1
      <4>. QED
        BY <1>1, <1>5, <4>1 DEF Unjoined
    <3>. QED
      BY <3>1
  <2>2. i + 1 = depth /\ head.fid = c
    BY <1>1, <1>5, <2>1 DEF head
  <2>3. tree[c].type = head.type
    BY <1>1, <1>2, <2>2 DEF Engine, InTree, OnStack, head
  <2>4. head.type # "spawner"
    BY <1>1, <2>3 DEF Unjoined
  <2>. QED
    BY <1>1, <2>1, <2>2, <2>4, PopOwes DEF Engine
<1>. QED
  BY <1>4, <1>5

\* What the other steps do to the P-bags of the head: a sync joins the
\* children whose P-bag it takes away.
LEMMA HeadOwes ==
    ASSUME TypeOK, Shape, HeadOnly \/ do_loop_iteration_end
    PROVE  /\ joined \subseteq joined'
           /\ \A q \in Regs : head.Pbags[q] =>
                 frames'[depth].Pbags[q] \/ Joining(q) \subseteq joined'
<1>1. /\ depth \in Slots /\ sync_reg \in Regs /\ frames \in [Slots -> FrameData]
      /\ head = frames[depth] /\ head \in FrameData /\ head.Pbags \in [Regs -> BOOLEAN]
      /\ 0 \in Regs
  <2>1. head \in FrameData
    BY HeadType
  <2>2. head.Pbags \in [Regs -> BOOLEAN]
    BY <2>1, FrameFields
  <2>3. depth \in Slots /\ sync_reg \in Regs /\ frames \in [Slots -> FrameData]
    BY DEF TypeOK
  <2>4. head = frames[depth]
    BY DEF head
  <2>5. 0 \in Regs
    OBVIOUS
  <2>. QED
    BY <2>1, <2>2, <2>3, <2>4, <2>5
<1>2. CASE do_detach_continue
  BY <1>1, <1>2 DEF do_detach_continue, FrameData
<1>3. CASE do_detach_unwind
  <2>1. /\ frames'[depth].Pbags = [head.Pbags EXCEPT ![sync_reg] = FALSE]
        /\ joined' = joined \cup Joining(sync_reg)
    BY <1>1, <1>3 DEF do_detach_unwind, FrameData
  <2>. QED
    BY <1>1, <2>1
<1>4. ASSUME NEW r \in Regs, do_sync(r)
      PROVE  /\ joined \subseteq joined'
             /\ \A q \in Regs : head.Pbags[q] =>
                   frames'[depth].Pbags[q] \/ Joining(q) \subseteq joined'
  <2>1. /\ frames'[depth].Pbags = [head.Pbags EXCEPT ![r] = FALSE]
        /\ joined' = joined \cup Joining(r)
    BY <1>1, <1>4 DEF do_sync, FrameData
  <2>. QED
    BY <1>1, <2>1
<1>5. CASE do_loop_iteration_begin
  BY <1>1, <1>5 DEF do_loop_iteration_begin, FrameData
<1>6. CASE record_access
  BY <1>1, <1>6 DEF record_access, getSbagForAccess, FrameData
<1>7. CASE do_loop_iteration_end
  <2>1. joined' = joined
    BY <1>7 DEF do_loop_iteration_end
  <2>2. frames'[depth].Pbags = [head.Pbags EXCEPT ![0] = TRUE]
    BY <1>1, <1>7 DEF do_loop_iteration_end, FrameData
  <2>. QED
    BY <1>1, <2>1, <2>2
<1>. QED
  BY <1>2, <1>3, <1>4, <1>5, <1>6, <1>7 DEF HeadOnly

\* The other steps.
LEMMA OwedHead ==
    ASSUME Engine, TypeOK', Owed, HeadOnly \/ do_loop_iteration_end
    PROVE  Owed'
<1>. SUFFICES ASSUME NEW c \in 1..frame_id', NEW i \in 1..depth', Unjoined(c, i)'
              PROVE  frames'[i].Pbags[tree'[c].reg]
  BY DEF Owed
<1>1. /\ depth \in Slots /\ depth' = depth /\ frame_id' = frame_id /\ tree' = tree
      /\ \A j \in Slots : frames'[j].fid = frames[j].fid
      /\ \A j \in Slots : j # depth => frames'[j] = frames[j]
  <2>1. CASE HeadOnly
    BY <2>1, HeadFacts, HeadTree DEF Engine, TypeOK
  <2>2. CASE do_loop_iteration_end
    BY <2>2, IterationTree DEF Engine, TypeOK
  <2>. QED
    BY <2>1, <2>2
<1>2. i \in 1..depth /\ i \in Slots /\ (i < depth => i + 1 \in Slots) /\ c \in 1..frame_id
  BY <1>1
<1>3. /\ joined \subseteq joined'
      /\ \A q \in Regs : head.Pbags[q] => frames'[depth].Pbags[q] \/ Joining(q) \subseteq joined'
  BY HeadOwes DEF Engine
<1>4. c \in Frames /\ tree[c].reg \in Regs
  <2>1. c \in Frames
    BY <1>2 DEF Engine, TypeOK
  <2>. QED
    BY <2>1 DEF Engine, TypeOK
<1>5. Unjoined(c, i)
  BY <1>1, <1>2, <1>3 DEF Unjoined
<1>6. frames[i].Pbags[tree[c].reg]
  BY <1>2, <1>5 DEF Owed
<1>7. CASE i # depth
  BY <1>1, <1>2, <1>6, <1>7
<1>8. CASE i = depth
  <2>1. c \in Joining(tree[c].reg)
    BY <1>2, <1>5, <1>8 DEF Unjoined, Joining, head
  <2>2. c \notin joined'
    BY DEF Unjoined
  <2>3. head.Pbags[tree[c].reg]
    BY <1>6, <1>8 DEF head
  <2>. QED
    BY <1>1, <1>3, <1>4, <1>8, <2>1, <2>2, <2>3
<1>. QED
  BY <1>7, <1>8

\* Every step keeps what is owed in P-bags.
LEMMA OwedStep ==
    ASSUME Engine, TypeOK', Owed, [Next]_vars
    PROVE  Owed'
<1>1. CASE Push
  BY <1>1, OwedPush DEF Push
<1>2. CASE do_loop_begin \/ UNCHANGED vars
  BY <1>2 DEF do_loop_begin, vars, Owed, Unjoined
<1>. QED
  BY <1>1, <1>2, OwedPop, OwedHead, StepKinds

-----------------------------------------------------------------------------
(***************************************************************************)
(* Serial code and its frames.                                             *)
(***************************************************************************)
\* Code that is regarded as serial runs on the frame in slot x.
Serial(x) ==
    \E j \in 1..Len(prog) :
        StateIn(prog, parallel_execution, j) = 0 /\ SlotIn(prog, j) = x

\* Where there is serial code after a step there was before, unless it is on
\* top of it, in the frame of a function with nothing outstanding.
Inherits ==
    \A x : Serial(x)' =>
        \/ Serial(x)
        \/ /\ x = depth' /\ Serial(x - 1)
           /\ frames'[x].type = "spawner" /\ ~HasPbags(frames'[x])

\* The tree only grows.
LEMMA TreeGrows ==
    ASSUME Engine, [Next]_vars
    PROVE  frame_id <= frame_id' /\ \A f \in 0..frame_id : tree'[f] = tree[f]
<1>0. TypeOK /\ Shape /\ LoopsApart /\ frame_id \in Nat /\ frame_id <= frame_id
  <2>1. TypeOK /\ Shape /\ LoopsApart
    BY DEF Engine
  <2>2. frame_id \in Nat
    BY <2>1 DEF TypeOK
  <2>. QED
    BY <2>1, <2>2
<1>1. CASE Push
  <2>1. PICK type \in {"spawner", "detacher", "loop"}, n \in 0..MaxRegs, r \in Regs :
            CanPush /\ start_new_function(type, n, r)
    BY <1>1 DEF Push
  <2>2. frame_id' = frame_id + 1 /\ \A f \in 0..frame_id : tree'[f] = tree[f]
    BY <1>0, <2>1, PushTree
  <2>. QED
    BY <1>0, <2>2
<1>2. CASE Pop
  BY <1>0, <1>2, PopTree
<1>3. CASE HeadOnly
  BY <1>0, <1>3, HeadTree
<1>4. CASE do_loop_iteration_end
  BY <1>0, <1>4, IterationTree
<1>5. CASE do_loop_begin \/ UNCHANGED vars
  BY <1>0, <1>5 DEF do_loop_begin, vars
<1>. QED
  BY <1>1, <1>2, <1>3, <1>4, <1>5, StepKinds

\* Code that stays in the program stays on its slot.
LEMMA SlotsStill ==
    ASSUME Engine, Standing, [DriverNext]_hvars, NEW n \in 1..Len(prog),
           Agree(prog', prog, n)
    PROVE  \A j \in 1..n : SlotIn(prog, j)' = SlotIn(prog, j)
<1>. SUFFICES ASSUME NEW j \in 1..n PROVE SlotIn(prog, j)' = SlotIn(prog, j)
  OBVIOUS
<1>0. PICK p, q : p = prog /\ q = prog'
  OBVIOUS
<1>1. WellFormed(p) /\ OnFrames(p, spbags_frame_skipped)
  BY <1>0 DEF Standing
<1>2. FidIn(q, j) = FidIn(p, j)
  BY <1>0, <1>1, FidAgrees
<1>3. FidIn(prog, j)' = FidIn(q, j) /\ FidIn(prog, j) = FidIn(p, j)
  BY <1>0 DEF FidIn
<1>4. FidIn(p, j) \in 0..frame_id
  <2>1. Len(p) \in Nat
    BY LenProperties, <1>1 DEF WellFormed
  <2>2. j \in 1..Len(p)
    BY <1>0, <2>1
  <2>. QED
    BY <1>1, <2>2 DEF OnFrames, StandsAt
<1>5. tree'[FidIn(p, j)] = tree[FidIn(p, j)]
  BY <1>4, EngineStep, TreeGrows
<1>. QED
  BY <1>2, <1>3, <1>5 DEF SlotIn

\* The slot of the code at the top, and the slot below.
TopSlots ==
    Len(prog) > 1 =>
        /\ \/ Last(prog).at \notin Activations
           \/ Last(prog).at \in Functions /\ Last(spbags_frame_skipped)
           => SlotIn(prog, Len(prog) - 1) = SlotIn(prog, Len(prog))
        /\ \/ Last(prog).at \in Activations \ Functions
           \/ Last(prog).at \in Functions /\ ~Last(spbags_frame_skipped)
           => /\ SlotIn(prog, Len(prog)) = SlotIn(prog, Len(prog) - 1) + 1
              /\ frames[SlotIn(prog, Len(prog))].type = FrameType[Last(prog).at]
        /\ SlotIn(prog, Len(prog)) = IF pc = "between" THEN depth - 1 ELSE depth
        /\ Last(prog) = prog[Len(prog)]

\* The slots of a standing program.
LEMMA TopSlotsHold == TypeOK /\ Standing => TopSlots
  BY TopPlace, TopTwo DEF TopSlots

\* A step that moves the program.
LEMMA MovesInherit ==
    ASSUME Engine, Standing, TypeOK', Standing', [DriverNext]_hvars, Aligned', StepMoves
    PROVE  Inherits
<1>0. PICK p, s, q, t : /\ p = prog /\ s = parallel_execution
                        /\ q = prog' /\ t = parallel_execution'
  OBVIOUS
<1>1. PICK n \in Nat : Moves(p, s, q, t, n) /\ NewFunction(n)
  BY <1>0 DEF StepMoves
<1>2. /\ n \in 1..Len(p) /\ n \in 1..n /\ Agree(q, p, n) /\ (Len(q) = n \/ Len(q) = n + 1)
      /\ \A j \in 1..n : StateIn(q, t, j) = 0 => StateIn(p, s, j) = 0
      /\ Len(q) = n + 1 /\ StateIn(q, t, n + 1) = 0 => StateIn(p, s, n) = 0
  BY <1>1 DEF Moves
<1>3. \A j \in 1..n : SlotIn(prog, j)' = SlotIn(prog, j) /\ j \in 1..Len(prog)
  <2>1. Len(prog) \in Nat
    BY TopPlace DEF Engine
  <2>. QED
    BY <1>0, <1>2, <2>1, SlotsStill
<1>. SUFFICES ASSUME NEW x, Serial(x)'
              PROVE  \/ Serial(x)
                     \/ /\ x = depth' /\ Serial(x - 1)
                        /\ frames'[x].type = "spawner" /\ ~HasPbags(frames'[x])
  BY DEF Inherits
<1>4. PICK j \in 1..Len(q) : StateIn(q, t, j) = 0 /\ SlotIn(prog, j)' = x
  BY <1>0 DEF Serial
<1>5. CASE j \in 1..n
  <2>1. StateIn(p, s, j) = 0 /\ SlotIn(prog, j) = x /\ j \in 1..Len(prog)
    BY <1>2, <1>3, <1>4, <1>5
  <2>. QED
    BY <1>0, <2>1 DEF Serial
<1>6. CASE j \notin 1..n
  <2>1. j = n + 1 /\ Len(q) = n + 1 /\ Len(q) - 1 = n /\ Len(q) > 1
    BY <1>2, <1>6
  <2>2. StateIn(p, s, n) = 0 /\ SlotIn(prog, n) = SlotIn(prog, n)'
    BY <1>2, <1>3, <1>4, <2>1
  <2>3. /\ \/ Last(prog').at \notin Activations
           \/ Last(prog').at \in Functions /\ Last(spbags_frame_skipped')
           => SlotIn(prog, n)' = x
        /\ \/ Last(prog').at \in Activations \ Functions
           \/ Last(prog').at \in Functions /\ ~Last(spbags_frame_skipped')
           => x = SlotIn(prog, n)' + 1 /\ frames'[x].type = FrameType[Last(prog').at]
        /\ Last(prog') = q[Len(q)]
        /\ x = IF pc' = "between" THEN depth' - 1 ELSE depth'
    <3>0. /\ Len(prog') = n + 1 /\ Len(prog') > 1 /\ Len(prog') - 1 = n
          /\ SlotIn(prog, n + 1)' = x
      BY <1>0, <1>4, <2>1
    <3>1. TopSlots'
      BY TopSlotsHold, PTL
    <3>. QED
      BY <1>0, <3>0, <3>1 DEF TopSlots
  <2>4. Last(prog').at \notin Parallel
    <3>1. j \in 1..Len(q) /\ (q[j].at \in Parallel => StateIn(q, t, j) = 1)
      BY <1>0 DEF Aligned, Alignment
    <3>. QED
      BY <1>4, <2>1, <2>3, <3>1
  <2>5. CASE \/ Last(prog').at \notin Activations
             \/ Last(prog').at \in Functions /\ Last(spbags_frame_skipped')
    <3>1. SlotIn(prog, n) = x /\ n \in 1..Len(prog)
      BY <1>3, <1>2, <2>2, <2>3, <2>5
    <3>. QED
      BY <1>0, <2>2, <3>1 DEF Serial
  <2>6. CASE Last(prog').at \in Functions /\ ~Last(spbags_frame_skipped')
    <3>1. pc' = "body" /\ ~HasPbags(frames'[depth'])
      BY <1>0, <1>1, <2>1, <2>6 DEF NewFunction
    <3>2. x = depth' /\ x = SlotIn(prog, n) + 1 /\ frames'[x].type = "spawner"
      BY <2>2, <2>3, <2>6, <3>1 DEF FrameType, Functions
    <3>3. SlotIn(prog, n) \in Nat /\ n \in 1..Len(prog)
      <4>1. StandsAt(prog, spbags_frame_skipped, n) /\ n \in 1..Len(prog)
        BY <1>0, <1>2 DEF Standing, OnFrames
      <4>. QED
        BY <4>1 DEF StandsAt
    <3>4. x - 1 = SlotIn(prog, n)
      BY <3>2, <3>3
    <3>5. Serial(x - 1)
      BY <1>0, <2>2, <3>3, <3>4 DEF Serial
    <3>. QED
      BY <3>1, <3>2, <3>5
  <2>. QED
    BY <2>4, <2>5, <2>6 DEF Parallel, Activations, Functions
<1>. QED
  BY <1>5, <1>6

\* A sync that restores the state.
LEMMA RestoresInherit ==
    ASSUME Engine, Standing, [DriverNext]_hvars, Aligned, StepRestores
    PROVE  Inherits
<1>0. PICK p, s, q, t : /\ p = prog /\ s = parallel_execution
                        /\ q = prog' /\ t = parallel_execution'
  OBVIOUS
<1>1. PICK m \in Nat : /\ Restored(p, s, q, t, m) /\ SyncsAt(m) /\ depth' = depth
                       /\ ~HasPbags(frames'[depth]) /\ pc = "body"
                       /\ frames'[depth].type = head.type
  BY <1>0 DEF StepRestores
<1>2. /\ m \in 2..Len(p) /\ Len(q) \in 1..Len(p) /\ Agree(q, p, Len(q)) /\ Len(p) \in Nat
      /\ \A j \in 1..Len(q) :
            StateIn(q, t, j) = IF j < m THEN StateIn(p, s, j) ELSE StateIn(p, s, m - 1)
  <2>1. Len(prog) \in Nat
    BY TopPlace DEF Engine
  <2>. QED
    BY <1>0, <1>1, <2>1 DEF Restored
<1>3. \A j \in 1..Len(q) : SlotIn(prog, j)' = SlotIn(prog, j) /\ j \in 1..Len(prog)
  BY <1>0, <1>2, SlotsStill
<1>. SUFFICES ASSUME NEW x, Serial(x)'
              PROVE  \/ Serial(x)
                     \/ /\ x = depth' /\ Serial(x - 1)
                        /\ frames'[x].type = "spawner" /\ ~HasPbags(frames'[x])
  BY DEF Inherits
<1>4. PICK j \in 1..Len(q) : StateIn(q, t, j) = 0 /\ SlotIn(prog, j)' = x
  BY <1>0 DEF Serial
<1>5. CASE j < m
  <2>1. StateIn(p, s, j) = 0 /\ SlotIn(prog, j) = x /\ j \in 1..Len(prog)
    BY <1>2, <1>3, <1>4, <1>5
  <2>. QED
    BY <1>0, <2>1 DEF Serial
<1>6. CASE ~(j < m)
  <2>1. StateIn(p, s, m - 1) = 0 /\ m - 1 \in 1..Len(prog) /\ m \in 1..Len(prog)
    BY <1>0, <1>2, <1>4, <1>6
  <2>2. p[m].at = "cilk"
    <3>1. p[m - 1].at \in Parallel => StateIn(p, s, m - 1) = 1
      BY <1>0, <2>1 DEF Aligned, Alignment
    <3>. QED
      BY <1>0, <1>1, <2>1, <3>1 DEF SyncsAt, Parallel
  <2>3. /\ SlotIn(prog, m) = depth /\ SlotIn(prog, m - 1) = depth - 1
        /\ head.type = "spawner" /\ (m = Len(p) \/ m = Len(p) - 1)
    BY <1>0, <1>1, <2>2 DEF SyncsAt
  <2>4. SlotIn(prog, j) = depth
    <3>1. SlotIn(prog, Len(prog)) = depth /\ Len(prog) \in 1..Len(prog)
      BY <1>1, TopPlace DEF Engine
    <3>2. j = m \/ j = Len(p)
      BY <1>2, <1>6, <2>3
    <3>. QED
      BY <1>0, <2>3, <3>1, <3>2
  <2>5. x = depth
    BY <1>3, <1>4, <2>4
  <2>6. frames'[depth].type = "spawner"
    BY <1>1, <2>3
  <2>7. Serial(x - 1)
    BY <1>0, <2>1, <2>3, <2>5 DEF Serial
  <2>. QED
    BY <1>1, <2>5, <2>6, <2>7
<1>. QED
  BY <1>5, <1>6

\* Serial code runs on the stack, and not in a loop frame between iterations.
SerialOnStack ==
    \A x : Serial(x) => x \in 1..depth /\ x <= IF pc = "between" THEN depth - 1 ELSE depth

\* A program that stands on its frames has its serial code on the stack.
LEMMA SerialStands == TypeOK /\ Standing => SerialOnStack
<1>. SUFFICES ASSUME TypeOK, Standing, NEW x, Serial(x)
              PROVE  x \in 1..depth /\ x <= IF pc = "between" THEN depth - 1 ELSE depth
  BY DEF SerialOnStack
<1>1. PICK j \in 1..Len(prog) : SlotIn(prog, j) = x
  BY DEF Serial
<1>2. /\ Len(prog) \in 1..Len(prog) /\ j <= Len(prog)
      /\ SlotIn(prog, Len(prog)) = IF pc = "between" THEN depth - 1 ELSE depth
  BY TopPlace
<1>3. StandsAt(prog, spbags_frame_skipped, j) /\ Climbs(prog, j, Len(prog))
  BY <1>2 DEF Standing, OnFrames
<1>. QED
  BY <1>1, <1>2, <1>3 DEF StandsAt, Climbs

\* Serial code runs on frames of functions.
SerialTypes == \A x : Serial(x) => \A i \in 2..x : frames[i].type = "spawner"

\* Frames that stay on the stack keep their types.
LEMMA TypesStay ==
    ASSUME Engine, [Next]_vars, NEW i \in 1..depth, i <= depth'
    PROVE  frames'[i].type = frames[i].type
<1>0. TypeOK /\ Shape /\ LoopsApart
  BY DEF Engine
<1>1. i \in Slots /\ depth \in Nat /\ i \in Nat /\ i \in 1..depth
  BY <1>0 DEF TypeOK
<1>2. CASE Push
  <2>1. PICK type \in {"spawner", "detacher", "loop"}, n \in 0..MaxRegs, r \in Regs :
            CanPush /\ start_new_function(type, n, r)
    BY <1>2 DEF Push
  <2>2. \A j \in 1..depth : frames'[j] = frames[j]
    BY <1>0, <2>1, PushFacts
  <2>. QED
    BY <2>2
<1>3. CASE Pop
  <2>1. depth' = depth - 1 /\ \A j \in 1..depth' : frames'[j].type = frames[j].type
    BY <1>0, <1>3, PopFacts
  <2>2. i \in 1..depth'
    BY <1>1, <2>1
  <2>. QED
    BY <2>1, <2>2
<1>4. CASE HeadOnly
  BY <1>0, <1>1, <1>4, HeadTree
<1>5. CASE do_loop_iteration_end
  BY <1>0, <1>1, <1>5, IterationTree
<1>6. CASE do_loop_begin \/ UNCHANGED vars
  BY <1>6 DEF do_loop_begin, vars
<1>. QED
  BY <1>2, <1>3, <1>4, <1>5, <1>6, StepKinds

\* Every step keeps serial code on the frames of functions.
LEMMA SerialTypesStep ==
    ASSUME Engine, TypeOK', Standing, Standing', SerialTypes, Inherits, [Next]_vars
    PROVE  SerialTypes'
<1>. SUFFICES ASSUME NEW x, Serial(x)', NEW i \in 2..x
              PROVE  frames'[i].type = "spawner"
  BY DEF SerialTypes
<1>0. TypeOK /\ depth \in Nat /\ depth' \in Nat
  <2>1. TypeOK
    BY DEF Engine
  <2>2. depth \in Nat
    BY <2>1 DEF TypeOK
  <2>3. depth' \in Nat
    BY DEF TypeOK
  <2>. QED
    BY <2>1, <2>2, <2>3
<1>1. x \in 1..depth'
  <2>1. SerialOnStack'
    BY SerialStands, PTL
  <2>. QED
    BY <2>1 DEF SerialOnStack
<1>2. \A y : Serial(y) => y \in 1..depth
  BY <1>0, SerialStands DEF SerialOnStack
<1>3. ASSUME NEW y, Serial(y), i \in 2..y PROVE frames'[i].type = "spawner"
  <2>1. i \in 1..depth /\ i <= depth'
    BY <1>0, <1>1, <1>2, <1>3
  <2>2. frames[i].type = "spawner"
    BY <1>3 DEF SerialTypes
  <2>. QED
    BY <2>1, <2>2, TypesStay
<1>4. CASE Serial(x)
  BY <1>3, <1>4
<1>5. CASE Serial(x - 1) /\ frames'[x].type = "spawner"
  <2>1. i = x \/ i \in 2..(x - 1)
    BY <1>1
  <2>. QED
    BY <1>3, <1>5, <2>1
<1>. QED
  BY <1>4, <1>5 DEF Inherits

\* A frame has no P-bag, but for one whose sync comes next.
Quiet(i) ==
    \A q \in Regs : frames[i].Pbags[q] =>
        Last(prog).at = "loopsync" /\ i = depth /\ q = Last(prog).reg

\* No frame that serial code runs on has anything outstanding.
SerialQuiet == \A x : Serial(x) => \A i \in 1..x : Quiet(i)

\* A P-bag that appears in the stack is that of a task, of an iteration or
\* of a finished loop.
LEMMA NewPbags ==
    ASSUME Engine, [DriverNext]_hvars, NEW i \in 1..depth, i <= depth', NEW q \in Regs,
           frames'[i].Pbags[q]
    PROVE  \/ frames[i].Pbags[q]
           \/ task_exit /\ i = depth - 1
           \/ task_exit_iteration /\ i = depth
           \/ after_loop /\ i = depth - 1 /\ q = tree[head.fid].reg
<1>0. TypeOK /\ Shape
  BY DEF Engine
<1>1. /\ i \in Slots /\ depth \in Slots /\ frames \in [Slots -> FrameData]
      /\ frames[i] \in FrameData /\ frames[depth] \in FrameData
      /\ frames[i].Pbags \in [Regs -> BOOLEAN]
  <2>1. depth \in Slots /\ frames \in [Slots -> FrameData]
    BY <1>0 DEF TypeOK
  <2>2. i \in Slots
    BY <2>1
  <2>3. frames[i] \in FrameData /\ frames[depth] \in FrameData
    BY <2>1, <2>2
  <2>. QED
    BY <2>1, <2>2, <2>3, FrameFields
<1>2. ASSUME NEW type \in {"spawner", "detacher", "loop"}, NEW n \in 0..MaxRegs,
             NEW r \in Regs, CanPush, start_new_function(type, n, r)
      PROVE  frames[i].Pbags[q]
  <2>1. \A j \in 1..depth : frames'[j] = frames[j]
    BY <1>0, <1>2, PushFacts
  <2>. QED
    BY <2>1
<1>3. ASSUME NEW n \in SyncRegCounts, NEW may_spawn \in BOOLEAN, func_entry(may_spawn, n)
      PROVE  frames[i].Pbags[q]
  <2>1. UNCHANGED vars \/ (CanPush /\ start_new_function("spawner", n, 0))
    BY <1>3 DEF func_entry, do_enter
  <2>2. n \in 0..MaxRegs /\ 0 \in Regs
    OBVIOUS
  <2>. QED
    BY <1>2, <2>1, <2>2 DEF vars
<1>4. ASSUME NEW n \in SyncRegCounts, NEW r \in Regs, task(n, r) PROVE frames[i].Pbags[q]
  <2>1. CanPush /\ start_new_function("detacher", n, r) /\ n \in 0..MaxRegs
    BY <1>4 DEF task, do_task
  <2>. QED
    BY <1>2, <2>1
<1>5. ASSUME NEW n \in SyncRegCounts, NEW r \in Regs, task_iteration(n, r)
      PROVE  frames[i].Pbags[q]
  <2>1. CASE do_loop_iteration_first(n, r)
    <3>1. PICK m : m = IF n > 0 THEN n ELSE 1
      OBVIOUS
    <3>2. CanPush /\ start_new_function("loop", m, r) /\ m \in 0..MaxRegs
      BY <2>1, <3>1 DEF do_loop_iteration_first
    <3>. QED
      BY <1>2, <3>2
  <2>2. CASE do_loop_iteration_begin
    BY <1>1, <2>2 DEF do_loop_iteration_begin, FrameData
  <2>. QED
    BY <1>5, <2>1, <2>2 DEF task_iteration
<1>6. CASE func_exit
  <2>1. CASE UNCHANGED vars
    BY <2>1 DEF vars
  <2>2. CASE leave_cilk_function
    <3>1. /\ depth' = depth - 1 /\ ~HasPbags(head) /\ depth - 1 \in Slots /\ i # depth
          /\ frames' = [frames EXCEPT
                    ![depth - 1].Sbag_used = @ \/ head.Sbag_used,
                    ![depth - 1].Pbags[0] = @ \/ HasPbags(head),
                    ![depth] = ResetFrame]
      BY <1>1, <2>2 DEF leave_cilk_function, merge_from_call, exit_function
    <3>2. frames'[i].Pbags = IF i = depth - 1
                             THEN [frames[i].Pbags EXCEPT ![0] = @ \/ HasPbags(head)]
                             ELSE frames[i].Pbags
      BY <1>1, <3>1 DEF FrameData
    <3>. QED
      BY <1>1, <3>1, <3>2
  <2>. QED
    BY <1>6, <2>1, <2>2 DEF func_exit
<1>7. CASE task_exit
  <2>1. /\ depth' = depth - 1 /\ i # depth /\ depth - 1 \in Slots
        /\ frames' = [frames EXCEPT ![depth - 1].Pbags[tree[head.fid].reg] = TRUE,
                                    ![depth] = ResetFrame]
    BY <1>1, <1>7 DEF task_exit, return_from_detach, merge_from_detach, exit_function
  <2>2. CASE i # depth - 1
    BY <1>1, <2>1, <2>2
  <2>. QED
    BY <1>7, <2>2
<1>8. CASE \E is_unwind \in BOOLEAN : detach_continue(is_unwind)
  <2>1. CASE do_detach_continue
    BY <1>1, <2>1 DEF do_detach_continue, FrameData
  <2>2. CASE do_detach_unwind
    <3>1. CASE i = depth
      <4>1. sync_reg \in Regs
        BY <1>0 DEF TypeOK
      <4>2. frames'[depth].Pbags = [frames[depth].Pbags EXCEPT ![sync_reg] = FALSE]
        BY <1>1, <2>2 DEF do_detach_unwind, FrameData, head
      <4>. QED
        BY <1>1, <3>1, <4>1, <4>2
    <3>2. CASE i # depth
      BY <1>1, <2>2, <3>2 DEF do_detach_unwind
    <3>. QED
      BY <3>1, <3>2
  <2>. QED
    BY <1>8, <2>1, <2>2 DEF detach_continue
<1>9. ASSUME NEW r \in Regs, sync(r) PROVE frames[i].Pbags[q]
  <2>1. frames' = [frames EXCEPT ![depth].Sbag_used = @ \/ head.Pbags[r],
                                 ![depth].Pbags[r] = FALSE,
                                 ![depth].InContin = @ \ {r + 1}]
    BY <1>9 DEF sync, do_sync
  <2>2. frames'[i].Pbags = IF i = depth THEN [frames[i].Pbags EXCEPT ![r] = FALSE]
                           ELSE frames[i].Pbags
    BY <1>1, <2>1 DEF FrameData
  <2>. QED
    BY <1>1, <2>2
<1>10. CASE task_exit_iteration
  <2>1. \A j \in Slots : j # depth => frames'[j] = frames[j]
    BY <1>0, <1>10, IterationTree DEF task_exit_iteration
  <2>. QED
    BY <1>1, <1>10, <2>1
<1>11. CASE after_loop
  <2>0. PICK r : r = tree[head.fid].reg
    OBVIOUS
  <2>1. /\ depth' = depth - 1 /\ i # depth /\ depth - 1 \in Slots
        /\ frames' = [frames EXCEPT ![depth - 1].Pbags[r] = TRUE, ![depth] = ResetFrame]
    <3>1. /\ depth' = depth - 1
          /\ frames' = [frames EXCEPT ![depth - 1].Pbags[r] = TRUE, ![depth] = ResetFrame]
      BY <1>11, <2>0 DEF after_loop, do_loop_end, exit_function
    <3>2. i # depth /\ depth - 1 \in Slots
      BY <1>1, <3>1
    <3>. QED
      BY <3>1, <3>2
  <2>2. CASE i # depth - 1
    BY <1>1, <2>1, <2>2
  <2>3. CASE i = depth - 1 /\ q # r
    <3>1. frames'[i].Pbags = [frames[i].Pbags EXCEPT ![r] = TRUE]
      BY <1>1, <2>1, <2>3 DEF FrameData
    <3>. QED
      BY <1>1, <2>3, <3>1
  <2>. QED
    BY <1>11, <2>0, <2>2, <2>3
<1>12. CASE access
  <2>1. CASE UNCHANGED vars
    BY <2>1 DEF vars
  <2>2. CASE record_access
    BY <1>1, <2>2 DEF record_access, getSbagForAccess, FrameData
  <2>. QED
    BY <1>12, <2>1, <2>2 DEF access
<1>13. CASE \/ before_call \/ after_call \/ detach \/ before_loop \/ detach_iteration
            \/ detach_continue_iteration \/ UNCHANGED hvars
  <2>1. UNCHANGED frames
    BY <1>13 DEF before_call, after_call, detach, before_loop, do_loop_begin,
                 detach_iteration, detach_continue_iteration, hvars, vars
  <2>. QED
    BY <2>1
<1>. QED
  BY <1>3, <1>4, <1>5, <1>6, <1>7, <1>8, <1>9, <1>10, <1>11, <1>12, <1>13 DEF DriverNext

\* What spawned a task is not serial while the task runs.
LEMMA TaskParallel ==
    ASSUME Engine, Standing, Aligned, task_exit
    PROVE  ~Serial(depth - 1)
<1>. SUFFICES ASSUME Serial(depth - 1) PROVE FALSE
  OBVIOUS
<1>0. PICK p, s, n : p = prog /\ s = parallel_execution /\ n = Len(prog)
  OBVIOUS
<1>1. WellFormed(p) /\ OnFrames(p, spbags_frame_skipped) /\ Alignment(p, s)
  BY <1>0 DEF Standing, Aligned
<1>2. /\ n \in Nat /\ n > 1 /\ p[n].at = "task" /\ SlotIn(p, n) = depth /\ depth \in Nat
  <2>1. Last(prog).at = "task" /\ pc = "body"
    BY DEF task_exit, InSite, return_from_detach
  <2>. QED
    BY <1>0, <2>1, TopPlace, TopLong DEF Engine
<1>3. n \in 1..Len(p) /\ n \in 2..Len(p) /\ n - 1 \in 1..Len(p)
  BY <1>0, <1>2
<1>4. p[n - 1].at = "detach"
  BY <1>1, <1>2, <1>3 DEF WellFormed, Fits
<1>5. n - 1 # 1
  BY <1>1, <1>4 DEF WellFormed
<1>6. n - 1 \in 2..Len(p) /\ n - 2 \in 1..Len(p) /\ (n - 1) - 1 = n - 2
  BY <1>2, <1>3, <1>5
<1>7. p[n - 2].at \in Spawners
  <2>1. Fits(p[n - 1].at, p[(n - 1) - 1].at)
    BY <1>1, <1>6 DEF WellFormed
  <2>. QED
    BY <1>4, <1>6, <2>1 DEF Fits
<1>8. SlotIn(p, n - 1) = depth - 1 /\ SlotIn(p, n - 2) = depth - 1
  <2>1. /\ Last(prog).at \in Activations \ Functions
           => SlotIn(prog, Len(prog)) = SlotIn(prog, Len(prog) - 1) + 1
        /\ Last(prog) = p[n]
    BY <1>0, <1>2, TopPlace, TopTwo DEF Engine
  <2>2. SlotIn(p, n) = SlotIn(p, n - 1) + 1
    BY <1>0, <1>2, <2>1 DEF Activations, Functions
  <2>3. SlotIn(p, n - 1) \in Nat
    BY <1>1, <1>3 DEF OnFrames, StandsAt
  <2>4. FidIn(p, n - 1) = FidIn(p, n - 2)
    BY <1>1, <1>4, <1>6, FidBelow DEF Activations
  <2>. QED
    BY <1>2, <2>2, <2>3, <2>4 DEF SlotIn
<1>9. StateIn(p, s, n - 1) = 1 /\ StateIn(p, s, n - 2) = 1
  <2>1. StateIn(p, s, n - 1) = 1
    BY <1>1, <1>3, <1>4 DEF Alignment, Parallel
  <2>2. LevelIn(p, n - 1) = LevelIn(p, n - 2) + 0 /\ LevelIn(p, n - 2) \in Nat
    <3>1. n - 2 \in 0..Len(p) /\ n - 1 \in 1..Len(p) /\ p[n - 1].at \notin Pushing
      BY <1>3, <1>4, <1>6 DEF Pushing, Functions
    <3>2. LevelIn(p, n - 1) = LevelIn(p, (n - 1) - 1)
                                + (IF p[n - 1].at \in Pushing THEN 1 ELSE 0)
      BY <1>1, <3>1, LevelFacts
    <3>. QED
      BY <1>1, <1>6, <3>1, <3>2, LevelFacts
  <2>. QED
    BY <2>1, <2>2 DEF StateIn
<1>10. PICK j \in 1..n : StateIn(p, s, j) = 0 /\ SlotIn(p, j) = depth - 1
  BY <1>0 DEF Serial
<1>11. j # n
  BY <1>2, <1>10
<1>12. j # n - 1 /\ j # n - 2
  BY <1>9, <1>10
<1>13. j < n - 2
  BY <1>2, <1>10, <1>11, <1>12
<1>14. Climbs(p, j, n - 2)
  BY <1>0, <1>1, <1>6, <1>10 DEF OnFrames
<1>. QED
  BY <1>2, <1>7, <1>8, <1>10, <1>13, <1>14 DEF Climbs

\* A finished loop is followed by nothing but its sync.
LEMMA SyncNext ==
    ASSUME DriverNext, Last(prog).at = "loopsync"
    PROVE  \E r \in Regs : sync(r) /\ r = Last(prog).reg
  BY DEF DriverNext, before_call, after_call, func_entry, func_exit, detach, task, task_exit,
         detach_continue, sync, before_loop, detach_iteration, task_iteration,
         task_exit_iteration, detach_continue_iteration, after_loop, access,
         Running, Spawning, InSite, Activations

\* A sync takes the P-bag of its region away.
LEMMA SyncClears ==
    ASSUME TypeOK, NEW r \in Regs, sync(r)
    PROVE  ~frames'[depth].Pbags[r]
<1>1. frames' = [frames EXCEPT ![depth].Sbag_used = @ \/ head.Pbags[r],
                               ![depth].Pbags[r] = FALSE,
                               ![depth].InContin = @ \ {r + 1}]
  BY DEF sync, do_sync
<1>2. depth \in Slots /\ frames \in [Slots -> FrameData]
  BY DEF TypeOK
<1>3. frames[depth] \in FrameData
  BY <1>2
<1>4. frames[depth].Pbags \in [Regs -> BOOLEAN]
  BY <1>3, FrameFields
<1>5. frames'[depth].Pbags = [frames[depth].Pbags EXCEPT ![r] = FALSE]
  BY <1>1, <1>2, <1>3 DEF FrameData
<1>. QED
  BY <1>4, <1>5

\* In a program that syncs after its loops, every step leaves serial code
\* with nothing outstanding.
LEMMA SerialQuietStep ==
    ASSUME Engine, TypeOK', Standing, Standing', Aligned, SerialQuiet, Inherits,
           [DriverNext]_hvars, SyncAfterLoop
    PROVE  SerialQuiet'
<1>. SUFFICES ASSUME NEW x, Serial(x)', NEW i \in 1..x, NEW q \in Regs, frames'[i].Pbags[q],
                     ~(Last(prog').at = "loopsync" /\ i = depth' /\ q = Last(prog').reg)
              PROVE  FALSE
  BY DEF SerialQuiet, Quiet
<1>0. TypeOK /\ depth \in Nat /\ depth' \in Nat
  <2>1. TypeOK
    BY DEF Engine
  <2>2. depth \in Nat
    BY <2>1 DEF TypeOK
  <2>3. depth' \in Nat
    BY DEF TypeOK
  <2>. QED
    BY <2>1, <2>2, <2>3
<1>1. x \in 1..depth' /\ x <= IF pc' = "between" THEN depth' - 1 ELSE depth'
  <2>1. SerialOnStack'
    BY SerialStands, PTL
  <2>. QED
    BY <2>1 DEF SerialOnStack
<1>2. \A y : Serial(y) => y \in 1..depth
  BY <1>0, SerialStands DEF SerialOnStack
<1>3. \/ x = depth' /\ i = x /\ ~HasPbags(frames'[x])
      \/ i \in 1..depth /\ Quiet(i) /\ (Serial(x) \/ (x = depth' /\ i < x))
  <2>0. ASSUME NEW y, Serial(y), i \in 1..y PROVE i \in 1..depth /\ Quiet(i)
    <3>1. y \in 1..depth
      BY <1>2, <2>0
    <3>2. i \in 1..depth
      BY <1>0, <2>0, <3>1
    <3>. QED
      BY <2>0, <3>2 DEF SerialQuiet
  <2>1. CASE Serial(x)
    BY <2>0, <2>1
  <2>2. CASE x = depth' /\ Serial(x - 1) /\ ~HasPbags(frames'[x])
    <3>1. i = x \/ (i \in 1..(x - 1) /\ i < x)
      BY <1>1
    <3>2. ASSUME i \in 1..(x - 1) PROVE i \in 1..depth /\ Quiet(i)
      BY <2>0, <2>2, <3>2
    <3>. QED
      BY <2>2, <3>1, <3>2
  <2>. QED
    BY <2>1, <2>2 DEF Inherits
<1>4. ~(i = x /\ ~HasPbags(frames'[x]))
  BY DEF HasPbags
<1>5. i \in 1..depth /\ Quiet(i) /\ (Serial(x) \/ (x = depth' /\ i < x)) /\ i <= depth'
  BY <1>0, <1>1, <1>3, <1>4
<1>6. CASE frames[i].Pbags[q]
  <2>1. Last(prog).at = "loopsync" /\ i = depth /\ q = Last(prog).reg
    BY <1>5, <1>6 DEF Quiet
  <2>2. CASE DriverNext
    <3>1. sync(q)
      BY <2>1, <2>2, SyncNext
    <3>. QED
      BY <1>0, <2>1, <3>1, SyncClears
  <2>3. CASE UNCHANGED hvars
    <3>1. prog' = prog /\ depth' = depth
      BY <2>3 DEF hvars, vars
    <3>. QED
      BY <2>1, <3>1
  <2>. QED
    BY <2>2, <2>3
<1>7. CASE task_exit /\ i = depth - 1
  <2>1. depth' = depth - 1
    BY <1>7 DEF task_exit, return_from_detach, exit_function
  <2>2. x = depth - 1
    BY <1>0, <1>1, <1>7, <2>1
  <2>. QED
    BY <1>5, <1>7, <2>2, TaskParallel, <1>0, <2>1
<1>8. CASE task_exit_iteration /\ i = depth
  <2>1. depth' = depth /\ pc' = "between"
    BY <1>8 DEF task_exit_iteration, do_loop_iteration_end
  <2>. QED
    BY <1>0, <1>1, <1>8, <2>1
<1>9. CASE after_loop /\ i = depth - 1 /\ q = tree[head.fid].reg
  <2>1. /\ depth' = depth - 1
        /\ prog' = Append(Front(prog), [at |-> "loopsync", fid |-> 0, reg |-> q])
    BY <1>9 DEF after_loop, do_loop_end, exit_function
  <2>2. PICK e, o : e = [at |-> "loopsync", fid |-> 0, reg |-> q] /\ o = Front(prog)
    OBVIOUS
  <2>3. e \in Entry /\ e.at = "loopsync" /\ e.reg = q
    BY <1>0, <1>9, <2>2, EntryTypes
  <2>4. o \in Seq(Entry)
    <3>1. prog \in Seq(Entry) /\ Len(prog) # 0
      BY DEF Standing, WellFormed
    <3>. QED
      BY <2>2, <3>1, StackPop
  <2>5. Last(prog') = e
    BY <2>1, <2>2, <2>3, <2>4, StackPush
  <2>. QED
    BY <1>9, <2>1, <2>3, <2>5
<1>. QED
  BY <1>5, <1>6, <1>7, <1>8, <1>9, NewPbags

\* Every step leaves serial code where serial code was.
LEMMA InheritsStep ==
    ASSUME EngineOK, StacksOK, TypeOK', StacksOK', [DriverNext]_hvars
    PROVE  Inherits
<1>1. Engine /\ Standing /\ Aligned
  BY DEF EngineOK, Engine, StacksOK
<1>2. Standing' /\ Aligned'
  BY DEF StacksOK
<1>3. StepMoves \/ StepRestores
  BY <1>1, StatesStep
<1>. QED
  BY <1>1, <1>2, <1>3, MovesInherit, RestoresInherit

\* The code at the top runs on the head frame, and is serial when the top of
\* parallel_execution says so.
LEMMA SerialHead ==
    ASSUME TypeOK, Standing, Aligned, pc # "between", Last(parallel_execution) # 1
    PROVE  Serial(depth) /\ depth \in 1..depth
<1>0. PICK p, s : p = prog /\ s = parallel_execution
  OBVIOUS
<1>1. Alignment(p, s)
  BY <1>0 DEF Aligned
<1>2. Len(p) \in 1..Len(p) /\ SlotIn(prog, Len(prog)) = depth /\ depth \in 1..depth
  BY <1>0, TopPlace
<1>3. StateIn(p, s, Len(p)) \in {0, 1} /\ Last(s) = StateIn(p, s, Len(p))
  BY <1>1, <1>2, LevelFacts
<1>4. StateIn(p, s, Len(p)) = 0
  BY <1>0, <1>3
<1>. QED
  BY <1>0, <1>2, <1>4 DEF Serial

\* Every access that was not recorded was made under nothing but calls.
UnseenSerial ==
    \A a \in unseen :
        /\ a.owner \in 0..frame_id
        /\ \A k \in 2..tree[a.owner].level : tree[tree[a.owner].path[k]].type = "spawner"

\* The running strand's access, where the execution is serial.
LEMMA CurrentSerial ==
    ASSUME Engine, Standing, Aligned, SerialTypes, pc = "body",
           Last(parallel_execution) # 1
    PROVE  /\ head.fid \in 0..frame_id
           /\ \A k \in 2..tree[head.fid].level :
                  tree[tree[head.fid].path[k]].type = "spawner"
<1>1. TypeOK /\ InTree /\ depth \in 1..depth /\ Serial(depth)
  BY SerialHead DEF Engine
<1>2. \A i \in 2..depth : frames[i].type = "spawner"
  BY <1>1 DEF SerialTypes
<1>3. depth \in Nat /\ frame_id \in Nat
  BY <1>1 DEF TypeOK
<1>4. head.fid \in 0..frame_id /\ tree[head.fid].level = depth
  BY <1>1 DEF InTree, OnStack, head
<1>5. PICK f : f = head.fid
  OBVIOUS
<1>6. f \in 0..frame_id /\ tree[f].level = depth /\ tree[f].path[depth] = f
  BY <1>4, <1>5, <1>1 DEF InTree, PathsAgree
<1>7. \A i \in 1..depth : tree[f].path[i] = frames[i].fid
  <2>1. depth \in 1..tree[f].level /\ depth <= depth /\ tree[f].path[depth] = frames[depth].fid
    BY <1>1, <1>3, <1>5, <1>6 DEF head
  <2>2. PathsAgree
    BY <1>1 DEF InTree
  <2>. QED
    BY <1>6, <2>1, <2>2 DEF PathsAgree
<1>8. ASSUME NEW k \in 2..depth PROVE tree[tree[f].path[k]].type = "spawner"
  <2>1. k \in 1..depth
    BY <1>3, <1>8
  <2>2. tree[frames[k].fid].type = frames[k].type
    BY <1>1, <2>1 DEF InTree, OnStack
  <2>. QED
    BY <1>2, <1>7, <1>8, <2>1, <2>2
<1>. QED
  BY <1>5, <1>6, <1>8

\* Every step keeps the unseen accesses under calls alone.
LEMMA UnseenSerialStep ==
    ASSUME Engine, TypeOK', Standing, Aligned, SerialTypes, UnseenSerial,
           [DriverNext]_hvars
    PROVE  UnseenSerial'
<1>. SUFFICES ASSUME NEW a \in unseen'
              PROVE  /\ a.owner \in 0..frame_id'
                     /\ \A k \in 2..tree'[a.owner].level :
                            tree'[tree'[a.owner].path[k]].type = "spawner"
  BY DEF UnseenSerial
<1>1. /\ frame_id \in Nat /\ frame_id <= frame_id'
      /\ \A f \in 0..frame_id : tree'[f] = tree[f]
  <2>1. TypeOK
    BY DEF Engine
  <2>2. frame_id \in Nat
    BY <2>1 DEF TypeOK
  <2>. QED
    BY <2>2, EngineStep, TreeGrows
<1>2. frame_id' \in Nat
  BY DEF TypeOK
<1>3. /\ a.owner \in 0..frame_id
      /\ \A k \in 2..tree[a.owner].level : tree[tree[a.owner].path[k]].type = "spawner"
  <2>1. CASE a \in unseen
    BY <2>1 DEF UnseenSerial
  <2>2. CASE access /\ Last(parallel_execution) # 1 /\ a = CurrentAccess
    <3>1. a.owner = head.fid /\ pc = "body"
      BY <2>2 DEF access, Running, CurrentAccess
    <3>. QED
      BY <2>2, <3>1, CurrentSerial
  <2>. QED
    BY <2>1, <2>2, UnseenStep
<1>4. tree'[a.owner] = tree[a.owner]
  BY <1>1, <1>3
<1>5. ASSUME NEW k \in 2..tree[a.owner].level
      PROVE  tree'[tree[a.owner].path[k]] = tree[tree[a.owner].path[k]]
  <2>1. /\ tree[a.owner].level \in Slots
        /\ \A j \in 1..tree[a.owner].level : tree[a.owner].path[j] \in 0..frame_id
    BY <1>3 DEF Engine, InTree, PathsAgree
  <2>2. k \in 1..tree[a.owner].level
    BY <1>5, <2>1
  <2>. QED
    BY <1>1, <2>1, <2>2
<1>. QED
  BY <1>1, <1>2, <1>3, <1>4, <1>5

-----------------------------------------------------------------------------
(***************************************************************************)
(* What the driver leaves out is serial.                                   *)
(***************************************************************************)
\* The inductive invariant behind the theorems about serial code.
SerialOK == Owed /\ SerialTypes /\ UnseenSerial

\* Initially only main's caller is there, on the first frame.
LEMMA SerialInit == DriverInit => SerialOK /\ SerialQuiet
<1>. SUFFICES ASSUME DriverInit PROVE SerialOK /\ SerialQuiet
  OBVIOUS
<1>1. Init /\ TypeOK /\ Standing /\ unseen = {}
  BY InitFacts, StacksInit DEF DriverInit, StacksOK
<1>2. depth = 1 /\ pc = "body" /\ \A q \in Regs : ~frames[1].Pbags[q]
  BY <1>1 DEF Init, ResetFrame
<1>3. \A x : Serial(x) => x = 1
  BY <1>1, <1>2, SerialStands DEF SerialOnStack
<1>4. SerialTypes
  BY <1>3 DEF SerialTypes
<1>5. SerialQuiet
  BY <1>2, <1>3 DEF SerialQuiet, Quiet
<1>. QED
  BY <1>1, <1>4, <1>5, OwedInit DEF SerialOK, UnseenSerial

\* Every step keeps it.
LEMMA SerialOKStep ==
    ASSUME EngineOK, StacksOK, SerialOK, TypeOK', StacksOK', [DriverNext]_hvars
    PROVE  SerialOK'
<1>1. Engine /\ Standing /\ Aligned /\ Standing' /\ [Next]_vars
  BY EngineStep DEF EngineOK, Engine, StacksOK
<1>2. Owed /\ SerialTypes /\ UnseenSerial
  BY DEF SerialOK
<1>3. Owed'
  BY <1>1, <1>2, OwedStep
<1>4. SerialTypes'
  BY <1>1, <1>2, InheritsStep, SerialTypesStep
<1>5. UnseenSerial'
  BY <1>1, <1>2, UnseenSerialStep
<1>. QED
  BY <1>3, <1>4, <1>5 DEF SerialOK

\* The invariant holds of every program.
LEMMA SerialInvariant == DriverSpec => [](EngineOK /\ StacksOK /\ SerialOK)
<1>1. DriverInit => SerialOK
  BY SerialInit
<1>2. /\ EngineOK /\ StacksOK /\ SerialOK /\ (EngineOK /\ StacksOK)'
      /\ [DriverNext]_hvars
      => SerialOK'
  BY SerialOKStep DEF EngineOK
<1>. QED
  BY <1>1, <1>2, StacksInvariant, PTL DEF DriverSpec

\* A program that syncs after its loops leaves nothing outstanding either.
LEMMA QuietInvariant ==
    ASSUME SyncAfterLoop
    PROVE  DriverSpec => [](EngineOK /\ StacksOK /\ SerialOK /\ SerialQuiet)
<1>1. DriverInit => SerialQuiet
  BY SerialInit
<1>2. ASSUME EngineOK, StacksOK, SerialQuiet, (EngineOK /\ StacksOK)', [DriverNext]_hvars
      PROVE  SerialQuiet'
  <2>1. Engine /\ Standing /\ Aligned
    BY <1>2 DEF EngineOK, Engine, StacksOK
  <2>2. TypeOK' /\ Standing' /\ StacksOK'
    BY <1>2 DEF EngineOK, StacksOK
  <2>3. Inherits
    BY <1>2, <2>2, InheritsStep
  <2>. QED
    BY <1>2, <2>1, <2>2, <2>3, SerialQuietStep
<1>3. /\ EngineOK /\ StacksOK /\ SerialQuiet /\ (EngineOK /\ StacksOK)' /\ [DriverNext]_hvars
      => SerialQuiet'
  BY <1>2
<1>. QED
  BY <1>1, <1>3, SerialInvariant, PTL DEF DriverSpec

\* The frame below the youngest common frame that an access was made under.
LEMMA ChildOfLCA ==
    ASSUME TypeOK, InTree, NEW a, a.owner \in 0..frame_id, NEW k \in 1..depth,
           IsLCA(a, k), tree[a.owner].level # k
    PROVE  /\ ChildOf(a, k) \in 1..frame_id
           /\ k + 1 \in 2..tree[a.owner].level
           /\ tree[ChildOf(a, k)].level = k + 1
           /\ tree[ChildOf(a, k)].path[k] = frames[k].fid
           /\ k < depth => ChildOf(a, k) # frames[k + 1].fid
<1>1. /\ tree[a.owner].level \in 1..MaxDepth /\ depth \in Nat /\ frame_id \in Nat
      /\ k <= tree[a.owner].level /\ tree[a.owner].path[k] = frames[k].fid
      /\ k < depth /\ k < tree[a.owner].level => ChildOf(a, k) # frames[k + 1].fid
  <2>1. depth \in Nat /\ frame_id \in Nat
    BY DEF TypeOK
  <2>2. tree[a.owner].level \in 1..MaxDepth
    BY DEF InTree, PathsAgree
  <2>. QED
    BY <2>1, <2>2 DEF IsLCA, ChildOf
<1>2. /\ k + 1 \in 1..tree[a.owner].level /\ k \in 1..(k + 1) /\ k + 1 # 1
      /\ k < tree[a.owner].level /\ k + 1 \in 2..tree[a.owner].level
  BY <1>1
<1>3. /\ ChildOf(a, k) \in 0..frame_id
      /\ tree[ChildOf(a, k)].level = k + 1
      /\ tree[ChildOf(a, k)].path[k] = frames[k].fid
  BY <1>1, <1>2, SMTT(30) DEF ChildOf, InTree, PathsAgree
<1>4. ChildOf(a, k) # 0
  BY <1>2, <1>3 DEF InTree
<1>5. ChildOf(a, k) \in 1..frame_id
  BY <1>1, <1>3, <1>4
<1>. QED
  BY <1>1, <1>2, <1>3, <1>5

\* A parallel access was made in a loop that runs on, or in a task or loop
\* that the frame above it has not synced.
LEMMA ParallelCases ==
    ASSUME TypeOK, InTree, NEW a, a.owner \in 0..frame_id, LogicallyParallel(a)
    PROVE  \E k \in 1..depth :
              /\ IsLCA(a, k)
              /\ \/ is_loop_frame(k)
                 \/ /\ tree[a.owner].level # k /\ Unjoined(ChildOf(a, k), k)
<1>1. PICK k \in 1..depth :
        /\ IsLCA(a, k)
        /\ IF tree[a.owner].level = k THEN is_loop_frame(k)
           ELSE \/ tree[ChildOf(a, k)].type # "spawner" /\ ChildOf(a, k) \notin joined
                \/ is_loop_frame(k)
  BY DEF LogicallyParallel, ChildOf
<1>2. CASE is_loop_frame(k)
  BY <1>1, <1>2
<1>3. CASE ~is_loop_frame(k)
  <2>1. /\ tree[a.owner].level # k /\ tree[ChildOf(a, k)].type # "spawner"
        /\ ChildOf(a, k) \notin joined
    BY <1>1, <1>3
  <2>2. Unjoined(ChildOf(a, k), k)
    BY <1>1, <2>1, ChildOfLCA DEF Unjoined
  <2>. QED
    BY <1>1, <2>1, <2>2
<1>. QED
  BY <1>2, <1>3

\* An access is looked at whenever it could race: in a program that syncs
\* after its loops, no recorded access is logically parallel to code that the
\* driver regards as serial.
THEOREM SerialIsSerial ==
    ASSUME SyncAfterLoop
    PROVE  DriverSpec => []SerialHasNoParallel
<1>1. ASSUME EngineOK, StacksOK, SerialOK, SerialQuiet PROVE SerialHasNoParallel
  <2>. SUFFICES ASSUME Running, ~is_execution_parallel, NEW a \in strands,
                       LogicallyParallel(a)
                PROVE  FALSE
    BY DEF SerialHasNoParallel
  <2>1. TypeOK /\ Shape /\ InTree /\ Standing /\ Aligned /\ a.owner \in 0..frame_id
    BY <1>1 DEF EngineOK, StacksOK, AllPlaced, Placed
  <2>2. Serial(depth) /\ pc = "body" /\ Last(prog).at # "loopsync"
    <3>1. /\ pc = "body" /\ Last(parallel_execution) # 1 /\ Last(prog).at # "loopsync"
      BY DEF Running, is_execution_parallel, Activations
    <3>. QED
      BY <2>1, <3>1, SerialHead
  <2>3. PICK k \in 1..depth :
            /\ IsLCA(a, k)
            /\ \/ is_loop_frame(k)
               \/ tree[a.owner].level # k /\ Unjoined(ChildOf(a, k), k)
    BY <2>1, ParallelCases
  <2>4. ~is_loop_frame(k)
    <3>1. k = 1 \/ k \in 2..depth
      BY <2>3
    <3>. QED
      BY <1>1, <2>1, <2>2, <3>1 DEF SerialOK, SerialTypes, Shape, is_loop_frame
  <2>5. tree[a.owner].level # k /\ Unjoined(ChildOf(a, k), k)
    BY <2>3, <2>4
  <2>6. ChildOf(a, k) \in 1..frame_id /\ ChildOf(a, k) \in 0..frame_id
    <3>1. ChildOf(a, k) \in 1..frame_id
      BY <2>1, <2>3, <2>5, ChildOfLCA
    <3>. QED
      BY <3>1
  <2>7. frames[k].Pbags[tree[ChildOf(a, k)].reg]
    BY <1>1, <2>5, <2>6 DEF SerialOK, Owed
  <2>8. tree[ChildOf(a, k)].reg \in Regs
    <3>1. ChildOf(a, k) \in Frames
      BY <2>1, <2>6 DEF TypeOK
    <3>. QED
      BY <2>1, <3>1 DEF TypeOK
  <2>. QED
    BY <1>1, <2>2, <2>7, <2>8 DEF SerialQuiet, Quiet
<1>. QED
  BY <1>1, QuietInvariant, PTL

\* An access that was not recorded because the execution was serial is never
\* logically parallel to anything that runs later, whatever the program does
\* after its loops.
THEOREM UnseenNeverParallel == DriverSpec => []UnseenStaySerial
<1>1. ASSUME EngineOK, StacksOK, SerialOK PROVE UnseenStaySerial
  <2>. SUFFICES ASSUME NEW a \in unseen, LogicallyParallel(a) PROVE FALSE
    BY DEF UnseenStaySerial
  <2>1. TypeOK /\ Shape /\ InTree
    BY <1>1 DEF EngineOK
  <2>2. /\ a.owner \in 0..frame_id
        /\ \A j \in 2..tree[a.owner].level :
               tree[tree[a.owner].path[j]].type = "spawner"
    BY <1>1 DEF SerialOK, UnseenSerial
  <2>3. PICK k \in 1..depth :
            /\ IsLCA(a, k)
            /\ \/ is_loop_frame(k)
               \/ tree[a.owner].level # k /\ Unjoined(ChildOf(a, k), k)
    BY <2>1, <2>2, ParallelCases
  <2>4. ~is_loop_frame(k)
    <3>1. CASE k = 1
      BY <2>1, <3>1 DEF Shape, is_loop_frame
    <3>2. CASE k # 1
      <4>1. k \in 2..tree[a.owner].level /\ tree[a.owner].path[k] = frames[k].fid
        <5>1. tree[a.owner].level \in Slots
          BY <2>1, <2>2 DEF InTree, PathsAgree
        <5>2. k <= tree[a.owner].level /\ tree[a.owner].path[k] = frames[k].fid
          BY <2>3 DEF IsLCA
        <5>. QED
          BY <3>2, <5>1, <5>2
      <4>2. tree[frames[k].fid].type = frames[k].type
        BY <2>1 DEF InTree, OnStack
      <4>3. tree[frames[k].fid].type = "spawner"
        BY <2>2, <4>1
      <4>. QED
        BY <4>2, <4>3 DEF is_loop_frame
    <3>. QED
      BY <3>1, <3>2
  <2>5. tree[a.owner].level # k /\ Unjoined(ChildOf(a, k), k)
    BY <2>3, <2>4
  <2>6. k + 1 \in 2..tree[a.owner].level
    BY <2>1, <2>2, <2>3, <2>5, ChildOfLCA
  <2>7. tree[ChildOf(a, k)].type = "spawner"
    BY <2>2, <2>6 DEF ChildOf
  <2>. QED
    BY <2>5, <2>7 DEF Unjoined
<1>. QED
  BY <1>1, SerialInvariant, PTL
=============================================================================
