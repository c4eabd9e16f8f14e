----------------------------- MODULE LocksProofs ----------------------------
(***************************************************************************)
(* Proofs about LockSets and Locks: the operations of LockSet_t on sorted  *)
(* arrays of any length, and what the detector reports of accesses made    *)
(* under locks.                                                            *)
(***************************************************************************)
EXTENDS Locks, Recursion, SequenceTheorems

(***************************************************************************)
(* LockSet_t.                                                              *)
(***************************************************************************)
Sorted(s) == \A i \in 1..(Len(s) - 1) : s[i] < s[i + 1]

\* An array whose neighbours are in order is in order throughout.
LEMMA SortedApart ==
    ASSUME NEW s \in Seq(Nat), Sorted(s)
    PROVE  \A i, j \in 1..Len(s) : i < j => s[i] < s[j]
<1>. DEFINE S == {d \in Nat : \A i \in 1..Len(s) : i + 1 + d <= Len(s) => s[i] < s[i + 1 + d]}
<1>1. 0 \in S
  BY DEF Sorted
<1>2. ASSUME NEW d \in Nat, d \in S PROVE d + 1 \in S
  <2>1. ASSUME NEW i \in 1..Len(s), i + 1 + (d + 1) <= Len(s)
        PROVE  s[i] < s[i + 1 + (d + 1)]
    <3>1. s[i] < s[i + 1 + d]
      BY <1>2, <2>1
    <3>2. i + 1 + d \in 1..(Len(s) - 1) /\ (i + 1 + d) + 1 = i + 1 + (d + 1)
      BY <2>1
    <3>3. s[i + 1 + d] < s[i + 1 + (d + 1)]
      BY <3>2 DEF Sorted
    <3>4. /\ s[i] \in Nat /\ s[i + 1 + d] \in Nat /\ s[i + 1 + (d + 1)] \in Nat
      BY <2>1, <3>2
    <3>. QED
      BY <3>1, <3>3, <3>4
  <2>2. d + 1 \in Nat
    OBVIOUS
  <2>. QED
    BY <2>1, <2>2
<1>3. \A d \in 0..Len(s) : d \in S
  <2>1. Len(s) \in Nat /\ \A d \in 0..(Len(s) - 1) : d \in Nat
    OBVIOUS
  <2>. HIDE DEF S
  <2>2. \A d \in 0..(Len(s) - 1) : d \in S => d + 1 \in S
    BY <1>2, <2>1
  <2>. QED
    BY <1>1, <2>1, <2>2, UpTo
<1>4. ASSUME NEW i \in 1..Len(s), NEW j \in 1..Len(s), i < j PROVE s[i] < s[j]
  <2>1. PICK d \in 0..Len(s) : i + 1 + d = j
    <3>1. j - i - 1 \in 0..Len(s) /\ i + 1 + (j - i - 1) = j
      BY <1>4
    <3>. QED
      BY <3>1
  <2>2. i + 1 + d <= Len(s) => s[i] < s[i + 1 + d]
    BY <1>3
  <2>. QED
    BY <2>1, <2>2
<1>. QED
  BY <1>4

\* The binary search of insert and remove: the entries below id come first.
LEMMA RankSplits ==
    ASSUME NEW s \in Seq(Nat), Sorted(s), NEW id \in Nat
    PROVE  /\ Rank(s, id) \in 0..Len(s)
           /\ \A i \in 1..Rank(s, id) : s[i] < id
           /\ \A i \in (Rank(s, id) + 1)..Len(s) : s[i] >= id
<1>. DEFINE T == {n \in 0..Len(s) : n = Len(s) \/ s[n + 1] >= id}
<1>1. PICK k \in T : \A n \in T : k <= n
  <2>1. T \subseteq Nat /\ Len(s) \in T
    OBVIOUS
  <2>. HIDE DEF T
  <2>. QED
    BY <2>1, LeastNatural
<1>2. k \in 0..Len(s) /\ \A i \in 1..Len(s) : s[i] \in Nat
  OBVIOUS
<1>3. ASSUME NEW i \in 1..k PROVE s[i] < id
  <2>1. i - 1 \in 0..Len(s) /\ (i - 1) + 1 = i /\ i - 1 # Len(s) /\ ~(k <= i - 1)
    BY <1>2
  <2>2. ~(s[i] >= id)
    BY <1>1, <2>1
  <2>. QED
    BY <1>2, <2>2
<1>4. ASSUME NEW i \in (k + 1)..Len(s) PROVE s[i] >= id
  <2>1. k # Len(s) /\ k + 1 \in 1..Len(s) /\ i \in 1..Len(s)
    BY <1>2
  <2>2. s[k + 1] >= id
    BY <1>1, <2>1
  <2>3. k + 1 = i \/ s[k + 1] < s[i]
    BY <2>1, SortedApart
  <2>. QED
    BY <1>2, <2>1, <2>2, <2>3
<1>5. {i \in DOMAIN s : s[i] < id} = 1..k
  <2>1. ASSUME NEW i \in DOMAIN s, s[i] < id PROVE i \in 1..k
    <3>1. i \in 1..Len(s) /\ ~(s[i] >= id)
      BY <1>2, <2>1
    <3>. QED
      BY <1>2, <1>4, <3>1
  <2>2. \A i \in 1..k : i \in DOMAIN s
    BY <1>2
  <2>. QED
    BY <1>3, <2>1, <2>2
<1>6. Rank(s, id) = k
  <2>1. Cardinality(1..k) = k
    BY <1>2, FS_Interval
  <2>. QED
    BY <1>5, <2>1 DEF Rank
<1>. QED
  BY <1>2, <1>3, <1>4, <1>6

\* The elements of an array are its entries.
LEMMA Entries ==
    ASSUME NEW S, NEW s \in Seq(S)
    PROVE  \A x : x \in ToSet(s) <=> \E i \in 1..Len(s) : x = s[i]
<1>1. DOMAIN s = 1..Len(s)
  OBVIOUS
<1>. QED
  BY <1>1 DEF ToSet

\* LockSet_t::insert adds the id and keeps the array in order.
LEMMA InsertFacts ==
    ASSUME NEW S \in SUBSET Nat, NEW s \in Seq(S), Sorted(s), NEW id \in S
    PROVE  /\ insert(s, id) \in Seq(S)
           /\ Sorted(insert(s, id))
           /\ ToSet(insert(s, id)) = ToSet(s) \cup {id}
           /\ insert(s, id) # <<>>
<1>1. s \in Seq(Nat) /\ id \in Nat
  BY SeqMonotonic
<1>2. CASE id \in ToSet(s)
  BY <1>2 DEF insert, ToSet
<1>3. CASE id \notin ToSet(s)
  <2>1. PICK k \in 0..Len(s) : /\ k = Rank(s, id)
                               /\ \A i \in 1..k : s[i] < id
                               /\ \A i \in (k + 1)..Len(s) : s[i] >= id
    <3>1. PICK k : k = Rank(s, id)
      OBVIOUS
    <3>2. k \in 0..Len(s) /\ (\A i \in 1..k : s[i] < id) /\ \A i \in (k + 1)..Len(s) : s[i] >= id
      BY <1>1, <3>1, RankSplits
    <3>. QED
      BY <3>1, <3>2
  <2>2. \A i \in 1..Len(s) : s[i] # id /\ s[i] \in S /\ s[i] \in Nat
    <3>1. \A i \in 1..Len(s) : s[i] \in S /\ s[i] \in Nat
      BY <1>1
    <3>. QED
      BY <1>3, <3>1, Entries
  <2>3. PICK t : t = SubSeq(s, 1, k) \o <<id>> \o SubSeq(s, k + 1, Len(s))
    OBVIOUS
  <2>4. insert(s, id) = t
    <3>1. (k + 1) - 1 = k
      OBVIOUS
    <3>. QED
      BY <1>3, <2>1, <2>3, <3>1 DEF insert, InsertAt
  <2>5. /\ t \in Seq(S) /\ Len(t) = Len(s) + 1
        /\ \A i \in 1..k : t[i] = s[i]
        /\ t[k + 1] = id
        /\ \A i \in (k + 2)..(Len(s) + 1) : t[i] = s[i - 1]
    <3>. DEFINE a == SubSeq(s, 1, k)
                b == SubSeq(s, k + 1, Len(s))
    <3>1. /\ a \in Seq(S) /\ Len(a) = k /\ \A i \in 1..k : a[i] = s[i]
          /\ b \in Seq(S) /\ Len(b) = Len(s) - k
          /\ \A i \in 1..(Len(s) - k) : b[i] = s[k + i]
      BY <2>2
    <3>2. PICK c : c = a \o <<id>>
      OBVIOUS
    <3>. HIDE DEF a, b
    <3>3. /\ c \in Seq(S) /\ Len(c) = k + 1
          /\ \A i \in 1..k : c[i] = s[i]
          /\ c[k + 1] = id
      <4>1. <<id>> \in Seq(S) /\ Len(<<id>>) = 1 /\ <<id>>[1] = id
        OBVIOUS
      <4>2. PICK e : e = <<id>>
        OBVIOUS
      <4>3. /\ a \o e \in Seq(S) /\ Len(a \o e) = Len(a) + Len(e)
            /\ \A i \in 1..(Len(a) + Len(e)) :
                  (a \o e)[i] = IF i <= Len(a) THEN a[i] ELSE e[i - Len(a)]
        BY <3>1, <4>1, <4>2, ConcatProperties
      <4>4. /\ k + 1 \in 1..(k + 1) /\ ~(k + 1 <= k) /\ (k + 1) - k = 1
            /\ \A i \in 1..k : i \in 1..(k + 1) /\ i <= k
        OBVIOUS
      <4>. QED
        BY <3>1, <3>2, <4>1, <4>2, <4>3, <4>4
    <3>4. t = c \o b
      BY <2>3, <3>2 DEF a, b
    <3>5. /\ t \in Seq(S) /\ Len(t) = Len(s) + 1
          /\ \A i \in 1..(k + 1) : t[i] = c[i]
          /\ \A i \in (k + 2)..(Len(s) + 1) : t[i] = b[i - (k + 1)]
      <4>0. b \in Seq(S) /\ c \in Seq(S)
        BY <3>1, <3>3
      <4>1. /\ t \in Seq(S) /\ Len(t) = Len(c) + Len(b)
            /\ \A i \in 1..(Len(c) + Len(b)) :
                  t[i] = IF i <= Len(c) THEN c[i] ELSE b[i - Len(c)]
        <5>1. /\ c \o b \in Seq(S) /\ Len(c \o b) = Len(c) + Len(b)
              /\ \A i \in 1..(Len(c) + Len(b)) :
                    (c \o b)[i] = IF i <= Len(c) THEN c[i] ELSE b[i - Len(c)]
          BY <4>0, ConcatProperties
        <5>. QED
          BY <3>4, <5>1
      <4>2. Len(c) = k + 1 /\ Len(b) = Len(s) - k /\ Len(c) + Len(b) = Len(s) + 1
        BY <3>1, <3>3
      <4>3. /\ t \in Seq(S) /\ Len(t) = Len(s) + 1
            /\ \A i \in 1..(Len(s) + 1) : t[i] = IF i <= k + 1 THEN c[i] ELSE b[i - (k + 1)]
        BY <4>1, <4>2
      <4>4. ASSUME NEW i \in 1..(k + 1) PROVE t[i] = c[i]
        BY <4>3
      <4>5. ASSUME NEW i \in (k + 2)..(Len(s) + 1) PROVE t[i] = b[i - (k + 1)]
        <5>1. i \in 1..(Len(s) + 1) /\ ~(i <= k + 1)
          OBVIOUS
        <5>. QED
          BY <4>3, <5>1
      <4>. QED
        BY <4>3, <4>4, <4>5
    <3>6. ASSUME NEW i \in (k + 2)..(Len(s) + 1) PROVE t[i] = s[i - 1]
      <4>1. i - (k + 1) \in 1..(Len(s) - k) /\ k + (i - (k + 1)) = i - 1
        OBVIOUS
      <4>. QED
        BY <3>1, <3>5, <4>1
    <3>. QED
      BY <3>3, <3>5, <3>6
  <2>6. Sorted(t)
    <3>1. ASSUME NEW i \in 1..Len(s) PROVE t[i] < t[i + 1]
      <4>1. CASE i < k
        <5>1. i \in 1..k /\ i + 1 \in 1..k /\ i \in 1..(Len(s) - 1)
          BY <4>1
        <5>. QED
          BY <2>5, <5>1 DEF Sorted
      <4>2. CASE i = k
        BY <2>1, <2>5, <4>2
      <4>3. CASE i = k + 1
        <5>1. t[i + 1] = s[k + 1] /\ s[k + 1] >= id /\ s[k + 1] # id /\ s[k + 1] \in Nat
          BY <2>1, <2>2, <2>5, <4>3
        <5>. QED
          BY <1>1, <2>5, <4>3, <5>1
      <4>4. CASE i > k + 1
        <5>1. /\ i \in (k + 2)..(Len(s) + 1) /\ i + 1 \in (k + 2)..(Len(s) + 1)
              /\ i - 1 \in 1..(Len(s) - 1) /\ (i - 1) + 1 = i /\ (i + 1) - 1 = i
          BY <4>4
        <5>. QED
          BY <2>5, <5>1 DEF Sorted
      <4>. QED
        BY <4>1, <4>2, <4>3, <4>4
    <3>. QED
      BY <2>5, <3>1 DEF Sorted
  <2>7. ToSet(t) = ToSet(s) \cup {id}
    <3>1. ASSUME NEW i \in 1..Len(t) PROVE t[i] \in ToSet(s) \cup {id}
      <4>1. i \in 1..k \/ i = k + 1 \/ i \in (k + 2)..(Len(s) + 1)
        BY <2>5
      <4>2. i \in 1..k => i \in 1..Len(s)
        OBVIOUS
      <4>3. i \in (k + 2)..(Len(s) + 1) => i - 1 \in 1..Len(s)
        OBVIOUS
      <4>. QED
        BY <2>5, <4>1, <4>2, <4>3 DEF ToSet
    <3>2. ASSUME NEW i \in 1..Len(s) PROVE \E j \in 1..Len(t) : t[j] = s[i]
      <4>1. CASE i \in 1..k
        BY <2>5, <4>1
      <4>2. CASE i \notin 1..k
        <5>1. i + 1 \in (k + 2)..(Len(s) + 1) /\ (i + 1) - 1 = i /\ i + 1 \in 1..Len(t)
          BY <2>5, <4>2
        <5>. QED
          BY <2>5, <5>1
      <4>. QED
        BY <4>1, <4>2
    <3>3. k + 1 \in 1..Len(t)
      BY <2>5
    <3>4. \A x : x \in ToSet(t) <=> \E i \in 1..Len(t) : x = t[i]
      BY <2>5, Entries
    <3>5. \A x : x \in ToSet(s) <=> \E i \in 1..Len(s) : x = s[i]
      BY Entries
    <3>6. t[k + 1] = id
      BY <2>5
    <3>. QED
      BY <3>1, <3>2, <3>3, <3>4, <3>5, <3>6, ZenonT(40)
  <2>8. t # <<>>
    BY <2>5
  <2>. QED
    BY <2>4, <2>5, <2>6, <2>7, <2>8
<1>. QED
  BY <1>2, <1>3

\* LockSet_t::remove takes out exactly the id and keeps the array in order.
LEMMA RemoveFacts ==
    ASSUME NEW S \in SUBSET Nat, NEW s \in Seq(S), Sorted(s), NEW id \in ToSet(s)
    PROVE  /\ remove(s, id) \in Seq(S)
           /\ Sorted(remove(s, id))
           /\ ToSet(remove(s, id)) = ToSet(s) \ {id}
<1>1. s \in Seq(Nat) /\ id \in S /\ id \in Nat
  <2>1. s \in Seq(Nat)
    BY SeqMonotonic
  <2>2. id \in S
    BY Entries, ElementOfSeq
  <2>. QED
    BY <2>1, <2>2
<1>2. PICK m \in 1..Len(s) : s[m] = id
  BY DEF ToSet
<1>3. PICK k \in 0..Len(s) : /\ k = Rank(s, id)
                             /\ \A i \in 1..k : s[i] < id
                             /\ \A i \in (k + 1)..Len(s) : s[i] >= id
  <2>1. PICK k : k = Rank(s, id)
    OBVIOUS
  <2>2. k \in 0..Len(s) /\ (\A i \in 1..k : s[i] < id) /\ \A i \in (k + 1)..Len(s) : s[i] >= id
    BY <1>1, <2>1, RankSplits
  <2>. QED
    BY <2>1, <2>2
<1>4. \A i, j \in 1..Len(s) : i < j => s[i] < s[j]
  BY <1>1, SortedApart
<1>5. \A i \in 1..Len(s) : s[i] \in S /\ s[i] \in Nat
  BY <1>1
<1>6. m = k + 1
  <2>1. ~(m \in 1..k)
    BY <1>1, <1>2, <1>3
  <2>2. m = k + 1 \/ (k + 1 \in (k + 1)..Len(s) /\ k + 1 \in 1..Len(s) /\ k + 1 < m)
    BY <1>2, <1>3, <2>1
  <2>. QED
    BY <1>1, <1>2, <1>3, <1>4, <1>5, <2>2, SMTT(30)
<1>7. PICK t : t = SubSeq(s, 1, k) \o SubSeq(s, k + 2, Len(s))
  OBVIOUS
<1>8. remove(s, id) = t
  <2>1. s # <<>> /\ k < Len(s) /\ (k + 1) - 1 = k /\ (k + 1) + 1 = k + 2
    BY <1>2, <1>6
  <2>. QED
    BY <1>3, <1>7, <2>1 DEF remove, RemoveAt
<1>9. /\ t \in Seq(S) /\ Len(t) = Len(s) - 1
      /\ \A i \in 1..k : t[i] = s[i]
      /\ \A i \in (k + 1)..(Len(s) - 1) : t[i] = s[i + 1]
  <2>. DEFINE a == SubSeq(s, 1, k)
              b == SubSeq(s, k + 2, Len(s))
  <2>1. /\ a \in Seq(S) /\ Len(a) = k /\ \A i \in 1..k : a[i] = s[i]
        /\ b \in Seq(S) /\ Len(b) = Len(s) - (k + 1)
        /\ \A i \in 1..(Len(s) - (k + 1)) : b[i] = s[k + 1 + i]
    BY <1>2, <1>5, <1>6
  <2>2. t = a \o b
    BY <1>7
  <2>. HIDE DEF a, b
  <2>3. /\ t \in Seq(S) /\ Len(t) = Len(s) - 1
        /\ \A i \in 1..k : t[i] = s[i]
        /\ \A i \in (k + 1)..(Len(s) - 1) : t[i] = b[i - k]
    BY <1>2, <1>6, <2>1, <2>2, ConcatProperties
  <2>4. ASSUME NEW i \in (k + 1)..(Len(s) - 1) PROVE t[i] = s[i + 1]
    <3>1. i - k \in 1..(Len(s) - (k + 1)) /\ k + 1 + (i - k) = i + 1
      OBVIOUS
    <3>. QED
      BY <2>1, <2>3, <3>1
  <2>. QED
    BY <2>3, <2>4
<1>10. Sorted(t)
  <2>1. ASSUME NEW i \in 1..(Len(s) - 2) PROVE t[i] < t[i + 1]
    <3>1. CASE i < k
      BY <1>4, <1>9, <3>1
    <3>2. CASE i = k
      <4>1. /\ t[i] = s[i] /\ t[i + 1] = s[i + 2]
            /\ i \in 1..Len(s) /\ i + 2 \in 1..Len(s) /\ i < i + 2
        BY <1>9, <3>2
      <4>. QED
        BY <1>4, <4>1
    <3>3. CASE i > k
      <4>1. /\ t[i] = s[i + 1] /\ t[i + 1] = s[i + 2]
            /\ i + 1 \in 1..Len(s) /\ i + 2 \in 1..Len(s) /\ i + 1 < i + 2
        BY <1>9, <3>3
      <4>. QED
        BY <1>4, <4>1
    <3>. QED
      BY <3>1, <3>2, <3>3
  <2>. QED
    BY <1>9, <2>1 DEF Sorted
<1>11. ToSet(t) = ToSet(s) \ {id}
  <2>1. ASSUME NEW i \in 1..Len(t) PROVE t[i] \in ToSet(s) \ {id}
    <3>1. \/ i \in 1..k /\ i \in 1..Len(s) /\ i < m
          \/ i \in (k + 1)..(Len(s) - 1) /\ i + 1 \in 1..Len(s) /\ m < i + 1
      BY <1>6, <1>9
    <3>2. t[i] \in ToSet(s)
      BY <1>9, <3>1, Entries
    <3>3. t[i] # id
      <4>1. \A j \in 1..Len(s) : j # m => s[j] # id
        <5>1. ASSUME NEW j \in 1..Len(s), j # m PROVE s[j] # id
          <6>1. j < m \/ m < j
            BY <5>1
          <6>2. s[j] \in Nat /\ s[m] \in Nat /\ (s[j] < s[m] \/ s[m] < s[j])
            BY <1>4, <1>5, <6>1
          <6>. QED
            BY <1>2, <6>2
        <5>. QED
          BY <5>1
      <4>2. CASE i \in 1..k
        <5>1. i \in 1..Len(s) /\ i # m
          BY <1>6, <4>2
        <5>. QED
          BY <1>9, <4>1, <4>2, <5>1
      <4>3. CASE i \in (k + 1)..(Len(s) - 1)
        <5>1. i + 1 \in 1..Len(s) /\ i + 1 # m
          BY <1>6, <4>3
        <5>. QED
          BY <1>9, <4>1, <4>3, <5>1
      <4>. QED
        BY <3>1, <4>2, <4>3
    <3>. QED
      BY <3>2, <3>3
  <2>2. ASSUME NEW i \in 1..Len(s), s[i] # id PROVE \E j \in 1..Len(t) : t[j] = s[i]
    <3>1. CASE i \in 1..k
      <4>1. i \in 1..Len(t)
        BY <1>6, <1>9, <3>1
      <4>. QED
        BY <1>9, <3>1, <4>1
    <3>2. CASE i \notin 1..k
      <4>1. i - 1 \in (k + 1)..(Len(s) - 1) /\ (i - 1) + 1 = i /\ i - 1 \in 1..Len(t)
        BY <1>2, <1>6, <1>9, <2>2, <3>2
      <4>. QED
        BY <1>9, <4>1
    <3>. QED
      BY <3>1, <3>2
  <2>3. \A x : x \in ToSet(t) <=> \E i \in 1..Len(t) : x = t[i]
    BY <1>9, Entries
  <2>4. \A x : x \in ToSet(s) <=> \E i \in 1..Len(s) : x = s[i]
    BY Entries
  <2>. QED
    BY <2>1, <2>2, <2>3, <2>4, SMTT(30)
<1>. QED
  BY <1>8, <1>9, <1>10, <1>11

(***************************************************************************)
(* LockSet_t::intersect.  The scan is a recursive function of the two      *)
(* positions and the result so far; what is left to scan bounds it.        *)
(***************************************************************************)
Places(L, R) == (1..Len(L) + 1) \X (1..Len(R) + 1) \X Results

Scan(L, R, f, at) ==
    LET i == at[1]
        j == at[2]
        result == at[3] IN
    IF i > Len(L) \/ j > Len(R) \/ result = {NONEMPTY} THEN result
    ELSE IF L[i] < R[j] THEN f[<<i + 1, j, result \ {L_SUBSET_OF_R}>>]
    ELSE IF R[j] < L[i] THEN f[<<i, j + 1, result \ {L_SUPERSET_OF_R}>>]
    ELSE f[<<i + 1, j + 1, result \cup {NONEMPTY}>>]

Left(L, R, at) == (Len(L) + 1 - at[1]) + (Len(R) + 1 - at[2])

\* One step of the scan goes on at a place of the arrays with less left.
LEMMA ScanStep ==
    ASSUME NEW L \in Seq(Nat), NEW R \in Seq(Nat), NEW at \in Places(L, R),
           ~(at[1] > Len(L) \/ at[2] > Len(R) \/ at[3] = {NONEMPTY})
    PROVE  \E to \in Places(L, R) :
              /\ Left(L, R, to) < Left(L, R, at)
              /\ \A f : Scan(L, R, f, at) = f[to]
              /\ \/ /\ L[at[1]] < R[at[2]]
                    /\ to = <<at[1] + 1, at[2], at[3] \ {L_SUBSET_OF_R}>>
                 \/ /\ R[at[2]] < L[at[1]]
                    /\ to = <<at[1], at[2] + 1, at[3] \ {L_SUPERSET_OF_R}>>
                 \/ /\ L[at[1]] = R[at[2]]
                    /\ to = <<at[1] + 1, at[2] + 1, at[3] \cup {NONEMPTY}>>
<1>1. PICK i, j, result : i = at[1] /\ j = at[2] /\ result = at[3]
  OBVIOUS
<1>2. i \in 1..Len(L) /\ j \in 1..Len(R) /\ result \in Results
  BY <1>1 DEF Places
<1>3. L[i] \in Nat /\ R[j] \in Nat
  BY <1>2, SMTT(30)
<1>4. /\ result \ {L_SUBSET_OF_R} \in Results
      /\ result \ {L_SUPERSET_OF_R} \in Results
      /\ result \cup {NONEMPTY} \in Results
  BY <1>2 DEF Results
<1>5. /\ i + 1 \in 1..Len(L) + 1 /\ j + 1 \in 1..Len(R) + 1
      /\ i \in 1..Len(L) + 1 /\ j \in 1..Len(R) + 1
      /\ (Len(L) + 1 - (i + 1)) + (Len(R) + 1 - j) < (Len(L) + 1 - i) + (Len(R) + 1 - j)
      /\ (Len(L) + 1 - i) + (Len(R) + 1 - (j + 1)) < (Len(L) + 1 - i) + (Len(R) + 1 - j)
      /\ (Len(L) + 1 - (i + 1)) + (Len(R) + 1 - (j + 1)) < (Len(L) + 1 - i) + (Len(R) + 1 - j)
      /\ ~(i > Len(L)) /\ ~(j > Len(R))
  BY <1>2
<1>6. CASE L[i] < R[j]
  <2>1. PICK to : to = <<i + 1, j, result \ {L_SUBSET_OF_R}>>
    OBVIOUS
  <2>2. to \in Places(L, R) /\ Left(L, R, to) < Left(L, R, at)
    BY <1>1, <1>4, <1>5, <2>1 DEF Places, Left
  <2>3. \A f : Scan(L, R, f, at) = f[to]
    BY <1>1, <1>5, <1>6, <2>1 DEF Scan
  <2>. QED
    BY <1>1, <1>6, <2>1, <2>2, <2>3
<1>7. CASE R[j] < L[i]
  <2>1. PICK to : to = <<i, j + 1, result \ {L_SUPERSET_OF_R}>>
    OBVIOUS
  <2>2. to \in Places(L, R) /\ Left(L, R, to) < Left(L, R, at)
    BY <1>1, <1>4, <1>5, <2>1 DEF Places, Left
  <2>3. ~(L[i] < R[j])
    BY <1>3, <1>7
  <2>4. \A f : Scan(L, R, f, at) = f[to]
    BY <1>1, <1>5, <1>7, <2>1, <2>3 DEF Scan
  <2>. QED
    BY <1>1, <1>7, <2>1, <2>2, <2>4
<1>8. CASE L[i] = R[j]
  <2>1. PICK to : to = <<i + 1, j + 1, result \cup {NONEMPTY}>>
    OBVIOUS
  <2>2. to \in Places(L, R) /\ Left(L, R, to) < Left(L, R, at)
    BY <1>1, <1>4, <1>5, <2>1 DEF Places, Left
  <2>3. ~(L[i] < R[j]) /\ ~(R[j] < L[i])
    BY <1>3, <1>8
  <2>4. \A f : Scan(L, R, f, at) = f[to]
    BY <1>1, <1>5, <2>1, <2>3 DEF Scan
  <2>. QED
    BY <1>1, <1>8, <2>1, <2>2, <2>4
<1>9. L[i] < R[j] \/ R[j] < L[i] \/ L[i] = R[j]
  BY <1>3
<1>. QED
  BY <1>6, <1>7, <1>8, <1>9

\* The recursion defines a function: the scan ends.
LEMMA ScanExists ==
    ASSUME NEW L \in Seq(Nat), NEW R \in Seq(Nat)
    PROVE  \E f \in [Places(L, R) -> Results] :
              \A at \in Places(L, R) : f[at] = Scan(L, R, f, at)
<1>. DEFINE S == Places(L, R)
            H == [p \in [S -> Results] \X S |-> Scan(L, R, p[1], p[2])]
            mu == [at \in S |-> Left(L, R, at)]
            Ends(at) == at[1] > Len(L) \/ at[2] > Len(R) \/ at[3] = {NONEMPTY}
<1>1. {} \in Results /\ Len(L) + Len(R) \in Nat
  BY DEF Results
<1>2. ASSUME NEW at \in S PROVE Left(L, R, at) \in 0..(Len(L) + Len(R))
  <2>1. at[1] \in 1..(Len(L) + 1) /\ at[2] \in 1..(Len(R) + 1)
    BY DEF Places
  <2>2. PICK i, j, l, r : i = at[1] /\ j = at[2] /\ l = Len(L) /\ r = Len(R)
    OBVIOUS
  <2>3. l \in Nat /\ r \in Nat /\ i \in 1..(l + 1) /\ j \in 1..(r + 1)
    BY <2>1, <2>2
  <2>4. Left(L, R, at) = (l + 1 - i) + (r + 1 - j)
    BY <2>2 DEF Left
  <2>5. l + 1 - i \in 0..l /\ r + 1 - j \in 0..r
    BY <2>3
  <2>6. (l + 1 - i) + (r + 1 - j) \in 0..(l + r)
    BY <2>3, <2>5
  <2>. QED
    BY <2>2, <2>4, <2>6
<1>3. mu \in [S -> 0..(Len(L) + Len(R))]
  BY <1>2
<1>4. \A at \in S : Ends(at) => at[3] \in Results /\ \A g : Scan(L, R, g, at) = at[3]
  BY DEF Places, Scan
<1>5. ASSUME NEW g \in [S -> Results], NEW at \in S PROVE Scan(L, R, g, at) \in Results
  <2>1. CASE Ends(at)
    BY <1>4, <2>1
  <2>2. CASE ~Ends(at)
    <3>1. PICK to \in S : Scan(L, R, g, at) = g[to]
      BY <2>2, ScanStep
    <3>. QED
      BY <3>1
  <2>. QED
    BY <2>1, <2>2
<1>6. H \in [[S -> Results] \X S -> Results]
  BY <1>5
<1>7. ASSUME NEW at \in S, NEW g \in [S -> Results], NEW h \in [S -> Results],
             \A y \in S : mu[y] < mu[at] => g[y] = h[y]
      PROVE  H[<<g, at>>] = H[<<h, at>>]
  <2>1. H[<<g, at>>] = Scan(L, R, g, at) /\ H[<<h, at>>] = Scan(L, R, h, at)
    OBVIOUS
  <2>2. CASE Ends(at)
    BY <1>4, <2>1, <2>2
  <2>3. CASE ~Ends(at)
    <3>1. PICK to \in S : /\ Left(L, R, to) < Left(L, R, at)
                          /\ \A f : Scan(L, R, f, at) = f[to]
      BY <2>3, ScanStep
    <3>2. g[to] = h[to]
      BY <1>7, <3>1
    <3>. QED
      BY <2>1, <3>1, <3>2
  <2>. QED
    BY <2>2, <2>3
<1>8. \E f \in [S -> Results] : \A at \in S : f[at] = H[<<f, at>>]
  <2>1. PICK N \in Nat : N = Len(L) + Len(R)
    BY <1>1
  <2>2. Results # {} /\ mu \in [S -> 0..N]
    BY <1>1, <1>3, <2>1
  <2>3. \A x \in S : \A g, h \in [S -> Results] :
           (\A y \in S : mu[y] < mu[x] => g[y] = h[y]) => H[<<g, x>>] = H[<<h, x>>]
    BY <1>7
  <2>4. Determines(H, S, Results, mu, N)
    <3>. HIDE DEF S, H, mu
    <3>. QED
      BY <1>6, <2>2, <2>3 DEF Determines
  <2>. HIDE DEF S, H, mu
  <2>. QED
    BY <2>4, RecursiveFunction
<1>. QED
  BY <1>8

\* intersect answers what the scan returns from the start.
LEMMA IntersectScans ==
    ASSUME NEW L \in Seq(Nat), NEW R \in Seq(Nat), L # <<>>, R # <<>>
    PROVE  \E f :
              /\ \A at \in Places(L, R) : f[at] = Scan(L, R, f, at)
              /\ intersect(L, R) = f[<<1, 1, {L_SUBSET_OF_R, L_SUPERSET_OF_R}>>]
<1>. DEFINE step == CHOOSE s : s = [at \in (1..Len(L) + 1) \X (1..Len(R) + 1) \X Results |->
          LET i == at[1]
              j == at[2]
              result == at[3] IN
          IF i > Len(L) \/ j > Len(R) \/ result = {NONEMPTY} THEN result
          ELSE IF L[i] < R[j] THEN s[<<i + 1, j, result \ {L_SUBSET_OF_R}>>]
          ELSE IF R[j] < L[i] THEN s[<<i, j + 1, result \ {L_SUPERSET_OF_R}>>]
          ELSE s[<<i + 1, j + 1, result \cup {NONEMPTY}>>]]
<1>1. PICK f \in [Places(L, R) -> Results] :
              \A at \in Places(L, R) : f[at] = Scan(L, R, f, at)
  BY ScanExists
<1>2. f = [at \in Places(L, R) |-> Scan(L, R, f, at)]
  BY <1>1
<1>3. step = [at \in Places(L, R) |-> Scan(L, R, step, at)]
  BY <1>2 DEF Places, Scan
<1>4. intersect(L, R) = step[<<1, 1, {L_SUBSET_OF_R, L_SUPERSET_OF_R}>>]
  BY DEF intersect, intersect_with
<1>5. \A at \in Places(L, R) : step[at] = Scan(L, R, step, at)
  <2>. HIDE DEF step
  <2>. QED
    BY <1>3
<1>. QED
  BY <1>4, <1>5

\* Reference: what is true of the elements of the two arrays.
Shares(L, R) == \E a \in 1..Len(L), b \in 1..Len(R) : L[a] = R[b]
Inside(L, R) == \A a \in 1..Len(L) : \E b \in 1..Len(R) : L[a] = R[b]

\* What the result says of the whole arrays.
OneSided(L, R, result) ==
    /\ NONEMPTY \in result <=> Shares(L, R)
    /\ Inside(L, R) => L_SUBSET_OF_R \in result
    /\ Inside(R, L) => L_SUPERSET_OF_R \in result

\* The scan has passed the entries below i and j: what it has found so far, and
\* what it has passed is smaller than what is left.
Passed(L, R, i, j, result) ==
    /\ NONEMPTY \in result <=> \E a \in 1..(i - 1), b \in 1..(j - 1) : L[a] = R[b]
    /\ Inside(L, R) => L_SUBSET_OF_R \in result
    /\ Inside(R, L) => L_SUPERSET_OF_R \in result
    /\ i <= Len(L) => \A b \in 1..(j - 1) : R[b] < L[i]
    /\ j <= Len(R) => \A a \in 1..(i - 1) : L[a] < R[j]

\* When the scan stops it has seen enough.
LEMMA PassedAtEnd ==
    ASSUME NEW L \in Seq(Nat), NEW R \in Seq(Nat), Sorted(L), Sorted(R),
           NEW i \in 1..Len(L) + 1, NEW j \in 1..Len(R) + 1, NEW result,
           Passed(L, R, i, j, result),
           i > Len(L) \/ j > Len(R) \/ result = {NONEMPTY}
    PROVE  OneSided(L, R, result)
<1>3. /\ \A a \in 1..Len(L) : L[a] \in Nat
      /\ \A b \in 1..Len(R) : R[b] \in Nat
      /\ \A a, c \in 1..Len(L) : a < c => L[a] < L[c]
      /\ \A b, c \in 1..Len(R) : b < c => R[b] < R[c]
  BY SortedApart, SMTT(30)
<1>4. /\ \A a \in 1..(i - 1) : a \in 1..Len(L)
      /\ \A b \in 1..(j - 1) : b \in 1..Len(R)
  OBVIOUS
<1>5. NONEMPTY \in result => Shares(L, R)
  BY <1>4 DEF Passed, Shares
<1>6. ASSUME NEW a \in 1..Len(L), NEW b \in 1..Len(R), L[a] = R[b]
      PROVE  NONEMPTY \in result
  <2>1. CASE i > Len(L)
    <3>1. a \in 1..(i - 1)
      BY <2>1
    <3>2. CASE b \in 1..(j - 1)
      BY <1>6, <3>1, <3>2 DEF Passed
    <3>3. CASE b \notin 1..(j - 1)
      <4>1. j \in 1..Len(R) /\ (b = j \/ j < b)
        BY <3>3
      <4>2. L[a] < R[j]
        BY <3>1, <4>1 DEF Passed
      <4>. QED
        BY <1>3, <1>6, <4>1, <4>2, SMTT(30)
    <3>. QED
      BY <3>2, <3>3
  <2>2. CASE j > Len(R)
    <3>1. b \in 1..(j - 1)
      BY <2>2
    <3>2. CASE a \in 1..(i - 1)
      BY <1>6, <3>1, <3>2 DEF Passed
    <3>3. CASE a \notin 1..(i - 1)
      <4>1. i \in 1..Len(L) /\ (a = i \/ i < a)
        BY <3>3
      <4>2. R[b] < L[i]
        BY <3>1, <4>1 DEF Passed
      <4>. QED
        BY <1>3, <1>6, <4>1, <4>2, SMTT(30)
    <3>. QED
      BY <3>2, <3>3
  <2>. QED
    BY <2>1, <2>2
<1>7. NONEMPTY \in result <=> Shares(L, R)
  BY <1>5, <1>6 DEF Shares
<1>. QED
  BY <1>7 DEF Passed, OneSided

\* Each step of the scan passes an entry, or both.
LEMMA PassedStep ==
    ASSUME NEW L \in Seq(Nat), NEW R \in Seq(Nat), Sorted(L), Sorted(R),
           NEW i \in 1..Len(L), NEW j \in 1..Len(R), NEW result,
           Passed(L, R, i, j, result)
    PROVE  /\ L[i] < R[j] => Passed(L, R, i + 1, j, result \ {L_SUBSET_OF_R})
           /\ R[j] < L[i] => Passed(L, R, i, j + 1, result \ {L_SUPERSET_OF_R})
           /\ L[i] = R[j] => Passed(L, R, i + 1, j + 1, result \cup {NONEMPTY})
<1>2. i \in 1..Len(L) /\ j \in 1..Len(R) /\ Len(L) \in Nat /\ Len(R) \in Nat
  OBVIOUS
<1>3. /\ \A a \in 1..Len(L) : L[a] \in Nat
      /\ \A b \in 1..Len(R) : R[b] \in Nat
      /\ \A a, c \in 1..Len(L) : a < c => L[a] < L[c]
      /\ \A b, c \in 1..Len(R) : b < c => R[b] < R[c]
  <2>1. /\ \A a, c \in 1..Len(L) : a < c => L[a] < L[c]
        /\ \A b, c \in 1..Len(R) : b < c => R[b] < R[c]
    BY SortedApart
  <2>. QED
    BY <2>1, SMTT(30)
<1>4. /\ NONEMPTY \in result <=> \E a \in 1..(i - 1), b \in 1..(j - 1) : L[a] = R[b]
      /\ Inside(L, R) => L_SUBSET_OF_R \in result
      /\ Inside(R, L) => L_SUPERSET_OF_R \in result
      /\ \A b \in 1..(j - 1) : R[b] < L[i]
      /\ \A a \in 1..(i - 1) : L[a] < R[j]
  <2>1. i <= Len(L) /\ j <= Len(R)
    BY <1>2
  <2>. QED
    BY <2>1 DEF Passed
<1>5. /\ \A a \in 1..i : a \in 1..Len(L) /\ (a \in 1..(i - 1) \/ a = i)
      /\ \A b \in 1..j : b \in 1..Len(R) /\ (b \in 1..(j - 1) \/ b = j)
      /\ \A a \in 1..(i - 1) : a \in 1..i /\ a \in 1..Len(L)
      /\ \A b \in 1..(j - 1) : b \in 1..j /\ b \in 1..Len(R)
      /\ i \in 1..i /\ j \in 1..j
      /\ (i + 1) - 1 = i /\ (j + 1) - 1 = j
  BY <1>2
<1>55. /\ \A b \in 1..Len(R) : b \in 1..(j - 1) \/ b = j \/ j < b
       /\ \A a \in 1..Len(L) : a \in 1..(i - 1) \/ a = i \/ i < a
  BY <1>2
<1>56. /\ i + 1 <= Len(L) => i + 1 \in 1..Len(L) /\ i < i + 1
       /\ j + 1 <= Len(R) => j + 1 \in 1..Len(R) /\ j < j + 1
  BY <1>2
<1>6. NONEMPTY # L_SUBSET_OF_R /\ NONEMPTY # L_SUPERSET_OF_R /\ L_SUBSET_OF_R # L_SUPERSET_OF_R
  BY DEF NONEMPTY, L_SUBSET_OF_R, L_SUPERSET_OF_R
<1>7. ASSUME L[i] < R[j] PROVE Passed(L, R, i + 1, j, result \ {L_SUBSET_OF_R})
  <2>1. ASSUME NEW b \in 1..Len(R) PROVE L[i] # R[b]
    <3>1. L[i] \in Nat /\ R[b] \in Nat /\ R[j] \in Nat
      BY <1>2, <1>3
    <3>2. R[b] < L[i] \/ b = j \/ R[j] < R[b]
      BY <1>2, <1>3, <1>4, <1>55
    <3>. QED
      BY <1>7, <3>1, <3>2
  <2>2. ~Inside(L, R)
    BY <1>2, <2>1 DEF Inside
  <2>3. PICK r : r = result \ {L_SUBSET_OF_R}
    OBVIOUS
  <2>4. NONEMPTY \in r <=> \E a \in 1..i, b \in 1..(j - 1) : L[a] = R[b]
    BY <1>4, <1>5, <1>6, <2>1, <2>3
  <2>5. i + 1 <= Len(L) => \A b \in 1..(j - 1) : R[b] < L[i + 1]
    <3>. SUFFICES ASSUME i + 1 <= Len(L), NEW b \in 1..(j - 1) PROVE R[b] < L[i + 1]
      OBVIOUS
    <3>1. /\ i + 1 \in 1..Len(L) /\ i < i + 1 /\ L[i] < L[i + 1] /\ R[b] < L[i]
          /\ R[b] \in Nat /\ L[i] \in Nat /\ L[i + 1] \in Nat
      BY <1>2, <1>3, <1>4, <1>5, <1>56
    <3>. QED
      BY <3>1, SMTT(30)
  <2>6. \A a \in 1..i : L[a] < R[j]
    BY <1>4, <1>5, <1>7
  <2>. QED
    BY <1>4, <1>5, <1>6, <2>2, <2>3, <2>4, <2>5, <2>6 DEF Passed
<1>8. ASSUME R[j] < L[i] PROVE Passed(L, R, i, j + 1, result \ {L_SUPERSET_OF_R})
  <2>1. ASSUME NEW a \in 1..Len(L) PROVE L[a] # R[j]
    <3>1. R[j] \in Nat /\ L[a] \in Nat /\ L[i] \in Nat
      BY <1>2, <1>3
    <3>2. L[a] < R[j] \/ a = i \/ L[i] < L[a]
      BY <1>2, <1>3, <1>4, <1>55
    <3>. QED
      BY <1>8, <3>1, <3>2
  <2>2. ~Inside(R, L)
    BY <1>2, <2>1 DEF Inside
  <2>3. PICK r : r = result \ {L_SUPERSET_OF_R}
    OBVIOUS
  <2>4. NONEMPTY \in r <=> \E a \in 1..(i - 1), b \in 1..j : L[a] = R[b]
    BY <1>4, <1>5, <1>6, <2>1, <2>3
  <2>5. j + 1 <= Len(R) => \A a \in 1..(i - 1) : L[a] < R[j + 1]
    <3>. SUFFICES ASSUME j + 1 <= Len(R), NEW a \in 1..(i - 1) PROVE L[a] < R[j + 1]
      OBVIOUS
    <3>1. /\ j + 1 \in 1..Len(R) /\ j < j + 1 /\ R[j] < R[j + 1] /\ L[a] < R[j]
          /\ L[a] \in Nat /\ R[j] \in Nat /\ R[j + 1] \in Nat
      BY <1>2, <1>3, <1>4, <1>5, <1>56
    <3>. QED
      BY <3>1, SMTT(30)
  <2>6. \A b \in 1..j : R[b] < L[i]
    BY <1>4, <1>5, <1>8
  <2>. QED
    BY <1>4, <1>5, <1>6, <2>2, <2>3, <2>4, <2>5, <2>6 DEF Passed
<1>9. ASSUME L[i] = R[j] PROVE Passed(L, R, i + 1, j + 1, result \cup {NONEMPTY})
  <2>1. PICK r : r = result \cup {NONEMPTY}
    OBVIOUS
  <2>2. NONEMPTY \in r /\ \E a \in 1..i, b \in 1..j : L[a] = R[b]
    BY <1>5, <1>9, <2>1
  <2>3. i + 1 <= Len(L) => \A b \in 1..j : R[b] < L[i + 1]
    <3>. SUFFICES ASSUME i + 1 <= Len(L), NEW b \in 1..j PROVE R[b] < L[i + 1]
      OBVIOUS
    <3>1. /\ i + 1 \in 1..Len(L) /\ i < i + 1 /\ L[i] < L[i + 1]
          /\ R[b] < L[i] \/ R[b] = L[i]
          /\ b \in 1..Len(R) /\ R[b] \in Nat /\ L[i] \in Nat /\ L[i + 1] \in Nat
      BY <1>2, <1>3, <1>4, <1>5, <1>56, <1>9
    <3>. QED
      BY <3>1, SMTT(30)
  <2>4. j + 1 <= Len(R) => \A a \in 1..i : L[a] < R[j + 1]
    <3>. SUFFICES ASSUME j + 1 <= Len(R), NEW a \in 1..i PROVE L[a] < R[j + 1]
      OBVIOUS
    <3>1. /\ j + 1 \in 1..Len(R) /\ j < j + 1 /\ R[j] < R[j + 1]
          /\ L[a] < R[j] \/ L[a] = R[j]
          /\ a \in 1..Len(L) /\ L[a] \in Nat /\ R[j] \in Nat /\ R[j + 1] \in Nat
      BY <1>2, <1>3, <1>4, <1>5, <1>56, <1>9
    <3>. QED
      BY <3>1, SMTT(30)
  <2>. QED
    BY <1>4, <1>5, <2>1, <2>2, <2>3, <2>4 DEF Passed
<1>. QED
  BY <1>7, <1>8, <1>9

PassedAt(L, R, at) == Passed(L, R, at[1], at[2], at[3])

\* Whatever is left, the scan ends with the right answer.
LEMMA ScanIsRight ==
    ASSUME NEW L \in Seq(Nat), NEW R \in Seq(Nat), Sorted(L), Sorted(R),
           NEW f, \A at \in Places(L, R) : f[at] = Scan(L, R, f, at),
           NEW start \in Places(L, R), PassedAt(L, R, start)
    PROVE  OneSided(L, R, f[start])
<1>. DEFINE S == {n \in Nat : \A at \in Places(L, R) :
                    Left(L, R, at) <= n /\ PassedAt(L, R, at) => OneSided(L, R, f[at])}
            Ends(at) == at[1] > Len(L) \/ at[2] > Len(R) \/ at[3] = {NONEMPTY}
<1>1. ASSUME NEW at \in Places(L, R) PROVE Left(L, R, at) \in Nat
  <2>1. at[1] \in 1..(Len(L) + 1) /\ at[2] \in 1..(Len(R) + 1)
    BY DEF Places
  <2>2. PICK i, j, l, r : i = at[1] /\ j = at[2] /\ l = Len(L) /\ r = Len(R)
    OBVIOUS
  <2>3. l \in Nat /\ r \in Nat /\ i \in 1..(l + 1) /\ j \in 1..(r + 1)
    BY <2>1, <2>2
  <2>4. Left(L, R, at) = (l + 1 - i) + (r + 1 - j)
    BY <2>2 DEF Left
  <2>5. l + 1 - i \in 0..l /\ r + 1 - j \in 0..r
    BY <2>3
  <2>6. (l + 1 - i) + (r + 1 - j) \in 0..(l + r)
    BY <2>3, <2>5
  <2>. QED
    BY <2>2, <2>4, <2>6
<1>2. ASSUME NEW at \in Places(L, R), PassedAt(L, R, at), Ends(at)
      PROVE  OneSided(L, R, f[at])
  <2>1. f[at] = at[3]
    BY <1>2 DEF Scan
  <2>. QED
    <3>1. at[1] \in 1..Len(L) + 1 /\ at[2] \in 1..Len(R) + 1
      BY DEF Places
    <3>. QED
      BY <1>2, <2>1, <3>1, PassedAtEnd DEF PassedAt
<1>3. ASSUME NEW at \in Places(L, R), PassedAt(L, R, at), ~Ends(at)
      PROVE  \E to \in Places(L, R) : /\ Left(L, R, to) < Left(L, R, at)
                                       /\ PassedAt(L, R, to) /\ f[at] = f[to]
  <2>1. PICK i, j, result : i = at[1] /\ j = at[2] /\ result = at[3]
    OBVIOUS
  <2>2. i \in 1..Len(L) /\ j \in 1..Len(R)
    <3>1. at[1] \in 1..Len(L) + 1 /\ at[2] \in 1..Len(R) + 1
      BY DEF Places
    <3>. QED
      BY <1>3, <2>1, <3>1
  <2>3. Passed(L, R, i, j, result)
    BY <1>3, <2>1 DEF PassedAt
  <2>4. PICK to \in Places(L, R) :
              /\ Left(L, R, to) < Left(L, R, at)
              /\ \A g : Scan(L, R, g, at) = g[to]
              /\ \/ /\ L[at[1]] < R[at[2]]
                    /\ to = <<at[1] + 1, at[2], at[3] \ {L_SUBSET_OF_R}>>
                 \/ /\ R[at[2]] < L[at[1]]
                    /\ to = <<at[1], at[2] + 1, at[3] \ {L_SUPERSET_OF_R}>>
                 \/ /\ L[at[1]] = R[at[2]]
                    /\ to = <<at[1] + 1, at[2] + 1, at[3] \cup {NONEMPTY}>>
    BY <1>3, ScanStep, ZenonT(40)
  <2>5. \/ /\ L[i] < R[j] /\ to[1] = i + 1 /\ to[2] = j
           /\ to[3] = result \ {L_SUBSET_OF_R}
        \/ /\ R[j] < L[i] /\ to[1] = i /\ to[2] = j + 1
           /\ to[3] = result \ {L_SUPERSET_OF_R}
        \/ /\ L[i] = R[j] /\ to[1] = i + 1 /\ to[2] = j + 1
           /\ to[3] = result \cup {NONEMPTY}
    BY <2>1, <2>4
  <2>6. /\ L[i] < R[j] => Passed(L, R, i + 1, j, result \ {L_SUBSET_OF_R})
        /\ R[j] < L[i] => Passed(L, R, i, j + 1, result \ {L_SUPERSET_OF_R})
        /\ L[i] = R[j] => Passed(L, R, i + 1, j + 1, result \cup {NONEMPTY})
    BY <2>2, <2>3, PassedStep
  <2>7. Passed(L, R, to[1], to[2], to[3])
    BY <2>5, <2>6
  <2>8. PassedAt(L, R, to) /\ f[at] = f[to]
    BY <2>4, <2>7 DEF PassedAt
  <2>. QED
    BY <2>4, <2>8
<1>4. 0 \in S
  <2>1. ASSUME NEW at \in Places(L, R), Left(L, R, at) <= 0, PassedAt(L, R, at)
        PROVE  OneSided(L, R, f[at])
    <3>1. \A to \in Places(L, R) : ~(Left(L, R, to) < Left(L, R, at))
      BY <1>1, <2>1
    <3>. QED
      BY <1>2, <1>3, <2>1, <3>1
  <2>. QED
    BY <2>1
<1>5. ASSUME NEW n \in Nat, n \in S PROVE n + 1 \in S
  <2>1. ASSUME NEW at \in Places(L, R), Left(L, R, at) <= n + 1, PassedAt(L, R, at)
        PROVE  OneSided(L, R, f[at])
    <3>1. CASE Ends(at)
      BY <1>2, <2>1, <3>1
    <3>2. CASE ~Ends(at)
      <4>1. PICK to \in Places(L, R) : /\ Left(L, R, to) < Left(L, R, at)
                                       /\ PassedAt(L, R, to) /\ f[at] = f[to]
        BY <1>3, <2>1, <3>2
      <4>2. Left(L, R, to) <= n
        BY <1>1, <2>1, <4>1
      <4>. QED
        BY <1>5, <4>1, <4>2
    <3>. QED
      BY <3>1, <3>2
  <2>2. n + 1 \in Nat
    OBVIOUS
  <2>. QED
    BY <2>1, <2>2
<1>6. PICK N \in Nat : N = Left(L, R, start)
  BY <1>1
<1>7. N \in S
  <2>0. N \in 0..N
    OBVIOUS
  <2>1. \A n \in 0..(N - 1) : n \in S => n + 1 \in S
    <3>1. \A n \in 0..(N - 1) : n \in Nat
      OBVIOUS
    <3>. HIDE DEF S
    <3>. QED
      BY <1>5, <3>1
  <2>. HIDE DEF S
  <2>. QED
    BY <1>4, <2>0, <2>1, UpTo
<1>. QED
  BY <1>6, <1>7

\* The answer of intersect against the reference, for sorted arrays of any
\* length: NONEMPTY is exact, and an inclusion that holds is never denied,
\* unless an array is empty.
LEMMA IntersectIsRight ==
    ASSUME NEW L \in Seq(Nat), NEW R \in Seq(Nat), Sorted(L), Sorted(R)
    PROVE  /\ L = <<>> \/ R = <<>> => intersect(L, R) = EMPTY
           /\ L # <<>> /\ R # <<>> => OneSided(L, R, intersect(L, R))
<1>1. L = <<>> \/ R = <<>> => intersect(L, R) = EMPTY
  BY DEF intersect, intersect_with
<1>2. ASSUME L # <<>>, R # <<>> PROVE OneSided(L, R, intersect(L, R))
  <2>1. PICK f : /\ \A at \in Places(L, R) : f[at] = Scan(L, R, f, at)
                 /\ intersect(L, R) = f[<<1, 1, {L_SUBSET_OF_R, L_SUPERSET_OF_R}>>]
    BY <1>2, IntersectScans
  <2>2. PICK start : start = <<1, 1, {L_SUBSET_OF_R, L_SUPERSET_OF_R}>>
    OBVIOUS
  <2>3. start \in Places(L, R)
    BY <2>2 DEF Places, Results
  <2>4. PassedAt(L, R, start)
    <3>1. NONEMPTY \notin {L_SUBSET_OF_R, L_SUPERSET_OF_R}
      BY DEF NONEMPTY, L_SUBSET_OF_R, L_SUPERSET_OF_R
    <3>2. 1..(1 - 1) = {}
      OBVIOUS
    <3>. QED
      BY <2>2, <3>1, <3>2 DEF PassedAt, Passed
  <2>. QED
    BY <2>1, <2>2, <2>3, <2>4, ScanIsRight
<1>. QED
  BY <1>1, <1>2

(***************************************************************************)
(* The locks held.                                                         *)
(***************************************************************************)
InOrder(ls) == ls \in Seq(LockIds) /\ Sorted(ls)

\* Every lock id was handed out, and an array that describes locks is in order.
LocksOK ==
    /\ LocksTypeOK
    /\ \A m \in Mutexes : lock_ids[m] < next_lock_id
    /\ InOrder(lockset) /\ ToSet(lockset) = held
    /\ lockset_empty = (held = {})
    /\ \A k \in rlockers \cup wlockers : InOrder(k.lockset) /\ k.lockset # <<>>

(***************************************************************************)
(* What the shadow memory of the location stands for.                      *)
(***************************************************************************)
Accesses == [strand : Strands, write : BOOLEAN, locks : SUBSET LockIds]
Entry(write) == IF write THEN writes ELSE reads
LockersOf(write) == IF write THEN wlockers ELSE rlockers
Made(write) == {e \in past : e.write = write}

\* An entry names an access, which held no lock if the location has no
\* lockers, and a locker stands for an access under its locks.
EntryIsAccess(write) ==
    /\ Entry(write) # 0 => \E e \in Made(write) : e.strand = Entry(write)
    /\ Entry(write) # 0 /\ LockersOf(write) = {} =>
          \E e \in Made(write) : e.strand = Entry(write) /\ e.locks = {}
    /\ \A k \in LockersOf(write) : \E e \in Made(write) :
          e.strand = k.strand /\ e.locks = ToSet(k.lockset)

HistoryOK ==
    /\ past \subseteq Accesses
    /\ \A e \in past : e.strand <= strand
    /\ \A write \in BOOLEAN : EntryIsAccess(write)

\* An entry is the access whose strand comes last in the second order, so it
\* is parallel to the running strand if any access of its kind is.
EntryIsLast(write) ==
    \A e \in Made(write) : Entry(write) # 0 /\ hebrew[e.strand] <= hebrew[Entry(write)]

\* Lockers come from accesses under locks.
LockersNeedLocks(write) ==
    LockersOf(write) # {} => \E e \in Made(write) : e.locks # {}

\* An occupancy bit stands for an access that was checked in full.
OccupiedIsChecked(write) ==
    Kind(write) \in occupied =>
        \E d \in Made(write) :
            /\ d.strand = strand
            /\ \A e \in past :
                  (e.write \/ write) /\ Pair(e, d.locks) /\ Class(e, d.locks) = "plain" =>
                     [strand |-> strand, kind |-> RaceKind(e, write)] \in reports

Complete ==
    \A write \in BOOLEAN :
        EntryIsLast(write) /\ LockersNeedLocks(write) /\ OccupiedIsChecked(write)

-----------------------------------------------------------------------------
(***************************************************************************)
(* One access.                                                             *)
(***************************************************************************)
KindOf(earlier, write) == IF ~earlier THEN "RW" ELSE IF write THEN "WW" ELSE "WR"

\* The check of an access under the locks LS.
Checked(write, LS) ==
    IF LS = <<>> THEN check_races_and_update(write)
    ELSE check_data_races_and_update(write, LS)

AccessStep(write, LS) ==
    /\ InOrder(LS)
    /\ UNCHANGED <<strand, hebrew, lock_ids, next_lock_id, lockset_empty, held>>
    /\ Witness(write, ToSet(LS))
    /\ \/ /\ Kind(write) \in occupied
          /\ UNCHANGED <<reads, writes, rlockers, wlockers, occupied, reports>>
       \/ /\ Checked(write, LS)
          /\ occupied' \in {occupied, occupied \cup {Kind(write)}}

\* The lock ids are natural numbers.
LEMMA IdsAreNumbers == LockIds \in SUBSET Nat /\ atomic_lock_id \in LockIds
BY LocksAssumption DEF LockIds, atomic_lock_id

\* An empty array describes no locks, and only an empty one does.
LEMMA EmptyArray ==
    ASSUME NEW S, NEW s \in Seq(S)
    PROVE  s = <<>> <=> ToSet(s) = {}
<1>1. ASSUME s = <<>> PROVE ToSet(s) = {}
  <2>1. Len(s) = 0
    BY <1>1
  <2>2. \A i : ~(i \in 1..0)
    OBVIOUS
  <2>. QED
    BY <2>1, <2>2, Entries
<1>2. ASSUME s # <<>> PROVE ToSet(s) # {}
  <2>1. 1 \in 1..Len(s)
    BY <1>2
  <2>2. s[1] \in ToSet(s)
    BY <2>1, Entries
  <2>. QED
    BY <2>2
<1>. QED
  BY <1>1, <1>2

\* Both kinds of access are steps of that form: a plain one under the locks
\* held, an atomic one under the atomic lock besides.
LEMMA AccessIsStep ==
    ASSUME LocksOK, NEW write \in BOOLEAN, access(write) \/ atomic_access(write)
    PROVE  /\ \E LS : AccessStep(write, LS)
           /\ InOrder(lockset') /\ ToSet(lockset') = held
<1>0. /\ lockset \in Seq(LockIds) /\ Sorted(lockset) /\ ToSet(lockset) = held
      /\ lockset_empty = (held = {})
  BY DEF LocksOK, InOrder
<1>1. CASE access(write)
  <2>1. /\ UNCHANGED <<strand, hebrew, lock_ids, next_lock_id, lockset, lockset_empty, held>>
        /\ Witness(write, held)
    BY <1>1 DEF access, lockvars
  <2>2. \/ /\ Kind(write) \in occupied
           /\ UNCHANGED <<reads, writes, rlockers, wlockers, occupied, reports>>
        \/ /\ Checked(write, lockset)
           /\ occupied' \in {occupied, occupied \cup {Kind(write)}}
    <3>1. lockset = <<>> <=> held = {}
      BY <1>0, EmptyArray
    <3>2. CASE ~lockset_empty
      <4>1. Slow(write, check_data_races_and_update(write, lockset)) /\ lockset # <<>>
        BY <1>0, <1>1, <3>1, <3>2 DEF access
      <4>2. CASE Kind(write) \in occupied
        BY <4>1, <4>2 DEF Slow
      <4>3. CASE Kind(write) \notin occupied
        BY <4>1, <4>3 DEF Slow, Checked
      <4>. QED
        BY <4>2, <4>3
    <3>3. CASE lockset_empty
      <4>1. lockset = <<>>
        BY <1>0, <3>1, <3>3
      <4>2. \/ Slow(write, check_races_and_update(write))
            \/ check_races_and_update(write) /\ UNCHANGED occupied
        BY <1>1, <3>3 DEF access
      <4>3. CASE check_races_and_update(write) /\ UNCHANGED occupied
        BY <4>1, <4>3 DEF Checked
      <4>4. CASE Slow(write, check_races_and_update(write)) /\ Kind(write) \in occupied
        BY <4>4 DEF Slow
      <4>5. CASE Slow(write, check_races_and_update(write)) /\ Kind(write) \notin occupied
        BY <4>1, <4>5 DEF Slow, Checked
      <4>. QED
        BY <4>2, <4>3, <4>4, <4>5
    <3>. QED
      BY <3>2, <3>3
  <2>3. AccessStep(write, lockset)
    BY <1>0, <2>1, <2>2 DEF AccessStep, InOrder
  <2>. QED
    BY <1>0, <2>1, <2>3 DEF InOrder
<1>2. CASE atomic_access(write)
  <2>1. PICK LS : LS = insert(lockset, atomic_lock_id)
    OBVIOUS
  <2>2. /\ LS \in Seq(LockIds) /\ Sorted(LS) /\ LS # <<>>
        /\ ToSet(LS) = held \cup {atomic_lock_id}
    BY <1>0, <2>1, IdsAreNumbers, InsertFacts
  <2>3. /\ atomic_lock_id \notin held
        /\ Slow(write, check_data_races_and_update(write, LS))
        /\ lockset' = remove(LS, atomic_lock_id)
        /\ Witness(write, held \cup {atomic_lock_id})
        /\ UNCHANGED <<strand, hebrew, lock_ids, next_lock_id, lockset_empty, held>>
    BY <1>2, <2>1 DEF atomic_access
  <2>4. /\ lockset' \in Seq(LockIds) /\ Sorted(lockset')
        /\ ToSet(lockset') = (held \cup {atomic_lock_id}) \ {atomic_lock_id}
    <3>1. atomic_lock_id \in ToSet(LS)
      BY <2>2
    <3>2. /\ remove(LS, atomic_lock_id) \in Seq(LockIds)
          /\ Sorted(remove(LS, atomic_lock_id))
          /\ ToSet(remove(LS, atomic_lock_id)) = ToSet(LS) \ {atomic_lock_id}
      BY <2>2, <3>1, IdsAreNumbers, RemoveFacts
    <3>. QED
      BY <2>2, <2>3, <3>2
  <2>5. \/ /\ Kind(write) \in occupied
           /\ UNCHANGED <<reads, writes, rlockers, wlockers, occupied, reports>>
        \/ /\ Checked(write, LS)
           /\ occupied' \in {occupied, occupied \cup {Kind(write)}}
    <3>1. CASE Kind(write) \in occupied
      BY <2>3, <3>1 DEF Slow
    <3>2. CASE Kind(write) \notin occupied
      BY <2>2, <2>3, <3>2 DEF Slow, Checked
    <3>. QED
      BY <3>1, <3>2
  <2>6. AccessStep(write, LS)
    BY <2>2, <2>3, <2>5 DEF AccessStep, InOrder
  <2>. QED
    BY <2>3, <2>4, <2>6 DEF InOrder
<1>. QED
  BY <1>1, <1>2

\* What a check does to the two dictionaries, and what it reports.
LEMMA CheckFacts ==
    ASSUME NEW write \in BOOLEAN, NEW LS, Checked(write, LS)
    PROVE  /\ Entry(write)' = Updated(Entry(write))
           /\ LockersOf(write)' = IF LS = <<>> THEN LockersOf(write)
                                  ELSE LockerSet(LockersOf(write), LS)
           /\ Entry(~write)' = Entry(~write) /\ LockersOf(~write)' = LockersOf(~write)
           /\ reports \subseteq reports'
           /\ \A r \in reports' \ reports : \E earlier \in BOOLEAN :
                 /\ earlier \/ write
                 /\ r = [strand |-> strand, kind |-> KindOf(earlier, write)]
                 /\ RacesWith(Entry(earlier))
                 /\ LS # <<>> => DataRace(Entry(earlier), LockersOf(earlier), LS)
           /\ \A earlier \in BOOLEAN :
                 /\ earlier \/ write
                 /\ RacesWith(Entry(earlier))
                 /\ LS = <<>> \/ LockersOf(earlier) = {}
                 => [strand |-> strand, kind |-> KindOf(earlier, write)] \in reports'
<1>1. CASE write = TRUE /\ LS = <<>>
  BY <1>1 DEF Checked, check_races_and_update, Entry, LockersOf, Report, If, KindOf
<1>2. CASE write = FALSE /\ LS = <<>>
  BY <1>2 DEF Checked, check_races_and_update, Entry, LockersOf, Report, If, KindOf
<1>3. CASE write = TRUE /\ LS # <<>>
  BY <1>3 DEF Checked, check_data_races_and_update, Entry, LockersOf, Report, If, KindOf, DataRace
<1>4. CASE write = FALSE /\ LS # <<>>
  BY <1>4 DEF Checked, check_data_races_and_update, Entry, LockersOf, Report, If, KindOf, DataRace
<1>. QED
  BY <1>1, <1>2, <1>3, <1>4

\* The locks of an access join the list of lockers of its kind, if any do.
LEMMA LockersKept ==
    ASSUME NEW write \in BOOLEAN, NEW LS, Checked(write, LS)
    PROVE  /\ \A k \in LockersOf(write)' :
                 \/ k \in LockersOf(write)
                 \/ LS # <<>> /\ k = [strand |-> strand, lockset |-> LS]
           /\ LS # <<>> => LockersOf(write)' # {}
<1>1. CASE LS = <<>>
  BY <1>1, CheckFacts
<1>2. CASE LS # <<>>
  <2>1. LockersOf(write)' = LockerSet(LockersOf(write), LS)
    BY <1>2, CheckFacts
  <2>2. \A k \in LockerSet(LockersOf(write), LS) :
           k \in LockersOf(write) \/ k = [strand |-> strand, lockset |-> LS]
    BY DEF LockerSet
  <2>3. LockerSet(LockersOf(write), LS) # {}
    <3>1. CASE \E k \in LockersOf(write) : /\ previousAccessInParallel(k.strand)
                                           /\ L_SUBSET_OF_R \in intersect(k.lockset, LS)
      <4>1. PICK k \in LockersOf(write) : previousAccessInParallel(k.strand)
        BY <3>1
      <4>2. k \in LockerSet(LockersOf(write), LS)
        BY <4>1 DEF LockerSet, Superseded
      <4>. QED
        BY <4>2
    <3>2. CASE ~\E k \in LockersOf(write) : /\ previousAccessInParallel(k.strand)
                                            /\ L_SUBSET_OF_R \in intersect(k.lockset, LS)
      <4>1. [strand |-> strand, lockset |-> LS] \in LockerSet(LockersOf(write), LS)
        BY <3>2 DEF LockerSet
      <4>. QED
        BY <4>1
    <3>. QED
      BY <3>1, <3>2
  <2>. QED
    BY <1>2, <2>1, <2>2, <2>3
<1>. QED
  BY <1>1, <1>2

-----------------------------------------------------------------------------
(***************************************************************************)
(* The locks held.                                                         *)
(***************************************************************************)

\* At the start no lock is known or held.
LEMMA LocksInit == Init => LocksOK
<1>. SUFFICES ASSUME Init PROVE LocksOK
  OBVIOUS
<1>1. /\ NStrands \in Nat /\ 1 \in Strands /\ MaxIds \in Nat /\ atomic_lock_id + 1 = 1
  BY LocksAssumption DEF Strands, atomic_lock_id
<1>2. LocksTypeOK
  BY <1>1 DEF Init, LocksTypeOK, LockIds, Known
<1>3. \A m \in Mutexes : lock_ids[m] < next_lock_id
  BY <1>1 DEF Init
<1>4. lockset \in Seq(LockIds) /\ Len(lockset) = 0
  BY DEF Init
<1>5. Sorted(lockset)
  BY <1>4 DEF Sorted
<1>6. ToSet(lockset) = {}
  BY <1>4, EmptyArray DEF Init
<1>. QED
  BY <1>2, <1>3, <1>4, <1>5, <1>6 DEF Init, LocksOK, InOrder

\* A new id is one that no mutex has.
LEMMA NewIdFacts ==
    ASSUME LocksOK, NEW m \in Mutexes, NewId(m)
    PROVE  /\ lock_ids' \in [Mutexes -> LockIds] /\ next_lock_id' \in 1..MaxIds + 1
           /\ \A n \in Mutexes : lock_ids'[n] < next_lock_id'
           /\ \A n, o \in Mutexes : lock_ids'[n] # 0 /\ lock_ids'[n] = lock_ids'[o] => n = o
           /\ next_lock_id \in LockIds
<1>1. /\ lock_ids \in [Mutexes -> LockIds] /\ next_lock_id \in 1..MaxIds + 1
      /\ \A n, o \in Mutexes : lock_ids[n] # 0 /\ lock_ids[n] = lock_ids[o] => n = o
      /\ \A n \in Mutexes : lock_ids[n] < next_lock_id
      /\ MaxIds \in Nat
  BY LocksAssumption DEF LocksOK, LocksTypeOK, Known
<1>2. /\ next_lock_id <= MaxIds /\ next_lock_id' = next_lock_id + 1
      /\ lock_ids' = [lock_ids EXCEPT ![m] = next_lock_id]
  BY DEF NewId
<1>3. next_lock_id \in LockIds /\ next_lock_id' \in 1..MaxIds + 1
  BY <1>1, <1>2 DEF LockIds
<1>4. lock_ids'[m] = next_lock_id /\ \A n \in Mutexes : n # m => lock_ids'[n] = lock_ids[n]
  BY <1>1, <1>2
<1>5. \A n \in Mutexes : lock_ids[n] \in Nat
  BY <1>1 DEF LockIds
<1>6. lock_ids' \in [Mutexes -> LockIds]
  BY <1>1, <1>2, <1>3
<1>7. ASSUME NEW n \in Mutexes PROVE lock_ids'[n] < next_lock_id'
  BY <1>1, <1>2, <1>4, <1>5
<1>8. ASSUME NEW n \in Mutexes PROVE n # m => lock_ids'[n] # next_lock_id
  BY <1>1, <1>4, <1>5
<1>. QED
  BY <1>1, <1>3, <1>4, <1>6, <1>7, <1>8

\* The operations on locks and atomic sections keep the lockset exact.
LEMMA LockOperations ==
    ASSUME LocksOK, UNCHANGED <<strand, hebrew, shadow, history>>,
           NEW held_, held' = held_,
           lockset' \in Seq(LockIds), Sorted(lockset'), ToSet(lockset') = held_,
           lockset_empty' = (held_ = {}),
           lock_ids' \in [Mutexes -> LockIds], next_lock_id' \in 1..MaxIds + 1,
           \A n, o \in Mutexes : lock_ids'[n] # 0 /\ lock_ids'[n] = lock_ids'[o] => n = o,
           \A n \in Mutexes : lock_ids'[n] < next_lock_id'
    PROVE  LocksOK'
<1>1. held_ \subseteq LockIds
  <2>1. \A x \in ToSet(lockset') : x \in LockIds
    BY Entries
  <2>. QED
    BY <2>1
<1>2. LocksTypeOK'
  BY <1>1 DEF LocksOK, LocksTypeOK, Known, shadow, history
<1>. QED
  BY <1>2 DEF LocksOK, InOrder, shadow

\* Every step keeps the lockset exact, whatever the nesting of the critical
\* sections: the interposers, the atomic section and the atomic access.
LEMMA LocksStep == LocksOK /\ [Next]_vars => LocksOK'
<1>. SUFFICES ASSUME LocksOK, [Next]_vars PROVE LocksOK'
  OBVIOUS
<1>0. /\ lockset \in Seq(LockIds) /\ Sorted(lockset) /\ ToSet(lockset) = held
      /\ lockset_empty = (held = {})
      /\ lock_ids \in [Mutexes -> LockIds] /\ next_lock_id \in 1..MaxIds + 1
      /\ \A n, o \in Mutexes : lock_ids[n] # 0 /\ lock_ids[n] = lock_ids[o] => n = o
      /\ \A n \in Mutexes : lock_ids[n] < next_lock_id
      /\ MaxIds \in Nat /\ LockIds \in SUBSET Nat
  BY LocksAssumption, IdsAreNumbers DEF LocksOK, LocksTypeOK, InOrder, Known
<1>00. ASSUME NEW id \in LockIds, do_acquire_lock(id)
       PROVE  /\ lockset' \in Seq(LockIds) /\ Sorted(lockset')
              /\ ToSet(lockset') = held \cup {id} /\ held' = held \cup {id}
              /\ lockset_empty' = (held \cup {id} = {})
  <2>1. /\ insert(lockset, id) \in Seq(LockIds) /\ Sorted(insert(lockset, id))
        /\ ToSet(insert(lockset, id)) = ToSet(lockset) \cup {id}
    BY <1>0, InsertFacts
  <2>. QED
    BY <1>0, <1>00, <2>1 DEF do_acquire_lock
<1>01. ASSUME NEW id \in held, do_release_lock(id)
       PROVE  /\ lockset' \in Seq(LockIds) /\ Sorted(lockset')
              /\ ToSet(lockset') = held \ {id} /\ held' = held \ {id}
              /\ lockset_empty' = (held \ {id} = {})
  <2>1. /\ remove(lockset, id) \in Seq(LockIds) /\ Sorted(remove(lockset, id))
        /\ ToSet(remove(lockset, id)) = ToSet(lockset) \ {id}
    BY <1>0, RemoveFacts
  <2>2. remove(lockset, id) = <<>> <=> ToSet(remove(lockset, id)) = {}
    BY <2>1, EmptyArray
  <2>. QED
    BY <1>0, <1>01, <2>1, <2>2 DEF do_release_lock
<1>1. ASSUME NEW m \in Mutexes, init_mutex(m) PROVE LocksOK'
  <2>1. /\ NewId(m)
        /\ UNCHANGED <<strand, hebrew, lockset, lockset_empty, held, shadow, history>>
    BY <1>1 DEF init_mutex
  <2>. QED
    BY <1>0, <2>1, NewIdFacts, LockOperations
<1>2. ASSUME NEW m \in Mutexes, destroy_mutex(m) PROVE LocksOK'
  <2>1. /\ lock_ids' = [lock_ids EXCEPT ![m] = 0]
        /\ UNCHANGED <<strand, hebrew, next_lock_id, lockset, lockset_empty, held,
                       shadow, history>>
    BY <1>2 DEF destroy_mutex
  <2>2. /\ lock_ids'[m] = 0 /\ \A n \in Mutexes : n # m => lock_ids'[n] = lock_ids[n]
        /\ lock_ids' \in [Mutexes -> LockIds]
    BY <1>0, <2>1 DEF LockIds
  <2>3. 0 < next_lock_id
    BY <1>0
  <2>. QED
    BY <1>0, <2>1, <2>2, <2>3, LockOperations
<1>3. ASSUME NEW m \in Mutexes, lock_mutex(m) PROVE LocksOK'
  <2>1. UNCHANGED <<strand, hebrew, shadow, history>>
    BY <1>3 DEF lock_mutex
  <2>2. CASE Known(m)
    <3>1. do_acquire_lock(lock_ids[m]) /\ UNCHANGED <<lock_ids, next_lock_id>>
      BY <1>3, <2>2 DEF lock_mutex
    <3>. QED
      BY <1>0, <1>00, <2>1, <3>1, LockOperations
  <2>3. CASE ~Known(m)
    <3>1. NewId(m) /\ do_acquire_lock(next_lock_id)
      BY <1>3, <2>3 DEF lock_mutex
    <3>. QED
      BY <1>00, <2>1, <3>1, NewIdFacts, LockOperations
  <2>. QED
    BY <2>2, <2>3
<1>4. ASSUME NEW m \in Mutexes, unlock_mutex(m) PROVE LocksOK'
  <2>1. /\ lock_ids[m] \in held /\ do_release_lock(lock_ids[m])
        /\ UNCHANGED <<strand, hebrew, lock_ids, next_lock_id, shadow, history>>
    BY <1>4 DEF unlock_mutex, HeldMutex
  <2>2. /\ lockset' \in Seq(LockIds) /\ Sorted(lockset')
        /\ ToSet(lockset') = held \ {lock_ids[m]} /\ held' = held \ {lock_ids[m]}
        /\ lockset_empty' = (held \ {lock_ids[m]} = {})
    BY <1>01, <2>1
  <2>. QED
    BY <1>0, <2>1, <2>2, LockOperations
<1>5. CASE begin_atomic
  BY <1>0, <1>00, <1>5, IdsAreNumbers, LockOperations DEF begin_atomic
<1>6. CASE end_atomic
  BY <1>0, <1>01, <1>6, LockOperations DEF end_atomic
<1>7. ASSUME NEW write \in BOOLEAN, access(write) \/ atomic_access(write) PROVE LocksOK'
  <2>1. PICK LS : AccessStep(write, LS)
    BY <1>7, AccessIsStep
  <2>2. InOrder(lockset') /\ ToSet(lockset') = held
    BY <1>7, AccessIsStep
  <2>3. /\ InOrder(LS)
        /\ UNCHANGED <<strand, hebrew, lock_ids, next_lock_id, lockset_empty, held>>
    BY <2>1 DEF AccessStep
  <2>4. CASE UNCHANGED <<reads, writes, rlockers, wlockers, occupied, reports>>
    BY <2>2, <2>3, <2>4 DEF LocksOK, LocksTypeOK, Known, InOrder
  <2>5. CASE Checked(write, LS) /\ occupied' \in {occupied, occupied \cup {Kind(write)}}
    <3>1. occupied' \subseteq {"read", "write"}
      BY <2>5 DEF LocksOK, LocksTypeOK, Kind
    <3>2. strand \in 0..NStrands /\ strand \in Strands
      BY LocksAssumption DEF LocksOK, LocksTypeOK, Strands
    <3>3. \A w \in BOOLEAN : Entry(w) \in 0..NStrands
      BY DEF LocksOK, LocksTypeOK, Entry
    <3>4. Entry(write)' \in 0..NStrands /\ Entry(~write)' \in 0..NStrands
      <4>1. Entry(write)' = Updated(Entry(write)) /\ Entry(~write)' = Entry(~write)
        BY <2>5, CheckFacts
      <4>. QED
        BY <3>2, <3>3, <4>1 DEF Updated
    <3>5. reads' \in 0..NStrands /\ writes' \in 0..NStrands
      <4>1. CASE write = TRUE
        BY <3>4, <4>1 DEF Entry
      <4>2. CASE write = FALSE
        BY <3>4, <4>2 DEF Entry
      <4>. QED
        BY <4>1, <4>2
    <3>6. ASSUME NEW k \in rlockers' \cup wlockers'
          PROVE  k \in Lockers /\ InOrder(k.lockset) /\ k.lockset # <<>>
      <4>1. \A w \in BOOLEAN : \A l \in LockersOf(w) :
               l \in Lockers /\ InOrder(l.lockset) /\ l.lockset # <<>>
        BY DEF LocksOK, LocksTypeOK, LockersOf
      <4>2. k \in LockersOf(write)' \/ k \in LockersOf(~write)'
        <5>1. CASE write = TRUE
          BY <3>6, <5>1 DEF LockersOf
        <5>2. CASE write = FALSE
          BY <3>6, <5>2 DEF LockersOf
        <5>. QED
          BY <5>1, <5>2
      <4>3. CASE k \in LockersOf(~write)'
        BY <2>5, <4>1, <4>3, CheckFacts
      <4>4. CASE k \in LockersOf(write)'
        <5>1. k \in LockersOf(write) \/ (LS # <<>> /\ k = [strand |-> strand, lockset |-> LS])
          BY <2>5, <4>4, LockersKept
        <5>2. CASE k \in LockersOf(write)
          BY <4>1, <5>2
        <5>3. CASE LS # <<>> /\ k = [strand |-> strand, lockset |-> LS]
          <6>1. k.lockset = LS /\ k.strand = strand /\ LS \in Seq(LockIds)
            BY <2>3, <5>3 DEF InOrder
          <6>2. k \in Lockers
            BY <3>2, <5>3, <6>1 DEF Lockers
          <6>. QED
            BY <2>3, <5>3, <6>1, <6>2
        <5>. QED
          BY <5>1, <5>2, <5>3
      <4>. QED
        BY <4>2, <4>3, <4>4
    <3>7. reports' \subseteq [strand : Strands, kind : Kinds]
      <4>1. reports \subseteq [strand : Strands, kind : Kinds]
        BY DEF LocksOK, LocksTypeOK
      <4>2. ASSUME NEW r \in reports' \ reports PROVE r \in [strand : Strands, kind : Kinds]
        <5>1. PICK earlier \in BOOLEAN : r = [strand |-> strand, kind |-> KindOf(earlier, write)]
          BY <2>5, CheckFacts
        <5>2. KindOf(earlier, write) \in Kinds
          BY DEF KindOf, Kinds
        <5>. QED
          BY <3>2, <5>1, <5>2
      <4>. QED
        BY <4>1, <4>2
    <3>8. rlockers' \subseteq Lockers /\ wlockers' \subseteq Lockers
      BY <3>6
    <3>9. LocksTypeOK'
      BY <2>3, <3>1, <3>5, <3>7, <3>8 DEF LocksOK, LocksTypeOK, Known
    <3>. QED
      BY <2>2, <2>3, <3>6, <3>9 DEF LocksOK
  <2>. QED
    BY <2>1, <2>4, <2>5 DEF AccessStep
<1>8. CASE next_strand
  <2>1. /\ strand < NStrands /\ strand' = strand + 1 /\ occupied' = {}
        /\ UNCHANGED <<hebrew, lock_ids, next_lock_id, lockset, lockset_empty, held,
                       reads, writes, rlockers, wlockers, past, reports, real>>
    BY <1>8 DEF next_strand, lockvars, history
  <2>2. strand' \in Strands
    BY <2>1, LocksAssumption DEF LocksOK, LocksTypeOK, Strands
  <2>3. LocksTypeOK'
    BY <2>1, <2>2 DEF LocksOK, LocksTypeOK, Known
  <2>. QED
    BY <2>1, <2>3 DEF LocksOK, InOrder
<1>9. CASE UNCHANGED vars
  <2>1. UNCHANGED <<strand, hebrew, lock_ids, next_lock_id, lockset, lockset_empty, held,
                    reads, writes, rlockers, wlockers, occupied, past, reports, real>>
    BY <1>9 DEF vars, lockvars, shadow, history
  <2>2. LocksTypeOK'
    BY <2>1 DEF LocksOK, LocksTypeOK, Known
  <2>. QED
    BY <2>1, <2>2 DEF LocksOK, InOrder
<1>. QED
  BY <1>1, <1>2, <1>3, <1>4, <1>5, <1>6, <1>7, <1>8, <1>9 DEF Next

-----------------------------------------------------------------------------
(***************************************************************************)
(* What the entries stand for, and that reports are races.                 *)
(***************************************************************************)

\* The answer of intersect in terms of sets of locks.
LEMMA IntersectOfSets ==
    ASSUME NEW L, NEW R, InOrder(L), InOrder(R)
    PROVE  /\ NONEMPTY \in intersect(L, R) <=> ToSet(L) \cap ToSet(R) # {}
           /\ ToSet(L) # {} /\ ToSet(L) \subseteq ToSet(R) => L_SUBSET_OF_R \in intersect(L, R)
           /\ ToSet(R) # {} /\ ToSet(R) \subseteq ToSet(L) => L_SUPERSET_OF_R \in intersect(L, R)
<1>1. L \in Seq(LockIds) /\ R \in Seq(LockIds) /\ Sorted(L) /\ Sorted(R)
  BY DEF InOrder
<1>2. L \in Seq(Nat) /\ R \in Seq(Nat)
  BY <1>1, IdsAreNumbers, SeqMonotonic
<1>3. /\ L = <<>> <=> ToSet(L) = {}
      /\ R = <<>> <=> ToSet(R) = {}
  BY <1>1, EmptyArray
<1>4. /\ \A x : x \in ToSet(L) <=> \E i \in 1..Len(L) : x = L[i]
      /\ \A x : x \in ToSet(R) <=> \E i \in 1..Len(R) : x = R[i]
  BY <1>1, Entries
<1>5. CASE L = <<>> \/ R = <<>>
  <2>1. intersect(L, R) = {}
    BY <1>1, <1>2, <1>5, IntersectIsRight DEF EMPTY
  <2>. QED
    BY <1>3, <1>5, <2>1
<1>6. CASE L # <<>> /\ R # <<>>
  <2>1. OneSided(L, R, intersect(L, R))
    BY <1>1, <1>2, <1>6, IntersectIsRight
  <2>2. Shares(L, R) <=> ToSet(L) \cap ToSet(R) # {}
    <3>1. ASSUME NEW x \in ToSet(L), x \in ToSet(R) PROVE Shares(L, R)
      <4>1. PICK i \in 1..Len(L) : x = L[i]
        BY <1>4
      <4>2. PICK j \in 1..Len(R) : x = R[j]
        BY <1>4, <3>1
      <4>. QED
        BY <4>1, <4>2 DEF Shares
    <3>2. ASSUME Shares(L, R) PROVE ToSet(L) \cap ToSet(R) # {}
      <4>1. PICK i \in 1..Len(L), j \in 1..Len(R) : L[i] = R[j]
        BY <3>2 DEF Shares
      <4>2. L[i] \in ToSet(L) /\ L[i] \in ToSet(R)
        BY <1>4, <4>1
      <4>. QED
        BY <4>2
    <3>. QED
      BY <3>1, <3>2
  <2>3. ToSet(L) \subseteq ToSet(R) => Inside(L, R)
    BY <1>4 DEF Inside
  <2>4. ToSet(R) \subseteq ToSet(L) => Inside(R, L)
    BY <1>4 DEF Inside
  <2>. QED
    BY <2>1, <2>2, <2>3, <2>4 DEF OneSided
<1>. QED
  BY <1>5, <1>6

\* An access is remembered, and every earlier one it races with.
LEMMA WitnessFacts ==
    ASSUME LocksOK, NEW write \in BOOLEAN, NEW LS, InOrder(LS), Witness(write, ToSet(LS)),
           strand' = strand, past \subseteq Accesses, \A e \in past : e.strand <= strand
    PROVE  /\ past \subseteq past' /\ real \subseteq real'
           /\ \A e \in past' : e \in past \/ e = [strand |-> strand, write |-> write,
                                                  locks |-> ToSet(LS)]
           /\ [strand |-> strand, write |-> write, locks |-> ToSet(LS)] \in past'
           /\ past' \subseteq Accesses
           /\ \A e \in past' : e.strand <= strand'
           /\ \A e \in past : (e.write \/ write) /\ Pair(e, ToSet(LS)) =>
                 [strand |-> strand, kind |-> RaceKind(e, write),
                  class |-> Class(e, ToSet(LS))] \in real'
           /\ \A t \in real' \ real : \E e \in past :
                 /\ e.write \/ write
                 /\ Pair(e, ToSet(LS))
                 /\ t = [strand |-> strand, kind |-> RaceKind(e, write),
                         class |-> Class(e, ToSet(LS))]
<1>1. PICK a : a = [strand |-> strand, write |-> write, locks |-> ToSet(LS)]
  OBVIOUS
<1>2. /\ past' = past \cup {a}
      /\ real' = real \cup
           {[strand |-> strand, kind |-> RaceKind(e, write), class |-> Class(e, ToSet(LS))] :
              e \in {e \in past : (e.write \/ write) /\ Pair(e, ToSet(LS))}}
  BY <1>1 DEF Witness
<1>3. ToSet(LS) \subseteq LockIds
  <2>1. LS \in Seq(LockIds)
    BY DEF InOrder
  <2>2. \A x \in ToSet(LS) : x \in LockIds
    BY <2>1, Entries
  <2>. QED
    BY <2>2
<1>4. strand \in Strands /\ strand <= strand
  BY LocksAssumption DEF LocksOK, LocksTypeOK, Strands
<1>5. a \in Accesses /\ a.strand = strand
  BY <1>1, <1>3, <1>4 DEF Accesses
<1>6. past' \subseteq Accesses /\ \A e \in past' : e.strand <= strand'
  BY <1>2, <1>4, <1>5
<1>. QED
  BY <1>1, <1>2, <1>6

\* A race that is found is with an access that holds no common lock.
LEMMA FoundIsRace ==
    ASSUME LocksOK, NEW LS, InOrder(LS), NEW earlier \in BOOLEAN,
           past \subseteq Accesses, EntryIsAccess(earlier), RacesWith(Entry(earlier)),
           LS # <<>> => DataRace(Entry(earlier), LockersOf(earlier), LS)
    PROVE  \E e \in Made(earlier) : Pair(e, ToSet(LS))
<1>1. /\ strand \in Nat
      /\ \A e \in past : e.strand \in Nat
  BY LocksAssumption DEF LocksOK, LocksTypeOK, Strands, Accesses
<1>2. ASSUME NEW e \in Made(earlier), previousAccessInParallel(e.strand),
             e.locks \cap ToSet(LS) = {}
      PROVE  Pair(e, ToSet(LS))
  <2>1. e.strand # strand
    BY <1>1, <1>2 DEF Made, previousAccessInParallel
  <2>. QED
    BY <1>2, <2>1 DEF Pair
<1>3. Entry(earlier) # 0 /\ previousAccessInParallel(Entry(earlier))
  BY DEF RacesWith
<1>4. CASE LS = <<>>
  <2>1. ToSet(LS) = {}
    BY <1>4, EmptyArray DEF InOrder
  <2>2. PICK e \in Made(earlier) : e.strand = Entry(earlier)
    BY <1>3 DEF EntryIsAccess
  <2>. QED
    BY <1>2, <1>3, <2>1, <2>2
<1>5. CASE LockersOf(earlier) = {}
  <2>1. PICK e \in Made(earlier) : e.strand = Entry(earlier) /\ e.locks = {}
    BY <1>3, <1>5 DEF EntryIsAccess
  <2>. QED
    BY <1>2, <1>3, <2>1
<1>6. CASE LS # <<>> /\ LockersOf(earlier) # {}
  <2>1. PICK k \in LockersOf(earlier) : /\ previousAccessInParallel(k.strand)
                                        /\ intersect(k.lockset, LS) = {}
    BY <1>6 DEF DataRace, dataRaceWithPreviousAccesses, EMPTY
  <2>2. PICK e \in Made(earlier) : e.strand = k.strand /\ e.locks = ToSet(k.lockset)
    BY <2>1 DEF EntryIsAccess
  <2>3. InOrder(k.lockset)
    BY <2>1 DEF LocksOK, LockersOf
  <2>4. ToSet(k.lockset) \cap ToSet(LS) = {}
    BY <2>1, <2>3, IntersectOfSets
  <2>. QED
    BY <1>2, <2>1, <2>2, <2>4
<1>. QED
  BY <1>4, <1>5, <1>6

\* At the start nothing was accessed.
LEMMA HistoryInit == Init => HistoryOK /\ ReportsAreDataRaces
BY DEF Init, HistoryOK, EntryIsAccess, Entry, LockersOf, Made, ReportsAreDataRaces

\* Every access leaves entries and lockers that stand for accesses.
LEMMA HistoryStep == LocksOK /\ HistoryOK /\ [Next]_vars => HistoryOK'
<1>. SUFFICES ASSUME LocksOK, HistoryOK, [Next]_vars PROVE HistoryOK'
  OBVIOUS
<1>1. ASSUME NEW write \in BOOLEAN, access(write) \/ atomic_access(write) PROVE HistoryOK'
  <2>1. PICK LS : AccessStep(write, LS)
    BY <1>1, AccessIsStep
  <2>2. InOrder(LS) /\ strand' = strand /\ Witness(write, ToSet(LS))
    BY <2>1 DEF AccessStep
  <2>3. PICK a : a = [strand |-> strand, write |-> write, locks |-> ToSet(LS)]
    OBVIOUS
  <2>4. /\ past \subseteq past' /\ a \in past'
        /\ past' \subseteq Accesses /\ \A e \in past' : e.strand <= strand'
    BY <2>2, <2>3, WitnessFacts DEF HistoryOK
  <2>5. /\ \A w \in BOOLEAN : \A e \in Made(w) : e \in Made(w)'
        /\ a \in Made(write)'
    BY <2>3, <2>4 DEF Made
  <2>6. ASSUME NEW w \in BOOLEAN, Entry(w)' = Entry(w), LockersOf(w)' = LockersOf(w)
        PROVE  EntryIsAccess(w)'
    <3>1. EntryIsAccess(w)
      BY DEF HistoryOK
    <3>. QED
      BY <2>5, <2>6, <3>1 DEF EntryIsAccess
  <2>7. CASE UNCHANGED <<reads, writes, rlockers, wlockers, occupied, reports>>
    <3>1. \A w \in BOOLEAN : Entry(w)' = Entry(w) /\ LockersOf(w)' = LockersOf(w)
      BY <2>7 DEF Entry, LockersOf
    <3>. QED
      BY <2>4, <2>6, <3>1 DEF HistoryOK
  <2>8. CASE Checked(write, LS)
    <3>1. EntryIsAccess(~write)'
      BY <2>6, <2>8, CheckFacts
    <3>2. EntryIsAccess(write)
      BY DEF HistoryOK
    <3>3. (Entry(write)' = Entry(write) /\ Entry(write) # 0) \/ Entry(write)' = strand
      BY <2>8, CheckFacts DEF Updated, RacesWith
    <3>4. LockersOf(write)' = {} => LS = <<>> /\ LockersOf(write) = {}
      BY <2>8, CheckFacts, LockersKept
    <3>5. LS = <<>> => a.locks = {}
      BY <2>2, <2>3, EmptyArray DEF InOrder
    <3>6. ASSUME Entry(write)' # 0 PROVE \E e \in Made(write)' : e.strand = Entry(write)'
      BY <2>3, <2>5, <3>2, <3>3 DEF EntryIsAccess
    <3>7. ASSUME Entry(write)' # 0, LockersOf(write)' = {}
          PROVE  \E e \in Made(write)' : e.strand = Entry(write)' /\ e.locks = {}
      BY <2>3, <2>5, <3>2, <3>3, <3>4, <3>5, <3>7 DEF EntryIsAccess
    <3>8. ASSUME NEW k \in LockersOf(write)'
          PROVE  \E e \in Made(write)' : e.strand = k.strand /\ e.locks = ToSet(k.lockset)
      <4>1. k \in LockersOf(write) \/ k = [strand |-> strand, lockset |-> LS]
        BY <2>8, <3>8, LockersKept
      <4>2. CASE k \in LockersOf(write)
        BY <2>5, <3>2, <4>2 DEF EntryIsAccess
      <4>3. CASE k = [strand |-> strand, lockset |-> LS]
        <5>1. k.strand = strand /\ k.lockset = LS /\ a.strand = strand /\ a.locks = ToSet(LS)
          BY <2>3, <4>3
        <5>. QED
          BY <2>5, <5>1
      <4>. QED
        BY <4>1, <4>2, <4>3
    <3>9. EntryIsAccess(write)'
      BY <3>6, <3>7, <3>8 DEF EntryIsAccess
    <3>10. \A w \in BOOLEAN : w = write \/ w = ~write
      OBVIOUS
    <3>11. \A w \in BOOLEAN : EntryIsAccess(w)'
      BY <3>1, <3>9, <3>10
    <3>. QED
      BY <2>4, <3>11 DEF HistoryOK
  <2>. QED
    BY <2>1, <2>7, <2>8 DEF AccessStep
<1>2. ASSUME UNCHANGED <<past, reads, writes, rlockers, wlockers>>,
             strand' = strand \/ strand' = strand + 1
      PROVE  HistoryOK'
  <2>1. \A w \in BOOLEAN : EntryIsAccess(w)'
    BY <1>2 DEF HistoryOK, EntryIsAccess, Entry, LockersOf, Made
  <2>2. strand \in Nat
    BY LocksAssumption DEF Strands, LocksOK, LocksTypeOK
  <2>3. ASSUME NEW e \in past PROVE e.strand \in Nat
    BY LocksAssumption DEF HistoryOK, Accesses, Strands
  <2>4. \A e \in past : e.strand <= strand'
    BY <1>2, <2>2, <2>3 DEF HistoryOK
  <2>. QED
    BY <1>2, <2>1, <2>4 DEF HistoryOK
<1>3. CASE next_strand
  BY <1>2, <1>3 DEF next_strand, history
<1>4. CASE \/ \E m \in Mutexes : init_mutex(m) \/ destroy_mutex(m)
                                 \/ lock_mutex(m) \/ unlock_mutex(m)
           \/ begin_atomic \/ end_atomic
  BY <1>2, <1>4 DEF init_mutex, destroy_mutex, lock_mutex, unlock_mutex, begin_atomic,
                    end_atomic, shadow, history
<1>5. CASE UNCHANGED vars
  BY <1>2, <1>5 DEF vars, shadow, history
<1>. QED
  BY <1>1, <1>3, <1>4, <1>5 DEF Next

\* Every report is about a race: when it is made, the entry or locker that
\* decided it stands for an access that is parallel and shares no lock.
LEMMA ReportsStep ==
    LocksOK /\ HistoryOK /\ ReportsAreDataRaces /\ [Next]_vars => ReportsAreDataRaces'
<1>. SUFFICES ASSUME LocksOK, HistoryOK, ReportsAreDataRaces, [Next]_vars
              PROVE  ReportsAreDataRaces'
  OBVIOUS
<1>1. ASSUME NEW write \in BOOLEAN, access(write) \/ atomic_access(write)
      PROVE  ReportsAreDataRaces'
  <2>1. PICK LS : AccessStep(write, LS)
    BY <1>1, AccessIsStep
  <2>2. InOrder(LS) /\ strand' = strand /\ Witness(write, ToSet(LS))
    BY <2>1 DEF AccessStep
  <2>3. /\ real \subseteq real'
        /\ \A e \in past : (e.write \/ write) /\ Pair(e, ToSet(LS)) =>
              [strand |-> strand, kind |-> RaceKind(e, write),
               class |-> Class(e, ToSet(LS))] \in real'
    BY <2>2, WitnessFacts DEF HistoryOK
  <2>4. CASE UNCHANGED <<reads, writes, rlockers, wlockers, occupied, reports>>
    BY <2>3, <2>4 DEF ReportsAreDataRaces
  <2>5. CASE Checked(write, LS)
    <3>1. ASSUME NEW r \in reports', r \notin reports
          PROVE  \E t \in real' : t.strand = r.strand /\ t.kind = r.kind
      <4>1. PICK earlier \in BOOLEAN :
               /\ earlier \/ write
               /\ r = [strand |-> strand, kind |-> KindOf(earlier, write)]
               /\ RacesWith(Entry(earlier))
               /\ LS # <<>> => DataRace(Entry(earlier), LockersOf(earlier), LS)
        BY <2>5, <3>1, CheckFacts
      <4>2. past \subseteq Accesses /\ EntryIsAccess(earlier)
        BY DEF HistoryOK
      <4>3. PICK e \in Made(earlier) : Pair(e, ToSet(LS))
        BY <2>2, <4>1, <4>2, FoundIsRace
      <4>4. e \in past /\ e.write = earlier
        BY DEF Made
      <4>5. RaceKind(e, write) = KindOf(earlier, write)
        BY <4>4 DEF RaceKind, KindOf
      <4>6. [strand |-> strand, kind |-> RaceKind(e, write),
             class |-> Class(e, ToSet(LS))] \in real'
        BY <2>3, <4>1, <4>3, <4>4
      <4>. QED
        BY <4>1, <4>5, <4>6
    <3>. QED
      BY <2>3, <3>1 DEF ReportsAreDataRaces
  <2>. QED
    BY <2>1, <2>4, <2>5 DEF AccessStep
<1>2. CASE UNCHANGED <<reports, real>>
  BY <1>2 DEF ReportsAreDataRaces
<1>3. \/ UNCHANGED <<reports, real>>
      \/ \E write \in BOOLEAN : access(write) \/ atomic_access(write)
  BY DEF Next, vars, history, init_mutex, destroy_mutex, lock_mutex, unlock_mutex,
         begin_atomic, end_atomic, next_strand
<1>. QED
  BY <1>1, <1>2, <1>3

-----------------------------------------------------------------------------
(***************************************************************************)
(* Races without locks are reported.                                       *)
(***************************************************************************)

\* At the start nothing is known of the location.
LEMMA CompleteInit == Init => Complete /\ PlainRacesReported
BY DEF Init, Complete, EntryIsLast, LockersNeedLocks, OccupiedIsChecked, Made,
       LockersOf, PlainRacesReported

\* Entries and accesses name strands, which have a place in both orders.
LEMMA EntryTypes ==
    ASSUME LocksOK, HistoryOK, NEW w \in BOOLEAN
    PROVE  /\ strand \in Strands
           /\ \A s \in Strands : s \in Nat /\ s # 0 /\ hebrew[s] \in Nat
           /\ Entry(w) # 0 => Entry(w) \in Strands
           /\ \A e \in Made(w) : e.strand \in Strands
<1>1. NStrands \in Nat
  BY LocksAssumption
<1>2. strand \in Strands /\ \A s \in Strands : hebrew[s] \in Strands
  BY DEF LocksOK, LocksTypeOK
<1>3. \A s \in Strands : s \in Nat /\ s # 0
  BY <1>1 DEF Strands
<1>4. Entry(w) # 0 => Entry(w) \in Strands
  <2>1. Entry(w) \in 0..NStrands
    BY DEF LocksOK, LocksTypeOK, Entry
  <2>. QED
    BY <1>1, <2>1 DEF Strands
<1>5. ASSUME NEW e \in Made(w) PROVE e.strand \in Strands
  BY DEF HistoryOK, Accesses, Made
<1>. QED
  BY <1>2, <1>3, <1>4, <1>5

\* The strand an entry keeps comes last in the second order.
LEMMA EntryStaysLast ==
    ASSUME LocksOK, HistoryOK, NEW w \in BOOLEAN, EntryIsLast(w)
    PROVE  /\ Updated(Entry(w)) # 0
           /\ hebrew[strand] <= hebrew[Updated(Entry(w))]
           /\ \A e \in Made(w) : hebrew[e.strand] <= hebrew[Updated(Entry(w))]
<1>1. /\ strand \in Strands /\ strand \in Nat /\ strand # 0
      /\ \A s \in Strands : hebrew[s] \in Nat
      /\ Entry(w) # 0 => Entry(w) \in Strands
      /\ \A e \in Made(w) : e.strand \in Strands
  BY EntryTypes
<1>2. CASE RacesWith(Entry(w))
  <2>1. /\ Entry(w) # 0 /\ Updated(Entry(w)) = Entry(w)
        /\ hebrew[Entry(w)] > hebrew[strand]
    BY <1>2 DEF Updated, RacesWith, previousAccessInParallel
  <2>2. hebrew[Entry(w)] \in Nat /\ hebrew[strand] \in Nat
    BY <1>1, <2>1
  <2>3. hebrew[strand] <= hebrew[Entry(w)]
    BY <2>1, <2>2
  <2>4. \A e \in Made(w) : hebrew[e.strand] <= hebrew[Entry(w)]
    BY DEF EntryIsLast
  <2>. QED
    BY <2>1, <2>3, <2>4
<1>3. CASE ~RacesWith(Entry(w))
  <2>1. Updated(Entry(w)) = strand
    BY <1>3 DEF Updated
  <2>2. Entry(w) # 0 => hebrew[Entry(w)] <= hebrew[strand]
    <3>. SUFFICES ASSUME Entry(w) # 0 PROVE hebrew[Entry(w)] <= hebrew[strand]
      OBVIOUS
    <3>1. PICK d \in Made(w) : d.strand = Entry(w)
      BY DEF HistoryOK, EntryIsAccess
    <3>2. d.strand <= strand
      BY DEF Made, HistoryOK
    <3>3. Entry(w) \in Strands /\ Entry(w) \in Nat /\ Entry(w) <= strand
      BY <1>1, <3>1, <3>2, EntryTypes
    <3>4. CASE Entry(w) = strand
      BY <1>1, <3>4
    <3>5. CASE Entry(w) < strand
      BY <1>1, <1>3, <3>3, <3>5 DEF RacesWith, previousAccessInParallel
    <3>. QED
      BY <1>1, <3>3, <3>4, <3>5
  <2>3. ASSUME NEW e \in Made(w) PROVE hebrew[e.strand] <= hebrew[strand]
    <3>1. Entry(w) # 0 /\ hebrew[e.strand] <= hebrew[Entry(w)]
      BY DEF EntryIsLast
    <3>2. hebrew[e.strand] \in Nat /\ hebrew[Entry(w)] \in Nat /\ hebrew[strand] \in Nat
      BY <1>1, <3>1
    <3>. QED
      BY <2>2, <3>1, <3>2
  <2>. QED
    BY <1>1, <2>1, <2>3
<1>. QED
  BY <1>2, <1>3

\* An access that is in parallel with the running strand makes the entry of
\* its kind race.
LEMMA EntryRaces ==
    ASSUME LocksOK, HistoryOK, NEW w \in BOOLEAN, EntryIsLast(w),
           NEW e \in Made(w), previousAccessInParallel(e.strand)
    PROVE  RacesWith(Entry(w))
<1>1. /\ strand \in Strands
      /\ \A s \in Strands : hebrew[s] \in Nat
      /\ \A s \in Strands : s \in Nat
      /\ Entry(w) # 0 => Entry(w) \in Strands
      /\ \A d \in Made(w) : d.strand \in Strands
  BY EntryTypes
<1>2. Entry(w) # 0 /\ hebrew[e.strand] <= hebrew[Entry(w)]
  BY DEF EntryIsLast
<1>3. hebrew[e.strand] > hebrew[strand]
  BY DEF previousAccessInParallel
<1>4. /\ hebrew[e.strand] \in Nat /\ hebrew[Entry(w)] \in Nat /\ hebrew[strand] \in Nat
      /\ Entry(w) \in Nat /\ strand \in Nat
  BY <1>1, <1>2
<1>5. hebrew[Entry(w)] > hebrew[strand]
  BY <1>2, <1>3, <1>4
<1>6. Entry(w) <= strand
  <2>1. PICK d \in Made(w) : d.strand = Entry(w)
    BY <1>2 DEF HistoryOK, EntryIsAccess
  <2>. QED
    BY <2>1 DEF Made, HistoryOK
<1>7. Entry(w) # strand
  BY <1>4, <1>5
<1>. QED
  BY <1>2, <1>4, <1>5, <1>6, <1>7 DEF RacesWith, previousAccessInParallel

\* A check finds every race without locks: the entry is parallel, and either
\* the access holds no lock or no locker can excuse the race.
LEMMA PlainRaceFound ==
    ASSUME LocksOK, HistoryOK, Complete, NEW write \in BOOLEAN, NEW LS, InOrder(LS),
           Checked(write, LS), NEW e \in past, e.write \/ write,
           Pair(e, ToSet(LS)), Class(e, ToSet(LS)) = "plain"
    PROVE  [strand |-> strand, kind |-> RaceKind(e, write)] \in reports'
<1>1. PICK w \in BOOLEAN : w = e.write /\ e \in Made(w)
  BY DEF HistoryOK, Accesses, Made
<1>2. RacesWith(Entry(w))
  BY <1>1, EntryRaces DEF Complete, Pair
<1>3. LS = <<>> \/ LockersOf(w) = {}
  <2>1. ToSet(LS) = {} \/ \A d \in past : d.write = e.write => d.locks = {}
    BY DEF Class
  <2>2. ToSet(LS) = {} => LS = <<>>
    BY EmptyArray DEF InOrder
  <2>3. CASE \A d \in past : d.write = e.write => d.locks = {}
    BY <1>1, <2>3 DEF Complete, LockersNeedLocks, Made
  <2>. QED
    BY <2>1, <2>2, <2>3
<1>4. RaceKind(e, write) = KindOf(w, write)
  BY <1>1 DEF RaceKind, KindOf
<1>. QED
  BY <1>1, <1>2, <1>3, <1>4, CheckFacts

\* The entries stay complete and no race without locks is missed, as long as a
\* strand accesses the location under one set of locks only.
LEMMA CompleteStep ==
    ASSUME RelocksInStrand = FALSE, LocksOK, HistoryOK, Complete, PlainRacesReported,
           [Next]_vars
    PROVE  Complete' /\ PlainRacesReported'
<1>1. ASSUME NEW write \in BOOLEAN, access(write) \/ atomic_access(write)
      PROVE  Complete' /\ PlainRacesReported'
  <2>1. PICK LS : AccessStep(write, LS)
    BY <1>1, AccessIsStep
  <2>2. /\ InOrder(LS) /\ strand' = strand /\ hebrew' = hebrew
        /\ Witness(write, ToSet(LS))
    BY <2>1 DEF AccessStep
  <2>3. \A d \in past : d.strand = strand => d.locks = ToSet(LS)
    BY <2>2 DEF Witness
  <2>4. PICK a : a = [strand |-> strand, write |-> write, locks |-> ToSet(LS)]
    OBVIOUS
  <2>5. /\ past \subseteq past' /\ real \subseteq real' /\ a \in past'
        /\ \A e \in past' : e \in past \/ e = a
        /\ \A t \in real' \ real : \E e \in past :
              /\ e.write \/ write
              /\ Pair(e, ToSet(LS))
              /\ t = [strand |-> strand, kind |-> RaceKind(e, write),
                      class |-> Class(e, ToSet(LS))]
    BY <2>2, <2>4, WitnessFacts DEF HistoryOK
  <2>6. /\ \A w \in BOOLEAN : \A e \in Made(w) : e \in Made(w)'
        /\ \A w \in BOOLEAN : \A e \in Made(w)' : e \in Made(w) \/ (e = a /\ w = write)
        /\ a \in Made(write)'
    BY <2>4, <2>5 DEF Made
  <2>7. a.strand = strand /\ a.locks = ToSet(LS) /\ a.write = write
    BY <2>4
  <2>8. reports \subseteq reports'
    BY <2>1, CheckFacts DEF AccessStep
  <2>9. \A locks : ~Pair(a, locks)'
    BY <2>2, <2>7 DEF Pair
  <2>10. ASSUME NEW e \in past, NEW locks, Class(e, locks)' = "plain"
         PROVE  Class(e, locks) = "plain"
    BY <2>5, <2>10 DEF Class
  <2>11. ASSUME NEW e, NEW locks PROVE Pair(e, locks)' <=> Pair(e, locks)
    BY <2>2 DEF Pair, previousAccessInParallel
  <2>12. ASSUME NEW w \in BOOLEAN, Kind(w) \in occupied PROVE OccupiedIsChecked(w)'
    <3>1. PICK d \in Made(w) :
             /\ d.strand = strand
             /\ \A e \in past :
                   (e.write \/ w) /\ Pair(e, d.locks) /\ Class(e, d.locks) = "plain" =>
                      [strand |-> strand, kind |-> RaceKind(e, w)] \in reports
      BY <2>12 DEF Complete, OccupiedIsChecked
    <3>2. ASSUME NEW e \in past', e.write \/ w, Pair(e, d.locks)',
                 Class(e, d.locks)' = "plain"
          PROVE  [strand |-> strand, kind |-> RaceKind(e, w)] \in reports'
      <4>1. e \in past
        BY <2>5, <2>9, <3>2
      <4>2. Pair(e, d.locks) /\ Class(e, d.locks) = "plain"
        BY <2>10, <2>11, <3>2, <4>1
      <4>. QED
        BY <2>8, <3>1, <3>2, <4>1, <4>2
    <3>3. d \in Made(w)' /\ d.strand = strand'
      BY <2>2, <2>6, <3>1
    <3>. QED
      BY <2>2, <3>2, <3>3 DEF OccupiedIsChecked
  <2>13. CASE /\ Kind(write) \in occupied
              /\ UNCHANGED <<reads, writes, rlockers, wlockers, occupied, reports>>
    <3>1. PICK d \in Made(write) :
             /\ d.strand = strand
             /\ \A e \in past :
                   (e.write \/ write) /\ Pair(e, d.locks) /\ Class(e, d.locks) = "plain" =>
                      [strand |-> strand, kind |-> RaceKind(e, write)] \in reports
      BY <2>13 DEF Complete, OccupiedIsChecked
    <3>2. d.locks = ToSet(LS)
      BY <2>3, <3>1 DEF Made
    <3>3. PlainRacesReported'
      <4>1. ASSUME NEW t \in real', t.class = "plain"
            PROVE  [strand |-> t.strand, kind |-> t.kind] \in reports'
        <5>1. CASE t \in real
          BY <2>8, <4>1, <5>1 DEF PlainRacesReported
        <5>2. CASE t \notin real
          <6>1. PICK e \in past :
                   /\ e.write \/ write
                   /\ Pair(e, ToSet(LS))
                   /\ t = [strand |-> strand, kind |-> RaceKind(e, write),
                           class |-> Class(e, ToSet(LS))]
            BY <2>5, <5>2
          <6>2. [strand |-> strand, kind |-> RaceKind(e, write)] \in reports
            BY <3>1, <3>2, <4>1, <6>1
          <6>. QED
            BY <2>8, <6>1, <6>2
        <5>. QED
          BY <5>1, <5>2
      <4>. QED
        BY <4>1 DEF PlainRacesReported
    <3>4. ASSUME NEW w \in BOOLEAN
          PROVE  /\ Entry(w)' = Entry(w) /\ LockersOf(w)' = LockersOf(w)
                 /\ EntryIsLast(w) /\ LockersNeedLocks(w)
      BY <2>13 DEF Entry, LockersOf, Complete
    <3>5. ASSUME NEW w \in BOOLEAN PROVE EntryIsLast(w)'
      <4>1. EntryIsLast(w)
        BY <3>4
      <4>2. CASE w = write
        <5>1. Entry(w) # 0 /\ hebrew[strand] <= hebrew[Entry(w)]
          BY <3>1, <4>1, <4>2 DEF EntryIsLast
        <5>. QED
          BY <2>2, <2>6, <2>7, <3>4, <4>1, <5>1 DEF EntryIsLast
      <4>3. CASE w # write
        BY <2>2, <2>6, <3>4, <4>1, <4>3 DEF EntryIsLast
      <4>. QED
        BY <4>2, <4>3
    <3>6. ASSUME NEW w \in BOOLEAN PROVE LockersNeedLocks(w)'
      BY <2>6, <3>4 DEF LockersNeedLocks
    <3>7. ASSUME NEW w \in BOOLEAN PROVE OccupiedIsChecked(w)'
      BY <2>12, <2>13 DEF OccupiedIsChecked
    <3>. QED
      BY <3>3, <3>5, <3>6, <3>7 DEF Complete
  <2>14. CASE /\ Checked(write, LS)
              /\ occupied' \in {occupied, occupied \cup {Kind(write)}}
    <3>1. ASSUME NEW e \in past, e.write \/ write, Pair(e, ToSet(LS)),
                 Class(e, ToSet(LS)) = "plain"
          PROVE  [strand |-> strand, kind |-> RaceKind(e, write)] \in reports'
      BY <2>2, <2>14, <3>1, PlainRaceFound
    <3>2. PlainRacesReported'
      <4>1. ASSUME NEW t \in real', t.class = "plain"
            PROVE  [strand |-> t.strand, kind |-> t.kind] \in reports'
        <5>1. CASE t \in real
          BY <2>8, <4>1, <5>1 DEF PlainRacesReported
        <5>2. CASE t \notin real
          <6>1. PICK e \in past :
                   /\ e.write \/ write
                   /\ Pair(e, ToSet(LS))
                   /\ t = [strand |-> strand, kind |-> RaceKind(e, write),
                           class |-> Class(e, ToSet(LS))]
            BY <2>5, <5>2
          <6>. QED
            BY <3>1, <4>1, <6>1
        <5>. QED
          BY <5>1, <5>2
      <4>. QED
        BY <4>1 DEF PlainRacesReported
    <3>3. EntryIsLast(write)'
      <4>1. /\ Updated(Entry(write)) # 0
            /\ hebrew[strand] <= hebrew[Updated(Entry(write))]
            /\ \A e \in Made(write) : hebrew[e.strand] <= hebrew[Updated(Entry(write))]
        BY EntryStaysLast DEF Complete
      <4>2. Entry(write)' = Updated(Entry(write))
        BY <2>14, CheckFacts
      <4>. QED
        BY <2>2, <2>6, <2>7, <4>1, <4>2 DEF EntryIsLast
    <3>4. EntryIsLast(~write)' /\ LockersNeedLocks(~write)'
      <4>1. Entry(~write)' = Entry(~write) /\ LockersOf(~write)' = LockersOf(~write)
        BY <2>14, CheckFacts
      <4>2. EntryIsLast(~write) /\ LockersNeedLocks(~write)
        BY DEF Complete
      <4>3. EntryIsLast(~write)'
        BY <2>2, <2>6, <4>1, <4>2 DEF EntryIsLast
      <4>4. LockersNeedLocks(~write)'
        BY <2>6, <4>1, <4>2 DEF LockersNeedLocks
      <4>. QED
        BY <4>3, <4>4
    <3>5. LockersNeedLocks(write)'
      <4>1. CASE LS = <<>>
        <5>1. LockersOf(write)' = LockersOf(write) /\ LockersNeedLocks(write)
          BY <2>14, <4>1, CheckFacts DEF Complete
        <5>. QED
          BY <2>6, <5>1 DEF LockersNeedLocks
      <4>2. CASE LS # <<>>
        <5>1. a.locks # {}
          BY <2>2, <2>7, <4>2, EmptyArray DEF InOrder
        <5>. QED
          BY <2>6, <5>1 DEF LockersNeedLocks
      <4>. QED
        BY <4>1, <4>2
    <3>6. OccupiedIsChecked(write)'
      <4>1. ASSUME NEW e \in past', e.write \/ write, Pair(e, a.locks)',
                   Class(e, a.locks)' = "plain"
            PROVE  [strand |-> strand, kind |-> RaceKind(e, write)] \in reports'
        <5>1. e \in past
          BY <2>5, <2>9, <4>1
        <5>2. Pair(e, ToSet(LS)) /\ Class(e, ToSet(LS)) = "plain"
          BY <2>7, <2>10, <2>11, <4>1, <5>1
        <5>. QED
          BY <3>1, <4>1, <5>1, <5>2
      <4>. QED
        BY <2>2, <2>6, <2>7, <4>1 DEF OccupiedIsChecked
    <3>7. OccupiedIsChecked(~write)'
      <4>1. Kind(~write) # Kind(write)
        BY DEF Kind
      <4>2. Kind(~write) \in occupied' => Kind(~write) \in occupied
        BY <2>14, <4>1
      <4>3. CASE Kind(~write) \in occupied
        BY <2>12, <4>3
      <4>4. CASE Kind(~write) \notin occupied'
        BY <4>4 DEF OccupiedIsChecked
      <4>. QED
        BY <4>2, <4>3, <4>4
    <3>8. \A w \in BOOLEAN : w = write \/ w = ~write
      OBVIOUS
    <3>. QED
      BY <3>2, <3>3, <3>4, <3>5, <3>6, <3>7, <3>8 DEF Complete
  <2>. QED
    BY <2>1, <2>13, <2>14 DEF AccessStep
<1>2. ASSUME UNCHANGED <<strand, hebrew, past, reads, writes, rlockers, wlockers,
                         occupied, reports, real>>
      PROVE  Complete' /\ PlainRacesReported'
  <2>1. ASSUME NEW w \in BOOLEAN
        PROVE  EntryIsLast(w)' /\ LockersNeedLocks(w)' /\ OccupiedIsChecked(w)'
    <3>1. EntryIsLast(w) /\ LockersNeedLocks(w) /\ OccupiedIsChecked(w)
      BY DEF Complete
    <3>2. EntryIsLast(w)' /\ LockersNeedLocks(w)'
      BY <1>2, <3>1 DEF EntryIsLast, LockersNeedLocks, Entry, LockersOf, Made
    <3>3. OccupiedIsChecked(w)'
      BY <1>2, <3>1 DEF OccupiedIsChecked, Made, Pair, previousAccessInParallel, Class
    <3>. QED
      BY <3>2, <3>3
  <2>2. PlainRacesReported'
    BY <1>2 DEF PlainRacesReported
  <2>. QED
    BY <2>1, <2>2 DEF Complete
<1>3. CASE next_strand
  <2>1. /\ occupied' = {}
        /\ UNCHANGED <<hebrew, past, reads, writes, rlockers, wlockers, reports, real>>
    BY <1>3 DEF next_strand, history
  <2>2. ASSUME NEW w \in BOOLEAN
        PROVE  EntryIsLast(w)' /\ LockersNeedLocks(w)' /\ OccupiedIsChecked(w)'
    <3>1. EntryIsLast(w) /\ LockersNeedLocks(w)
      BY DEF Complete
    <3>2. EntryIsLast(w)' /\ LockersNeedLocks(w)'
      BY <2>1, <3>1 DEF EntryIsLast, LockersNeedLocks, Entry, LockersOf, Made
    <3>. QED
      BY <2>1, <3>2 DEF OccupiedIsChecked
  <2>3. PlainRacesReported'
    BY <2>1 DEF PlainRacesReported
  <2>. QED
    BY <2>2, <2>3 DEF Complete
<1>4. CASE \/ \E m \in Mutexes : init_mutex(m) \/ destroy_mutex(m)
                                 \/ lock_mutex(m) \/ unlock_mutex(m)
           \/ begin_atomic \/ end_atomic
  BY <1>2, <1>4 DEF init_mutex, destroy_mutex, lock_mutex, unlock_mutex, begin_atomic,
                    end_atomic, shadow, history
<1>5. CASE UNCHANGED vars
  BY <1>2, <1>5 DEF vars, shadow, history
<1>. QED
  BY <1>1, <1>3, <1>4, <1>5 DEF Next

-----------------------------------------------------------------------------
(***************************************************************************)
(* The theorems.                                                           *)
(***************************************************************************)

\* Lock ids, locksets and entries are right in every reachable state.
LEMMA LocksInvariant == Spec => [](LocksOK /\ HistoryOK /\ ReportsAreDataRaces)
<1>1. Init => LocksOK /\ HistoryOK /\ ReportsAreDataRaces
  BY LocksInit, HistoryInit
<1>2. LocksOK /\ HistoryOK /\ ReportsAreDataRaces /\ [Next]_vars
         => LocksOK' /\ HistoryOK' /\ ReportsAreDataRaces'
  BY LocksStep, HistoryStep, ReportsStep
<1>. QED
  BY <1>1, <1>2, PTL DEF Spec

\* The lockset that do_acquire_lock and do_release_lock keep is exactly the
\* locks the program holds, sorted and without duplicates, for any number of
\* mutexes, any nesting of critical sections and around atomic accesses.
THEOREM LocksetExact == Spec => []LocksetIsHeld
<1>1. LocksOK => LocksetIsHeld
  BY DEF LocksOK, LocksetIsHeld, InOrder, Sorted
<1>. QED
  BY <1>1, LocksInvariant, PTL

\* do_locked_read, do_locked_write and their unlocked forms report only
\* parallel conflicting accesses that share no lock.
THEOREM NoFalseLockReports == Spec => []ReportsAreDataRaces
BY LocksInvariant, PTL

\* LockSet_t::intersect errs to one side only, for every lockset that is kept.
THEOREM IntersectErrsOneWay == Spec => []IntersectOneSided
<1>1. LocksOK => IntersectOneSided
  <2>. SUFFICES ASSUME LocksOK, NEW k \in rlockers \cup wlockers
                PROVE  LET l == ToSet(k.lockset)
                           r == ToSet(lockset)
                           res == intersect(k.lockset, lockset) IN
                       /\ NONEMPTY \in res <=> l \cap r # {}
                       /\ l # {} /\ l \subseteq r /\ res # {NONEMPTY} => L_SUBSET_OF_R \in res
                       /\ r # {} /\ r \subseteq l /\ res # {NONEMPTY} => L_SUPERSET_OF_R \in res
    BY DEF IntersectOneSided
  <2>1. InOrder(k.lockset) /\ InOrder(lockset)
    BY DEF LocksOK
  <2>. QED
    BY <2>1, IntersectOfSets
<1>. QED
  BY <1>1, LocksInvariant, PTL

\* A race without locks is reported whatever locked accesses the dictionaries
\* have seen in between, as long as a strand accesses the location under one
\* set of locks only.
THEOREM PlainRacesFound ==
    ASSUME RelocksInStrand = FALSE
    PROVE  Spec => []PlainRacesReported
<1>1. Init => Complete /\ PlainRacesReported
  BY CompleteInit
<1>2. LocksOK /\ HistoryOK /\ Complete /\ PlainRacesReported /\ [Next]_vars
         => Complete' /\ PlainRacesReported'
  BY CompleteStep
<1>. QED
  BY <1>1, <1>2, LocksInvariant, PTL DEF Spec
=============================================================================
