--------------------------- MODULE NumastatProofs ---------------------------
(* The list of processes of numastat, for any processes, arguments and         *)
(* patterns.  What a loop computes is shown by its least counterexample.       *)
EXTENDS Numastat, FiniteSetTheorems, WellFoundedInduction, TLAPS

Lists == [pids : Seq(Nat), max : Nat, there : BOOLEAN, bad : BOOLEAN]

----------------------------------------------------------------------------
(* Numbers and sequences *)

LEMMA Least ==
  ASSUME NEW S \in SUBSET Nat, S # {}
  PROVE  \E x \in S : \A y \in S : x <= y
<1> DEFINE Less == OpToRel(<, Nat)
<1>1. IsWellFoundedOn(Less, Nat)
  BY NatLessThanWellFounded
<1>2. \A x, y \in Nat : <<y, x>> \in Less <=> y < x
  BY DEF OpToRel
<1> HIDE DEF Less
<1>3. \E x \in S : \A y \in S : ~(<<y, x>> \in Less)
  BY <1>1, WFMin, Zenon
<1>4. PICK x \in S : \A y \in S : ~(y < x)
  BY <1>2, <1>3
<1>5. \A y \in S : x <= y
  BY <1>4
<1> QED BY <1>5

LEMMA RangeAppend ==
  ASSUME NEW S, NEW s \in Seq(S), NEW e
  PROVE  Range(Append(s, e)) = Range(s) \cup {e}
<1>1. Len(s) \in Nat /\ DOMAIN s = 1 .. Len(s)
  OBVIOUS
<1>2. /\ DOMAIN Append(s, e) = 1 .. Len(s) + 1
      /\ \A k \in 1 .. Len(s) : Append(s, e)[k] = s[k]
      /\ Append(s, e)[Len(s) + 1] = e
  <2>1. s \in Seq(S \cup {e}) /\ e \in S \cup {e}
    OBVIOUS
  <2> QED BY <2>1
<1>3. \A k \in 1 .. Len(s) + 1 : k \in 1 .. Len(s) \/ k = Len(s) + 1
  BY <1>1
<1> QED BY <1>1, <1>2, <1>3 DEF Range

\* Finitely many numbers can be put in order.
LEMMA Sortable ==
  ASSUME NEW S \in SUBSET Nat, IsFiniteSet(S)
  PROVE  \E t \in [1 .. Cardinality(S) -> S] :
            /\ \A j, k \in 1 .. Cardinality(S) : j < k => t[j] < t[k]
            /\ Range(t) = S
<1> DEFINE Sorted(T, n) == \E t \in [1 .. n -> T] :
                              /\ \A j, k \in 1 .. n : j < k => t[j] < t[k]
                              /\ {t[k] : k \in 1 .. n} = T
           Bad == {n \in Nat : \E T \in SUBSET Nat :
                        IsFiniteSet(T) /\ Cardinality(T) = n /\ ~Sorted(T, n)}
<1>1. Bad = {}
  <2> SUFFICES ASSUME Bad # {} PROVE FALSE
    OBVIOUS
  <2>1. PICK n \in Bad : \A m \in Bad : n <= m
    <3>1. Bad \in SUBSET Nat
      OBVIOUS
    <3> HIDE DEF Bad
    <3> QED BY <3>1, Least
  <2>2. PICK T \in SUBSET Nat : IsFiniteSet(T) /\ Cardinality(T) = n /\ ~Sorted(T, n)
    BY <2>1
  <2>3. n \in Nat
    BY <2>1
  <2>4. CASE n = 0
    <3>1. T = {}
      BY <2>2, <2>4, FS_EmptySet
    <3> DEFINE t == [k \in 1 .. 0 |-> 0]
    <3>2. t \in [1 .. 0 -> T] /\ {t[k] : k \in 1 .. 0} = T
      BY <3>1
    <3>3. \A j, k \in 1 .. 0 : j < k => t[j] < t[k]
      OBVIOUS
    <3> HIDE DEF t
    <3> QED BY <2>2, <2>4, <3>2, <3>3
  <2>5. CASE n # 0
    <3>1. T # {}
      BY <2>2, <2>5, FS_EmptySet
    <3>2. PICK x \in T : \A y \in T : x <= y
      BY <3>1, Least
    <3> DEFINE U == T \ {x}
    <3>3. IsFiniteSet(U) /\ Cardinality(U) = n - 1
      BY <2>2, <3>2, FS_RemoveElement
    <3>4. n - 1 \in Nat /\ n - 1 \notin Bad
      BY <2>1, <2>3, <2>5
    <3>5. Sorted(U, n - 1)
      BY <3>3, <3>4
    <3>6. PICK u \in [1 .. n - 1 -> U] : /\ \A j, k \in 1 .. n - 1 : j < k => u[j] < u[k]
                                        /\ {u[k] : k \in 1 .. n - 1} = U
      BY <3>5
    <3> DEFINE t == [k \in 1 .. n |-> IF k = 1 THEN x ELSE u[k - 1]]
    <3>7. \A k \in 1 .. n : k = 1 \/ k - 1 \in 1 .. n - 1
      BY <2>3
    <3>8. t \in [1 .. n -> T]
      BY <3>2, <3>6, <3>7
    <3>9. ASSUME NEW j \in 1 .. n, NEW k \in 1 .. n, j < k PROVE t[j] < t[k]
      <4>1. k # 1 /\ k - 1 \in 1 .. n - 1 /\ t[k] = u[k - 1] /\ u[k - 1] \in U
        BY <2>3, <3>6, <3>9
      <4>2. CASE j = 1
        <5>1. t[j] = x /\ x \in Nat /\ u[k - 1] \in Nat /\ x <= u[k - 1] /\ u[k - 1] # x
          BY <3>2, <4>1, <4>2
        <5> QED BY <4>1, <5>1
      <4>3. CASE j # 1
        <5>1. j - 1 \in 1 .. n - 1 /\ t[j] = u[j - 1] /\ j - 1 < k - 1
          BY <2>3, <3>9, <4>3
        <5> QED BY <3>6, <4>1, <5>1
      <4> QED BY <4>2, <4>3
    <3>10. {t[k] : k \in 1 .. n} = T
      <4>1. \A y \in T : \E k \in 1 .. n : y = t[k]
        <5> SUFFICES ASSUME NEW y \in T PROVE \E k \in 1 .. n : y = t[k]
          OBVIOUS
        <5>1. CASE y = x
          BY <2>3, <2>5, <5>1
        <5>2. CASE y # x
          <6>1. PICK k \in 1 .. n - 1 : y = u[k]
            BY <3>6, <5>2
          <6>2. k + 1 \in 1 .. n /\ k + 1 # 1 /\ (k + 1) - 1 = k
            BY <2>3
          <6>3. t[k + 1] = y
            BY <6>1, <6>2
          <6> QED BY <6>2, <6>3
        <5> QED BY <5>1, <5>2
      <4>2. \A k \in 1 .. n : t[k] \in T
        BY <3>8
      <4> HIDE DEF t
      <4> QED BY <4>1, <4>2
    <3> HIDE DEF t
    <3> QED BY <2>2, <3>8, <3>9, <3>10
  <2> QED BY <2>4, <2>5
<1>2. Cardinality(S) \in Nat
  BY FS_CardinalityType
<1>3. Sorted(S, Cardinality(S))
  BY <1>1, <1>2
<1> QED BY <1>3 DEF Range

LEMMA Ascends ==
  ASSUME NEW S \in SUBSET Nat, IsFiniteSet(S), NEW s, s = Ascending(S)
  PROVE  /\ s \in Seq(Nat) /\ Range(s) = S /\ Len(s) = Cardinality(S) /\ Len(s) \in Nat
         /\ \A j, k \in 1 .. Len(s) : j < k => s[j] < s[k]
<1> DEFINE n == Cardinality(S)
<1>1. n \in Nat
  BY FS_CardinalityType
<1>2. \E t \in [1 .. n -> S] : Range(t) = S /\ \A j, k \in DOMAIN t : j < k => t[j] < t[k]
  <2>1. PICK t \in [1 .. n -> S] : /\ \A j, k \in 1 .. n : j < k => t[j] < t[k]
                                  /\ Range(t) = S
    BY Sortable
  <2>2. DOMAIN t = 1 .. n
    OBVIOUS
  <2> HIDE DEF n
  <2> QED BY <2>1, <2>2
<1>3. /\ s \in [1 .. n -> S] /\ Range(s) = S
      /\ \A j, k \in DOMAIN s : j < k => s[j] < s[k]
  <2>1. s = CHOOSE t \in [1 .. n -> S] :
                Range(t) = S /\ \A j, k \in DOMAIN t : j < k => t[j] < t[k]
    BY DEF Ascending
  <2> HIDE DEF n
  <2> QED BY <1>2, <2>1
<1> HIDE DEF n
<1>4. s \in [1 .. n -> Nat]
  BY <1>3
<1>5. s \in Seq(Nat) /\ Len(s) = n
  BY <1>1, <1>4
<1> QED BY <1>1, <1>3, <1>5 DEF n

LEMMA RangeFinite ==
  ASSUME NEW S, NEW s \in Seq(S)
  PROVE  Range(s) \in SUBSET S /\ IsFiniteSet(Range(s))
<1>1. Len(s) \in Nat /\ DOMAIN s = 1 .. Len(s) /\ \A k \in 1 .. Len(s) : s[k] \in S
  OBVIOUS
<1>2. IsFiniteSet(1 .. Len(s))
  BY <1>1, FS_Interval
<1>3. s \in Surjection(1 .. Len(s), Range(s))
  <2>1. s \in [1 .. Len(s) -> Range(s)]
    BY <1>1 DEF Range
  <2> QED BY <1>1, <2>1 DEF Range, Surjection
<1> QED BY <1>1, <1>2, <1>3, FS_Surjection DEF Range

\* sort_pids_and_remove_duplicates keeps every process, once and in order.
LEMMA SortedPids ==
  ASSUME NEW pids \in Seq(Nat), NEW s, s = sort_pids_and_remove_duplicates(pids)
  PROVE  /\ s \in Seq(Nat) /\ Range(s) = Range(pids)
         /\ \A j, k \in 1 .. Len(s) : j < k => s[j] < s[k]
<1>1. s = Ascending(Range(pids))
  BY DEF sort_pids_and_remove_duplicates
<1>2. Range(pids) \in SUBSET Nat /\ IsFiniteSet(Range(pids))
  BY RangeFinite
<1> QED BY <1>1, <1>2, Ascends

----------------------------------------------------------------------------
(* Adding processes *)

\* A process is added unless there is no memory for it; then the list stays as it is.
AddsOne(l, p, memory, m) ==
    /\ m \in Lists
    /\ m.pids = l.pids \/ m.pids = Append(l.pids, p)
    /\ Sane(l) /\ (memory \/ m.pids # l.pids) => Sane(m) /\ m.pids = Append(l.pids, p)

LEMMA AddOne ==
  \A l \in Lists, p \in Nat, memory \in BOOLEAN :
      AddsOne(l, p, memory, add_pid_to_list(l, p, memory))
<1> SUFFICES ASSUME NEW l \in Lists, NEW p \in Nat, NEW memory \in BOOLEAN,
                    NEW m, m = add_pid_to_list(l, p, memory)
             PROVE  AddsOne(l, p, memory, m)
  OBVIOUS
<1> USE DEF AddsOne
<1> DEFINE size == IF l.max = 0 THEN FirstPids ELSE l.max
<1>1. /\ l.pids \in Seq(Nat) /\ l.max \in Nat /\ l.there \in BOOLEAN /\ l.bad \in BOOLEAN
      /\ Append(l.pids, p) \in Seq(Nat) /\ Len(l.pids) \in Nat
      /\ size \in Nat /\ size # 0 /\ 2 * size \in Nat /\ 2 * size # 0
  BY NumastatAssumption DEF Lists
<1>2. CASE l.bad
  <2>1. m = l
    BY <1>2 DEF add_pid_to_list
  <2> QED BY <1>2, <2>1 DEF Sane
<1>3. CASE ~l.bad /\ Len(l.pids) < l.max
  <2>1. m = IF l.there THEN [l EXCEPT !.pids = Append(@, p)] ELSE [l EXCEPT !.bad = TRUE]
    BY <1>1, <1>3 DEF add_pid_to_list
  <2>2. CASE l.there
    BY <1>1, <1>3, <2>1, <2>2 DEF Sane, Lists
  <2>3. CASE ~l.there
    <3>1. m = [l EXCEPT !.bad = TRUE] /\ l.max # 0
      BY <1>1, <1>3, <2>1, <2>3
    <3> QED BY <1>1, <2>3, <3>1 DEF Sane, Lists
  <2> QED BY <2>2, <2>3
<1>4. CASE ~l.bad /\ Len(l.pids) >= l.max
  <2>1. m = IF memory THEN [l EXCEPT !.pids = Append(@, p), !.max = 2 * size, !.there = TRUE]
                      ELSE [l EXCEPT !.max = size]
    BY <1>1, <1>4 DEF add_pid_to_list
  <2> HIDE DEF size
  <2> QED BY <1>1, <1>4, <2>1 DEF Sane, Lists
<1> QED BY <1>1, <1>2, <1>3, <1>4

\* Adding a sequence one by one: nobody else gets on the list, and without a failure
\* everybody of the sequence does.
LEMMA AddedAll ==
  ASSUME NEW l \in Lists, NEW pids \in Seq(Nat), NEW memory \in BOOLEAN,
         NEW r, r = AddAll(l, pids, memory)
  PROVE  /\ r \in Lists /\ Range(r.pids) \subseteq Range(l.pids) \cup Range(pids)
         /\ Sane(l) /\ (memory \/ Len(r.pids) >= Len(l.pids) + Len(pids)) =>
               Sane(r) /\ Range(r.pids) = Range(l.pids) \cup Range(pids)
<1> DEFINE N == Len(pids)
           Add(m, k) == add_pid_to_list(m, pids[k], memory)
           Loop(g, n) == g = [k \in 0 .. n |-> IF k = 0 THEN l ELSE Add(g[k - 1], k)]
           Upto(k) == {pids[j] : j \in 1 .. k}
           Good(m, k) ==
             /\ m \in Lists /\ Range(m.pids) \subseteq Range(l.pids) \cup Upto(k)
             /\ Len(m.pids) <= Len(l.pids) + k
             /\ Sane(l) /\ (memory \/ Len(m.pids) = Len(l.pids) + k) =>
                   /\ Sane(m) /\ Len(m.pids) = Len(l.pids) + k
                   /\ Range(m.pids) = Range(l.pids) \cup Upto(k)
<1>1. N \in Nat /\ \A k \in 1 .. N : pids[k] \in Nat
  OBVIOUS
<1>2. \E g : Loop(g, N)
  <2> DEFINE Bad == {n \in Nat : ~\E g : Loop(g, n)}
  <2> SUFFICES ASSUME Bad # {} PROVE FALSE
    BY <1>1
  <2>1. PICK n \in Bad : \A m \in Bad : n <= m
    <3>1. Bad \in SUBSET Nat
      OBVIOUS
    <3> HIDE DEF Bad
    <3> QED BY <3>1, Least
  <2> HIDE DEF Add
  <2>2. n \in Nat /\ ~\E g : Loop(g, n)
    BY <2>1
  <2>3. n # 0
    <3> SUFFICES ASSUME n = 0 PROVE FALSE
      OBVIOUS
    <3> DEFINE g == [k \in 0 .. 0 |-> l]
    <3>1. Loop(g, 0)
      OBVIOUS
    <3> QED BY <2>2, <3>1
  <2>4. n - 1 \in Nat /\ n - 1 \notin Bad
    <3> HIDE DEF Bad
    <3> QED BY <2>1, <2>2, <2>3
  <2>5. PICK g : Loop(g, n - 1)
    BY <2>4
  <2> DEFINE h == [k \in 0 .. n |-> IF k = n THEN Add(g[n - 1], n) ELSE g[k]]
  <2>6. ASSUME NEW k \in 0 .. n PROVE h[k] = IF k = 0 THEN l ELSE Add(h[k - 1], k)
    <3>1. k # 0 => k - 1 \in 0 .. n /\ k - 1 # n /\ h[k - 1] = g[k - 1]
      BY <2>2
    <3>2. CASE k = n
      BY <2>3, <3>1, <3>2
    <3>3. CASE k # n
      <4>1. k \in 0 .. n - 1
        BY <2>2, <3>3
      <4>2. g[k] = IF k = 0 THEN l ELSE Add(g[k - 1], k)
        BY <2>5, <4>1
      <4> QED BY <3>1, <3>3, <4>2
    <3> QED BY <3>2, <3>3
  <2>7. h = [k \in 0 .. n |-> h[k]]
    OBVIOUS
  <2>8. Loop(h, n)
    <3> HIDE DEF h
    <3> QED BY <2>6, <2>7
  <2> QED BY <2>2, <2>8
<1>3. PICK g : Loop(g, N) /\ r = g[N]
  <2>1. r = (CHOOSE g : Loop(g, N))[N]
    BY DEF AddAll
  <2> HIDE DEF Loop
  <2> QED BY <1>2, <2>1
<1>4. g[0] = l /\ \A k \in 1 .. N : g[k] = Add(g[k - 1], k)
  <2> HIDE DEF Add
  <2>1. \A k \in 0 .. N : g[k] = IF k = 0 THEN l ELSE Add(g[k - 1], k)
    BY <1>3
  <2> QED BY <1>1, <2>1
<1>5. Good(g[0], 0)
  <2>1. Upto(0) = {} /\ Len(l.pids) \in Nat
    BY DEF Lists
  <2> HIDE DEF Upto
  <2> QED BY <1>4, <2>1
<1>6. ASSUME NEW k \in 1 .. N, Good(g[k - 1], k - 1) PROVE Good(g[k], k)
  <2> DEFINE a == g[k - 1]
             b == g[k]
  <2>1. a \in Lists /\ pids[k] \in Nat /\ b = add_pid_to_list(a, pids[k], memory)
    BY <1>1, <1>4, <1>6
  <2>2. /\ b \in Lists
        /\ b.pids = a.pids \/ b.pids = Append(a.pids, pids[k])
        /\ Sane(a) /\ (memory \/ b.pids # a.pids) => Sane(b) /\ b.pids = Append(a.pids, pids[k])
    <3> HIDE DEF a, b
    <3>1. AddsOne(a, pids[k], memory, b)
      BY <2>1, AddOne, Zenon
    <3> QED BY <3>1 DEF AddsOne
  <2>3. Upto(k) = Upto(k - 1) \cup {pids[k]}
    BY <1>1
  <2>4. /\ Len(a.pids) \in Nat /\ Len(l.pids) \in Nat
        /\ Len(Append(a.pids, pids[k])) = Len(a.pids) + 1
        /\ Range(Append(a.pids, pids[k])) = Range(a.pids) \cup {pids[k]}
    BY <2>1, RangeAppend DEF Lists
  <2>5. Range(b.pids) \subseteq Range(l.pids) \cup Upto(k)
    <3> HIDE DEF Upto, a, b
    <3>1. Range(a.pids) \subseteq Range(l.pids) \cup Upto(k - 1)
      BY <1>6 DEF a
    <3> QED BY <2>2, <2>3, <2>4, <3>1
  <2>6. Len(a.pids) <= Len(l.pids) + (k - 1)
    BY <1>6
  <2>7. k \in Nat /\ Len(b.pids) <= Len(l.pids) + k
    <3> HIDE DEF Upto, a, b
    <3> QED BY <1>1, <2>2, <2>4, <2>6
  <2>8. ASSUME Sane(l), memory \/ Len(b.pids) = Len(l.pids) + k
        PROVE  /\ Sane(b) /\ Len(b.pids) = Len(l.pids) + k
               /\ Range(b.pids) = Range(l.pids) \cup Upto(k)
    <3>1. memory \/ (b.pids # a.pids /\ Len(a.pids) = Len(l.pids) + (k - 1))
      <4> HIDE DEF Upto, a, b
      <4> QED BY <2>2, <2>4, <2>6, <2>7, <2>8
    <3>2. /\ Sane(a) /\ Len(a.pids) = Len(l.pids) + (k - 1)
          /\ Range(a.pids) = Range(l.pids) \cup Upto(k - 1)
      BY <1>6, <2>8, <3>1
    <3> HIDE DEF Upto, a, b
    <3>3. Sane(b) /\ b.pids = Append(a.pids, pids[k])
      BY <2>2, <3>1, <3>2
    <3> QED BY <2>3, <2>4, <2>7, <3>2, <3>3
  <2> QED BY <2>2, <2>5, <2>7, <2>8
<1> HIDE DEF Good
<1>7. Good(g[N], N)
  <2> DEFINE Bad == {k \in 0 .. N : ~Good(g[k], k)}
  <2> SUFFICES ASSUME Bad # {} PROVE FALSE
    BY <1>1
  <2>1. PICK k \in Bad : \A m \in Bad : k <= m
    <3>1. Bad \in SUBSET Nat
      BY <1>1
    <3> HIDE DEF Bad
    <3> QED BY <3>1, Least
  <2>2. k \in 0 .. N /\ ~Good(g[k], k)
    BY <2>1
  <2>3. k \in 1 .. N /\ k - 1 \in 0 .. N
    BY <1>1, <1>5, <2>2
  <2>4. k - 1 \notin Bad
    BY <1>1, <2>1, <2>3
  <2> QED BY <1>6, <2>2, <2>3, <2>4
<1>8. Upto(N) = Range(pids) /\ DOMAIN pids = 1 .. N
  BY DEF Range
<1>9. Len(r.pids) \in Nat /\ Len(l.pids) \in Nat
  BY <1>3, <1>7 DEF Good, Lists
<1> HIDE DEF Upto
<1>10. /\ r \in Lists /\ Range(r.pids) \subseteq Range(l.pids) \cup Range(pids)
       /\ Len(r.pids) <= Len(l.pids) + N
  BY <1>3, <1>7, <1>8 DEF Good
<1>11. ASSUME Sane(l), memory \/ Len(r.pids) >= Len(l.pids) + N
       PROVE  Sane(r) /\ Range(r.pids) = Range(l.pids) \cup Range(pids)
  <2>1. memory \/ Len(r.pids) = Len(l.pids) + N
    <3>1. CASE Len(r.pids) >= Len(l.pids) + N
      BY <1>1, <1>9, <1>10, <3>1
    <3> QED BY <1>11, <3>1
  <2> QED BY <1>3, <1>7, <1>8, <1>11, <2>1, Zenon DEF Good
<1> QED BY <1>10, <1>11

----------------------------------------------------------------------------
(* The invariant *)

InOrder == {"pids", "system", "numastat", "done"}

LEMMA MapsOf ==
  ASSUME NEW w \in Worlds
  PROVE  /\ DOMAIN w.maps \subseteq Nat /\ Range(Matching) \subseteq DOMAIN w.maps
         /\ \A p \in DOMAIN w.maps : w.maps[p].state \in {"open", "denied", "gone"}
BY NumastatAssumption DEF World

\* Arguments.
LEMMA AddListed ==
  ASSUME PidInv, NEW pids \in Seq(Nat), Range(pids) \subseteq DOMAIN world.maps,
         NEW memory \in BOOLEAN, AddPids(pids, memory)
  PROVE  PidInv'
<1> DEFINE r == AddAll(list, pids, memory)
<1>1. /\ list' = r /\ phase' \in {"args", "crashed"} /\ asked' = asked \cup Range(pids)
      /\ UNCHANGED <<world, ix, shown>> /\ phase = "args"
  BY DEF AddPids, Arg
<1>2. starved' <=> starved \/ (~memory /\ Len(r.pids) < Len(list.pids) + Len(pids))
  BY <1>1 DEF AddPids, num_pids
<1>3. list \in Lists
  BY DEF PidInv, Listed, Lists
<1>4. /\ r \in Lists /\ Range(r.pids) \subseteq Range(list.pids) \cup Range(pids)
      /\ Sane(list) /\ (memory \/ Len(r.pids) >= Len(list.pids) + Len(pids)) =>
            Sane(r) /\ Range(r.pids) = Range(list.pids) \cup Range(pids)
  BY <1>3, AddedAll
<1>5. Len(r.pids) \in Nat /\ Len(list.pids) \in Nat /\ Len(pids) \in Nat
  BY <1>3, <1>4 DEF Lists
<1> HIDE DEF r
<1>6. ASSUME ~starved' PROVE Sane(r) /\ Range(r.pids) = asked'
  <2>1. ~starved /\ Sane(list) /\ Range(list.pids) = asked
    BY <1>2, <1>6 DEF PidInv, Listed
  <2>2. memory \/ Len(r.pids) >= Len(list.pids) + Len(pids)
    <3>1. memory \/ ~(Len(r.pids) < Len(list.pids) + Len(pids))
      BY <1>2, <1>6
    <3>2. ~(Len(r.pids) < Len(list.pids) + Len(pids)) => Len(r.pids) >= Len(list.pids) + Len(pids)
      BY <1>5
    <3> QED BY <3>1, <3>2
  <2> QED BY <1>1, <1>4, <2>1, <2>2, Zenon
<1>7. Listed'
  <2>1. Range(r.pids) \subseteq asked' /\ asked' \subseteq DOMAIN world'.maps
    BY <1>1, <1>4 DEF PidInv, Listed
  <2>2. phase' \notin InOrder
    BY <1>1 DEF InOrder
  <2> QED BY <1>1, <1>4, <1>6, <2>1, <2>2 DEF Listed, Lists, InOrder
<1>8. ShownSoFar'
  BY <1>1 DEF PidInv, ShownSoFar, Tables
<1> QED BY <1>7, <1>8 DEF PidInv

LEMMA OptionListed ==
  ASSUME PidInv, Option
  PROVE  PidInv'
<1>1. UNCHANGED <<world, phase, list, asked, starved, ix, shown>> /\ phase = "args"
  BY DEF Option, SetFlags, Arg
<1> QED BY <1>1 DEF PidInv, Listed, ShownSoFar, num_pids, Tables

\* Sorting changes the numbers of the list and nothing else of it.
LEMMA SortedList ==
  ASSUME NEW l \in Lists, NEW t \in Seq(Nat), NEW r, r = [l EXCEPT !.pids = t]
  PROVE  /\ r \in Lists /\ r.pids = t
         /\ r.bad = l.bad /\ r.there = l.there /\ r.max = l.max
BY DEF Lists

LEMMA BeginListed ==
  ASSUME PidInv, Begin
  PROVE  PidInv'
<1> DEFINE s == sort_pids_and_remove_duplicates(list.pids)
<1>1. /\ list' = [list EXCEPT !.pids = s] /\ UNCHANGED <<world, asked, starved, ix, shown>>
      /\ phase' \in {"failed", "system", "pids"} /\ phase = "args"
      /\ phase' = "system" => s = <<>>
  BY DEF Begin
<1>2. list \in Lists /\ list.pids \in Seq(Nat)
  BY DEF PidInv, Listed, Lists
<1>3. /\ s \in Seq(Nat) /\ Range(s) = Range(list.pids)
      /\ \A j, k \in 1 .. Len(s) : j < k => s[j] < s[k]
  BY <1>2, SortedPids
<1> HIDE DEF s
<1>4. list' \in Lists /\ list'.pids = s /\ (Sane(list') <=> Sane(list)) /\ Len(s) \in Nat
  <2>1. /\ list' \in Lists /\ list'.pids = s
        /\ list'.bad = list.bad /\ list'.there = list.there /\ list'.max = list.max
    BY <1>1, <1>2, <1>3, SortedList
  <2>2. Len(s) \in Nat
    BY <1>3
  <2> QED BY <2>1, <2>2 DEF Sane
<1>5. Listed'
  BY <1>1, <1>3, <1>4 DEF PidInv, Listed, Lists, num_pids
<1>6. ix' = 1 /\ 1 <= num_pids' + 1 /\ (phase' = "system" => num_pids' = 0)
      /\ (num_pids' > 0 => ix' # num_pids' + 1)
  BY <1>1, <1>4 DEF PidInv, ShownSoFar, num_pids
<1>7. ShownSoFar'
  BY <1>1, <1>4, <1>6 DEF PidInv, ShownSoFar, num_pids, Tables
<1> QED BY <1>5, <1>7 DEF PidInv

\* Later steps leave the list alone.
LEMMA ListKept ==
  ASSUME Listed, UNCHANGED <<list, asked, starved>>, DOMAIN world'.maps = DOMAIN world.maps,
         phase' \in InOrder => phase \in InOrder
  PROVE  Listed'
BY DEF Listed, num_pids, InOrder

LEMMA AppendTables ==
  ASSUME shown \in Seq(Tables), NEW e, shown' = Append(shown, e)
  PROVE  shown' \in Seq(Tables') /\ Tables' = Tables \cup {e}
<1>1. Tables' = Tables \cup {e}
  BY RangeAppend DEF Tables
<1>2. shown \in Seq(Tables \cup {e}) /\ e \in Tables \cup {e}
  OBVIOUS
<1> QED BY <1>1, <1>2

\* One process: it has ended, or it is shown at once or with the others.
LEMMA ShowPidEffect ==
  ASSUME PidInv, ShowPid
  PROVE  \/ phase' \in {"failed", "crashed"} /\ UNCHANGED <<ix, shown>>
         \/ /\ phase' = "pids" /\ ix' = ix + 1 /\ shown' = shown
            /\ world.maps[list.pids[ix]].state = "gone" \/ ~ShowsNow
         \/ /\ phase' = "pids" /\ ix' = ix + 1
            /\ \E e : shown' = Append(shown, e) /\ Process(e) /\ e.pid = list.pids[ix]
<1> DEFINE file == world.maps[list.pids[ix]]
           clean == IF show_sub_categories /\ ix > 1 THEN zero_table_data(table.cell) ELSE table.cell
           cell == AddLines(clean, file.lines)
<1>1. phase = "pids"
  BY DEF ShowPid
<1>2. \/ file.state = "gone" /\ Skip(clean)
      \/ Stop("failed") \/ Stop("crashed")
      \/ ~ShowsNow /\ Skip(cell)
      \/ \E t, width : /\ ix' = ix + 1 /\ UNCHANGED phase
                       /\ shown' = Append(shown, display_table("process", list.pids[ix], t, width))
  <2> HIDE DEF cell, clean
  <2> QED BY Zenon DEF ShowPid, cell, clean
<1>3. \A t, width : /\ display_table("process", list.pids[ix], t, width).pid = list.pids[ix]
                    /\ display_table("process", list.pids[ix], t, width).kind = "process"
  BY DEF display_table
<1> HIDE DEF cell, clean
<1> QED BY <1>1, <1>2, <1>3 DEF Skip, Stop, Process

LEMMA ShowPidListed ==
  ASSUME PidInv, ShowPid
  PROVE  PidInv'
<1>1. UNCHANGED <<world, flags, list, asked, starved>> /\ phase = "pids" /\ ix <= num_pids
  BY DEF ShowPid
<1>2. phase' \in {"failed", "crashed", "pids"}
  BY ShowPidEffect
<1>3. Listed'
  BY <1>1, <1>2, ListKept DEF PidInv, InOrder
<1>4. /\ ix \in Nat \ {0} /\ num_pids \in Nat /\ num_pids' = num_pids
      /\ (show_sub_categories' <=> show_sub_categories)
      /\ world \in Worlds /\ shown \in Seq(Tables) /\ list.pids \in Seq(Nat)
  BY <1>1 DEF PidInv, ShownSoFar, Listed, num_pids, show_sub_categories
<1>5. CASE phase' # "pids"
  <2>1. phase' \in {"failed", "crashed"} /\ UNCHANGED <<ix, shown>>
    BY <1>5, ShowPidEffect
  <2> QED BY <1>1, <1>3, <1>4, <2>1 DEF PidInv, ShownSoFar, Tables
<1>6. CASE phase' = "pids"
  <2>1. /\ ix' = ix + 1
        /\ \/ /\ shown' = shown
              /\ world.maps[list.pids[ix]].state = "gone" \/ ~ShowsNow
           \/ \E e : shown' = Append(shown, e) /\ Process(e) /\ e.pid = list.pids[ix]
    BY <1>6, ShowPidEffect
  <2>2. shown' \in Seq(Tables') /\ Tables \subseteq Tables'
    BY <1>4, <2>1, AppendTables DEF Tables
  <2>3. \/ world.maps[list.pids[ix]].state = "gone"
        \/ ~ShowsNow
        \/ \E e \in Tables' : Process(e) /\ e.pid = list.pids[ix]
    BY <1>4, <2>1, AppendTables
  <2>4. ASSUME show_sub_categories, NEW k \in 1 .. ix' - 1
        PROVE  \/ world.maps[list.pids[k]].state = "gone"
               \/ \E s \in Tables' : s.pid = list.pids[k]
    <3>1. CASE k = ix
      BY <2>3, <2>4, <3>1 DEF ShowsNow
    <3>2. CASE k # ix
      <4>1. k \in 1 .. ix - 1
        BY <1>4, <2>1, <3>2
      <4> QED BY <1>1, <2>2, <2>4, <4>1 DEF PidInv, ShownSoFar
    <3> QED BY <3>1, <3>2
  <2>5. ASSUME ~show_sub_categories, ix' = num_pids + 1
        PROVE  \/ world.maps[Last(list.pids)].state = "gone"
               \/ \E s \in Tables' : Process(s)
    <3>1. ix = num_pids
      BY <1>4, <2>1, <2>5
    <3>2. Last(list.pids) = list.pids[ix]
      BY <1>4, <3>1 DEF Last, num_pids
    <3> QED BY <2>3, <3>1, <3>2 DEF ShowsNow
  <2>6. ix' \in Nat \ {0} /\ ix' <= num_pids + 1
    BY <1>1, <1>4, <2>1
  <2>7. ShownSoFar'
    BY <1>1, <1>4, <1>6, <2>2, <2>4, <2>5, <2>6 DEF ShownSoFar
  <2> QED BY <1>3, <2>7 DEF PidInv
<1> QED BY <1>5, <1>6

LEMMA EndListed ==
  ASSUME PidInv, EndPids
  PROVE  PidInv'
<1>1. UNCHANGED <<world, flags, list, asked, starved, ix, shown>> /\ phase = "pids"
      /\ phase' = "system" /\ ix > num_pids
  BY DEF EndPids
<1>2. Listed'
  BY <1>1, ListKept DEF PidInv, InOrder
<1>3. ix = num_pids + 1
  BY <1>1 DEF PidInv, ShownSoFar, Listed, num_pids
<1>4. ShownSoFar'
  BY <1>1, <1>3 DEF PidInv, ShownSoFar, Tables, num_pids, show_sub_categories
<1> QED BY <1>2, <1>4 DEF PidInv

\* The tables of the system come after those of processes.
LEMMA SystemListed ==
  ASSUME PidInv, ShowSystem \/ ShowNumastat
  PROVE  PidInv'
<1>1. /\ UNCHANGED <<world, list, asked, starved, ix>> /\ phase \in {"system", "numastat"}
      /\ phase' \in {"numastat", "done", "failed"}
      /\ shown' = shown \/ \E e : shown' = Append(shown, e)
  BY DEF ShowSystem, ShowNumastat, show_info_from_system_file, Stop
<1>2. Listed'
  BY <1>1, ListKept DEF PidInv, InOrder
<1>3. shown' \in Seq(Tables')
  BY <1>1, AppendTables DEF PidInv, ShownSoFar, Tables
<1>4. ShownSoFar'
  BY <1>1, <1>3 DEF PidInv, ShownSoFar
<1> QED BY <1>2, <1>4 DEF PidInv

\* Whatever the system does meanwhile, an ended process does not come back.
LEMMA HotAddListed ==
  ASSUME PidInv, HotAdd
  PROVE  PidInv'
<1>1. /\ UNCHANGED <<phase, flags, list, asked, starved, ix, shown>> /\ world' \in Worlds
      /\ DOMAIN world'.maps = DOMAIN world.maps
      /\ \A p \in DOMAIN world.maps : world.maps[p].state = "gone" => world'.maps[p].state = "gone"
  BY DEF HotAdd
<1>2. Listed'
  BY <1>1, ListKept DEF PidInv
<1>3. list.pids \in Seq(Nat) /\ Len(list.pids) \in Nat
      /\ \A k \in 1 .. Len(list.pids) : list.pids[k] \in DOMAIN world.maps
  BY DEF PidInv, Listed, Range
<1>4. \A k \in 1 .. Len(list.pids) :
        world.maps[list.pids[k]].state = "gone" => world'.maps[list.pids[k]].state = "gone"
  BY <1>1, <1>3
<1>5. ShownSoFar'
  <2>1. phase' \in {"pids", "system"} => ix - 1 <= Len(list.pids) /\ ix \in Nat
    BY <1>1, <1>3 DEF PidInv, ShownSoFar, num_pids
  <2>2. Last(list.pids) = list.pids[Len(list.pids)]
    BY DEF Last
  <2>3. /\ num_pids' = num_pids /\ num_pids = Len(list.pids) /\ Tables' = Tables
        /\ (show_sub_categories' <=> show_sub_categories)
    BY <1>1 DEF num_pids, show_sub_categories, Tables
  <2>4. ASSUME phase \in {"pids", "system"}, show_sub_categories, NEW k \in 1 .. ix - 1
        PROVE  world'.maps[list.pids[k]].state = "gone" \/ \E s \in Tables : s.pid = list.pids[k]
    <3>1. k \in 1 .. Len(list.pids)
      BY <1>1, <1>3, <2>1, <2>4
    <3> QED BY <1>4, <2>4, <3>1 DEF PidInv, ShownSoFar
  <2>5. ASSUME phase \in {"pids", "system"}, ~show_sub_categories, ix = num_pids + 1, num_pids > 0
        PROVE  world'.maps[Last(list.pids)].state = "gone" \/ \E s \in Tables : Process(s)
    <3>1. Len(list.pids) \in 1 .. Len(list.pids)
      BY <1>3, <2>3, <2>5
    <3> QED BY <1>4, <2>2, <2>5, <3>1 DEF PidInv, ShownSoFar
  <2> QED BY <1>1, <2>3, <2>4, <2>5 DEF PidInv, ShownSoFar
<1> QED BY <1>2, <1>5 DEF PidInv

LEMMA PidInit == Init => PidInv
<1> SUFFICES ASSUME Init PROVE PidInv
  OBVIOUS
<1>1. list \in Lists /\ list.pids = <<>> /\ ~list.bad /\ list.max = 0
  BY DEF Init, Lists
<1>2. Range(<<>>) = {} /\ <<>> \in Seq({})
  BY DEF Range
<1>3. Listed
  BY <1>1, <1>2 DEF Init, Listed, Lists, Sane
<1>4. ShownSoFar
  BY <1>2 DEF Init, ShownSoFar, Tables
<1> QED BY <1>3, <1>4 DEF PidInv

LEMMA PidStep == PidInv /\ [Next]_vars => PidInv'
<1> SUFFICES ASSUME PidInv, [Next]_vars PROVE PidInv'
  OBVIOUS
<1>1. /\ DOMAIN world.maps \subseteq Nat /\ Range(Matching) \subseteq DOMAIN world.maps
      /\ Matching \in Seq(Nat)
  BY MapsOf, NumastatAssumption DEF PidInv, ShownSoFar
<1>2. ASSUME NEW pid \in DOMAIN world.maps, NEW memory \in BOOLEAN, AddPids(<<pid>>, memory)
      PROVE  PidInv'
  <2>1. <<pid>> \in Seq(Nat) /\ Range(<<pid>>) \subseteq DOMAIN world.maps
    BY <1>1 DEF Range
  <2> QED BY <1>2, <2>1, AddListed
<1>3. ASSUME NEW memory \in BOOLEAN, AddPids(Matching, memory) PROVE PidInv'
  BY <1>1, <1>3, AddListed
<1>4. CASE UNCHANGED vars
  BY <1>4 DEF vars, PidInv, Listed, ShownSoFar, Tables, num_pids, show_sub_categories
<1> QED BY <1>2, <1>3, <1>4, OptionListed, BeginListed, ShowPidListed, EndListed, SystemListed,
           HotAddListed DEF Next

\* Whoever was asked for is worked through once, in order, and shown: duplicates, patterns that
\* find nobody, a realloc that fails and processes that end meanwhile notwithstanding.
\* The common table is only promised where the last process can still be read.
THEOREM PidsAreRight == Spec => []PidsRight
<1>1. PidInv => PidListRight
  BY DEF PidInv, Listed, PidListRight, Sane
<1>2. PidInv => EveryPidShown
  <2> SUFFICES ASSUME PidInv, phase = "system", num_pids > 0,
                      show_sub_categories \/ Readable(Last(list.pids))
               PROVE  IF show_sub_categories
                      THEN \A k \in 1 .. num_pids :
                              Readable(list.pids[k]) => \E s \in Tables : s.pid = list.pids[k]
                      ELSE \E s \in Tables : Process(s)
    BY DEF EveryPidShown
  <2>1. ix = num_pids + 1 /\ num_pids \in Nat /\ ix - 1 = num_pids
    BY DEF PidInv, ShownSoFar, Listed, num_pids
  <2> QED BY <2>1 DEF PidInv, ShownSoFar, Readable
<1> QED BY <1>1, <1>2, PidInit, PidStep, PTL DEF Spec, PidsRight
=============================================================================
