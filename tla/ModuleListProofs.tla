-------------------------- MODULE ModuleListProofs --------------------------
(***************************************************************************)
(* Theorems about ModuleList, for every set of modules, all lists of them   *)
(* and any number of edits.  What the loops over lists compute is proved    *)
(* by induction on their length, in the form of a smallest counterexample.  *)
(***************************************************************************)
EXTENDS ModuleList, FiniteSetTheorems, WellFoundedInduction, TLAPS

-----------------------------------------------------------------------------
(* Induction *)

\* Every set of numbers has a least element.
LEMMA Least ==
    ASSUME NEW S \in SUBSET Nat, S # {}
    PROVE  \E n \in S : \A m \in S : n <= m
  <1> DEFINE R == OpToRel(<, Nat)
  <1>1. IsWellFoundedOn(R, Nat)
    BY NatLessThanWellFounded
  <1>2. \A m, n \in Nat : <<m, n>> \in R <=> m < n
    BY DEF OpToRel
  <1> HIDE DEF R
  <1>3. PICK n \in S : \A m \in S : ~(<<m, n>> \in R)
    BY <1>1, WFMin
  <1>4. ASSUME NEW m \in S
        PROVE  n <= m
    <2>1. m \in Nat /\ n \in Nat /\ ~(m < n)
      BY <1>2, <1>3
    <2> QED
      BY <2>1
  <1> QED
    BY <1>4

\* Induction up to a bound: what holds of 0 and of each successor.
LEMMA Induction ==
    ASSUME NEW N \in Nat, NEW Good \in SUBSET (0..N),
           0 \in Good, \A n \in 1..N : n - 1 \in Good => n \in Good
    PROVE  Good = 0..N
  <1>1. SUFFICES ASSUME (0..N) \ Good # {} PROVE FALSE
    OBVIOUS
  <1>2. (0..N) \ Good \in SUBSET Nat
    OBVIOUS
  <1>3. PICK n \in (0..N) \ Good : \A m \in (0..N) \ Good : n <= m
    BY <1>1, <1>2, Least
  <1>4. n \in 1..N /\ n - 1 \in 0..N /\ ~(n <= n - 1)
    BY <1>3
  <1> QED
    BY <1>3, <1>4

-----------------------------------------------------------------------------
(* The loop *)

\* One turn of the loop.
Turn(list, places, kept, n) == IF n \in places THEN Append(kept, list[n]) ELSE kept

\* The loop is defined: there is a function that does what it says.
LEMMA LoopExists ==
    ASSUME NEW list, NEW places, Len(list) \in Nat
    PROVE  \E f : f = [n \in 0..Len(list) |->
                         IF n = 0 THEN <<>> ELSE Turn(list, places, f[n - 1], n)]
  <1> DEFINE IsLoop(f, k) ==
                f = [n \in 0..k |-> IF n = 0 THEN <<>> ELSE Turn(list, places, f[n - 1], n)]
             Good == {k \in 0..Len(list) : \E f : IsLoop(f, k)}
  <1>1. 0 \in Good
    <2> DEFINE f == [n \in 0..0 |-> <<>>]
    <2>1. \A n \in 0..0 : n = 0
      OBVIOUS
    <2>2. IsLoop(f, 0)
      BY <2>1
    <2> HIDE DEF f, IsLoop
    <2> QED
      BY <2>2
  <1>2. ASSUME NEW k \in 1..Len(list), k - 1 \in Good
        PROVE  k \in Good
    <2>1. PICK f : IsLoop(f, k - 1)
      BY <1>2
    <2> DEFINE g == [n \in 0..k |-> IF n < k THEN f[n] ELSE Turn(list, places, f[k - 1], k)]
    <2>2. ASSUME NEW n \in 0..k
          PROVE  g[n] = IF n = 0 THEN <<>> ELSE Turn(list, places, g[n - 1], n)
      <3>1. CASE n = k
        <4>1. g[n] = Turn(list, places, f[k - 1], k) /\ n # 0
          BY <3>1
        <4>2. g[n - 1] = f[k - 1]
          BY <3>1
        <4> QED
          BY <3>1, <4>1, <4>2
      <3>2. CASE n < k
        <4>1. n \in 0..(k - 1) /\ (n # 0 => n - 1 \in 0..(k - 1))
          BY <3>2
        <4>2. f[n] = IF n = 0 THEN <<>> ELSE Turn(list, places, f[n - 1], n)
          BY <2>1, <4>1
        <4>3. g[n] = f[n] /\ (n # 0 => g[n - 1] = f[n - 1])
          BY <3>2, <4>1
        <4> QED
          BY <4>2, <4>3
      <3> QED
        BY <3>1, <3>2
    <2>3. g = [n \in 0..k |-> g[n]]
      OBVIOUS
    <2> HIDE DEF g
    <2>4. IsLoop(g, k)
      BY <2>2, <2>3
    <2> QED
      BY <2>4
  <1> HIDE DEF IsLoop
  <1>3. Good = 0..Len(list)
    BY <1>1, <1>2, Induction
  <1>4. \E f : IsLoop(f, Len(list))
    BY <1>3
  <1> QED
    BY <1>4 DEF IsLoop

\* Hence it satisfies its equation.
LEMMA LoopTurns ==
    ASSUME NEW list, NEW places, Len(list) \in Nat
    PROVE  KeepUpTo(list, places) =
              [n \in 0..Len(list) |->
                 IF n = 0 THEN <<>>
                 ELSE Turn(list, places, KeepUpTo(list, places)[n - 1], n)]
  <1> DEFINE IsLoop(f) == f = [n \in 0..Len(list) |->
                 IF n = 0 THEN <<>>
                 ELSE IF n \in places THEN Append(f[n - 1], list[n]) ELSE f[n - 1]]
  <1>1. \E f : IsLoop(f)
    BY LoopExists, Zenon DEF Turn
  <1>2. KeepUpTo(list, places) = CHOOSE f : IsLoop(f)
    BY Zenon DEF KeepUpTo
  <1> HIDE DEF IsLoop
  <1>3. IsLoop(KeepUpTo(list, places))
    BY <1>1, <1>2, Zenon
  <1> QED
    BY <1>3, Zenon DEF IsLoop, Turn

-----------------------------------------------------------------------------
(* How many of the places come up to n: the length of the new list after n turns *)

Count(places, n) == Cardinality(places \cap 1..n)

LEMMA CountZero ==
    ASSUME NEW places
    PROVE  Count(places, 0) = 0
  <1>1. places \cap 1..0 = {}
    OBVIOUS
  <1> QED
    BY <1>1, FS_EmptySet DEF Count

LEMMA CountTurn ==
    ASSUME NEW places, NEW n \in Nat \ {0}
    PROVE  /\ Count(places, n - 1) \in Nat
           /\ Count(places, n) = Count(places, n - 1) + (IF n \in places THEN 1 ELSE 0)
  <1> DEFINE before == places \cap 1..(n - 1)
  <1>1. IsFiniteSet(before) /\ Cardinality(before) \in Nat
    <2>1. IsFiniteSet(1..(n - 1)) /\ before \in SUBSET (1..(n - 1))
      BY FS_Interval
    <2> HIDE DEF before
    <2>2. IsFiniteSet(before)
      BY <2>1, FS_Subset
    <2> QED
      BY <2>2, FS_CardinalityType
  <1>2. places \cap 1..n = IF n \in places THEN before \cup {n} ELSE before
    <2>1. 1..n = 1..(n - 1) \cup {n}
      OBVIOUS
    <2> QED
      BY <2>1
  <1>3. n \notin before
    OBVIOUS
  <1> HIDE DEF before
  <1>4. Cardinality(before \cup {n}) = Cardinality(before) + 1
    BY <1>1, <1>3, FS_AddElement
  <1>5. Count(places, n) = Cardinality(before) + (IF n \in places THEN 1 ELSE 0)
    BY <1>1, <1>2, <1>4 DEF Count
  <1> QED
    BY <1>1, <1>5 DEF Count, before

LEMMA CountType ==
    ASSUME NEW places, NEW n \in Nat
    PROVE  Count(places, n) \in Nat
  BY CountZero, CountTurn

\* An earlier place is counted before a later one.
LEMMA CountGrows ==
    ASSUME NEW places, NEW j \in Nat, j \in places, NEW i \in 1..(j - 1)
    PROVE  Count(places, i) < Count(places, j)
  <1> DEFINE before == places \cap 1..i
             upto == places \cap 1..j
  <1>1. IsFiniteSet(upto) /\ before \subseteq upto
    BY FS_Interval, FS_Subset
  <1>2. j \in upto /\ j \notin before
    OBVIOUS
  <1> HIDE DEF before, upto
  <1>3. Cardinality(before) \in Nat /\ Cardinality(upto) \in Nat
    BY <1>1, FS_Subset, FS_CardinalityType
  <1>4. Cardinality(before) <= Cardinality(upto)
    BY <1>1, FS_Subset
  <1>5. Cardinality(before) # Cardinality(upto)
    BY <1>1, <1>2, FS_Subset
  <1> QED
    BY <1>3, <1>4, <1>5 DEF Count, before, upto

-----------------------------------------------------------------------------
(* What the loop computes *)

\* After n turns the new list holds what stands at the places up to n, in order,
\* and nothing else.
HoldsUpTo(list, places, n, d) ==
    /\ Len(d) = Count(places, n)
    /\ \A i \in places \cap 1..n : d[Count(places, i)] = list[i]
    /\ \A p \in DOMAIN d : \E i \in places \cap 1..n : p = Count(places, i)

LEMMA LoopHolds ==
    ASSUME NEW S, NEW list \in Seq(S), NEW places, NEW n \in 0..Len(list)
    PROVE  /\ KeepUpTo(list, places)[n] \in Seq(S)
           /\ HoldsUpTo(list, places, n, KeepUpTo(list, places)[n])
  <1> DEFINE kept == KeepUpTo(list, places)
             Good == {k \in 0..Len(list) :
                         kept[k] \in Seq(S) /\ HoldsUpTo(list, places, k, kept[k])}
  <1>1. \A k \in 0..Len(list) :
           kept[k] = IF k = 0 THEN <<>> ELSE Turn(list, places, kept[k - 1], k)
    <2>1. kept = [k \in 0..Len(list) |->
                    IF k = 0 THEN <<>> ELSE Turn(list, places, kept[k - 1], k)]
      BY LoopTurns
    <2> HIDE DEF kept
    <2> QED
      BY <2>1
  <1> HIDE DEF kept
  <1>2. 0 \in Good
    <2>1. kept[0] = <<>> /\ 0 \in 0..Len(list)
      BY <1>1
    <2>2. HoldsUpTo(list, places, 0, <<>>)
      BY CountZero DEF HoldsUpTo
    <2>3. kept[0] \in Seq(S) /\ HoldsUpTo(list, places, 0, kept[0])
      BY <2>1, <2>2
    <2> QED
      BY <2>1, <2>3
  <1>3. ASSUME NEW k \in 1..Len(list), k - 1 \in Good
        PROVE  k \in Good
    <2> DEFINE d == kept[k - 1]
               e == kept[k]
               c == Count(places, k - 1)
    <2>1. d \in Seq(S) /\ HoldsUpTo(list, places, k - 1, d)
      BY <1>3
    <2>2. e = Turn(list, places, d, k)
      BY <1>1
    <2>3. list[k] \in S /\ k \in Nat \ {0} /\ k - 1 \in Nat
      OBVIOUS
    <2>4. c \in Nat /\ Count(places, k) = c + (IF k \in places THEN 1 ELSE 0)
      BY <2>3, CountTurn
    <2>5. Len(d) = c
      BY <2>1 DEF HoldsUpTo
    <2> HIDE DEF d, e, c
    <2>6. ASSUME k \in places
          PROVE  e \in Seq(S) /\ HoldsUpTo(list, places, k, e)
      <3>1. e = Append(d, list[k])
        BY <2>2, <2>6 DEF Turn
      <3>2. /\ e \in Seq(S)
            /\ Len(e) = c + 1
            /\ DOMAIN e = 1..(c + 1) /\ DOMAIN d = 1..c
            /\ e[c + 1] = list[k]
            /\ \A p \in 1..c : e[p] = d[p]
        BY <2>1, <2>4, <2>3, <2>5, <3>1
      <3>3. Count(places, k) = c + 1
        BY <2>4, <2>6
      <3>4. places \cap 1..k = (places \cap 1..(k - 1)) \cup {k}
        BY <2>3, <2>6
      <3>5. \A i \in places \cap 1..(k - 1) : Count(places, i) \in 1..c
        <4>1. TAKE i \in places \cap 1..(k - 1)
        <4>2. Count(places, i) < Count(places, k) /\ Count(places, i) \in Nat
          BY <2>3, <2>6, CountGrows, CountType
        <4>3. Count(places, i - 1) \in Nat
              /\ Count(places, i) = Count(places, i - 1) + 1
          BY CountTurn
        <4> QED
          BY <2>4, <3>3, <4>2, <4>3
      <3>6. \A i \in places \cap 1..k : e[Count(places, i)] = list[i]
        BY <2>1, <3>2, <3>3, <3>4, <3>5 DEF HoldsUpTo
      <3>7. \A p \in DOMAIN e : \E i \in places \cap 1..k : p = Count(places, i)
        BY <2>1, <2>4, <3>2, <3>3, <3>4 DEF HoldsUpTo
      <3> QED
        BY <3>2, <3>3, <3>6, <3>7 DEF HoldsUpTo
    <2>7. ASSUME k \notin places
          PROVE  e \in Seq(S) /\ HoldsUpTo(list, places, k, e)
      <3>1. e = d
        BY <2>2, <2>7 DEF Turn
      <3>2. places \cap 1..k = places \cap 1..(k - 1)
        BY <2>3, <2>7
      <3>3. Count(places, k) = c
        BY <2>4, <2>7
      <3> QED
        BY <2>1, <2>5, <3>1, <3>2, <3>3 DEF HoldsUpTo
    <2>8. e \in Seq(S) /\ HoldsUpTo(list, places, k, e)
      BY <2>6, <2>7
    <2> QED
      BY <2>8 DEF e
  <1>4. Good = 0..Len(list)
    <2> HIDE DEF Good
    <2>1. Len(list) \in Nat /\ Good \in SUBSET (0..Len(list))
      BY DEF Good
    <2> QED
      BY <1>2, <1>3, <2>1, Induction
  <1> QED
    BY <1>4 DEF kept

\* Hence the new list selects what stands at the places, in order, and holds the
\* elements at the places and no others.
LEMMA KeepSelects ==
    ASSUME NEW S, NEW list \in Seq(S), NEW places \in SUBSET (DOMAIN list)
    PROVE  /\ Keep(list, places) \in Seq(S)
           /\ Selected(Keep(list, places), list, places)
           /\ \A i \in places : Count(places, i) \in DOMAIN Keep(list, places)
           /\ \A p \in DOMAIN Keep(list, places) : \E i \in places : p = Count(places, i)
           /\ ToSet(Keep(list, places)) = {list[i] : i \in places}
  <1> DEFINE d == Keep(list, places)
  <1>1. Len(list) \in Nat /\ DOMAIN list = 1..Len(list)
    OBVIOUS
  <1>2. d \in Seq(S) /\ HoldsUpTo(list, places, Len(list), d)
    <2>1. Len(list) \in 0..Len(list)
      BY <1>1
    <2> QED
      BY <2>1, LoopHolds DEF Keep
  <1>3. places \cap 1..Len(list) = places
    BY <1>1
  <1> HIDE DEF d
  <1>4. /\ Len(d) = Count(places, Len(list))
        /\ Len(d) = Cardinality(places)
        /\ \A i \in places : d[Count(places, i)] = list[i]
        /\ \A p \in DOMAIN d : \E i \in places : p = Count(places, i)
    BY <1>2, <1>3 DEF HoldsUpTo, Count
  <1>5. ASSUME NEW i \in places
        PROVE  Count(places, i) \in DOMAIN d
    <2>1. i \in Nat \ {0} /\ i \in 1..Len(list)
      BY <1>1
    <2>2. /\ Count(places, i - 1) \in Nat
          /\ Count(places, i) = Count(places, i - 1) + 1
      BY <2>1, CountTurn
    <2>3. Count(places, i) <= Count(places, Len(list))
      <3>1. IsFiniteSet(places)
        <4>1. IsFiniteSet(1..Len(list)) /\ places \in SUBSET (1..Len(list))
          BY <1>1, FS_Interval
        <4> QED
          BY <4>1, FS_Subset
      <3>2. Cardinality(places \cap 1..i) <= Cardinality(places)
        BY <3>1, FS_Subset
      <3> QED
        BY <1>3, <3>2 DEF Count
    <2>4. DOMAIN d = 1..Len(d) /\ Len(d) \in Nat
      BY <1>2
    <2> QED
      BY <1>4, <2>2, <2>3, <2>4
  <1>6. Selected(d, list, places)
    BY <1>4 DEF Selected, Count
  <1>7. ToSet(d) = {list[i] : i \in places}
    <2>1. ASSUME NEW x \in ToSet(d)
          PROVE  x \in {list[i] : i \in places}
      <3>1. PICK p \in DOMAIN d : x = d[p]
        BY DEF ToSet
      <3>2. PICK i \in places : p = Count(places, i)
        BY <1>4
      <3> QED
        BY <1>4, <3>1, <3>2
    <2>2. ASSUME NEW i \in places
          PROVE  list[i] \in ToSet(d)
      BY <1>4, <1>5 DEF ToSet
    <2> QED
      BY <2>1, <2>2
  <1> QED
    BY <1>2, <1>4, <1>5, <1>6, <1>7 DEF d

\* utils.Difference, for any two lists: what of the first is not in the second.
LEMMA DifferenceMeetsReference ==
    ASSUME NEW S, NEW a \in Seq(S), NEW b \in Seq(S)
    PROVE  Difference(a, b) \in Seq(S) /\ IsDifference(Difference(a, b), a, b)
  <1> DEFINE places == {i \in DOMAIN a : a[i] \notin ToSet(b)}
  <1>1. places \in SUBSET (DOMAIN a)
    OBVIOUS
  <1>2. {a[i] : i \in places} = ToSet(a) \ ToSet(b)
    BY DEF ToSet
  <1>3. Difference(a, b) = Keep(a, places)
    BY DEF Difference
  <1> HIDE DEF places
  <1>4. /\ Difference(a, b) \in Seq(S)
        /\ ToSet(Difference(a, b)) = ToSet(a) \ ToSet(b)
        /\ Selected(Difference(a, b), a, places)
    BY <1>1, <1>2, <1>3, KeepSelects
  <1> QED
    BY <1>4 DEF IsDifference, places

\* The place at which an element of a list stands first.
LEMMA FirstPlace ==
    ASSUME NEW S, NEW list \in Seq(S), NEW k \in DOMAIN list
    PROVE  \E n \in 1..k : /\ list[n] = list[k]
                           /\ list[n] \notin {list[i] : i \in 1..(n - 1)}
  <1> DEFINE same == {n \in 1..k : list[n] = list[k]}
  <1>1. same \in SUBSET Nat /\ same # {}
    OBVIOUS
  <1>2. PICK n \in same : \A m \in same : n <= m
    BY <1>1, Least
  <1>3. \A i \in 1..(n - 1) : i \in 1..k /\ ~(n <= i)
    BY <1>1
  <1> QED
    BY <1>2, <1>3

\* DeduplicateModules, for any list: each of its elements once, in the order of
\* their first places.
LEMMA DeduplicateMeetsReference ==
    ASSUME NEW S, NEW list \in Seq(S)
    PROVE  /\ DeduplicateModules(list) \in Seq(S)
           /\ IsDeduplicated(DeduplicateModules(list), list)
  <1> DEFINE places == {n \in DOMAIN list : list[n] \notin {list[i] : i \in 1..(n - 1)}}
             d == Keep(list, places)
  <1>1. places \in SUBSET (DOMAIN list) /\ DOMAIN list = 1..Len(list) /\ Len(list) \in Nat
    OBVIOUS
  <1>2. DeduplicateModules(list) = d
    BY DEF DeduplicateModules
  <1>3. \A n \in DOMAIN list :
           n \in places <=> \A i \in 1..(n - 1) : list[i] # list[n]
    OBVIOUS
  <1>4. \A k \in DOMAIN list : \E n \in places : n <= k /\ list[n] = list[k]
    <2>1. TAKE k \in DOMAIN list
    <2>2. PICK n \in 1..k : list[n] = list[k] /\ list[n] \notin {list[i] : i \in 1..(n - 1)}
      BY FirstPlace
    <2> QED
      BY <1>1, <2>2
  <1> HIDE DEF places
  <1>5. /\ d \in Seq(S)
        /\ \A i \in places : Count(places, i) \in DOMAIN d
        /\ \A p \in DOMAIN d : \E i \in places : p = Count(places, i)
        /\ ToSet(d) = {list[i] : i \in places}
        /\ Selected(d, list, places)
    BY <1>1, KeepSelects
  <1> HIDE DEF d
  <1>6. \A i \in places : d[Count(places, i)] = list[i]
    BY <1>5 DEF Selected, Count
  <1>7. ASSUME NEW p \in DOMAIN d, NEW q \in DOMAIN d, d[p] = d[q]
        PROVE  p = q
    <2>1. PICK i \in places : p = Count(places, i)
      BY <1>5
    <2>2. PICK j \in places : q = Count(places, j)
      BY <1>5
    <2>3. list[i] = list[j]
      BY <1>6, <1>7, <2>1, <2>2
    <2>4. ~(i < j) /\ ~(j < i)
      BY <1>1, <1>3, <2>3
    <2> QED
      BY <1>1, <2>1, <2>2, <2>4
  <1>8. ToSet(d) = ToSet(list)
    <2>1. {list[i] : i \in places} = {list[k] : k \in DOMAIN list}
      BY <1>1, <1>4
    <2> QED
      BY <1>5, <2>1 DEF ToSet
  <1>9. ASSUME NEW i \in DOMAIN list, NEW j \in DOMAIN list,
               i < j, list[i] # list[j], \A k \in 1..(j - 1) : list[k] # list[j]
        PROVE  \E p, q \in DOMAIN d : p < q /\ d[p] = list[i] /\ d[q] = list[j]
    <2>1. PICK n \in places : n <= i /\ list[n] = list[i]
      BY <1>4
    <2>2. j \in places
      BY <1>3, <1>9
    <2>3. j \in Nat /\ n \in 1..(j - 1)
      BY <1>1, <1>9, <2>1
    <2>4. Count(places, n) < Count(places, j)
      BY <2>2, <2>3, CountGrows
    <2> QED
      BY <1>5, <1>6, <2>1, <2>2, <2>4
  <1>10. IsDeduplicated(d, list)
    BY <1>7, <1>8, <1>9 DEF IsDeduplicated, Unique
  <1> QED
    BY <1>2, <1>5, <1>10

-----------------------------------------------------------------------------
(* The handler *)

\* Every list is a list of modules: the difference and the deduplicated list are,
\* and the record is only extended by lists (odoodeployment_funcs.go:246).
THEOREM TypeCorrect == Spec => []TypeOK
  <1>1. Init => TypeOK
    <2>1. Lists \subseteq Seq(Module) /\ <<>> \in Seq(Module) /\ 0 \in 0..MaxEdits
      BY ListsAssumption, MaxEditsAssumption
    <2>2. Init => /\ mem.spec = <<>> /\ mem.installed = <<>> /\ mem.batch = <<>>
                  /\ spec \in Seq(Module)
      BY <2>1 DEF Init, NoObject
    <2> QED
      BY <2>1, <2>2 DEF Init, TypeOK
  <1>2. TypeOK /\ [Next]_vars => TypeOK'
    <2> SUFFICES ASSUME TypeOK, [Next]_vars PROVE TypeOK'
      OBVIOUS
    <2> USE DEF TypeOK
    <2>1. CASE Read
      <3>1. DeduplicateModules(spec) \in Seq(Module)
        BY DeduplicateMeetsReference
      <3> QED
        BY <2>1, <3>1 DEF Read, Server
    <2>2. CASE WriteStatus
      BY <2>2 DEF WriteStatus, Server
    <2>3. CASE RecordBatch
      <3>1. mem.installed \o mem.batch \in Seq(Module) /\ <<>> \in Seq(Module)
        OBVIOUS
      <3>2. {installed', batch'} \subseteq Seq(Module) /\ mem' = NoObject
        BY <2>3, <3>1 DEF RecordBatch, Finish
      <3> QED
        BY <2>3, <3>1, <3>2 DEF RecordBatch, Finish, NoObject
    <2>4. CASE CreateJob
      <3>1. MissingModules \in Seq(Module)
        BY DifferenceMeetsReference DEF MissingModules
      <3> QED
        BY <2>4, <3>1 DEF CreateJob, Finish, NoObject
    <2>5. CASE NoJobCreated
      BY <2>5 DEF NoJobCreated, Finish, NoObject
    <2>6. CASE EditSpec
      BY <2>6, ListsAssumption, MaxEditsAssumption DEF EditSpec
    <2>7. CASE UNCHANGED vars
      BY <2>7 DEF vars
    <2> QED
      BY <2>1, <2>2, <2>3, <2>4, <2>5, <2>6, <2>7 DEF Next
  <1> QED
    BY <1>1, <1>2, PTL DEF Spec

\* Whatever lists the CR goes through, the two list functions compute what they
\* are meant to (odoodeployment_funcs.go:230, pkg/utils/generic.go:3).
THEOREM ListFunctionsCorrect == Spec => []ListFunctionsMeetReference
  <1>1. TypeOK => ListFunctionsMeetReference
    BY DeduplicateMeetsReference, DifferenceMeetsReference
       DEF TypeOK, ListFunctionsMeetReference
  <1> QED
    BY <1>1, TypeCorrect, PTL

\* The handler is the only writer of the record and of the batch, so that what it
\* has read of them stays true, even if the user edits the spec under its hands.
MemoryCurrent == pc # "idle" => mem.installed = installed /\ mem.batch = batch

LEMMA MemoryCurrentInvariant == Spec => []MemoryCurrent
  <1>1. Init => MemoryCurrent
    BY DEF Init, MemoryCurrent
  <1>2. MemoryCurrent /\ [Next]_vars => MemoryCurrent'
    <2> SUFFICES ASSUME MemoryCurrent, [Next]_vars PROVE MemoryCurrent'
      OBVIOUS
    <2> USE DEF MemoryCurrent
    <2>1. CASE Read
      <3>1. /\ mem'.installed = installed /\ mem'.batch = batch
            /\ UNCHANGED <<installed, batch>>
        BY <2>1 DEF Read, Server
      <3> QED
        BY <3>1
    <2>2. CASE WriteStatus
      BY <2>2 DEF WriteStatus, Server
    <2>3. CASE RecordBatch \/ CreateJob \/ NoJobCreated
      BY <2>3 DEF RecordBatch, CreateJob, NoJobCreated, Finish
    <2>4. CASE EditSpec \/ UNCHANGED vars
      BY <2>4 DEF EditSpec, vars
    <2> QED
      BY <2>1, <2>2, <2>3, <2>4 DEF Next
  <1> QED
    BY <1>1, <1>2, PTL DEF Spec

\* A batch is computed against the list that is stored with it (databaseinitjob.go:109).
THEOREM NoRepeat == Spec => []BatchIsNew
  <1>1. Init => BatchIsNew
    BY DEF Init, BatchIsNew, ToSet
  <1>2. TypeOK /\ MemoryCurrent /\ BatchIsNew /\ [Next]_vars => BatchIsNew'
    <2> SUFFICES ASSUME TypeOK, MemoryCurrent, BatchIsNew, [Next]_vars
                 PROVE  BatchIsNew'
      OBVIOUS
    <2> DEFINE Disjoint(a, b) == ToSet(a) \cap ToSet(b) = {}
    <2>1. Disjoint(batch, installed)
      BY DEF BatchIsNew
    <2>2. Disjoint(<<>>, mem.installed \o mem.batch)
      BY DEF ToSet
    <2>3. Disjoint(MissingModules, mem.installed)
      <3>1. mem.spec \in Seq(Module) /\ mem.installed \in Seq(Module)
        BY DEF TypeOK
      <3>2. ToSet(MissingModules) = ToSet(mem.spec) \ ToSet(mem.installed)
        BY <3>1, DifferenceMeetsReference DEF MissingModules, IsDifference
      <3> QED
        BY <3>2
    <2>4. (BatchIsNew)' <=> Disjoint(batch', installed')
      BY DEF BatchIsNew
    <2> HIDE DEF Disjoint
    <2>5. CASE RecordBatch
      BY <2>1, <2>2, <2>4, <2>5 DEF RecordBatch, Finish
    <2>6. CASE CreateJob
      BY <2>1, <2>3, <2>4, <2>6 DEF CreateJob, Finish
    <2>7. CASE NoJobCreated
      BY <2>1, <2>4, <2>7 DEF NoJobCreated, Finish, MemoryCurrent
    <2>8. CASE Read \/ WriteStatus \/ EditSpec \/ UNCHANGED vars
      BY <2>1, <2>4, <2>8 DEF Read, WriteStatus, EditSpec, vars
    <2> QED
      BY <2>5, <2>6, <2>7, <2>8 DEF Next
  <1> QED
    BY <1>1, <1>2, TypeCorrect, MemoryCurrentInvariant, PTL DEF Spec

\* A batch is appended whole, at the end of what the server has recorded, and once
\* (odoodeployment_funcs.go:246).
THEOREM AppendedOnce == Spec => BatchAppendedOnce
  <1> DEFINE Appended == installed' # installed =>
                            installed' = installed \o batch /\ batch' = <<>>
  <1>1. MemoryCurrent /\ [Next]_vars => [Appended]_vars
    BY DEF MemoryCurrent, Next, Read, WriteStatus, RecordBatch, CreateJob, NoJobCreated,
           EditSpec, Finish, vars
  <1> QED
    BY <1>1, MemoryCurrentInvariant, PTL DEF Spec, BatchAppendedOnce
=============================================================================
