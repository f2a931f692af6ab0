--------------------------- MODULE Ownership_proof ---------------------------
(***************************************************************************)
(* Proofs about the two layers of ownership: ObjectPool, for every set of  *)
(* objects and initial size, and ValueStore on top of it, for any number   *)
(* of variables, values and holders.                                       *)
(*                                                                         *)
(* The conjunction Inv of the store is inductive: the counts cannot be     *)
(* shown exact without knowing that pooled variables are reset and         *)
(* unreferenced, nor the owners consistent without the types of both maps. *)
(***************************************************************************)
EXTENDS ObjectPool, ValueStore, FiniteSetTheorems, TLAPS

-----------------------------------------------------------------------------
(* Object pools *)

PoolInv == PoolTypeOK /\ ExclusiveOwnership

\* Pushing fresh objects on a stack of distinct ones: the stack a Grow leaves.
LEMMA GrownStack ==
  ASSUME PoolInv, NEW n \in Nat, NEW grown \in FreshObjects(n)
  PROVE  /\ grown \in Seq(Objects)
         /\ Len(grown) = n
         /\ Elems(grown) \subseteq Objects \ pool
         /\ available \o grown \in Seq(Objects)
         /\ Len(available \o grown) = Len(available) + n
         /\ NoDuplicates(available \o grown)
         /\ Elems(available \o grown) = Elems(available) \cup Elems(grown)
<1>1. grown \in Seq(Objects) /\ Len(grown) = n /\ NoDuplicates(grown)
      /\ \A i \in 1 .. n : grown[i] \in Objects \ pool
  BY DEF FreshObjects, NoDuplicates
<1>2. available \in Seq(Objects) /\ NoDuplicates(available)
      /\ \A i \in 1 .. Len(available) : available[i] \in pool
  BY DEF PoolInv, PoolTypeOK, ExclusiveOwnership, Elems
<1> DEFINE stack == available \o grown
<1>3. /\ stack \in Seq(Objects)
      /\ Len(stack) = Len(available) + n
      /\ \A i \in 1 .. Len(available) : stack[i] = available[i]
      /\ \A i \in 1 .. n : stack[Len(available) + i] = grown[i]
  BY <1>1, <1>2
<1>4. \A i \in 1 .. Len(stack) :
         \/ i \in 1 .. Len(available) /\ stack[i] = available[i]
         \/ i - Len(available) \in 1 .. n /\ stack[i] = grown[i - Len(available)]
  <2> TAKE i \in 1 .. Len(stack)
  <2>1. Len(available) \in Nat
    BY <1>2
  <2>2. CASE i <= Len(available)
    BY <1>3, <2>1, <2>2
  <2>3. CASE i > Len(available)
    <3>1. i - Len(available) \in 1 .. n
      BY <1>3, <2>1, <2>3
    <3>2. stack[Len(available) + (i - Len(available))] = grown[i - Len(available)]
      BY <1>3, <3>1
    <3>3. Len(available) + (i - Len(available)) = i
      BY <1>3, <2>1
    <3> QED BY <3>1, <3>2, <3>3
  <2> QED BY <1>3, <2>1, <2>2, <2>3
<1>5. NoDuplicates(stack)
  <2> SUFFICES ASSUME NEW i \in 1 .. Len(stack), NEW j \in 1 .. Len(stack),
                      stack[i] = stack[j]
               PROVE  i = j
    BY DEF NoDuplicates
  <2>1. Len(available) \in Nat /\ i \in Int /\ j \in Int
    BY <1>2, <1>3
  <2>2. CASE i \in 1 .. Len(available) /\ j \in 1 .. Len(available)
    BY <1>2, <1>3, <2>2 DEF NoDuplicates
  <2>3. CASE i \notin 1 .. Len(available) /\ j \notin 1 .. Len(available)
    <3>1. /\ i - Len(available) \in 1 .. n
          /\ j - Len(available) \in 1 .. n
          /\ grown[i - Len(available)] = grown[j - Len(available)]
      BY <1>4, <2>3
    <3>2. i - Len(available) = j - Len(available)
      BY <1>1, <3>1 DEF NoDuplicates
    <3> QED BY <3>2, <2>1
  <2>4. CASE i \in 1 .. Len(available) /\ j \notin 1 .. Len(available)
    BY <1>1, <1>2, <1>4, <2>4
  <2>5. CASE i \notin 1 .. Len(available) /\ j \in 1 .. Len(available)
    BY <1>1, <1>2, <1>4, <2>5
  <2> QED BY <2>2, <2>3, <2>4, <2>5
<1>6. Elems(stack) = Elems(available) \cup Elems(grown)
  <2>1. Elems(stack) \subseteq Elems(available) \cup Elems(grown)
    BY <1>1, <1>4 DEF Elems
  <2>2. Elems(available) \subseteq Elems(stack)
    BY <1>2, <1>3 DEF Elems
  <2>3. Elems(grown) \subseteq Elems(stack)
    <3> SUFFICES ASSUME NEW i \in 1 .. n PROVE grown[i] \in Elems(stack)
      BY <1>1 DEF Elems
    <3>1. Len(available) + i \in 1 .. Len(stack)
      BY <1>2, <1>3
    <3> QED BY <1>3, <3>1 DEF Elems
  <2> QED BY <2>1, <2>2, <2>3
<1> QED BY <1>1, <1>3, <1>5, <1>6 DEF Elems

\* Popping n entries splits the elements of a stack of distinct ones in two.
LEMMA PoppedStack ==
  ASSUME NEW s \in Seq(Objects), NoDuplicates(s),
         NEW n \in Nat, n <= Len(s)
  PROVE  /\ BelowTop(s, n) \in Seq(Objects)
         /\ Len(BelowTop(s, n)) = Len(s) - n
         /\ NoDuplicates(BelowTop(s, n))
         /\ TopOf(s, n) \cap Elems(BelowTop(s, n)) = {}
         /\ TopOf(s, n) \cup Elems(BelowTop(s, n)) = Elems(s)
<1> DEFINE t == BelowTop(s, n)
<1>1. /\ t \in Seq(Objects)
      /\ Len(t) = Len(s) - n
      /\ \A i \in 1 .. Len(t) : t[i] = s[i]
  BY DEF BelowTop
<1>2. NoDuplicates(t)
  BY <1>1 DEF NoDuplicates
<1>3. Elems(t) = {s[i] : i \in 1 .. (Len(s) - n)}
  BY <1>1 DEF Elems
<1>4. TopOf(s, n) \cap Elems(t) = {}
  BY <1>3 DEF TopOf, NoDuplicates
<1>5. TopOf(s, n) \cup Elems(t) = Elems(s)
  <2>1. \A i \in 1 .. Len(s) : i \in (Len(s) - n + 1) .. Len(s) \/ i \in 1 .. (Len(s) - n)
    OBVIOUS
  <2>2. \A i \in (Len(s) - n + 1) .. Len(s) : i \in 1 .. Len(s)
    OBVIOUS
  <2>3. \A i \in 1 .. (Len(s) - n) : i \in 1 .. Len(s)
    OBVIOUS
  <2> QED BY <1>3, <2>1, <2>2, <2>3 DEF TopOf, Elems
<1> QED BY <1>1, <1>2, <1>4, <1>5

\* What every acquisition does: grow by k fresh objects, hand out the top n.
LEMMA HandOut ==
  ASSUME PoolInv, NEW k \in Nat, NEW n \in Nat, n <= Len(available) + k,
         NEW grown \in FreshObjects(k),
         pool' = pool \cup Elems(grown),
         held' = held \cup TopOf(available \o grown, n),
         available' = BelowTop(available \o grown, n)
  PROVE  /\ PoolInv'
         /\ Len(available') = Len(available) + k - n
         /\ TopOf(available \o grown, n) \cap held = {}
         /\ Elems(available') =
              (Elems(available) \cup Elems(grown)) \ TopOf(available \o grown, n)
<1> DEFINE stack == available \o grown
<1>1. /\ Elems(grown) \subseteq Objects \ pool
      /\ stack \in Seq(Objects)
      /\ Len(stack) = Len(available) + k
      /\ NoDuplicates(stack)
      /\ Elems(stack) = Elems(available) \cup Elems(grown)
  BY GrownStack
<1>2. /\ BelowTop(stack, n) \in Seq(Objects)
      /\ Len(BelowTop(stack, n)) = Len(stack) - n
      /\ NoDuplicates(BelowTop(stack, n))
      /\ TopOf(stack, n) \cap Elems(BelowTop(stack, n)) = {}
      /\ TopOf(stack, n) \cup Elems(BelowTop(stack, n)) = Elems(stack)
  <2>1. n <= Len(stack)
    BY <1>1
  <2> HIDE DEF stack
  <2> QED BY <1>1, <2>1, PoppedStack
<1>3. pool \subseteq Objects /\ held \subseteq Objects
      /\ held \cap Elems(available) = {} /\ held \cup Elems(available) = pool
  BY DEF PoolInv, PoolTypeOK, ExclusiveOwnership
<1>4. TopOf(stack, n) \subseteq Objects
  BY <1>1, <1>2, <1>3
<1>5. PoolTypeOK'
  BY <1>1, <1>2, <1>3, <1>4 DEF PoolTypeOK
<1>6. ExclusiveOwnership'
  <2>1. NoDuplicates(available)'
    BY <1>2 DEF NoDuplicates
  <2>2. Elems(available)' = Elems(BelowTop(stack, n))
    BY DEF Elems
  <2>3. held' \cap Elems(available)' = {} /\ held' \cup Elems(available)' = pool'
    BY <1>1, <1>2, <1>3, <2>2
  <2> QED BY <2>1, <2>3 DEF ExclusiveOwnership
<1> QED BY <1>1, <1>2, <1>3, <1>5, <1>6 DEF PoolInv

\* The invariant holds initially and every operation keeps it.
LEMMA PoolInitInv == PoolInit => PoolInv
<1> SUFFICES ASSUME PoolInit PROVE PoolInv
  OBVIOUS
<1>1. InitialSize \in Nat
  BY FS_CardinalityType, ObjectPoolAssumption
<1>2. /\ available \in [1 .. InitialSize -> Objects]
      /\ \A i, j \in 1 .. InitialSize : available[i] = available[j] => i = j
      /\ pool = Elems(available) /\ held = {}
  BY DEF PoolInit
<1>3. available \in Seq(Objects) /\ Len(available) = InitialSize
  BY <1>1, <1>2
<1> QED BY <1>2, <1>3 DEF PoolInv, PoolTypeOK, ExclusiveOwnership, NoDuplicates, Elems

LEMMA AcquireStep ==
  ASSUME PoolInv, Acquire
  PROVE  \E k \in Nat, n \in Nat : \E grown \in FreshObjects(k) :
           /\ n <= Len(available) + k
           /\ k > 0 => n = Len(available) + k
           /\ pool' = pool \cup Elems(grown)
           /\ held' = held \cup TopOf(available \o grown, n)
           /\ available' = BelowTop(available \o grown, n)
<1>0. available \in Seq(Objects)
  BY DEF PoolInv, PoolTypeOK
<1> DEFINE k == IF available = <<>> THEN 1 ELSE 0
<1>1. PICK grown \in FreshObjects(k) :
        LET stack == available \o grown
        IN  /\ pool' = pool \cup Elems(grown)
            /\ held' = held \cup {stack[Len(stack)]}
            /\ available' = BelowTop(stack, 1)
  BY DEF Acquire
<1>2. k \in Nat /\ 1 <= Len(available) + k /\ (k > 0 => 1 = Len(available) + k)
  BY <1>0
<1>3. Len(available \o grown) \in Nat
  BY <1>2, GrownStack, <1>0
<1>4. TopOf(available \o grown, 1) = {(available \o grown)[Len(available \o grown)]}
  <2> DEFINE stack == available \o grown
  <2>1. (Len(stack) - 1 + 1) .. Len(stack) = {Len(stack)}
    BY <1>3
  <2> HIDE DEF stack
  <2>2. TopOf(stack, 1) = {stack[Len(stack)]}
    BY <2>1 DEF TopOf
  <2> QED BY <2>2 DEF stack
<1> QED BY <1>1, <1>2, <1>4

LEMMA AcquireManyStep ==
  ASSUME PoolInv, NEW count \in Nat, AcquireMany(count)
  PROVE  \E k \in Nat, n \in Nat : \E grown \in FreshObjects(k) :
           /\ n <= Len(available) + k
           /\ k > 0 => n = Len(available) + k
           /\ pool' = pool \cup Elems(grown)
           /\ held' = held \cup TopOf(available \o grown, n)
           /\ available' = BelowTop(available \o grown, n)
<1>0. available \in Seq(Objects)
  BY DEF PoolInv, PoolTypeOK
<1> DEFINE k == IF Len(available) < count THEN count - Len(available) ELSE 0
<1>1. PICK grown \in FreshObjects(k) :
        /\ pool' = pool \cup Elems(grown)
        /\ held' = held \cup TopOf(available \o grown, count)
        /\ available' = BelowTop(available \o grown, count)
  BY DEF AcquireMany
<1>2. k \in Nat /\ count <= Len(available) + k
      /\ (k > 0 => count = Len(available) + k)
  BY <1>0
<1> QED BY <1>1, <1>2

LEMMA ReleaseInv ==
  ASSUME PoolInv, NEW obj \in Objects, Release(obj)
  PROVE  /\ PoolInv'
         /\ Elems(available') = Elems(available) \cup {obj}
<1>1. /\ available \in Seq(Objects) /\ NoDuplicates(available)
      /\ held \cap Elems(available) = {} /\ held \cup Elems(available) = pool
      /\ pool \subseteq Objects /\ held \subseteq Objects
      /\ obj \in held /\ available' = Append(available, obj)
      /\ held' = held \ {obj} /\ pool' = pool
  BY DEF PoolInv, PoolTypeOK, ExclusiveOwnership, Release
<1>2. /\ available' \in Seq(Objects) /\ Len(available') = Len(available) + 1
      /\ available'[Len(available) + 1] = obj
      /\ \A i \in 1 .. Len(available) : available'[i] = available[i]
  BY <1>1
<1>3. Elems(available') = Elems(available) \cup {obj}
  <2>1. \A i \in 1 .. Len(available') : i \in 1 .. Len(available) \/ i = Len(available) + 1
    BY <1>1, <1>2
  <2>2. \A i \in 1 .. Len(available) : i \in 1 .. Len(available')
    BY <1>1, <1>2
  <2>3. Len(available) + 1 \in 1 .. Len(available')
    BY <1>1, <1>2
  <2> QED BY <1>2, <2>1, <2>2, <2>3 DEF Elems
<1>4. NoDuplicates(available')
  <2> SUFFICES ASSUME NEW i \in 1 .. Len(available'), NEW j \in 1 .. Len(available'),
                      available'[i] = available'[j]
               PROVE  i = j
    BY DEF NoDuplicates
  <2>1. \A m \in 1 .. Len(available) : available[m] # obj
    BY <1>1 DEF Elems
  <2>2. /\ i \in 1 .. Len(available) \/ i = Len(available) + 1
        /\ j \in 1 .. Len(available) \/ j = Len(available) + 1
    BY <1>1, <1>2
  <2> QED BY <1>1, <1>2, <2>1, <2>2 DEF NoDuplicates
<1>5. PoolTypeOK'
  BY <1>1, <1>2 DEF PoolTypeOK
<1>6. NoDuplicates(available)' /\ Elems(available)' = Elems(available')
  BY <1>4 DEF NoDuplicates, Elems
<1>7. ExclusiveOwnership'
  BY <1>1, <1>3, <1>6 DEF ExclusiveOwnership
<1> QED BY <1>3, <1>5, <1>7 DEF PoolInv

LEMMA ResetInv == ResetPool => PoolInv'
BY DEF ResetPool, PoolInv, PoolTypeOK, ExclusiveOwnership, NoDuplicates, Elems

LEMMA PoolStepInv == PoolInv /\ [PoolNext]_poolVars => PoolInv'
<1> SUFFICES ASSUME PoolInv, [PoolNext]_poolVars PROVE PoolInv'
  OBVIOUS
<1>1. CASE Acquire
  BY <1>1, AcquireStep, HandOut
<1>2. ASSUME NEW count \in 0 .. Cardinality(Objects), AcquireMany(count)
      PROVE  PoolInv'
  <2>1. count \in Nat
    BY FS_CardinalityType, ObjectPoolAssumption
  <2> QED BY <1>2, <2>1, AcquireManyStep, HandOut
<1>3. ASSUME NEW obj \in Objects, Release(obj)
      PROVE  PoolInv'
  BY <1>3, ReleaseInv
<1>4. CASE ResetPool
  BY <1>4, ResetInv
<1>5. CASE UNCHANGED poolVars
  BY <1>5 DEF poolVars, PoolInv, PoolTypeOK, ExclusiveOwnership, NoDuplicates, Elems
<1> QED BY <1>1, <1>2, <1>3, <1>4, <1>5 DEF PoolNext

-----------------------------------------------------------------------------
\* No object of a pool is ever in two hands, lost, or stacked twice: the
\* vector bookkeeping of Acquire, Acquire(count), Release and ResetPool keeps
\* the free stack and the callers' pointers a partition of the pool.
THEOREM PoolIsPartitioned == PoolSpec => [](PoolTypeOK /\ ExclusiveOwnership)
<1>1. PoolInv => PoolTypeOK /\ ExclusiveOwnership
  BY DEF PoolInv
<1> QED BY PoolInitInv, PoolStepInv, <1>1, PTL DEF PoolSpec

\* The free stack of distinct objects has as many objects as entries.
LEMMA StackCardinality ==
  ASSUME NEW s \in Seq(Objects), NoDuplicates(s)
  PROVE  IsFiniteSet(Elems(s)) /\ Cardinality(Elems(s)) = Len(s)
<1>1. Len(s) \in Nat /\ s \in [1 .. Len(s) -> Elems(s)]
  BY DEF Elems
<1>2. s \in Bijection(1 .. Len(s), Elems(s))
  BY <1>1 DEF Bijection, Injection, Surjection, IsInjective, NoDuplicates, Elems
<1>3. ExistsBijection(1 .. Len(s), Elems(s))
  BY <1>2 DEF ExistsBijection
<1>4. Cardinality(Elems(s)) = Len(s)
  BY <1>1, <1>3, FS_CountingElements
<1>5. IsFiniteSet(Elems(s))
  BY <1>1, <1>3, FS_NatBijection
<1> QED BY <1>4, <1>5

\* What HasLeaks reports for a pool is the number of objects that were never
\* given back, in every reachable state.
THEOREM LeakReportIsExact == PoolSpec => []LeakReportExact
<1>1. PoolInv => LeakReportExact
  <2> SUFFICES ASSUME PoolInv PROVE LeakReportExact
    OBVIOUS
  <2>1. /\ pool \subseteq Objects /\ available \in Seq(Objects)
        /\ NoDuplicates(available)
        /\ held \cap Elems(available) = {} /\ held \cup Elems(available) = pool
    BY DEF PoolInv, PoolTypeOK, ExclusiveOwnership
  <2>2. IsFiniteSet(Elems(available)) /\ Cardinality(Elems(available)) = Len(available)
    BY <2>1, StackCardinality
  <2>3. IsFiniteSet(pool)
    BY <2>1, FS_Subset, ObjectPoolAssumption
  <2>4. IsFiniteSet(held)
    BY <2>1, <2>3, FS_Subset
  <2>5. Cardinality(pool) =
          Cardinality(held) + Cardinality(Elems(available)) - Cardinality({})
    BY <2>1, <2>2, <2>4, FS_Union
  <2>6. Cardinality({}) = 0 /\ Cardinality(held) \in Nat /\ Len(available) \in Nat
    BY <2>1, <2>4, FS_EmptySet, FS_CardinalityType
  <2> QED BY <2>2, <2>5, <2>6 DEF LeakReportExact, GetInUseCount
<1> QED BY PoolInitInv, PoolStepInv, <1>1, PTL DEF PoolSpec

\* The heap is asked for objects only when none is free: Acquire grows an
\* empty stack, Acquire(count) one that is too short, and both then pop it.
THEOREM PoolGrowsOnlyWhenDry == PoolSpec => GrowsOnlyWhenDry
<1>1. PoolInv /\ [PoolNext]_poolVars => [~(pool' \subseteq pool) => available' = <<>>]_poolVars
  <2> SUFFICES ASSUME PoolInv, PoolNext, ~(pool' \subseteq pool) PROVE available' = <<>>
    OBVIOUS
  <2>1. ASSUME NEW k \in Nat, NEW n \in Nat, NEW grown \in FreshObjects(k),
               n <= Len(available) + k, k > 0 => n = Len(available) + k,
               pool' = pool \cup Elems(grown),
               held' = held \cup TopOf(available \o grown, n),
               available' = BelowTop(available \o grown, n)
        PROVE  available' = <<>>
    <3>1. k > 0
      <4> SUFFICES ASSUME k = 0 PROVE FALSE
        OBVIOUS
      <4>1. Elems(grown) = {}
        <5>1. Len(grown) = 0
          BY GrownStack
        <5> QED BY <5>1 DEF Elems
      <4> QED BY <2>1, <4>1
    <3>2. PoolInv' /\ Len(available') = Len(available) + k - n /\ Len(available) \in Nat
      BY <2>1, HandOut DEF PoolInv, PoolTypeOK
    <3>3. available' \in Seq(Objects) /\ Len(available') = 0
      BY <2>1, <3>1, <3>2 DEF PoolInv, PoolTypeOK
    <3> QED BY <3>3
  <2>2. CASE Acquire
    BY <2>1, <2>2, AcquireStep
  <2>3. ASSUME NEW count \in 0 .. Cardinality(Objects), AcquireMany(count)
        PROVE  available' = <<>>
    <3>1. count \in Nat
      BY FS_CardinalityType, ObjectPoolAssumption
    <3> QED BY <2>1, <2>3, <3>1, AcquireManyStep
  <2>4. ASSUME NEW obj \in Objects, Release(obj) PROVE FALSE
    BY <2>4 DEF Release
  <2>5. CASE ResetPool
    BY <2>5 DEF ResetPool
  <2> QED BY <2>2, <2>3, <2>4, <2>5 DEF PoolNext
<1> QED BY PoolInitInv, PoolStepInv, <1>1, PTL DEF PoolSpec, GrowsOnlyWhenDry

\* The pool implements the arena: whatever sequence of calls the runtime
\* makes, its clients see resources that are idle or theirs alone.
THEOREM PoolImplementsArena == PoolSpec => ImplementsArena
<1>1. PoolInv /\ PoolInit => Arena!Init
  BY DEF PoolInit, Arena!Init, PoolInv, PoolTypeOK, Elems
<1>2. PoolInv /\ [PoolNext]_poolVars => [Arena!Next]_(Arena!vars)
  <2> SUFFICES ASSUME PoolInv, [PoolNext]_poolVars PROVE [Arena!Next]_(Arena!vars)
    OBVIOUS
  <2>1. ASSUME NEW k \in Nat, NEW n \in Nat, NEW grown \in FreshObjects(k),
               n <= Len(available) + k, k > 0 => n = Len(available) + k,
               pool' = pool \cup Elems(grown),
               held' = held \cup TopOf(available \o grown, n),
               available' = BelowTop(available \o grown, n)
        PROVE  Arena!Next
    <3> DEFINE S == TopOf(available \o grown, n)
    <3>1. /\ PoolInv' /\ S \cap held = {}
          /\ Elems(available') = (Elems(available) \cup Elems(grown)) \ S
          /\ Len(available') = Len(available) + k - n
      BY <2>1, HandOut
    <3>2. held' \subseteq Objects /\ S \in SUBSET Objects
      BY <2>1, <3>1 DEF PoolInv, PoolTypeOK
    <3>3. Len(grown) = k /\ Elems(grown) \subseteq Objects \ pool
          /\ Len(available) \in Nat
      BY <2>1, GrownStack DEF PoolInv, PoolTypeOK
    <3>4. CASE k = 0
      <4>1. Elems(grown) = {}
        BY <3>3, <3>4 DEF Elems
      <4>2. Elems(available \o grown) = Elems(available)
        BY <2>1, <4>1, GrownStack
      <4>3. S \subseteq Elems(available)
        <5>1. /\ available \o grown \in Seq(Objects)
              /\ NoDuplicates(available \o grown)
              /\ Len(available \o grown) = Len(available) + k
          BY <2>1, GrownStack
        <5>2. S \subseteq Elems(available \o grown)
          <6>1. n <= Len(available \o grown)
            BY <2>1, <5>1
          <6>2. S \cup Elems(BelowTop(available \o grown, n))
                  = Elems(available \o grown)
            BY <5>1, <6>1, PoppedStack
          <6> QED BY <6>2
        <5> QED BY <4>2, <5>2
      <4>4. Arena!Take(S)
        BY <2>1, <3>1, <4>1, <4>3 DEF Arena!Take, Elems
      <4> QED BY <3>2, <4>4 DEF Arena!Next
    <3>5. CASE k > 0
      <4>1. Len(available') = 0
        BY <2>1, <3>1, <3>3, <3>5
      <4>2. Elems(available') = {}
        BY <4>1 DEF Elems
      <4>3. Elems(available) \subseteq S
        BY <3>1, <4>2
      <4>4. Arena!Take(S)
        <5>1. Elems(available)' = Elems(available) \ S
          BY <4>2, <4>3 DEF Elems
        <5> QED BY <2>1, <3>1, <4>3, <5>1 DEF Arena!Take
      <4> QED BY <3>2, <4>4 DEF Arena!Next
    <3> QED BY <3>4, <3>5
  <2>2. CASE Acquire
    BY <2>1, <2>2, AcquireStep
  <2>3. ASSUME NEW count \in 0 .. Cardinality(Objects), AcquireMany(count)
        PROVE  Arena!Next
    <3>1. count \in Nat
      BY FS_CardinalityType, ObjectPoolAssumption
    <3> QED BY <2>1, <2>3, <3>1, AcquireManyStep
  <2>4. ASSUME NEW obj \in Objects, Release(obj) PROVE Arena!Next
    <3>1. Elems(available)' = Elems(available) \cup {obj}
      BY <2>4, ReleaseInv DEF Elems
    <3>2. Arena!GiveBack(obj)
      BY <2>4, <3>1 DEF Release, Arena!GiveBack
    <3> QED BY <3>2 DEF Arena!Next
  <2>5. CASE ResetPool
    <3>1. Elems(available)' = {}
      BY <2>5 DEF ResetPool, Elems
    <3>2. Arena!Destroy
      BY <2>5, <3>1 DEF ResetPool, Arena!Destroy
    <3> QED BY <3>2 DEF Arena!Next
  <2>6. CASE UNCHANGED poolVars
    BY <2>6 DEF poolVars, Arena!vars, Elems
  <2> QED BY <2>2, <2>3, <2>4, <2>5, <2>6 DEF PoolNext
<1> QED BY PoolInitInv, PoolStepInv, <1>1, <1>2, PTL DEF PoolSpec, ImplementsArena, Arena!Spec

-----------------------------------------------------------------------------
(* Variables and values *)

Inv == TypeOK /\ OwnersAgree /\ CountsAreExact /\ PooledVariablesAreReset

LEMMA HoldingFinite ==
  ASSUME NEW v PROVE IsFiniteSet(Holding(v)) /\ Cardinality(Holding(v)) \in Nat
<1>1. Holding(v) \in SUBSET Holders
  BY DEF Holding
<1> QED BY <1>1, FS_Subset, FS_CardinalityType, ValueStoreAssumption

\* One more holder of v raises the number of its holders by one and nobody
\* else's.
LEMMA AddHolder ==
  ASSUME TypeOK, NEW h \in Holders, NEW v \in Variables,
         <<h, v>> \notin refs, refs' = refs \cup {<<h, v>>}
  PROVE  /\ Cardinality(Holding(v)') = Cardinality(Holding(v)) + 1
         /\ \A w \in Variables : w # v => Holding(w)' = Holding(w)
<1>1. Holding(v)' = Holding(v) \cup {h} /\ h \notin Holding(v)
  BY DEF Holding
<1>2. Cardinality(Holding(v) \cup {h}) = Cardinality(Holding(v)) + 1
  BY <1>1, HoldingFinite, FS_AddElement
<1>3. \A w \in Variables : w # v => Holding(w)' = Holding(w)
  BY DEF Holding
<1> QED BY <1>1, <1>2, <1>3

LEMMA RemoveHolder ==
  ASSUME TypeOK, NEW h \in Holders, NEW v \in Variables,
         <<h, v>> \in refs, refs' = refs \ {<<h, v>>}
  PROVE  /\ Cardinality(Holding(v)') = Cardinality(Holding(v)) - 1
         /\ \A w \in Variables : w # v => Holding(w)' = Holding(w)
<1>1. Holding(v)' = Holding(v) \ {h} /\ h \in Holding(v)
  BY DEF Holding
<1>2. Cardinality(Holding(v) \ {h}) = Cardinality(Holding(v)) - 1
  BY <1>1, HoldingFinite, FS_RemoveElement
<1>3. \A w \in Variables : w # v => Holding(w)' = Holding(w)
  BY DEF Holding
<1> QED BY <1>1, <1>2, <1>3

\* A variable nobody points at has no holder; the last reference is the only one.
LEMMA NoHolder ==
  ASSUME TypeOK, NEW v \in Variables
  PROVE  Cardinality(Holding(v)) = 0 <=> \A h \in Holders : <<h, v>> \notin refs
<1>1. Cardinality(Holding(v)) = 0 <=> Holding(v) = {}
  BY HoldingFinite, FS_EmptySet
<1> QED BY <1>1 DEF Holding

LEMMA InitInv == Init => Inv
BY FS_EmptySet, ValueStoreAssumption
   DEF Init, Inv, TypeOK, OwnersAgree, CountsAreExact, PooledVariablesAreReset

LEMMA AdoptInv ==
  ASSUME Inv, NEW h \in Holders, NEW v \in Variables, NEW x \in Values,
         Adopt(h, v, x), liveVals' = liveVals \cup {x},
         x \in liveVals => owner[x] = Null
  PROVE  Inv'
<1> USE DEF Inv
<1>1. TypeOK'
  BY DEF TypeOK, Adopt
<1>2. OwnersAgree'
  BY ValueStoreAssumption DEF TypeOK, OwnersAgree, Adopt
<1>3. CountsAreExact'
  <2>1. \A g \in Holders : <<g, v>> \notin refs
    BY DEF TypeOK, Adopt
  <2>2. /\ Cardinality(Holding(v)') = Cardinality(Holding(v)) + 1
        /\ \A w \in Variables : w # v => Holding(w)' = Holding(w)
    BY <2>1, AddHolder DEF Adopt
  <2>3. Cardinality(Holding(v)') = 1
    BY <2>1, <2>2, NoHolder, HoldingFinite
  <2>4. \A w \in liveVars' : /\ refCount'[w] = Cardinality(Holding(w)')
                             /\ refCount'[w] > 0
    BY <2>2, <2>3 DEF TypeOK, CountsAreExact, Adopt
  <2> QED BY <2>4 DEF CountsAreExact
<1>4. PooledVariablesAreReset'
  BY DEF TypeOK, PooledVariablesAreReset, Adopt
<1> QED BY <1>1, <1>2, <1>3, <1>4

\* Steps on values alone leave counts and holders as they are.
LEMMA CountsUnchanged ==
  ASSUME CountsAreExact, UNCHANGED <<liveVars, refCount, refs>>
  PROVE  CountsAreExact'
BY DEF CountsAreExact, Holding

LEMMA TemporaryInv ==
  ASSUME Inv, NEW x \in Values, NewTemporary(x) \/ ReleaseTemporary(x)
  PROVE  Inv'
<1> USE DEF Inv
<1>1. TypeOK'
  BY DEF TypeOK, NewTemporary, ReleaseTemporary
<1>2. OwnersAgree'
  BY ValueStoreAssumption
     DEF TypeOK, OwnersAgree, NewTemporary, ReleaseTemporary, Temporaries
<1>3. CountsAreExact'
  BY CountsUnchanged DEF NewTemporary, ReleaseTemporary
<1>4. PooledVariablesAreReset'
  BY DEF PooledVariablesAreReset, NewTemporary, ReleaseTemporary
<1> QED BY <1>1, <1>2, <1>3, <1>4

LEMMA ShareInv ==
  ASSUME Inv, NEW g \in Holders, NEW h \in Holders, NEW v \in Variables,
         Share(g, h, v)
  PROVE  Inv'
<1> USE DEF Inv
<1>1. TypeOK'
  BY DEF TypeOK, Share
<1>2. OwnersAgree'
  BY DEF TypeOK, OwnersAgree, Share
<1>3. v \in liveVars
  BY DEF TypeOK, Share
<1>4. CountsAreExact'
  <2>1. /\ Cardinality(Holding(v)') = Cardinality(Holding(v)) + 1
        /\ \A w \in Variables : w # v => Holding(w)' = Holding(w)
    BY AddHolder DEF Share
  <2>2. \A w \in liveVars' : /\ refCount'[w] = Cardinality(Holding(w)')
                             /\ refCount'[w] > 0
    BY <1>3, <2>1 DEF TypeOK, CountsAreExact, Share
  <2> QED BY <2>2 DEF CountsAreExact
<1>5. PooledVariablesAreReset'
  BY <1>3 DEF TypeOK, PooledVariablesAreReset, Share
<1> QED BY <1>1, <1>2, <1>4, <1>5

LEMMA DropInv ==
  ASSUME Inv, NEW h \in Holders, NEW v \in Variables, Drop(h, v)
  PROVE  Inv'
<1> USE DEF Inv
<1>1. /\ v \in liveVars /\ value[v] \in liveVals /\ owner[value[v]] = v
      /\ refCount[v] = Cardinality(Holding(v)) /\ refCount[v] \in Nat
      /\ refCount[v] > 0
  BY DEF CountsAreExact, OwnersAgree, TypeOK, Drop
<1>2. /\ Cardinality(Holding(v)') = Cardinality(Holding(v)) - 1
      /\ \A w \in Variables : w # v => Holding(w)' = Holding(w)
  BY RemoveHolder DEF Drop
<1>3. CASE refCount[v] # 1
  <2>1. /\ refCount' = [refCount EXCEPT ![v] = @ - 1]
        /\ UNCHANGED <<liveVars, liveVals, value, owner>>
    BY <1>3 DEF Drop
  <2>2. TypeOK'
    BY <1>1, <2>1 DEF TypeOK, Drop
  <2>3. OwnersAgree'
    BY <2>1 DEF OwnersAgree
  <2>4. CountsAreExact'
    <3>1. \A w \in liveVars' : /\ refCount'[w] = Cardinality(Holding(w)')
                               /\ refCount'[w] > 0
      BY <1>1, <1>2, <1>3, <2>1 DEF TypeOK, CountsAreExact
    <3> QED BY <3>1 DEF CountsAreExact
  <2>5. PooledVariablesAreReset'
    BY <1>1, <2>1 DEF TypeOK, PooledVariablesAreReset
  <2> QED BY <2>2, <2>3, <2>4, <2>5
<1>4. CASE refCount[v] = 1
  <2>1. /\ liveVals' = liveVals \ {value[v]}
        /\ owner' = [owner EXCEPT ![value[v]] = Null]
        /\ value' = [value EXCEPT ![v] = Null]
        /\ refCount' = [refCount EXCEPT ![v] = 1]
        /\ liveVars' = liveVars \ {v}
    BY <1>4 DEF Drop
  <2>2. \A k \in Holders : <<k, v>> \notin refs'
    <3>1. Cardinality(Holding(v)') = 0
      BY <1>1, <1>2, <1>4
    <3>2. IsFiniteSet(Holding(v)')
      <4>1. Holding(v)' \in SUBSET Holders
        BY DEF Holding
      <4> QED BY <4>1, FS_Subset, ValueStoreAssumption
    <3>3. Holding(v)' = {}
      BY <3>1, <3>2, FS_EmptySet
    <3> QED BY <3>3 DEF Holding
  <2>3. TypeOK'
    BY <1>1, <2>1, <2>2 DEF TypeOK, Drop
  <2>4. OwnersAgree'
    BY <1>1, <2>1, ValueStoreAssumption DEF TypeOK, OwnersAgree
  <2>5. CountsAreExact'
    <3>1. \A w \in liveVars' : /\ refCount'[w] = Cardinality(Holding(w)')
                               /\ refCount'[w] > 0
      BY <1>2, <2>1 DEF TypeOK, CountsAreExact
    <3> QED BY <3>1 DEF CountsAreExact
  <2>6. PooledVariablesAreReset'
    BY <1>1, <2>1 DEF TypeOK, PooledVariablesAreReset
  <2> QED BY <2>3, <2>4, <2>5, <2>6
<1> QED BY <1>3, <1>4

LEMMA AssignInv ==
  ASSUME Inv, NEW lhs \in Values, NEW rhs \in Values, NEW x \in Values,
         Assign(lhs, rhs, x)
  PROVE  Inv'
<1> USE DEF Inv
<1>1. owner[lhs] \in liveVars /\ value[owner[lhs]] = lhs
  BY DEF OwnersAgree, Assign
<1>2. TypeOK'
  BY <1>1 DEF TypeOK, Assign
<1>3. OwnersAgree'
  BY <1>1, ValueStoreAssumption DEF TypeOK, OwnersAgree, Assign, Temporaries
<1>4. CountsAreExact'
  BY CountsUnchanged DEF Assign
<1>5. PooledVariablesAreReset'
  BY <1>1 DEF TypeOK, PooledVariablesAreReset, Assign
<1> QED BY <1>2, <1>3, <1>4, <1>5

LEMMA StepInv == Inv /\ [Next]_vars => Inv'
<1> SUFFICES ASSUME Inv, [Next]_vars PROVE Inv'
  OBVIOUS
<1>1. ASSUME NEW h \in Holders, NEW v \in Variables, NEW x \in Values,
             NewVariable(h, v, x)
      PROVE  Inv'
  BY <1>1, AdoptInv DEF NewVariable
<1>2. ASSUME NEW h \in Holders, NEW v \in Variables, NEW x \in Values,
             BindArgument(h, v, x)
      PROVE  Inv'
  <2>1. liveVals' = liveVals \cup {x} /\ owner[x] = Null
    BY <1>2 DEF BindArgument, Temporaries
  <2> QED BY <1>2, <2>1, AdoptInv DEF BindArgument
<1>3. ASSUME NEW x \in Values, NewTemporary(x) \/ ReleaseTemporary(x)
      PROVE  Inv'
  BY <1>3, TemporaryInv
<1>4. ASSUME NEW g \in Holders, NEW h \in Holders, NEW v \in Variables,
             Share(g, h, v)
      PROVE  Inv'
  BY <1>4, ShareInv
<1>5. ASSUME NEW h \in Holders, NEW v \in Variables, Drop(h, v)
      PROVE  Inv'
  BY <1>5, DropInv
<1>6. ASSUME NEW lhs \in Values, NEW rhs \in Values, NEW x \in Values,
             Assign(lhs, rhs, x)
      PROVE  Inv'
  BY <1>6, AssignInv
<1>7. CASE UNCHANGED vars
  BY <1>7 DEF vars, Inv, TypeOK, OwnersAgree, CountsAreExact, Holding,
              PooledVariablesAreReset
<1> QED BY <1>1, <1>2, <1>3, <1>4, <1>5, <1>6, <1>7 DEF Next

-----------------------------------------------------------------------------
\* The ownership discipline of the runtime, for any number of frames,
\* closures and modules: owners and values agree in both directions, counts
\* equal the pointers held, and what goes back to the pool is reset.
THEOREM OwnershipIsSound ==
  Spec => [](TypeOK /\ OwnersAgree /\ CountsAreExact /\ PooledVariablesAreReset)
<1>1. Inv => TypeOK /\ OwnersAgree /\ CountsAreExact /\ PooledVariablesAreReset
  BY DEF Inv
<1> QED BY InitInv, StepInv, <1>1, PTL DEF Spec

\* A variable is shared by closures and frames exactly as often as it counts, so the
\* release that frees it is the last one.
THEOREM CountsStayExact == Spec => []CountsAreExact
<1>1. Inv => CountsAreExact
  BY DEF Inv
<1> QED BY InitInv, StepInv, <1>1, PTL DEF Spec

\* Whatever a variable was used for, it is back in its initial state in the pool.
THEOREM VariablesComeBackReset == Spec => []PooledVariablesAreReset
<1>1. Inv => PooledVariablesAreReset
  BY DEF Inv
<1> QED BY InitInv, StepInv, <1>1, PTL DEF Spec

\* Unshared values never leak: once every frame, closure and module has let
\* go, only temporaries in flight are alive.
THEOREM VariablesDoNotLeak == Spec => []NothingLeaks
<1>1. Inv => NothingLeaks
  <2> SUFFICES ASSUME Inv, refs = {}
               PROVE  liveVars = {} /\ liveVals = Temporaries
    BY DEF NothingLeaks
  <2>1. ASSUME NEW v \in liveVars PROVE FALSE
    <3>1. v \in Variables /\ refCount[v] = Cardinality(Holding(v)) /\ refCount[v] > 0
      BY DEF Inv, TypeOK, CountsAreExact
    <3>2. Cardinality(Holding(v)) = 0
      BY <3>1, NoHolder DEF Inv
    <3> QED BY <3>1, <3>2
  <2>2. liveVals = Temporaries
    BY <2>1 DEF Inv, TypeOK, OwnersAgree, Temporaries
  <2> QED BY <2>1, <2>2
<1> QED BY InitInv, StepInv, <1>1, PTL DEF Spec
=============================================================================
