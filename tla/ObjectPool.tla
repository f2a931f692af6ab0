----------------------------- MODULE ObjectPool -----------------------------
(***************************************************************************)
(* COwningObjectPool<T>, the allocator behind every variable and value of  *)
(* a running script (CProgramRuntime::m_oValuePools holds one per type).   *)
(*                                                                         *)
(* The pool owns its objects and stacks the free ones in "available": the  *)
(* object released last is the one handed out next, which is why a stale   *)
(* pointer into a pool soon points at somebody else's object.  Nothing in  *)
(* the pool records who holds an object, so Release trusts its caller; the *)
(* variable "held" is that caller, the runtime code that received the      *)
(* object from Acquire and has not passed it to Release.                   *)
(***************************************************************************)
EXTENDS Naturals, Sequences, FiniteSets

CONSTANTS Objects,      \* the addresses operator new can return
          InitialSize   \* size_t initialSize, VALUEPOOL_INIT_SIZE in the code

ASSUME ObjectPoolAssumption ==
  /\ IsFiniteSet(Objects)
  /\ InitialSize \in 0 .. Cardinality(Objects)

VARIABLES pool,        \* the objects the pool owns
          available,   \* the free ones; the end of the sequence is the top
          held         \* the callers' pointers

poolVars == <<pool, available, held>>

Elems(s) == {s[i] : i \in 1 .. Len(s)}

\* The n objects a Grow(n) can get from operator new, in creation order.
FreshObjects(n) ==
  {s \in [1 .. n -> Objects \ pool] : \A i, j \in 1 .. n : s[i] = s[j] => i = j}

\* The top n entries of a stack, the top first, and what lies under them.
TopOf(s, n)   == {s[i] : i \in (Len(s) - n + 1) .. Len(s)}
BelowTop(s, n) == SubSeq(s, 1, Len(s) - n)

-----------------------------------------------------------------------------
(* Mistakes the runs notice when they replace the operation. *)

\* Acquire growing while one object is still free.
AcquireEager ==
  \E grown \in FreshObjects(IF Len(available) <= 1 THEN 1 ELSE 0) :
    LET stack == available \o grown
    IN  /\ pool' = pool \cup Elems(grown)
        /\ held' = held \cup {stack[Len(stack)]}
        /\ available' = BelowTop(stack, 1)

\* Acquire(count) that pops one object too few.
AcquireManyKeepsOne(count) ==
  \E grown \in FreshObjects(IF Len(available) < count
                            THEN count - Len(available) ELSE 0) :
    LET stack == available \o grown
    IN  /\ pool' = pool \cup Elems(grown)
        /\ held' = held \cup TopOf(stack, count)
        /\ available' = BelowTop(stack, IF count = 0 THEN 0 ELSE count - 1)

\* Acquire(count) that grows by count, not by what is missing.
AcquireManyGrowsByCount(count) ==
  \E grown \in FreshObjects(IF Len(available) < count THEN count ELSE 0) :
    LET stack == available \o grown
    IN  /\ pool' = pool \cup Elems(grown)
        /\ held' = held \cup TopOf(stack, count)
        /\ available' = BelowTop(stack, count)

\* What is missing from the initial stack: wrong once the pool has grown.
GetInUseCountOfInitial == InitialSize - Len(available)

-----------------------------------------------------------------------------
\* The constructor's Grow(initialSize).
PoolInit ==
  /\ available \in {s \in [1 .. InitialSize -> Objects] :
                      \A i, j \in 1 .. InitialSize : s[i] = s[j] => i = j}
  /\ pool = Elems(available)
  /\ held = {}

\* Acquire(): Grow(1) when the stack is empty, then pop one.
Acquire ==
  \E grown \in FreshObjects(IF available = <<>> THEN 1 ELSE 0) :
    LET stack == available \o grown
    IN  /\ pool' = pool \cup Elems(grown)
        /\ held' = held \cup {stack[Len(stack)]}
        /\ available' = BelowTop(stack, 1)

\* Acquire(count): grow by what is missing, then pop count.
AcquireMany(count) ==
  \E grown \in FreshObjects(IF Len(available) < count
                            THEN count - Len(available) ELSE 0) :
    LET stack == available \o grown
    IN  /\ pool' = pool \cup Elems(grown)
        /\ held' = held \cup TopOf(stack, count)
        /\ available' = BelowTop(stack, count)

\* Release(obj) pushes whatever it is given; the callers (FreeVariable,
\* FreeChildVariable, FreeValue) only pass an object they hold.
Release(obj) ==
  /\ obj \in held
  /\ available' = Append(available, obj)
  /\ held' = held \ {obj}
  /\ UNCHANGED pool

\* ResetPool(): every object is deleted, whoever still points at it.
ResetPool ==
  /\ pool' = {}
  /\ available' = <<>>
  /\ held' = {}

PoolNext ==
  \/ Acquire
  \/ \E count \in 0 .. Cardinality(Objects) : AcquireMany(count)
  \/ \E obj \in Objects : Release(obj)
  \/ ResetPool

PoolSpec == PoolInit /\ [][PoolNext]_poolVars

GetInUseCount == Cardinality(pool) - Len(available)

-----------------------------------------------------------------------------
\* The free stack holds pointers and callers hold objects of the pool.
PoolTypeOK ==
  /\ pool \subseteq Objects
  /\ available \in Seq(Objects)
  /\ held \subseteq pool

NoDuplicates(s) == \A i, j \in 1 .. Len(s) : s[i] = s[j] => i = j

\* Every object the pool owns is free exactly once or held, never both: no
\* sequence of acquires and releases hands one object to two callers, loses
\* one, or stacks one twice (Acquire, Acquire(count) and Release keep no
\* other record of who has what).
ExclusiveOwnership ==
  /\ NoDuplicates(available)
  /\ held \cap Elems(available) = {}
  /\ held \cup Elems(available) = pool

\* The leak report (HasLeaks, PrintAllLeaks) counts exactly the objects that
\* callers still hold; size() - size() never wraps below zero.
LeakReportExact ==
  /\ Len(available) <= Cardinality(pool)
  /\ GetInUseCount = Cardinality(held)

\* The pool only allocates from the heap when it runs dry: a step that adds
\* objects to it leaves no free one behind.
GrowsOnlyWhenDry == [][~(pool' \subseteq pool) => available' = <<>>]_poolVars

\* A pool is an arena: idle resources are those on the stack.
Arena == INSTANCE ResourceArena WITH idle <- Elems(available)
ImplementsArena == Arena!Spec
=============================================================================
