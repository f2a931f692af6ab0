----------------------------- MODULE ValueStore -----------------------------
(***************************************************************************)
(* Who owns what while a script runs: CVariable objects are reference      *)
(* counted and shared by call frames, closures and modules; an IValue      *)
(* belongs to at most one variable, or is a temporary that the evaluator   *)
(* must release itself because it finds no owner on it.                    *)
(*                                                                         *)
(* One action per way the runtime touches the store: a frame slot is set   *)
(* up, an argument becomes a variable, a closure copies a pointer, an      *)
(* assignment replaces a value, a holder lets go.  Values are unshared     *)
(* (undefined, numbers, strings): closures and aggregates have modules of  *)
(* their own.  Slots come from two object pools; by ObjectPool's           *)
(* refinement of ResourceArena a slot handed out is any slot nobody holds. *)
(***************************************************************************)
EXTENDS Naturals, FiniteSets

CONSTANTS Variables,   \* CVariable objects the variable pool can hold
          Values,      \* IValue objects the value pool can hold
          Holders,     \* frames, capture maps and modules that keep pointers
          Null         \* nullptr

ASSUME ValueStoreAssumption ==
  /\ IsFiniteSet(Holders)
  /\ Null \notin Variables /\ Null \notin Values

VARIABLES liveVars,   \* variables acquired from their pool
          liveVals,   \* values acquired from their pool
          value,      \* CVariable::m_pValue
          refCount,   \* CVariable::m_uRefCount
          owner,      \* IValue::m_pOwner
          refs        \* <<holder, variable>>: the counted pointers

vars == <<liveVars, liveVals, value, refCount, owner, refs>>

Holding(v) == {h \in Holders : <<h, v>> \in refs}
Temporaries == {x \in liveVals : owner[x] = Null}

\* A fresh CVariable has a count of one and no value; what a fresh IValue's
\* owner field says does not matter, as AcquireNewValue resets it.
Init ==
  /\ liveVars = {} /\ liveVals = {} /\ refs = {}
  /\ value = [v \in Variables |-> Null]
  /\ refCount = [v \in Variables |-> 1]
  /\ owner = [x \in Values |-> Null]

-----------------------------------------------------------------------------
(* Mistakes the runs notice when they replace the operation. *)

\* Copy without m_uRefCount++.
ShareUncounted(g, h, v) ==
  /\ <<g, v>> \in refs /\ <<h, v>> \notin refs
  /\ refs' = refs \cup {<<h, v>>}
  /\ UNCHANGED <<liveVars, liveVals, value, refCount, owner>>

\* FreeVariable without "var->RefCount() = 1".
DropUnreset(h, v) ==
  /\ <<h, v>> \in refs
  /\ refs' = refs \ {<<h, v>>}
  /\ refCount' = [refCount EXCEPT ![v] = @ - 1]
  /\ IF refCount[v] # 1 THEN UNCHANGED <<liveVars, liveVals, value, owner>>
     ELSE /\ liveVals' = liveVals \ {value[v]}
          /\ owner' = [owner EXCEPT ![value[v]] = Null]
          /\ value' = [value EXCEPT ![v] = Null]
          /\ liveVars' = liveVars \ {v}

\* An assignment that stores the operand instead of a copy.
AssignAlias(lhs, rhs, x) ==
  /\ lhs \in liveVals /\ rhs \in liveVals /\ lhs # rhs
  /\ owner[lhs] # Null
  /\ x \notin liveVals
  /\ value' = [value EXCEPT ![owner[lhs]] = rhs]
  /\ owner' = [owner EXCEPT ![rhs] = owner[lhs]]
  /\ liveVals' = liveVals \ {lhs}
  /\ UNCHANGED <<liveVars, refCount, refs>>

-----------------------------------------------------------------------------
\* CVariable::Construct(runtime, v): a variable with one reference, kept by
\* h, that takes over value x.
Adopt(h, v, x) ==
  /\ v \notin liveVars
  /\ liveVars' = liveVars \cup {v}
  /\ refCount' = [refCount EXCEPT ![v] = 1]
  /\ value' = [value EXCEPT ![v] = x]
  /\ owner' = [owner EXCEPT ![x] = v]
  /\ refs' = refs \cup {<<h, v>>}

\* Variables a frame declares start undefined, and so do a module's globals.
NewVariable(h, v, x) ==
  /\ x \notin liveVals
  /\ liveVals' = liveVals \cup {x}
  /\ Adopt(h, v, x)

\* The callee takes ownership of a temporary argument.
BindArgument(h, v, x) ==
  /\ x \in Temporaries
  /\ Adopt(h, v, x)
  /\ UNCHANGED liveVals

\* A literal, an operator's result, a copied argument or return value.
NewTemporary(x) ==
  /\ x \notin liveVals
  /\ liveVals' = liveVals \cup {x}
  /\ owner' = [owner EXCEPT ![x] = Null]
  /\ UNCHANGED <<liveVars, value, refCount, refs>>

\* "if (!v->HasOwner()) v->Release()" wherever an expression is done with.
ReleaseTemporary(x) ==
  /\ x \in Temporaries
  /\ liveVals' = liveVals \ {x}
  /\ owner' = [owner EXCEPT ![x] = Null]
  /\ UNCHANGED <<liveVars, value, refCount, refs>>

\* CVariable::Copy: a closure keeps a pointer to somebody's variable.
Share(g, h, v) ==
  /\ <<g, v>> \in refs /\ <<h, v>> \notin refs
  /\ refCount' = [refCount EXCEPT ![v] = @ + 1]
  /\ refs' = refs \cup {<<h, v>>}
  /\ UNCHANGED <<liveVars, liveVals, value, owner>>

\* CVariable::Release by h.  The last reference frees the value, then the
\* variable, whose count FreeVariable resets to one for its next life.
Drop(h, v) ==
  /\ <<h, v>> \in refs
  /\ refs' = refs \ {<<h, v>>}
  /\ \/ /\ refCount[v] # 1
        /\ refCount' = [refCount EXCEPT ![v] = @ - 1]
        /\ UNCHANGED <<liveVars, liveVals, value, owner>>
     \/ /\ refCount[v] = 1
        /\ liveVals' = liveVals \ {value[v]}
        /\ owner' = [owner EXCEPT ![value[v]] = Null]
        /\ value' = [value EXCEPT ![v] = Null]
        /\ refCount' = [refCount EXCEPT ![v] = 1]
        /\ liveVars' = liveVars \ {v}

\* lhs = rhs: OP_ASSIGNMENT copies rhs into x and hands x to the owner of
\* lhs through SetValue, which frees lhs.  The freed lhs then gets its owner
\* back, so that Evaluate, which releases operands without an owner, leaves
\* it alone; an rhs without an owner is released.
Assign(lhs, rhs, x) ==
  /\ lhs \in liveVals /\ rhs \in liveVals /\ lhs # rhs
  /\ owner[lhs] # Null
  /\ x \notin liveVals
  /\ value' = [value EXCEPT ![owner[lhs]] = x]
  /\ owner' = [owner EXCEPT ![x] = owner[lhs]]
  /\ liveVals' = (liveVals \cup {x}) \ ({lhs} \cup ({rhs} \cap Temporaries))
  /\ UNCHANGED <<liveVars, refCount, refs>>

Next ==
  \/ \E h \in Holders, v \in Variables, x \in Values :
       NewVariable(h, v, x) \/ BindArgument(h, v, x)
  \/ \E x \in Values : NewTemporary(x) \/ ReleaseTemporary(x)
  \/ \E g, h \in Holders, v \in Variables : Share(g, h, v)
  \/ \E h \in Holders, v \in Variables : Drop(h, v)
  \/ \E lhs, rhs, x \in Values : Assign(lhs, rhs, x)

Spec == Init /\ [][Next]_vars

-----------------------------------------------------------------------------
\* Pointers of holders lead to variables in use, never into the pool.
TypeOK ==
  /\ liveVars \subseteq Variables /\ liveVals \subseteq Values
  /\ value \in [Variables -> Values \cup {Null}]
  /\ refCount \in [Variables -> Nat]
  /\ owner \in [Values -> Variables \cup {Null}]
  /\ refs \subseteq Holders \X liveVars

\* Variables and their values point at each other, and no live value names
\* an owner that does not have it: the evaluator decides by the owner field
\* alone whether to release an operand (Evaluate, EvaluatePostfix, ...), so
\* a value two variables own is freed twice and one with a stale owner is
\* never freed.
OwnersAgree ==
  /\ \A v \in liveVars : value[v] \in liveVals /\ owner[value[v]] = v
  /\ \A x \in liveVals : owner[x] # Null => owner[x] \in liveVars /\ value[owner[x]] = x

\* The count of a live variable is the number of frames, closures and
\* modules that point at it, whatever the order they come and go in.
CountsAreExact ==
  \A v \in liveVars : refCount[v] = Cardinality(Holding(v)) /\ refCount[v] > 0

\* AcquireNewVariables hands pooled variables out as they lie: they must
\* carry the count of one and no value (SetValue would free a left-over one).
PooledVariablesAreReset ==
  \A v \in Variables \ liveVars : refCount[v] = 1 /\ value[v] = Null

\* When no holder is left every value still alive is a temporary some
\* expression has yet to release: variables alone leak nothing.
NothingLeaks == refs = {} => liveVars = {} /\ liveVals = Temporaries
=============================================================================
