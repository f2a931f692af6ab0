------------------------------ MODULE Closures ------------------------------
(***************************************************************************)
(* Function frames, the lambdas created in them and the variables those    *)
(* capture.  A callable value is a handle on shared contents (the captures *)
(* of one evaluation of a lambda expression); every handle counts as one   *)
(* reference on every captured variable.  A variable that holds a lambda   *)
(* capturing that same variable would keep itself alive: the linter marks  *)
(* such an assignment (CheckSelfCapture) and the runtime then drops one    *)
(* extra reference when the frame ends.                                    *)
(*                                                                         *)
(* A script is any sequence of the statements below in the running frame;  *)
(* one action is one statement with everything it releases.  Release       *)
(* cascades recursively, in the order an unordered_map happens to have,    *)
(* hence the operators from a heap to a heap and the parameter "order".    *)
(* A failed assertion of the code ends the run with "failed" set.          *)
(***************************************************************************)
EXTENDS Naturals, Sequences, FiniteSets, SequencesExt

CONSTANTS
  VarSlots, HandleSlots, ShareSlots,   \* how many objects of each kind, at most
  FnLocals,      \* variables a called function declares (main declares one)
  MaxFrames,     \* nesting of calls
  MaxStatements, \* length of a script's execution
  Habits,        \* what else scripts do: a subset of the two below
  Plain,         \* a value that is not callable
  Nothing        \* nullptr, no object

\* Reassign a variable the linter marked; store closures that keep each
\* other, or themselves by a way the linter does not see, alive.
OverwriteSelfCapture == "overwrite self-capture"
CaptureCycle         == "capture cycle"

ASSUME ClosuresAssumption ==
  /\ Habits \subseteq {OverwriteSelfCapture, CaptureCycle}
  /\ FnLocals < VarSlots

Vars    == 1 .. VarSlots
Handles == 1 .. HandleSlots
Shares  == 1 .. ShareSlots

VARIABLES
  heap,      \* variables, handles and shared contents, see Init
  frames,    \* the call stack
  executed   \* statements so far

vars == <<heap, frames, executed>>

Top == frames[Len(frames)]
Lowest(S) == CHOOSE x \in S : \A y \in S : x <= y
Free(S, used) == S \ used

\* The frame's variables, those copied from the captures of the closure it
\* runs for (CFunction::m_oStack has both), that closure's shared contents
\* and the handle it was called through, the variables captured so far, and
\* the caller's variable that takes the result.
Frame(own, borrowed, share, callee, target) ==
  [own |-> own, borrowed |-> borrowed, share |-> share, callee |-> callee,
   captured |-> {}, target |-> target]
InScope(f) == f.own \cup f.borrowed

\* A variable fresh from CVariable::Construct, holding undefined.
WithVariables(H, S) ==
  [H EXCEPT !.vars = @ \cup S,
            !.count = [v \in Vars |-> IF v \in S THEN 1 ELSE @[v]],
            !.value = [v \in Vars |-> IF v \in S THEN Plain ELSE @[v]]]

Init ==
  /\ heap = WithVariables(
       [vars |-> {}, count |-> [v \in Vars |-> 1], value |-> [v \in Vars |-> Nothing],
        selfCapturing |-> [v \in Vars |-> FALSE],
        handles |-> {}, owner |-> [h \in Handles |-> Nothing],
        share |-> [h \in Handles |-> Nothing],
        captures |-> [s \in Shares |-> {}],
        freed |-> FALSE, failed |-> Nothing], {1})
  /\ frames = <<Frame({1}, {}, Nothing, Nothing, Nothing)>>
  /\ executed = 0

-----------------------------------------------------------------------------
(* CVariable, CCallableValue, CInternalCallableValue *)

Fail(H, why) == [H EXCEPT !.failed = why, !.freed = FALSE]
SharesInUse(H) == {H.share[h] : h \in H.handles}

HasOwnedValue(H, v) ==
  H.value[v] # Nothing /\ (H.value[v] = Plain \/ H.owner[H.value[v]] # Nothing)

RECURSIVE ReleaseVariable(_, _, _), ReleaseHandle(_, _, _)

\* CVariable::Release; "freed" is its return value.
ReleaseVariable(H, v, order) ==
  IF H.failed # Nothing THEN H
  ELSE CASE H.count[v] = 0 -> Fail(H, "m_uRefCount > 0")
         [] H.count[v] > 1 -> [H EXCEPT !.count[v] = @ - 1, !.freed = FALSE]
         [] H.count[v] = 1 /\ ~HasOwnedValue(H, v) -> Fail(H, "v && v->HasOwner()")
         [] OTHER ->
              LET G == [H EXCEPT !.count[v] = 0]
                  R == IF H.value[v] = Plain THEN G ELSE ReleaseHandle(G, H.value[v], order)
              IN  IF R.failed # Nothing THEN R
                  ELSE [R EXCEPT !.value[v] = Nothing, !.selfCapturing[v] = FALSE,
                                 !.count[v] = 1, !.vars = @ \ {v}, !.freed = TRUE]

\* thisIsProblematic: the handle dies because the marked variable that owns
\* it does.
DyingWithOwnerNever(H, h) == FALSE   \* a mistake, for a mutant
DyingWithOwner(H, h) ==
  /\ H.owner[h] # Nothing
  /\ H.selfCapturing[H.owner[h]] /\ H.count[H.owner[h]] = 0

\* CInternalCallableValue::Release for one captured variable of handle h.  A
\* handle dying with the variable that owns it skips that variable.
ReleaseCapture(H, h, dyingWithOwner, v, order) ==
  LET s == H.share[h]
      Erase(G) == [G EXCEPT !.captures[s] = @ \ {v}]
      skipped == v \notin H.captures[s] \/ (dyingWithOwner /\ H.value[v] = h)
  IN  IF H.failed # Nothing \/ skipped THEN H
      ELSE CASE H.count[v] = 0 -> Fail(H, "variable->RefCount()")
             [] H.count[v] # 0 /\ H.value[v] = Nothing -> Erase(H)
             [] OTHER ->
                  LET R == ReleaseVariable(H, v, order)
                      kept == v \in R.captures[s]
                  IN  CASE R.failed # Nothing \/ (kept /\ ~R.freed) -> R
                        [] R.failed = Nothing /\ ~kept -> Fail(R, "iterator")
                        [] R.failed = Nothing /\ kept /\ R.freed -> Erase(R)

\* ReleaseInternal and FreeValue; the shared contents die with the last
\* handle (ReleaseShared).
ReturnHandle(H, h) ==
  LET D == [H EXCEPT !.handles = @ \ {h}, !.owner[h] = Nothing, !.share[h] = Nothing]
  IN  [D EXCEPT !.captures = [s \in Shares |-> IF s \in SharesInUse(D) THEN @[s] ELSE {}]]

\* CCallableValue::Release: let go of the captures, then of the handle.
ReleaseHandle(H, h, order) ==
  LET dying == DyingWithOwner(H, h)
      R == FoldLeft(LAMBDA G, v : ReleaseCapture(G, h, dying, v, order), H, order)
  IN  IF R.failed # Nothing THEN R ELSE ReturnHandle(R, h)

\* Bug: the captured variables are not retained.
AddHandleUncounted(H, h, s) ==
  [H EXCEPT !.handles = @ \cup {h}, !.share[h] = s, !.owner[h] = Nothing]

\* A new handle on share s: every captured variable gains a reference.
AddHandle(H, h, s) ==
  [H EXCEPT !.handles = @ \cup {h}, !.share[h] = s, !.owner[h] = Nothing,
            !.count = [v \in Vars |-> IF v \in H.captures[s] THEN @[v] + 1 ELSE @[v]]]

NewHandle(H) == Lowest(Free(Handles, H.handles))
Copyable(H) == Free(Handles, H.handles) # {}

\* A mistake, for a mutant: the contents go with the handle, though other
\* handles share them.
SetValueClearing(H, v, x, order) ==
  LET old == H.value[v]
      R == IF old = Plain THEN H
           ELSE [ReleaseHandle([H EXCEPT !.owner[old] = Nothing], old, order)
                   EXCEPT !.captures[H.share[old]] = {}]
  IN  IF x = Plain THEN [R EXCEPT !.value[v] = Plain]
      ELSE [R EXCEPT !.value[v] = x, !.owner[x] = v]

\* CVariable::SetValue: the old value loses its owner before it is released.
SetValue(H, v, x, order) ==
  LET old == H.value[v]
      R == IF old = Plain THEN H
           ELSE ReleaseHandle([H EXCEPT !.owner[old] = Nothing], old, order)
  IN  IF R.failed # Nothing THEN R
      ELSE IF x = Plain THEN [R EXCEPT !.value[v] = Plain]
      ELSE [R EXCEPT !.value[v] = x, !.owner[x] = v]

\* OP_ASSIGNMENT of value x (a handle or Plain) to v: a copy goes into v.
AssignCopyOf(H, v, x, order) ==
  IF x = Plain THEN SetValue(H, v, Plain, order)
  ELSE LET h == NewHandle(H) IN SetValue(AddHandle(H, h, H.share[x]), v, h, order)

\* An operand without an owner is released by the expression that used it.
Discard(H, x, order) ==
  IF x = Plain \/ H.failed # Nothing THEN H ELSE ReleaseHandle(H, x, order)

-----------------------------------------------------------------------------
(* What a script may do, depending on its habits. *)

CapturesOf(x) == IF x = Plain THEN {} ELSE heap.captures[heap.share[x]]
Successors(S) == UNION {IF heap.value[v] = Nothing THEN {} ELSE CapturesOf(heap.value[v]) : v \in S}
Reachable(S) ==
  LET step[n \in 0 .. VarSlots] ==
        IF n = 0 THEN S ELSE step[n - 1] \cup Successors(step[n - 1])
  IN  step[VarSlots]

\* No variable is assigned while the result of a running call is meant for
\* it: the operand on the left was evaluated first (see ExpressionEval).
MayAssign(v, captured) ==
  /\ \A i \in 1 .. Len(frames) : frames[i].target # v
  /\ OverwriteSelfCapture \in Habits \/ ~heap.selfCapturing[v]
  /\ CaptureCycle \in Habits \/ v \notin Reachable(captured)

Orders == {s \in [1 .. VarSlots -> Vars] : \A i, j \in 1 .. VarSlots : s[i] = s[j] => i = j}

Running ==
  /\ frames # <<>> /\ heap.failed = Nothing /\ executed < MaxStatements
  /\ executed' = executed + 1

\* v = 5;
AssignPlain(v) ==
  /\ Running /\ v \in InScope(Top) /\ MayAssign(v, {})
  /\ \E order \in Orders : heap' = SetValue(heap, v, Plain, order)
  /\ UNCHANGED frames

\* v = w;  (v = v does nothing)
AssignVariable(v, w) ==
  /\ Running /\ v \in InScope(Top) /\ w \in InScope(Top) /\ v # w
  /\ MayAssign(v, CapturesOf(heap.value[w])) /\ Copyable(heap)
  /\ \E order \in Orders : heap' = AssignCopyOf(heap, v, heap.value[w], order)
  /\ UNCHANGED frames

\* GetSharedOwnershipVariables: a lambda captures every variable of the
\* function that a lambda up to and including itself mentions.
SharedOwnershipVariables(mentioned) == mentioned \cup Top.captured

\* IsSelfReferencingCapture: v = lambda marks v when the lambda captures v.
MarkSelfCapture(H, v, captured) == [H EXCEPT !.selfCapturing[v] = @ \/ v \in captured]

\* v = () => ...;  in a function.  Lambdas written inside lambdas capture
\* nothing and are left out.
AssignLambda(v, mentioned) ==
  LET captured == SharedOwnershipVariables(mentioned)
      H == MarkSelfCapture(heap, v, captured)
      s == Lowest(Free(Shares, SharesInUse(heap)))
      t == NewHandle(H)
      L == AddHandle([H EXCEPT !.captures[s] = captured], t, s)
  IN  /\ Running /\ Top.share = Nothing /\ v \in Top.own /\ mentioned \subseteq Top.own
      /\ MayAssign(v, captured \ {v})
      /\ Free(Shares, SharesInUse(heap)) # {} /\ Copyable(heap) /\ Copyable(L)
      /\ \E order \in Orders :
           heap' = Discard(AssignCopyOf(L, v, t, order), t, order)
      /\ frames' = [frames EXCEPT ![Len(frames)].captured = captured]

\* target = maker();  or  maker();  for a function of the script.
CallFunction(target) ==
  /\ Running /\ Len(frames) < MaxFrames
  /\ target \in InScope(Top) \cup {Nothing}
  /\ target # Nothing => MayAssign(target, {})
  /\ Cardinality(Free(Vars, heap.vars)) >= FnLocals
  /\ LET own == CHOOSE S \in SUBSET Free(Vars, heap.vars) : Cardinality(S) = FnLocals
     IN  /\ heap' = WithVariables(heap, own)
         /\ frames' = Append(frames, Frame(own, {}, Nothing, Nothing, target))

\* target = v();  or  v();  where v holds a closure.
CallClosure(v, target) ==
  /\ Running /\ Len(frames) < MaxFrames
  /\ v \in InScope(Top) /\ heap.value[v] # Plain
  /\ target \in InScope(Top) \cup {Nothing}
  /\ target # Nothing => MayAssign(target, {}) /\ target # v
  /\ LET x == heap.value[v]
     IN  frames' = Append(frames, Frame({}, CapturesOf(x), heap.share[x], x, target))
  /\ UNCHANGED heap

\* A mistake, for a mutant: marked variables are released like the others.
LeaveFrameOnce(H, f, order) ==
  FoldLeft(LAMBDA G, v : IF v \in f.own THEN ReleaseVariable(G, v, order) ELSE G, H, order)

\* The end of CRuntimeFunction::Execute: each variable of the stack that is
\* not one of the closure's captures is released, twice if it is marked.  The
\* caller then looks at the closure again.
LeaveFrame(H, f, order) ==
  LET captures(G) == IF f.share = Nothing THEN {} ELSE G.captures[f.share]
      ReleaseOwn(G, v) ==
        IF v \notin InScope(f) \ captures(G) THEN G
        ELSE LET R == ReleaseVariable(G, v, order)
             IN  IF R.selfCapturing[v] THEN ReleaseVariable(R, v, order) ELSE R
      calleeGone(G) ==
        f.callee # Nothing /\ (f.callee \notin G.handles \/ G.share[f.callee] # f.share)
  IN  IF calleeGone(H) THEN Fail(H, "operand->GetAllocator()")
      ELSE LET R == FoldLeft(ReleaseOwn, H, order)
           IN  IF R.failed = Nothing /\ calleeGone(R)
               THEN Fail(R, "operand->GetAllocator()") ELSE R

\* return w;  or  return 5;  and what the caller does with the result: it is
\* assigned or discarded; main's is released by the host.
Return(w) ==
  LET f == Top
      plain == w = Nothing \/ heap.value[w] = Plain
      r == IF plain THEN Plain ELSE NewHandle(heap)
      H == IF plain THEN heap ELSE AddHandle(heap, r, heap.share[heap.value[w]])
  IN  /\ Running
      /\ w \in InScope(f) \cup {Nothing}
      /\ ~plain => Copyable(heap)
      /\ f.target # Nothing /\ ~plain =>
           /\ Copyable(H)
           /\ CaptureCycle \in Habits \/ f.target \notin Reachable(CapturesOf(heap.value[w]))
      /\ \E order \in Orders :
           LET L == LeaveFrame(H, f, order)
           IN  heap' = IF L.failed # Nothing THEN L
                       ELSE Discard(IF f.target = Nothing THEN L
                                    ELSE AssignCopyOf(L, f.target, r, order), r, order)
      /\ frames' = SubSeq(frames, 1, Len(frames) - 1)

Next ==
  \/ \E v \in Vars : AssignPlain(v)
  \/ \E v, w \in Vars : AssignVariable(v, w)
  \/ \E v \in Vars, mentioned \in SUBSET Vars : AssignLambda(v, mentioned)
  \/ \E target \in Vars \cup {Nothing} : CallFunction(target)
  \/ \E v \in Vars, target \in Vars \cup {Nothing} : CallClosure(v, target)
  \/ \E w \in Vars \cup {Nothing} : Return(w)

Spec == Init /\ [][Next]_vars

-----------------------------------------------------------------------------
\* In particular a handle in the pool has no owner and no contents.
TypeOK ==
  /\ heap.vars \subseteq Vars /\ heap.handles \subseteq Handles
  /\ heap.count \in [Vars -> Nat]
  /\ heap.value \in [Vars -> Handles \cup {Plain, Nothing}]
  /\ heap.owner \in [Handles -> Vars \cup {Nothing}]
  /\ heap.share \in [Handles -> Shares \cup {Nothing}]
  /\ heap.captures \in [Shares -> SUBSET Vars]
  /\ \A h \in Handles \ heap.handles : heap.owner[h] = Nothing /\ heap.share[h] = Nothing
  /\ Len(frames) <= MaxFrames

\* No assertion on the way of a release fails: no variable is released more
\* often than it was retained, no closure disappears under its own call, and
\* no capture map changes under the loop that walks it.
AssertionsHold == heap.failed = Nothing

\* A called closure is still there when its call returns (the assertion at
\* the end of EvaluatePostfix's call, stated for scripts with habits).
CalleeSurvivesCall == heap.failed # "operand->GetAllocator()"

\* Whatever a frame or a living closure can name is alive: returned closures
\* keep the variables of the frame that made them.
NoDanglingVariable ==
  heap.failed = Nothing =>
    /\ \A i \in 1 .. Len(frames) : InScope(frames[i]) \subseteq heap.vars
    /\ \A s \in SharesInUse(heap) : heap.captures[s] \subseteq heap.vars

\* One reference per frame and per handle that captures the variable; the
\* handle a marked variable holds on itself stops counting when its frame is
\* gone, which is what the second release at the end of the frame is for.
CountsAreExact ==
  heap.failed = Nothing =>
    \A v \in heap.vars :
      LET inFrame == {i \in 1 .. Len(frames) : v \in frames[i].own}
          holders == {h \in heap.handles : v \in heap.captures[heap.share[h]]}
          weak == /\ inFrame = {} /\ heap.selfCapturing[v]
                  /\ heap.value[v] \in holders
      IN  heap.count[v] + (IF weak THEN 1 ELSE 0) = Cardinality(inFrame) + Cardinality(holders)

\* The heap between two statements: what is named is alive, and counted exactly,
\* so that the release that brings a count to zero is the last one.
HeapIsSound == TypeOK /\ NoDanglingVariable /\ CountsAreExact

\* HasLeaks is false once main has returned and its result is released.
NothingLeaks == frames = <<>> /\ heap.failed = Nothing => heap.vars = {} /\ heap.handles = {}

\* A closure that somebody can still call never loses a captured variable:
\* the next call would not find it, and the running one would release it as
\* one of its own ("captures.contains").
CapturesAreKept ==
  [][\A h \in heap.handles \cap heap'.handles :
       heap'.share[h] = heap.share[h] =>
         heap.captures[heap.share[h]] = heap'.captures[heap.share[h]]]_vars
=============================================================================
