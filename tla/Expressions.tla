----------------------------- MODULE Expressions -----------------------------
(***************************************************************************)
(* CRuntimeExpression: the evaluation of an expression statement, with     *)
(* every value it takes from the pools and gives back to them.             *)
(*                                                                         *)
(* Evaluate returns a pointer: to the value of a variable, or to a         *)
(* temporary that whoever gets it has to release.  Nobody but the owner    *)
(* field tells the two apart, and pointers are held while further operands *)
(* are evaluated.  Operators on constants are replaced by their result in  *)
(* the tree, which the statement evaluates again the next time.            *)
(*                                                                         *)
(* Values are ints of two bits and booleans, each type with its own pool,  *)
(* last in, first out.  Functions are called without arguments: they       *)
(* return 1, do so after assigning 3 to x, or throw.  Immutability, the    *)
(* other types and the other operators are left out.                       *)
(***************************************************************************)
EXTENDS Naturals, Sequences, FiniteSets

CONSTANTS MaxHeight, \* bound: nesting of operators
          Sources,   \* expressions a script may have
          Habits,    \* what its expressions do beyond the safe, see Told
          Runs       \* how often the statement is executed

Value(type, data) == [type |-> type, data |-> data]
Node(op, arg, kids) == [op |-> op, arg |-> arg, kids |-> kids]
None == 0
True == Value("bool", 1)

Types == {"int", "bool"}
Values == [type : Types, data : 0..3]
Variables == {"x", "y", "b"}
Functions == {"get", "set", "fail"}

Leaf == {"const", "var", "call"}
Unary == {"neg", "x++"}
Foldable == {"+", "||", "&&"}
Binary == Foldable \cup {"=", "+=", ","}

Leaves ==
  {Node("const", value, <<>>) : value \in Values} \cup {Node("var", x, <<>>) : x \in Variables}
  \cup {Node("call", f, <<>>) : f \in Functions}
Nodes(ops, arity, S) == [op : ops, arg : {None}, kids : [1..arity -> S]]
Nested[n \in 0..MaxHeight] ==
  IF n = 0 THEN Leaves
  ELSE Leaves \cup Nodes(Unary, 1, Nested[n - 1]) \cup Nodes(Binary, 2, Nested[n - 1])
              \cup Nodes({"?"}, 3, Nested[n - 1])
Expressions == Nested[MaxHeight]

ASSUME ExpressionsAssumption ==
  /\ MaxHeight \in Nat /\ Sources \subseteq Expressions
  /\ Habits \subseteq {"assignWithin", "throwWithin", "raiseAfterFold"}

VARIABLES heap,      \* pools, variables, pending exception: see Init
          source,    \* the statement as it was parsed
          tree,      \* the statement as the evaluator has rewritten it
          before,    \* values of the variables before the last execution
          outcome,   \* what the last execution came to
          runs       \* executions so far
vars == <<heap, source, tree, before, outcome, runs>>

Contents(h) == [v \in DOMAIN h.var |-> Value(h.slots[h.var[v]].type, h.slots[h.var[v]].data)]
IsConstant(e) == e.op = "const"
Shortcut == [op \in {"||", "&&"} |-> IF op = "||" THEN 1 ELSE 0]

-----------------------------------------------------------------------------
(* What the language promises: an operand is a value or a variable, and    *)
(* operators see the variables as they are when all operands are there.    *)

Deref(m, env) == IF m.out = "variable" THEN env[m.val] ELSE m.val
Means(out, val, env) == [out |-> out, val |-> val, env |-> env]
Stops(m) == m.out \in {"error", "thrown"}

Sum(a, b) ==
  CASE a.type = "bool" /\ b.type = "bool" -> Value("bool", IF a.data + b.data > 0 THEN 1 ELSE 0)
    [] OTHER -> Value("int", (a.data + b.data) % 4)
Connected(op, a, b) ==
  Value("bool", IF op = "||" THEN (IF a.data # 0 \/ b.data # 0 THEN 1 ELSE 0)
                             ELSE (IF a.data # 0 /\ b.data # 0 THEN 1 ELSE 0))

MeaningOfCall(f, env) ==
  CASE f = "get"  -> Means("value", Value("int", 1), env)
    [] f = "set"  -> Means("value", Value("int", 1), [env EXCEPT !["x"] = Value("int", 3)])
    [] f = "fail" -> Means("thrown", None, env)

MeaningOfOne(op, m) ==
  LET a == Deref(m, m.env)
  IN CASE Stops(m) -> m
       [] op = "neg" /\ ~Stops(m) ->
            IF a.type = "int" THEN Means("value", Value("int", (4 - a.data) % 4), m.env)
            ELSE Means("error", None, m.env)
       [] op = "x++" /\ ~Stops(m) ->
            IF a.type = "int" /\ m.out = "variable"
            THEN Means("value", a, [m.env EXCEPT ![m.val].data = (@ + 1) % 4])
            ELSE Means("error", None, m.env)

MeaningOfTwo(op, l, r) ==
  LET a == Deref(l, r.env)
      b == Deref(r, r.env)
      stored == IF op = "=" THEN b ELSE Sum(a, b)
  IN CASE op = "+" -> Means("value", Sum(a, b), r.env)
       [] op \in DOMAIN Shortcut -> Means("value", Connected(op, a, b), r.env)
       [] OTHER -> IF l.out = "variable" /\ (op = "=" \/ (a.type = "int" /\ b.type = "int"))
                   THEN Means("variable", l.val, [r.env EXCEPT ![l.val] = stored])
                   ELSE Means("error", None, r.env)

MeaningOfLeaf(e, env) ==
  CASE e.op = "const" -> Means("value", e.arg, env)
    [] e.op = "var" -> Means("variable", e.arg, env)
    [] e.op = "call" -> MeaningOfCall(e.arg, env)

\* What e means, by what its operands mean.
MeaningBy(e, kid, env) ==
  LET l == kid[1][env]
      a == Deref(l, l.env)
      r == kid[2][l.env]
  IN IF e.op \in Leaf THEN MeaningOfLeaf(e, env)
     ELSE IF e.op \in Unary THEN MeaningOfOne(e.op, l)
     ELSE IF Stops(l) THEN l
     ELSE IF e.op = "," THEN r
     ELSE IF e.op = "?" THEN kid[IF a.data # 0 THEN 2 ELSE 3][l.env]
     ELSE IF e.op \in DOMAIN Shortcut /\ (a.data # 0) = (e.op = "||")
          THEN Means("value", Value("bool", Shortcut[e.op]), l.env)
     ELSE IF Stops(r) THEN r
     ELSE MeaningOfTwo(e.op, l, r)

Environments == [Variables -> Values]
MeaningFrom(e, kid) == [env \in Environments |-> MeaningBy(e, kid, env)]
Meaning[e \in Expressions] == MeaningFrom(e, [k \in DOMAIN e.kids |-> Meaning[e.kids[k]]])

-----------------------------------------------------------------------------
(* Habits: expressions the evaluator does not get right.  They are told by *)
(* what is told of the operands, a, b and c, without evaluating anything.  *)

\* The variables whose value the pointer of an expression may lead to.
Targets(e, a, b, c) ==
  CASE e.op = "var" -> {e.arg}
    [] e.op \in {"=", "+="} -> a.targets
    [] e.op = "," -> b.targets
    [] e.op = "?" -> b.targets \cup c.targets
    [] OTHER -> {}

\* The variables an expression may give a new value object.
Replaced(e, a, all) ==
  (UNION {k.replaced : k \in all})
  \cup (IF e.op = "=" THEN a.targets ELSE IF e.op = "call" /\ e.arg = "set" THEN {"x"} ELSE {})

\* Its result may be no variable, and be a boolean.
Temporary(e, a, b, c) ==
  CASE e.op \in {"var", "=", "+="} -> FALSE
    [] e.op = "," -> b.temporary
    [] e.op = "?" -> b.temporary \/ c.temporary
    [] OTHER -> TRUE
Boolean(e, a, b, c) ==
  CASE e.op = "const" -> e.arg.type = "bool"
    [] e.op \in Unary \cup {"call"} -> FALSE
    [] e.op = "+" -> a.boolean /\ b.boolean
    [] e.op = "," -> b.boolean
    [] e.op = "?" -> b.boolean \/ c.boolean
    [] OTHER -> TRUE

Throws(e, all) == (e.op = "call" /\ e.arg = "fail") \/ \E k \in all : k.throws
Folds(e, kid) == e.op \in Foldable /\ \A k \in DOMAIN e.kids : IsConstant(e.kids[k]) \/ kid[k].folds

\* The operands that may have been evaluated last.
LastOperands(e) ==
  CASE e.op \in Leaf -> {}
    [] e.op \in Unary -> {1}
    [] e.op = "?" -> {2, 3}
    [] e.op \in DOMAIN Shortcut -> {1, 2}
    [] OTHER -> {2}
\* The node evaluated last may have been folded away.
Gone(e, kid) == Folds(e, kid) \/ \E k \in LastOperands(e) : kid[k].gone

\* x + (x = 5): the left pointer leads to the value the assignment released.
AssignsWithin(e, a, b) ==
  e.op \in Foldable \cup {"=", "+="} /\ a.targets \cap b.replaced # {}
\* -f(): what f throws is used as an operand, and released as a temporary.
ThrowsWithin(e, a) == e.op \in Unary \cup DOMAIN Shortcut \cup {",", "?"} /\ a.throws
\* -(true + true): the error is placed at a node that has been folded away.
RaisesAfterFold(e, a, b) ==
  \/ e.op = "neg" /\ a.gone /\ a.boolean
  \/ e.op = "x++" /\ a.gone /\ (a.boolean \/ a.temporary)
  \/ e.op = "=" /\ b.gone /\ a.temporary
  \/ e.op = "+=" /\ b.gone

HabitsWithin(e, a, b, all) ==
  (UNION {k.habits : k \in all})
  \cup {habit \in {"assignWithin", "throwWithin", "raiseAfterFold"} :
          \/ habit = "assignWithin" /\ AssignsWithin(e, a, b)
          \/ habit = "throwWithin" /\ ThrowsWithin(e, a)
          \/ habit = "raiseAfterFold" /\ RaisesAfterFold(e, a, b)}

ToldFrom(e, kid) ==
  LET a == kid[1]
      b == kid[2]
      c == kid[3]
      all == {kid[k] : k \in DOMAIN e.kids}
  IN [targets |-> Targets(e, a, b, c), replaced |-> Replaced(e, a, all),
      temporary |-> Temporary(e, a, b, c), boolean |-> Boolean(e, a, b, c),
      throws |-> Throws(e, all), folds |-> Folds(e, kid),
      gone |-> Gone(e, kid), habits |-> HabitsWithin(e, a, b, all)]
Told[e \in Expressions] == ToldFrom(e, [k \in DOMAIN e.kids |-> Told[e.kids[k]]])

-----------------------------------------------------------------------------
(* Pools: AcquireNewValue, Release, FreeValue. *)

Slots == [type : Types, data : 0..3, owner : Variables \cup {""}, live : BOOLEAN]
Heaps == [slots : Seq(Slots), free : [Types -> Seq(Nat)], var : [Variables -> Nat], exception : Nat,
          error : BOOLEAN, placed : BOOLEAN, lost : BOOLEAN, stale : BOOLEAN]

Slot(value) == [type |-> value.type, data |-> value.data, owner |-> "", live |-> TRUE]
Datum(h, v) == Value(h.slots[v].type, h.slots[v].data)
HasOwner(h, v) == h.slots[v].owner # ""

Done(h, v, t) == [h |-> h, v |-> v, t |-> t]

\* The value last released comes out first; AcquireNewValue clears its owner.
Construct(h, value, t) ==
  LET pool == h.free[value.type]
      v == IF pool = <<>> THEN Len(h.slots) + 1 ELSE pool[Len(pool)]
  IN Done([h EXCEPT !.slots = IF pool = <<>> THEN Append(@, Slot(value)) ELSE [@ EXCEPT ![v] = Slot(value)],
                    !.free[value.type] = IF pool = <<>> THEN @ ELSE SubSeq(@, 1, Len(@) - 1)], v, t)

\* Releasing a value of the pool again is what stale records.
Release(h, v) ==
  [h EXCEPT !.stale = @ \/ ~h.slots[v].live,
            !.slots[v].live = FALSE,
            !.slots[v].owner = "",
            !.free[h.slots[v].type] = Append(@, v)]

\* Mutant: the owner field is not asked.
ReleaseAnyway(h, v) == IF h.error THEN h ELSE Release(h, v)

\* "if (!v->HasOwner()) v->Release()"
ReleaseTemporary(h, v) == IF h.error \/ HasOwner(h, v) THEN h ELSE Release(h, v)

\* CVariable::SetValue
SetValue(h, x, v) ==
  LET released == Release(h, h.var[x])
  IN [released EXCEPT !.var[x] = v, !.slots[v].owner = x]

\* CRuntimeError takes the position the runtime points at.
RuntimeError(h, t) == Done([h EXCEPT !.error = TRUE, !.lost = @ \/ ~h.placed], None, t)

\* An operand that is looked at.
Seen(h, v) == [h EXCEPT !.stale = @ \/ ~h.slots[v].live]

Init ==
  /\ heap = [slots |-> <<[Slot(Value("int", 1)) EXCEPT !.owner = "x"],
                         [Slot(Value("int", 2)) EXCEPT !.owner = "y"],
                         [Slot(True) EXCEPT !.owner = "b"]>>,
             free |-> [type \in Types |-> <<>>],
             var |-> [x |-> 1, y |-> 2, b |-> 3],
             exception |-> None,  \* GetExceptionValue, with ExceptionThrown
             error |-> FALSE,     \* a CRuntimeError is on its way
             placed |-> TRUE,     \* m_pCodePosition leads to a node of the tree
             lost |-> FALSE,      \* a CRuntimeError has read it when it did not
             stale |-> FALSE]     \* a released value has been read or released
  /\ source \in {e \in Sources : Told[e].habits \subseteq Habits}
  /\ tree = source
  /\ before = Contents(heap)
  /\ outcome = Means("value", None, before)
  /\ runs = 0

-----------------------------------------------------------------------------
(* Operators *)

\* OP_ASSIGNMENT copies, and gives the released value its owner back, so that
\* Evaluate does not release it again.
OP_ASSIGNMENT(h, l, r, t) ==
  LET x == h.slots[l].owner
      copy == Construct(h, Datum(h, r), t)
      set == SetValue(copy.h, x, copy.v)
  IN CASE x = "" -> RuntimeError(h, t)
       [] x # "" /\ l = r -> Done(h, l, t)
       [] x # "" /\ l # r -> Done([set EXCEPT !.slots[l].owner = x], set.var[x], t)

\* In place, and of ints only.
OP_ASSIGNMENT_ADDITION(h, l, r, t) ==
  IF HasOwner(h, l) /\ h.slots[l].type = "int" /\ h.slots[r].type = "int"
  THEN Done([h EXCEPT !.slots[l].data = (@ + h.slots[r].data) % 4], l, t)
  ELSE RuntimeError(h, t)

\* Coerce allocates a copy of the weaker operand, which is released at last.
OP_ADDITION(h, l, r, t) ==
  LET weaker == IF h.slots[l].type = "bool" THEN l ELSE r
      coerced == Construct(h, Value("int", h.slots[weaker].data), t)
      mixed == Construct(coerced.h, Sum(Datum(h, l), Datum(h, r)), t)
  IN IF h.slots[l].type = h.slots[r].type THEN Construct(h, Sum(Datum(h, l), Datum(h, r)), t)
     ELSE Done(Release(mixed.h, coerced.v), mixed.v, t)

Operate(op, h, l, r, t) ==
  LET seen == Seen(Seen(h, l), r)
  IN CASE op = "=" -> OP_ASSIGNMENT(seen, l, r, t)
       [] op = "+=" -> OP_ASSIGNMENT_ADDITION(seen, l, r, t)
       [] op = "+" -> OP_ADDITION(seen, l, r, t)
       [] op \in DOMAIN Shortcut -> Construct(seen, Connected(op, Datum(h, l), Datum(h, r)), t)

\* EvaluateNegation, and EvaluateIncrement of rtpostfix.cpp.
OperateOne(op, h, v, t) ==
  LET seen == Seen(h, v)
      old == Construct(seen, Datum(h, v), t)
  IN IF h.slots[v].type # "int" \/ (op = "x++" /\ ~HasOwner(h, v)) THEN RuntimeError(seen, t)
     ELSE IF op = "neg" THEN Construct(seen, Value("int", (4 - h.slots[v].data) % 4), t)
     ELSE Done([old.h EXCEPT !.slots[v].data = (@ + 1) % 4], old.v, t)

-----------------------------------------------------------------------------
(* CRuntimeExpression::Evaluate returns the heap, the pointer and the tree *)
(* it leaves behind; after a CRuntimeError nothing is done any more.       *)

\* An operator with constant operands is replaced by its result; the node the
\* runtime points at goes with it.
Folded(done) ==
  IF done.t.op \in Foldable /\ \A k \in {1, 2} : IsConstant(done.t.kids[k])
  THEN Done([done.h EXCEPT !.placed = FALSE], done.v, Node("const", Datum(done.h, done.v), <<>>))
  ELSE done

Call(h, f, t) ==
  LET assigned == Construct(h, Value("int", 3), t)
      thrown == Construct(h, True, t)
  IN CASE f = "get" -> Construct(h, Value("int", 1), t)
       [] f = "set" -> Construct(SetValue(assigned.h, "x", assigned.v), Value("int", 1), t)
       [] f = "fail" -> Done([thrown.h EXCEPT !.exception = thrown.v], thrown.v, t)

EvaluateLeaf(h, e) ==
  CASE e.op = "const" -> Construct(h, e.arg, e)
    [] e.op = "var" -> Done(h, h.var[e.arg], e)
    [] e.op = "call" -> Call(h, e.arg, e)

SetExecutionPosition(h, e) == [h EXCEPT !.placed = TRUE]

EvaluateUnary(h, e, kid) ==
  LET k == kid[1][h]
      t == Node(e.op, e.arg, <<k.t>>)
      done == OperateOne(e.op, k.h, k.v, t)
  IN IF k.h.error THEN k ELSE Done(ReleaseTemporary(done.h, k.v), done.v, t)

EvaluateSequence(h, e, kid) ==
  LET l == kid[1][h]
      r == kid[2][ReleaseTemporary(l.h, l.v)]
  IN IF l.h.error THEN l ELSE Done(r.h, r.v, Node(e.op, e.arg, <<l.t, r.t>>))

EvaluateTernary(h, e, kid) ==
  LET c == kid[1][h]
      branch == IF c.h.slots[c.v].data # 0 THEN 2 ELSE 3
      b == kid[branch][ReleaseTemporary(Seen(c.h, c.v), c.v)]
  IN IF c.h.error THEN c ELSE Done(b.h, b.v, [e EXCEPT !.kids[1] = c.t, !.kids[branch] = b.t])

\* Mutant: || and && always evaluate both operands.
NoShortcut(op, h, v) == FALSE

ConditionalShortcut(op, h, v) == op \in DOMAIN Shortcut /\ (h.slots[v].data # 0) = (op = "||")

\* Mutant: the left operand is forgotten when the right one throws.
LeftForgotten(h, v) == h

ReleaseAfterThrow(h, v) == IF v = h.exception THEN h ELSE ReleaseTemporary(h, v)

EvaluateBinary(h, e, kid) ==
  LET l == kid[1][h]
      r == kid[2][l.h]
      short == Node(e.op, e.arg, <<l.t, e.kids[2]>>)
      t == Node(e.op, e.arg, <<l.t, r.t>>)
      done == Operate(e.op, r.h, l.v, r.v, t)
  IN IF l.h.error THEN l
     ELSE IF ConditionalShortcut(e.op, l.h, l.v) THEN
       Folded(Construct(ReleaseTemporary(Seen(l.h, l.v), l.v), Value("bool", Shortcut[e.op]), short))
     ELSE IF r.h.error THEN r
     ELSE IF r.h.exception # None THEN Done(ReleaseAfterThrow(r.h, l.v), r.h.exception, t)
     ELSE IF done.h.error THEN done
     ELSE Folded(Done(ReleaseTemporary(ReleaseTemporary(done.h, l.v), r.v), done.v, t))

\* Evaluate of node e, when kid[k] is what evaluating its operand k does with a heap.
EvaluateBy(e, kid, h) ==
  LET at == SetExecutionPosition(h, e)
  IN IF h.error \/ h.exception # None THEN Done(h, h.exception, e)
     ELSE CASE e.op \in Leaf -> EvaluateLeaf(at, e)
            [] e.op \in Unary -> EvaluateUnary(at, e, kid)
            [] e.op = "," -> EvaluateSequence(at, e, kid)
            [] e.op = "?" -> EvaluateTernary(at, e, kid)
            [] OTHER -> EvaluateBinary(at, e, kid)

EvaluateFrom(e, kid) == [h \in Heaps |-> EvaluateBy(e, kid, h)]
Evaluate[e \in Expressions] == EvaluateFrom(e, [k \in DOMAIN e.kids |-> Evaluate[e.kids[k]]])

\* CRuntimeExpression::Execute, in a try block: its handler releases what was thrown.
Execute ==
  LET done == Evaluate[tree][heap]
      h == done.h
  IN /\ runs < Runs /\ ~heap.error
     /\ runs' = runs + 1
     /\ before' = Contents(heap)
     /\ tree' = done.t
     /\ heap' = CASE h.error -> h
                  [] ~h.error /\ h.exception # None -> [Release(h, h.exception) EXCEPT !.exception = None]
                  [] OTHER -> ReleaseTemporary(h, done.v)
     /\ outcome' = Means(IF h.error THEN "error" ELSE IF h.exception # None THEN "thrown" ELSE "value",
                         IF h.error \/ h.exception # None THEN None ELSE Datum(h, done.v), Contents(heap'))
     /\ UNCHANGED source

Next == Execute
Spec == Init /\ [][Next]_vars

-----------------------------------------------------------------------------

\* No value is read or released after it has gone back to its pool: the
\* evaluator holds plain pointers while other operands are evaluated.
NothingStale == ~heap.stale

\* After a statement the values of the variables are all that is not in a pool,
\* whatever operand threw (the releases in Evaluate, EvaluateUnary and Execute).
NothingLeaks ==
  ~heap.error => {v \in DOMAIN heap.slots : heap.slots[v].live} = {heap.var[x] : x \in DOMAIN heap.var}

\* Reference semantics: what a statement returns, throws and stores is what the
\* language promises, the second time as the first, although constant parts of
\* the tree have been replaced in between.
MeansWhatItSays ==
  runs > 0 =>
    LET m == Meaning[source][before]
    IN outcome = Means(IF Stops(m) THEN m.out ELSE "value", Deref(m, m.env), m.env)

\* An error message never takes its position from a node that was folded away.
PositionIsAlive == ~heap.lost

\* Neither values nor nodes of the tree are used after they are gone.
NothingGoneIsUsed == NothingStale /\ PositionIsAlive
=============================================================================
