------------------------------ MODULE Aggregates ------------------------------
(***************************************************************************)
(* Arrays and objects (types/array.cpp, types/object.cpp, aggregate.cpp):  *)
(* a value of such a type is a handle on a content that it shares with its *)
(* copies; the content owns a variable for every element, and these own    *)
(* values again.  When the last handle of a content is released, its       *)
(* elements are released with it.                                          *)
(*                                                                         *)
(* A step is a statement of the script.  What Evaluate does with pointers  *)
(* to values is kept: an operand is the value of a variable or element, or *)
(* a temporary, and is released as a temporary when it has no owner after  *)
(* the operator has run.                                                   *)
(*                                                                         *)
(* The variables of the script are the elements of content 0.  The child   *)
(* variables come and go with the value they hold and are not counted.     *)
(* Statements that end in a runtime error are left out.                    *)
(***************************************************************************)
EXTENDS Integers, Sequences, FiniteSets

CONSTANTS Variables,   \* number of variables of the script
          MaxContents, \* bound: contents alive at the same time
          MaxElements, \* bound: elements of a content
          Habits       \* what scripts do although it goes wrong

ASSUME AggregatesAssumption ==
  /\ Variables \in Nat \ {0} /\ MaxContents \in Nat /\ MaxElements \in Nat \ {0}
  /\ Habits \subseteq {"overwriteOwner", "cycle", "duplicateKey"}

VARIABLES contents, \* Frame, and a content for every number: its kind, elements and handles
          live,     \* values out of their pools
          twice,    \* a value has been released that was in its pool already
          op        \* history: the statement executed last, in the words of CollectedHeap

vars == <<contents, live, twice, op>>

Scalar == 0
Frame == 0
Numbers == 0..MaxContents
Keys == 1..MaxElements
Slots == 1..(IF Variables > MaxElements THEN Variables ELSE MaxElements)
Free == [kind |-> "free", elements |-> <<>>, uses |-> 0]

\* The heap as statements pass it on.
State == [contents |-> contents, live |-> live, twice |-> twice]
Exists(h, c) == h.contents[c].uses > 0
Content(h, c) == h.contents[c].elements

\* The heaps that Release is defined for.
Elements == UNION {[S -> Numbers] : S \in SUBSET Slots}
Contents == [kind : {"free", "frame", "array", "object"}, elements : Elements, uses : Int]
Heaps == [contents : [Numbers -> Contents], live : Int, twice : BOOLEAN]

Place(content, at) == [content |-> content, at |-> at]
Nowhere == Place(Frame, 0)
ValueAt(h, p) == Content(h, p.content)[p.at]

Put(elements, at, v) == [k \in DOMAIN elements \cup {at} |-> IF k = at THEN v ELSE elements[k]]
Without(elements, at) == [k \in DOMAIN elements \ {at} |-> elements[k]]

Operation(name, to, from, value, elements) ==
  [name |-> name, to |-> to, from |-> from, value |-> value, elements |-> elements]

Init ==
  /\ contents = [c \in 0..MaxContents |->
       IF c = Frame THEN [kind |-> "frame", elements |-> [x \in 1..Variables |-> Scalar], uses |-> 1]
       ELSE Free]
  /\ live = Variables
  /\ twice = FALSE
  /\ op = Operation("none", Nowhere, Nowhere, Scalar, <<>>)

-----------------------------------------------------------------------------
(* Values *)

\* IValue::Copy: of an array or object, another handle.
Copy(h, v) ==
  IF v = Scalar THEN [h EXCEPT !.live = @ + 1]
  ELSE [h EXCEPT !.live = @ + 1, !.contents[v].uses = @ + 1]

\* Mutant: the last handle goes without the elements.
ReleaseHandle(h, v) ==
  CASE v = Scalar -> [h EXCEPT !.live = @ - 1]
    [] v # Scalar /\ h.contents[v].uses = 1 -> [h EXCEPT !.live = @ - 1, !.contents[v] = Free]
    [] v # Scalar /\ h.contents[v].uses # 1 -> [h EXCEPT !.live = @ - 1, !.contents[v].uses = @ - 1]

\* The heap after a sequence of steps.
Through(h, steps) ==
  LET after[k \in 0..Len(steps)] == IF k = 0 THEN h ELSE steps[k][after[k - 1]]
  IN after[Len(steps)]

\* The elements are released one by one; "release" has a step for each value.
NoStep == [h \in Heaps |-> h]
ReleaseEach(release, h, elements) ==
  Through(h, [k \in Slots |-> IF k \in DOMAIN elements THEN release[elements[k]] ELSE NoStep])

\* IValue::Release: the last handle releases the elements before it goes.
ReleaseBy(release, h, v) ==
  CASE v = Scalar -> [h EXCEPT !.live = @ - 1]
    [] v # Scalar /\ h.contents[v].uses = 1 ->
         [ReleaseEach(release, h, Content(h, v)) EXCEPT !.live = @ - 1, !.contents[v] = Free]
    [] v # Scalar /\ h.contents[v].uses # 1 -> [h EXCEPT !.live = @ - 1, !.contents[v].uses = @ - 1]

\* Of a content and what is inside of it, n contents deep; there are not more.
Released[n \in 0..MaxContents] ==
  [v \in Numbers |-> [h \in Heaps |->
     ReleaseBy(IF n = 0 THEN [w \in Numbers |-> NoStep] ELSE Released[n - 1], h, v)]]
Release(h, v) == Released[MaxContents][v][h]

\* CVariable::SetValue: the old value is released, the new one is owned from now on.
SetValue(h, p, v) ==
  LET released == Release(h, ValueAt(h, p))
  IN [released EXCEPT !.contents[p.content].elements = Put(@, p.at, v)]

\* A new content with the elements given, which it owns, and the first handle on it.
FreeContents(h) == {c \in 1..MaxContents : ~Exists(h, c)}
NewContent(h) == CHOOSE c \in FreeContents(h) : \A d \in FreeContents(h) : c <= d
Construct(h, kind, elements) ==
  [h EXCEPT !.live = @ + 1,
            !.contents[NewContent(h)] = [kind |-> kind, elements |-> elements, uses |-> 1]]

-----------------------------------------------------------------------------
(* Operands: a pointer to the value at a place, or a temporary *)

Operand(h, p, v) == [h |-> h, place |-> p, value |-> v]
Temporary(h, v) == Operand(h, Nowhere, v)
IsTemporary(operand) == operand.place = Nowhere

\* x, x[i], x.k and so on: a variable and the elements on the way from it.
Paths == UNION {[1..n -> Slots] : n \in 1..3}

Lookup(h, path) ==
  LET variable == Place(Frame, path[1])
      In(p, at) == Place(ValueAt(h, p), at)
  IN CASE Len(path) = 1 -> variable
       [] Len(path) = 2 -> In(variable, path[2])
       [] Len(path) = 3 -> In(In(variable, path[2]), path[3])

IsPath(h, path) ==
  /\ path[1] \in 1..Variables
  /\ \A n \in 2..Len(path) :
       LET c == ValueAt(h, Lookup(h, SubSeq(path, 1, n - 1)))
       IN c # Scalar /\ path[n] \in DOMAIN Content(h, c)

PathsOf(h) == {path \in Paths : IsPath(h, path)}
OperandAt(h, path) == LET p == Lookup(h, path) IN Operand(h, p, ValueAt(h, p))

\* Evaluate: "if (!v->HasOwner()) v->Release()".  A value whose variable went with
\* its content has no owner either, and is in its pool already.
ReleaseTemporary(h, operand) ==
  IF IsTemporary(operand) THEN Release(h, operand.value)
  ELSE IF Exists(h, operand.place.content) THEN h
  ELSE [h EXCEPT !.twice = TRUE]

\* EvaluateList: what has an owner is copied, a temporary is handed on.
Listed(operand) == IF IsTemporary(operand) THEN operand.h ELSE Copy(operand.h, operand.value)

\* The values of a list literal; <<>> stands for a scalar that is written there.
ElementOf(h, path) ==
  IF path = <<>> THEN Temporary([h EXCEPT !.live = @ + 1], Scalar) ELSE OperandAt(h, path)
EvaluateList(h, list) ==
  Through(h, [k \in DOMAIN list |-> [g \in Heaps |-> Listed(ElementOf(g, list[k]))]])
ValueOf(h, path) == IF path = <<>> THEN Scalar ELSE ValueAt(h, Lookup(h, path))

Array(h, list) ==
  Temporary(Construct(EvaluateList(h, list), "array", [k \in DOMAIN list |-> ValueOf(h, list[k])]),
            NewContent(h))

\* CInternalObjectValue::Set: a key given twice gets a second variable in place of
\* the first one, which nobody releases.
LastWith(keys, key) ==
  CHOOSE k \in DOMAIN keys : keys[k] = key /\ \A j \in DOMAIN keys : keys[j] = key => j <= k
Object(h, keys, list) ==
  Temporary(Construct(EvaluateList(h, list), "object",
                      [key \in {keys[k] : k \in DOMAIN keys} |-> ValueOf(h, list[LastWith(keys, key)])]),
            NewContent(h))

\* Mutant: the element of a temporary is returned as it is.
ElementOfTemporary(h, temporary, at) ==
  Operand(Release(h, temporary), Place(temporary, at), Content(h, temporary)[at])

\* [...][i]: the element of a content nobody else has is copied before both go.
Subscript(h, temporary, at) ==
  LET v == Content(h, temporary)[at]
  IN Temporary(Release(Copy(h, v), temporary), v)

-----------------------------------------------------------------------------
(* Operators *)

\* OP_ASSIGNMENT copies the value, which then replaces the old one.
Replace(h, to, operand) == SetValue(Copy(h, operand.value), to, operand.value)

OP_ASSIGNMENT(operand, to) ==
  IF operand.place = to THEN operand.h
  ELSE ReleaseTemporary(Replace(operand.h, to, operand), operand)

\* OP_ASSIGNMENT_SWAP: both are copied before the first one is overwritten.
OP_ASSIGNMENT_SWAP(h, a, b) ==
  LET left == ValueAt(h, a)
      right == ValueAt(h, b)
  IN SetValue(SetValue(Copy(Copy(h, left), right), a, right), b, left)

-----------------------------------------------------------------------------
(* What the pass run leaves to the habits *)

\* A content and what it leads to.
References(h, c) == {Content(h, c)[k] : k \in DOMAIN Content(h, c)} \ {Scalar}
Inside(h, v) ==
  {c \in Numbers : v # Scalar /\
     \A S \in SUBSET Numbers : v \in S /\ (\A d \in S : References(h, d) \subseteq S) => c \in S}

\* A content is stored inside of itself: its handles never come to an end.
Closes(h, to, v) == to.content # Frame /\ to.content \in Inside(h, v)

\* x = x[i]: the place that is overwritten has the only handle on what the operand
\* is an element of.
OverwritesOwner(h, to, operand) ==
  LET c == ValueAt(h, to)
  IN c # Scalar /\ h.contents[c].uses = 1 /\ operand.place.content \in Inside(h, c)

-----------------------------------------------------------------------------
(* Statements *)

Becomes(h, o) ==
  /\ contents' = h.contents /\ live' = h.live /\ twice' = h.twice
  /\ op' = o

\* An operand is stored: target = operand.
Store(target, operand, o) ==
  LET to == Lookup(State, target)
  IN /\ Closes(operand.h, to, operand.value) => "cycle" \in Habits
     /\ Becomes(OP_ASSIGNMENT(operand, to), o)

\* target = source, another place or a scalar.
Assign(target, source) ==
  LET to == Lookup(State, target)
      operand == ElementOf(State, source)
  IN /\ OverwritesOwner(State, to, operand) => "overwriteOwner" \in Habits
     /\ Store(target, operand, Operation("put", to, Nowhere, operand.value, <<>>))

Creates(target, operand) ==
  LET c == operand.value
  IN Store(target, operand,
           Operation("new", Lookup(State, target), Nowhere, c, Content(operand.h, c)))

\* target = [...]
AssignArray(target, list) == FreeContents(State) # {} /\ Creates(target, Array(State, list))

\* target = { key: ..., ... }
AssignObject(target, keys, list) ==
  /\ FreeContents(State) # {} /\ Len(keys) = Len(list)
  /\ "duplicateKey" \in Habits \/ \A j, k \in DOMAIN keys : keys[j] = keys[k] => j = k
  /\ Creates(target, Object(State, keys, list))

\* target = [source][0]
AssignElement(target, source) ==
  /\ FreeContents(State) # {}
  /\ LET array == Array(State, <<source>>)
         element == Subscript(array.h, array.value, 1)
     IN Store(target, element,
              Operation("put", Lookup(State, target), Nowhere, element.value, <<>>))

\* target <=> other
Swap(target, other) ==
  LET a == Lookup(State, target)
      b == Lookup(State, other)
  IN /\ Closes(State, a, ValueAt(State, b)) \/ Closes(State, b, ValueAt(State, a)) => "cycle" \in Habits
     /\ Becomes(OP_ASSIGNMENT_SWAP(State, a, b), Operation("swap", a, b, Scalar, <<>>))

\* The method of the content at a path: the callable holds a handle on it.
Bound(path, kind) ==
  LET c == ValueAt(State, Lookup(State, path)) IN c # Scalar /\ contents[c].kind = kind
ContentAt(path) == ValueAt(State, Lookup(State, path))

\* What a method gets is a copy of its argument, of which it stores a copy.
Given(source) == Listed(ElementOf(State, source))

\* path.push(source), path.set(key, source) with a key that is new.
StoreNew(path, key, source) ==
  LET to == Place(ContentAt(path), key)
      v == ValueOf(State, source)
      stored == Copy(Given(source), v)
  IN /\ Closes(State, to, v) => "cycle" \in Habits
     /\ Becomes(Release([stored EXCEPT !.contents[to.content].elements = Put(@, key, v)], v),
                Operation("put", to, Nowhere, v, <<>>))

Push(path, source) ==
  /\ Bound(path, "array")
  /\ LET length == Len(contents[ContentAt(path)].elements)
     IN length < MaxElements /\ StoreNew(path, length + 1, source)

\* path.set(key, source): a key the object has gets a new value.
ObjectSet(path, key, source) ==
  /\ Bound(path, "object")
  /\ LET to == Place(ContentAt(path), key)
         v == ValueOf(State, source)
     IN IF key \notin DOMAIN contents[to.content].elements THEN StoreNew(path, key, source)
        ELSE /\ Closes(State, to, v) => "cycle" \in Habits
             /\ Becomes(Release(SetValue(Copy(Given(source), v), to, v), v),
                        Operation("put", to, Nowhere, v, <<>>))

\* Mutant: the element is dropped and its value is not released.
Forgets(h, p) == [h EXCEPT !.contents[p.content].elements = Without(@, p.at)]

\* The variable of an element is released and leaves its content.
Drop(h, p) == [Release(h, ValueAt(h, p)) EXCEPT !.contents[p.content].elements = Without(@, p.at)]

\* target = path.pop(), target a variable: the value is copied before its element goes.
Pop(target, path) ==
  /\ Bound(path, "array")
  /\ LET c == ContentAt(path)
         from == Place(c, Len(contents[c].elements))
         to == Lookup(State, target)
         bound == Copy(State, c)
         v == ValueAt(State, from)
         popped == Temporary(Release(Drop(Copy(bound, v), from), c), v)
     IN /\ contents[c].elements # <<>>
        /\ Becomes(OP_ASSIGNMENT(popped, to), Operation("take", to, from, Scalar, <<>>))

\* path.remove(key)
ObjectRemove(path, key) ==
  /\ Bound(path, "object")
  /\ key \in DOMAIN contents[ContentAt(path)].elements
  /\ LET from == Place(ContentAt(path), key)
     IN Becomes(Drop(State, from), Operation("remove", Nowhere, from, Scalar, <<>>))

\* let [...target] = path, and path.values(): copies of all elements in a new array.
Rest(target, path) ==
  /\ Bound(path, "array") /\ FreeContents(State) # {}
  /\ LET elements == contents[ContentAt(path)].elements
         copied == Through(State, [k \in DOMAIN elements |-> [h \in Heaps |-> Copy(h, elements[k])]])
         to == Lookup(State, target)
         c == NewContent(State)
     IN Becomes(SetValue(Construct(copied, "array", elements), to, c),
                Operation("new", to, Nowhere, c, elements))

\* The function returns: its variables are released one by one, and the next call
\* starts with fresh ones.
Return ==
  LET released == ReleaseEach(Released[MaxContents], State, contents[Frame].elements)
  IN Becomes([released EXCEPT !.contents[Frame] = [contents[Frame] EXCEPT !.elements = [x \in 1..Variables |-> Scalar]],
                              !.live = @ + Variables],
             Operation("return", Nowhere, Nowhere, Scalar, <<>>))

Next ==
  /\ ~twice
  /\ LET paths == PathsOf(State)
         variables == {path \in paths : Len(path) = 1}
         short == {path \in paths : Len(path) <= 2}
         sources == variables \cup {<<>>}
         lists == UNION {[1..n -> sources] : n \in 0..MaxElements}
     IN \/ \E target, source \in paths : Assign(target, source)
        \/ \E target, other \in short : Swap(target, other)
        \/ \E target \in short :
             \/ \E source \in sources : Assign(target, source) \/ AssignElement(target, source)
             \/ \E list \in lists :
                  AssignArray(target, list) \/ \E keys \in [DOMAIN list -> Keys] : AssignObject(target, keys, list)
        \/ \E path \in short, source \in sources :
             Push(path, source) \/ \E key \in Keys : ObjectSet(path, key, source)
        \/ \E target \in variables, path \in short : Pop(target, path) \/ Rest(target, path)
        \/ \E path \in short, key \in Keys : ObjectRemove(path, key)
        \/ Return

Spec == Init /\ [][Next]_vars

-----------------------------------------------------------------------------
(* Properties *)

\* Frame keeps its variables, elements are scalars or contents, and a free content
\* has neither elements nor handles.
TypeOK ==
  /\ live \in Nat /\ twice \in BOOLEAN
  /\ contents \in [Numbers -> Contents]
  /\ contents[Frame].elements \in [1..Variables -> Numbers]
  /\ \A c \in Numbers \ {Frame} :
       /\ contents[c].uses \in Nat
       /\ DOMAIN contents[c].elements \subseteq Keys
       /\ contents[c].uses = 0 => contents[c] = Free
       /\ contents[c].kind = "array" => contents[c].elements \in Seq(Numbers)

\* No statement gives a value back to its pool that is there already: the right
\* operand of an assignment may be inside of what the assignment releases.
NeverFreedTwice == ~twice

Handles(c) ==
  {p \in {Place(d, k) : d \in Numbers, k \in Slots} :
     p.at \in DOMAIN contents[p.content].elements /\ ValueAt(State, p) = c}

\* Between statements the handles of a content are those of variables and elements,
\* and no other value is out of its pool.
UsesAreExact ==
  ~twice =>
    /\ \A c \in 1..MaxContents : contents[c].uses = Cardinality(Handles(c))
    /\ live = Cardinality(UNION {Handles(c) : c \in Numbers})

\* The heap between two statements.
HeapIsSound == TypeOK /\ UsesAreExact

\* Counting handles does what collecting would: statements change what they name,
\* and contents are there exactly as long as a variable leads to them.
Collected == INSTANCE CollectedHeap
  WITH heap <- [c \in {c \in Numbers : Exists(State, c)} |-> contents[c].elements]
ImplementsCollectedHeap == Collected!Spec
=============================================================================
