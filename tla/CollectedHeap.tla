---------------------------- MODULE CollectedHeap ----------------------------
(***************************************************************************)
(* What scripts may expect of arrays and objects: variables and elements   *)
(* hold scalars or references to contents, statements change the elements  *)
(* they name and no others, and a content exists as long as a variable     *)
(* leads to it and no longer.  Nothing is counted here.                    *)
(*                                                                         *)
(* The variables of the script are the elements of content 0; a reference  *)
(* is the number of a content, and Scalar is everything else.              *)
(***************************************************************************)
EXTENDS Naturals

VARIABLES heap, \* for every content that exists, its elements
          op    \* the statement executed last

Scalar == 0
Frame == 0
Nowhere == [content |-> 0, at |-> 0]
Place(content, at) == [content |-> content, at |-> at]
ValueAt(h, p) == h[p.content][p.at]

Operation(name, to, from, value, elements) ==
  [name |-> name, to |-> to, from |-> from, value |-> value, elements |-> elements]
NoOperation == Operation("none", Nowhere, Nowhere, Scalar, <<>>)

\* What a content refers to, and what the frame leads to.
References(h, c) == {h[c][k] : k \in DOMAIN h[c]} \ {Scalar}
Reachable(h) ==
  {c \in DOMAIN h :
     \A S \in SUBSET DOMAIN h : Frame \in S /\ (\A d \in S : References(h, d) \subseteq S) => c \in S}

Collected(h) == [c \in Reachable(h) |-> h[c]]

Grown(h, c, elements) == [d \in DOMAIN h \cup {c} |-> IF d = c THEN elements ELSE h[d]]
With(h, p, v) == [h EXCEPT ![p.content] = [k \in DOMAIN @ \cup {p.at} |-> IF k = p.at THEN v ELSE @[k]]]
Without(h, p) == [h EXCEPT ![p.content] = [k \in DOMAIN @ \ {p.at} |-> @[k]]]

Effect(h, o) ==
  CASE o.name = "put" -> With(h, o.to, o.value)
    [] o.name = "new" -> With(Grown(h, o.value, o.elements), o.to, o.value)
    [] o.name = "swap" -> With(With(h, o.to, ValueAt(h, o.from)), o.from, ValueAt(h, o.to))
    [] o.name = "take" -> With(Without(h, o.from), o.to, ValueAt(h, o.from))
    [] o.name = "remove" -> Without(h, o.from)
    [] o.name = "return" -> [h EXCEPT ![Frame] = [x \in DOMAIN @ |-> Scalar]]

\* A new content has a number no other one has.
Fresh(h, o) == o.name = "new" => o.value \notin DOMAIN h

Init == /\ heap = [c \in {Frame} |-> [x \in DOMAIN heap[Frame] |-> Scalar]]
        /\ op = NoOperation
Next == /\ Fresh(heap, op')
        /\ heap' = Collected(Effect(heap, op'))
Spec == Init /\ [][Next]_<<heap, op>>
=============================================================================
