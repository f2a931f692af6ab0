-------------------------- MODULE Expressions_proof --------------------------
(***************************************************************************)
(* Proofs about Expressions for every nesting and every source whose       *)
(* expressions have none of the habits that Told tells.                    *)
(*                                                                         *)
(* Evaluate is shown to do, by induction over the height, what Meaning     *)
(* promises (Right, AllRight): with the same variables, with no temporary  *)
(* more than its result, and with a tree that means the same and has no    *)
(* more habits.  What makes the induction go through is what Told keeps:   *)
(* the variables that may have a new value object, which a pointer held    *)
(* meanwhile must not lead to, and whether the node that was evaluated     *)
(* last may be gone when an error asks for its position.                   *)
(***************************************************************************)
EXTENDS Expressions, SequenceTheorems, WellFoundedInduction, TLAPS

\* Induction: a set of naturals that is not empty has a least element.
LEMMA LeastNumber ==
  ASSUME NEW S, S \subseteq Nat, S # {}
  PROVE  \E n \in S : \A m \in S : n <= m
<1>1. \E n \in S : \A m \in S : <<m, n>> \notin OpToRel(<, Nat)
  BY NatLessThanWellFounded, WFMin
<1>2. PICK n \in S : \A m \in S : <<m, n>> \notin OpToRel(<, Nat)
  BY <1>1
<1>3. ASSUME NEW m \in S PROVE n <= m
  <2>1. m \in Nat /\ n \in Nat
    OBVIOUS
  <2>2. ~(m < n)
    BY <1>2, <2>1 DEF OpToRel
  <2>3. QED BY <2>1, <2>2
<1>4. QED BY <1>3

-----------------------------------------------------------------------------
(* Expressions, by their height.                                            *)

Layer(S) == Nodes(Unary, 1, S) \cup Nodes(Binary, 2, S) \cup Nodes({"?"}, 3, S)

IsNested(m, f) == f = [n \in 0..m |-> IF n = 0 THEN Leaves ELSE Leaves \cup Layer(f[n - 1])]

LEMMA NestedExists ==
  ASSUME NEW m \in Nat
  PROVE  \E f : IsNested(m, f)
<1> DEFINE S == {k \in Nat : ~\E f : IsNested(k, f)}
<1>1. SUFFICES ASSUME S # {} PROVE FALSE
  OBVIOUS
<1>2. PICK k \in S : \A j \in S : k <= j
  BY <1>1, LeastNumber
<1>3. CASE k = 0
  <2>1. IsNested(0, [n \in 0..0 |-> Leaves])
    BY DEF IsNested
  <2>2. QED BY <1>2, <1>3, <2>1
<1>4. CASE k # 0
  <2>1. k \in Nat /\ k - 1 \in Nat /\ ~(k <= k - 1)
    BY <1>2, <1>4
  <2>2. k - 1 \notin S
    BY <1>2, <2>1
  <2>3. PICK g : IsNested(k - 1, g)
    BY <2>1, <2>2
  <2> DEFINE f == [n \in 0..k |-> IF n = 0 THEN Leaves ELSE Leaves \cup Layer(g[n - 1])]
  <2>4. \A n \in 0..(k - 1) : g[n] = f[n]
    <3>1. ASSUME NEW n \in 0..(k - 1)
          PROVE  g[n] = IF n = 0 THEN Leaves ELSE Leaves \cup Layer(g[n - 1])
      BY <2>3 DEF IsNested
    <3>2. \A n \in 0..(k - 1) : n \in 0..k
      BY <2>1
    <3>3. QED BY <3>1, <3>2, Zenon
  <2>5. \A n \in 0..k : n # 0 => n - 1 \in 0..(k - 1)
    BY <2>1
  <2>6. IsNested(k, f)
    <3>1. \A n \in 0..k : n # 0 => f[n - 1] = g[n - 1]
      BY <2>4, <2>5, Zenon
    <3>2. [n \in 0..k |-> IF n = 0 THEN Leaves ELSE Leaves \cup Layer(f[n - 1])] = f
      <4> DEFINE h == f
      <4>1. \A n \in 0..k : n # 0 => h[n - 1] = g[n - 1]
        BY <3>1
      <4> HIDE DEF h
      <4>2. [n \in 0..k |-> IF n = 0 THEN Leaves ELSE Leaves \cup Layer(h[n - 1])] = f
        BY <4>1
      <4>3. QED BY <4>2 DEF h
    <3>3. QED BY <3>2, Zenon DEF IsNested
  <2>7. QED BY <1>2, <2>6
<1>5. QED BY <1>3, <1>4

LEMMA NestedIs ==
  /\ Nested[0] = Leaves
  /\ \A n \in 1..MaxHeight : Nested[n] = Leaves \cup Layer(Nested[n - 1])
<1>1. MaxHeight \in Nat
  BY ExpressionsAssumption
<1> DEFINE g == CHOOSE f : IsNested(MaxHeight, f)
<1>2. IsNested(MaxHeight, g)
  BY <1>1, NestedExists, Zenon
<1>3. Nested = g
  <2>1. \A S : Leaves \cup Layer(S)
               = Leaves \cup Nodes(Unary, 1, S) \cup Nodes(Binary, 2, S) \cup Nodes({"?"}, 3, S)
    BY DEF Layer
  <2>2. \A f : IsNested(MaxHeight, f) <=>
               f = [n \in 0..MaxHeight |->
                     IF n = 0 THEN Leaves
                     ELSE Leaves \cup Nodes(Unary, 1, f[n - 1]) \cup Nodes(Binary, 2, f[n - 1])
                                 \cup Nodes({"?"}, 3, f[n - 1])]
    BY <2>1 DEF IsNested
  <2>3. QED BY <2>2 DEF Nested
<1> HIDE DEF g
<1>4. Nested = [n \in 0..MaxHeight |-> IF n = 0 THEN Leaves ELSE Leaves \cup Layer(Nested[n - 1])]
  BY <1>2, <1>3, Zenon DEF IsNested
<1>5. \A n \in 0..MaxHeight : Nested[n] = IF n = 0 THEN Leaves ELSE Leaves \cup Layer(Nested[n - 1])
  BY <1>4, Zenon
<1>6. 0 \in 0..MaxHeight /\ \A n \in 1..MaxHeight : n \in 0..MaxHeight /\ n # 0
  BY <1>1
<1>7. QED BY <1>5, <1>6

LEMMA LayerGrows ==
  ASSUME NEW S, NEW T, S \subseteq T
  PROVE  Layer(S) \subseteq Layer(T)
BY DEF Layer, Nodes

LEMMA NestedGrows ==
  ASSUME NEW n \in 1..MaxHeight
  PROVE  Nested[n - 1] \subseteq Nested[n]
<1> DEFINE S == {k \in 1..MaxHeight : ~(Nested[k - 1] \subseteq Nested[k])}
<1>0. MaxHeight \in Nat
  BY ExpressionsAssumption
<1>1. SUFFICES ASSUME S # {} PROVE FALSE
  BY Zenon
<1>2. S \subseteq Nat
  BY <1>0
<1>3. PICK k \in S : \A j \in S : k <= j
  <2> HIDE DEF S
  <2>1. QED BY <1>1, <1>2, LeastNumber
<1>4. k \in 1..MaxHeight /\ ~(Nested[k - 1] \subseteq Nested[k]) /\ Nested[k] = Leaves \cup Layer(Nested[k - 1])
  BY <1>3, NestedIs
<1>5. CASE k = 1
  BY <1>4, <1>5, NestedIs
<1>6. CASE k # 1
  <2>1. k - 1 \in 1..MaxHeight /\ ~(k <= k - 1)
    BY <1>0, <1>4, <1>6
  <2>2. k - 1 \notin S
    BY <1>3, <2>1
  <2>3. Nested[(k - 1) - 1] \subseteq Nested[k - 1]
    BY <2>1, <2>2
  <2>4. Nested[k - 1] = Leaves \cup Layer(Nested[(k - 1) - 1])
    BY <2>1, NestedIs
  <2>5. QED BY <1>4, <2>3, <2>4, LayerGrows
<1>7. QED BY <1>5, <1>6

LEMMA NestedInside ==
  ASSUME NEW n \in 0..MaxHeight
  PROVE  Nested[n] \subseteq Expressions
<1> DEFINE S == {k \in 0..MaxHeight : \A m \in 0..k : Nested[m] \subseteq Nested[k]}
           B == {k \in Nat : k <= MaxHeight /\ k \notin S}
<1>0. MaxHeight \in Nat
  BY ExpressionsAssumption
<1>1. ASSUME B # {} PROVE FALSE
  <2>1. PICK k \in B : \A j \in B : k <= j
    <3>1. B \subseteq Nat
      OBVIOUS
    <3> HIDE DEF B
    <3>2. QED BY <1>1, <3>1, LeastNumber
  <2>2. k \in 0..MaxHeight /\ k \notin S
    BY <1>0, <2>1
  <2>3. PICK m \in 0..k : ~(Nested[m] \subseteq Nested[k])
    BY <2>2
  <2>4. m # k /\ k \in 1..MaxHeight /\ m \in 0..(k - 1) /\ k - 1 \in 0..MaxHeight /\ ~(k <= k - 1)
    BY <1>0, <2>2, <2>3
  <2>5. k - 1 \in S
    BY <1>0, <2>1, <2>4
  <2>6. Nested[m] \subseteq Nested[k - 1] /\ Nested[k - 1] \subseteq Nested[k]
    BY <2>4, <2>5, NestedGrows
  <2>7. QED BY <2>3, <2>6
<1>2. MaxHeight \in S
  BY <1>0, <1>1
<1>3. QED BY <1>2 DEF Expressions

Arity(op) == IF op \in Leaf THEN 0 ELSE IF op \in Unary THEN 1 ELSE IF op = "?" THEN 3 ELSE 2
Operators == Unary \cup Binary \cup {"?"}

\* What is known of an expression without knowing its height.
IsLeaf(e) ==
  /\ e.kids = <<>>
  /\ \/ e.op = "const" /\ e.arg \in Values
     \/ e.op = "var" /\ e.arg \in Variables
     \/ e.op = "call" /\ e.arg \in Functions
IsNode(e, S) ==
  /\ e.op \in Operators /\ e.arg = None
  /\ DOMAIN e.kids = 1..Arity(e.op) /\ \A k \in 1..Arity(e.op) : e.kids[k] \in S

LEMMA LeafIs ==
  ASSUME NEW e \in Leaves
  PROVE  e = Node(e.op, e.arg, e.kids) /\ e.op \in Leaf /\ IsLeaf(e)
BY DEF Leaves, Node, Leaf, IsLeaf

LEMMA LayerIs ==
  ASSUME NEW S, NEW e \in Layer(S)
  PROVE  e = Node(e.op, e.arg, e.kids) /\ e.op \notin Leaf /\ IsNode(e, S)
<1>1. CASE e \in Nodes(Unary, 1, S)
  BY <1>1 DEF Nodes, Node, Leaf, IsNode, Operators, Arity, Unary
<1>2. CASE e \in Nodes(Binary, 2, S)
  BY <1>2 DEF Nodes, Node, Leaf, IsNode, Operators, Arity, Unary, Binary, Foldable
<1>3. CASE e \in Nodes({"?"}, 3, S)
  BY <1>3 DEF Nodes, Node, Leaf, IsNode, Operators, Arity, Unary
<1>4. QED BY <1>1, <1>2, <1>3 DEF Layer

LEMMA NodeInLayer ==
  ASSUME NEW S, NEW op \in Operators, NEW kids, kids = [k \in 1..Arity(op) |-> kids[k]],
         \A k \in 1..Arity(op) : kids[k] \in S
  PROVE  Node(op, None, kids) \in Layer(S)
<1>1. kids \in [1..Arity(op) -> S]
  BY Zenon
<1>2. CASE op \in Unary
  BY <1>1, <1>2 DEF Nodes, Node, Leaf, Arity, Unary, Layer
<1>3. CASE op \in Binary
  BY <1>1, <1>3 DEF Nodes, Node, Leaf, Arity, Unary, Binary, Foldable, Layer
<1>4. CASE op = "?"
  BY <1>1, <1>4 DEF Nodes, Node, Leaf, Arity, Unary, Layer
<1>5. QED BY <1>2, <1>3, <1>4 DEF Operators

LEMMA KidsAre ==
  ASSUME NEW n \in 0..MaxHeight, NEW e \in Nested[n]
  PROVE  /\ e = Node(e.op, e.arg, e.kids)
         /\ \/ e.op \in Leaf /\ IsLeaf(e)
            \/ e.op \notin Leaf /\ n # 0 /\ IsNode(e, Nested[n - 1])
         /\ \A k \in DOMAIN e.kids : n # 0 /\ e.kids[k] \in Nested[n - 1]
<1>1. CASE e \in Leaves
  <2>1. DOMAIN e.kids = {}
    BY <1>1, LeafIs DEF IsLeaf
  <2>2. QED BY <1>1, <2>1, LeafIs
<1>2. CASE e \notin Leaves
  <2>1. n # 0 /\ n \in 1..MaxHeight
    BY <1>2, NestedIs, ExpressionsAssumption
  <2>2. e \in Layer(Nested[n - 1])
    BY <1>2, <2>1, NestedIs
  <2>3. e = Node(e.op, e.arg, e.kids) /\ e.op \notin Leaf /\ IsNode(e, Nested[n - 1])
    BY <2>2, LayerIs
  <2>4. QED BY <2>1, <2>3 DEF IsNode
<1>3. QED BY <1>1, <1>2

-----------------------------------------------------------------------------
(* The three recursive functions satisfy the equations that define them.    *)

IsMeaning(n, f) == f = [e \in Nested[n] |-> MeaningFrom(e, [k \in DOMAIN e.kids |-> f[e.kids[k]]])]

LEMMA MeaningStep ==
  ASSUME NEW n \in 0..MaxHeight, NEW g,
         \A e \in Nested[n] : \A k \in DOMAIN e.kids :
            /\ e.kids[k] \in Nested[n]
            /\ g[e.kids[k]] = MeaningFrom(e.kids[k], [j \in DOMAIN e.kids[k].kids |-> g[e.kids[k].kids[j]]])
  PROVE  \E f : IsMeaning(n, f)
<1> DEFINE f == [e \in Nested[n] |-> MeaningFrom(e, [k \in DOMAIN e.kids |-> g[e.kids[k]]])]
<1>1. \A e \in Nested[n] : f[e] = MeaningFrom(e, [k \in DOMAIN e.kids |-> g[e.kids[k]]])
  OBVIOUS
<1>2. f = [e \in Nested[n] |-> f[e]]
  OBVIOUS
<1> HIDE DEF f
<1>3. \A e \in Nested[n] : \A k \in DOMAIN e.kids : f[e.kids[k]] = g[e.kids[k]]
  <2>1. ASSUME NEW e \in Nested[n], NEW k \in DOMAIN e.kids PROVE f[e.kids[k]] = g[e.kids[k]]
    <3>1. /\ e.kids[k] \in Nested[n]
          /\ g[e.kids[k]] = MeaningFrom(e.kids[k], [j \in DOMAIN e.kids[k].kids |-> g[e.kids[k].kids[j]]])
      OBVIOUS
    <3>2. f[e.kids[k]] = MeaningFrom(e.kids[k], [j \in DOMAIN e.kids[k].kids |-> g[e.kids[k].kids[j]]])
      BY <1>1, <3>1, Zenon
    <3>3. QED BY <3>1, <3>2, Zenon
  <2>2. QED BY <2>1, Zenon
<1>4. ASSUME NEW e \in Nested[n]
      PROVE  f[e] = MeaningFrom(e, [k \in DOMAIN e.kids |-> f[e.kids[k]]])
  <2>1. [k \in DOMAIN e.kids |-> f[e.kids[k]]] = [k \in DOMAIN e.kids |-> g[e.kids[k]]]
    BY <1>3
  <2>2. QED BY <1>1, <2>1, Zenon
<1>5. f = [e \in Nested[n] |-> MeaningFrom(e, [k \in DOMAIN e.kids |-> f[e.kids[k]]])]
  BY <1>2, <1>4, Zenon
<1>6. QED BY <1>5, Zenon DEF IsMeaning

LEMMA MeaningExists ==
  ASSUME NEW n \in 0..MaxHeight
  PROVE  \E f : IsMeaning(n, f)
<1> DEFINE S == {k \in 0..MaxHeight : ~\E f : IsMeaning(k, f)}
<1>0. MaxHeight \in Nat /\ S \subseteq Nat
  BY ExpressionsAssumption
<1>1. SUFFICES ASSUME S # {} PROVE FALSE
  BY Zenon
<1>2. PICK k \in S : \A j \in S : k <= j
  <2> HIDE DEF S
  <2>1. QED BY <1>0, <1>1, LeastNumber
<1>3. k \in 0..MaxHeight /\ ~\E f : IsMeaning(k, f)
  BY <1>2
<1>4. CASE k = 0
  <2>1. \A e \in Nested[k] : \A j \in DOMAIN e.kids : FALSE
    BY <1>4, NestedIs, LeafIs DEF IsLeaf
  <2>2. QED BY <1>3, <2>1, MeaningStep
<1>5. CASE k # 0
  <2>1. k - 1 \in 0..MaxHeight /\ ~(k <= k - 1) /\ k \in 1..MaxHeight
    BY <1>0, <1>3, <1>5
  <2>2. k - 1 \notin S
    BY <1>2, <2>1
  <2>3. PICK g : IsMeaning(k - 1, g)
    BY <2>1, <2>2
  <2>4. \A d \in Nested[k - 1] : g[d] = MeaningFrom(d, [j \in DOMAIN d.kids |-> g[d.kids[j]]])
    BY <2>3 DEF IsMeaning
  <2>5. \A e \in Nested[k] : \A j \in DOMAIN e.kids : e.kids[j] \in Nested[k - 1]
    BY <2>1, KidsAre
  <2>6. Nested[k - 1] \subseteq Nested[k]
    BY <2>1, NestedGrows
  <2>7. QED BY <1>3, <2>4, <2>5, <2>6, MeaningStep
<1>6. QED BY <1>4, <1>5

LEMMA MeaningIs ==
  ASSUME NEW e \in Expressions
  PROVE  Meaning[e] = MeaningFrom(e, [k \in DOMAIN e.kids |-> Meaning[e.kids[k]]])
<1> DEFINE g == CHOOSE f : IsMeaning(MaxHeight, f)
<1>1. IsMeaning(MaxHeight, g)
  <2>1. MaxHeight \in 0..MaxHeight
    BY ExpressionsAssumption
  <2>2. QED BY <2>1, MeaningExists, Zenon
<1>2. Meaning = g
  BY Zenon DEF Meaning, IsMeaning, Expressions
<1> HIDE DEF g
<1>3. Meaning = [d \in Expressions |-> MeaningFrom(d, [k \in DOMAIN d.kids |-> Meaning[d.kids[k]]])]
  BY <1>1, <1>2, Zenon DEF IsMeaning, Expressions
<1>4. QED BY <1>3, Zenon

IsTold(n, f) == f = [e \in Nested[n] |-> ToldFrom(e, [k \in DOMAIN e.kids |-> f[e.kids[k]]])]

LEMMA ToldStep ==
  ASSUME NEW n \in 0..MaxHeight, NEW g,
         \A e \in Nested[n] : \A k \in DOMAIN e.kids :
            /\ e.kids[k] \in Nested[n]
            /\ g[e.kids[k]] = ToldFrom(e.kids[k], [j \in DOMAIN e.kids[k].kids |-> g[e.kids[k].kids[j]]])
  PROVE  \E f : IsTold(n, f)
<1> DEFINE f == [e \in Nested[n] |-> ToldFrom(e, [k \in DOMAIN e.kids |-> g[e.kids[k]]])]
<1>1. \A e \in Nested[n] : f[e] = ToldFrom(e, [k \in DOMAIN e.kids |-> g[e.kids[k]]])
  OBVIOUS
<1>2. f = [e \in Nested[n] |-> f[e]]
  OBVIOUS
<1> HIDE DEF f
<1>3. \A e \in Nested[n] : \A k \in DOMAIN e.kids : f[e.kids[k]] = g[e.kids[k]]
  <2>1. ASSUME NEW e \in Nested[n], NEW k \in DOMAIN e.kids PROVE f[e.kids[k]] = g[e.kids[k]]
    <3>1. /\ e.kids[k] \in Nested[n]
          /\ g[e.kids[k]] = ToldFrom(e.kids[k], [j \in DOMAIN e.kids[k].kids |-> g[e.kids[k].kids[j]]])
      OBVIOUS
    <3>2. f[e.kids[k]] = ToldFrom(e.kids[k], [j \in DOMAIN e.kids[k].kids |-> g[e.kids[k].kids[j]]])
      BY <1>1, <3>1, Zenon
    <3>3. QED BY <3>1, <3>2, Zenon
  <2>2. QED BY <2>1, Zenon
<1>4. ASSUME NEW e \in Nested[n]
      PROVE  f[e] = ToldFrom(e, [k \in DOMAIN e.kids |-> f[e.kids[k]]])
  <2>1. [k \in DOMAIN e.kids |-> f[e.kids[k]]] = [k \in DOMAIN e.kids |-> g[e.kids[k]]]
    BY <1>3
  <2>2. QED BY <1>1, <2>1, Zenon
<1>5. f = [e \in Nested[n] |-> ToldFrom(e, [k \in DOMAIN e.kids |-> f[e.kids[k]]])]
  BY <1>2, <1>4, Zenon
<1>6. QED BY <1>5, Zenon DEF IsTold

LEMMA ToldExists ==
  ASSUME NEW n \in 0..MaxHeight
  PROVE  \E f : IsTold(n, f)
<1> DEFINE S == {k \in 0..MaxHeight : ~\E f : IsTold(k, f)}
<1>0. MaxHeight \in Nat /\ S \subseteq Nat
  BY ExpressionsAssumption
<1>1. SUFFICES ASSUME S # {} PROVE FALSE
  BY Zenon
<1>2. PICK k \in S : \A j \in S : k <= j
  <2> HIDE DEF S
  <2>1. QED BY <1>0, <1>1, LeastNumber
<1>3. k \in 0..MaxHeight /\ ~\E f : IsTold(k, f)
  BY <1>2
<1>4. CASE k = 0
  <2>1. \A e \in Nested[k] : \A j \in DOMAIN e.kids : FALSE
    BY <1>4, NestedIs, LeafIs DEF IsLeaf
  <2>2. QED BY <1>3, <2>1, ToldStep
<1>5. CASE k # 0
  <2>1. k - 1 \in 0..MaxHeight /\ ~(k <= k - 1) /\ k \in 1..MaxHeight
    BY <1>0, <1>3, <1>5
  <2>2. k - 1 \notin S
    BY <1>2, <2>1
  <2>3. PICK g : IsTold(k - 1, g)
    BY <2>1, <2>2
  <2>4. \A d \in Nested[k - 1] : g[d] = ToldFrom(d, [j \in DOMAIN d.kids |-> g[d.kids[j]]])
    BY <2>3 DEF IsTold
  <2>5. \A e \in Nested[k] : \A j \in DOMAIN e.kids : e.kids[j] \in Nested[k - 1]
    BY <2>1, KidsAre
  <2>6. Nested[k - 1] \subseteq Nested[k]
    BY <2>1, NestedGrows
  <2>7. QED BY <1>3, <2>4, <2>5, <2>6, ToldStep
<1>6. QED BY <1>4, <1>5

LEMMA ToldIs ==
  ASSUME NEW e \in Expressions
  PROVE  Told[e] = ToldFrom(e, [k \in DOMAIN e.kids |-> Told[e.kids[k]]])
<1> DEFINE g == CHOOSE f : IsTold(MaxHeight, f)
<1>1. IsTold(MaxHeight, g)
  <2>1. MaxHeight \in 0..MaxHeight
    BY ExpressionsAssumption
  <2>2. QED BY <2>1, ToldExists, Zenon
<1>2. Told = g
  BY Zenon DEF Told, IsTold, Expressions
<1> HIDE DEF g
<1>3. Told = [d \in Expressions |-> ToldFrom(d, [k \in DOMAIN d.kids |-> Told[d.kids[k]]])]
  BY <1>1, <1>2, Zenon DEF IsTold, Expressions
<1>4. QED BY <1>3, Zenon

IsEvaluate(n, f) == f = [e \in Nested[n] |-> EvaluateFrom(e, [k \in DOMAIN e.kids |-> f[e.kids[k]]])]

LEMMA EvaluateStep ==
  ASSUME NEW n \in 0..MaxHeight, NEW g,
         \A e \in Nested[n] : \A k \in DOMAIN e.kids :
            /\ e.kids[k] \in Nested[n]
            /\ g[e.kids[k]] = EvaluateFrom(e.kids[k], [j \in DOMAIN e.kids[k].kids |-> g[e.kids[k].kids[j]]])
  PROVE  \E f : IsEvaluate(n, f)
<1> DEFINE f == [e \in Nested[n] |-> EvaluateFrom(e, [k \in DOMAIN e.kids |-> g[e.kids[k]]])]
<1>1. \A e \in Nested[n] : f[e] = EvaluateFrom(e, [k \in DOMAIN e.kids |-> g[e.kids[k]]])
  OBVIOUS
<1>2. f = [e \in Nested[n] |-> f[e]]
  OBVIOUS
<1> HIDE DEF f
<1>3. \A e \in Nested[n] : \A k \in DOMAIN e.kids : f[e.kids[k]] = g[e.kids[k]]
  <2>1. ASSUME NEW e \in Nested[n], NEW k \in DOMAIN e.kids PROVE f[e.kids[k]] = g[e.kids[k]]
    <3>1. /\ e.kids[k] \in Nested[n]
          /\ g[e.kids[k]] = EvaluateFrom(e.kids[k], [j \in DOMAIN e.kids[k].kids |-> g[e.kids[k].kids[j]]])
      OBVIOUS
    <3>2. f[e.kids[k]] = EvaluateFrom(e.kids[k], [j \in DOMAIN e.kids[k].kids |-> g[e.kids[k].kids[j]]])
      BY <1>1, <3>1, Zenon
    <3>3. QED BY <3>1, <3>2, Zenon
  <2>2. QED BY <2>1, Zenon
<1>4. ASSUME NEW e \in Nested[n]
      PROVE  f[e] = EvaluateFrom(e, [k \in DOMAIN e.kids |-> f[e.kids[k]]])
  <2>1. [k \in DOMAIN e.kids |-> f[e.kids[k]]] = [k \in DOMAIN e.kids |-> g[e.kids[k]]]
    BY <1>3
  <2>2. QED BY <1>1, <2>1, Zenon
<1>5. f = [e \in Nested[n] |-> EvaluateFrom(e, [k \in DOMAIN e.kids |-> f[e.kids[k]]])]
  BY <1>2, <1>4, Zenon
<1>6. QED BY <1>5, Zenon DEF IsEvaluate

LEMMA EvaluateExists ==
  ASSUME NEW n \in 0..MaxHeight
  PROVE  \E f : IsEvaluate(n, f)
<1> DEFINE S == {k \in 0..MaxHeight : ~\E f : IsEvaluate(k, f)}
<1>0. MaxHeight \in Nat /\ S \subseteq Nat
  BY ExpressionsAssumption
<1>1. SUFFICES ASSUME S # {} PROVE FALSE
  BY Zenon
<1>2. PICK k \in S : \A j \in S : k <= j
  <2> HIDE DEF S
  <2>1. QED BY <1>0, <1>1, LeastNumber
<1>3. k \in 0..MaxHeight /\ ~\E f : IsEvaluate(k, f)
  BY <1>2
<1>4. CASE k = 0
  <2>1. \A e \in Nested[k] : \A j \in DOMAIN e.kids : FALSE
    BY <1>4, NestedIs, LeafIs DEF IsLeaf
  <2>2. QED BY <1>3, <2>1, EvaluateStep
<1>5. CASE k # 0
  <2>1. k - 1 \in 0..MaxHeight /\ ~(k <= k - 1) /\ k \in 1..MaxHeight
    BY <1>0, <1>3, <1>5
  <2>2. k - 1 \notin S
    BY <1>2, <2>1
  <2>3. PICK g : IsEvaluate(k - 1, g)
    BY <2>1, <2>2
  <2>4. \A d \in Nested[k - 1] : g[d] = EvaluateFrom(d, [j \in DOMAIN d.kids |-> g[d.kids[j]]])
    BY <2>3 DEF IsEvaluate
  <2>5. \A e \in Nested[k] : \A j \in DOMAIN e.kids : e.kids[j] \in Nested[k - 1]
    BY <2>1, KidsAre
  <2>6. Nested[k - 1] \subseteq Nested[k]
    BY <2>1, NestedGrows
  <2>7. QED BY <1>3, <2>4, <2>5, <2>6, EvaluateStep
<1>6. QED BY <1>4, <1>5

LEMMA EvaluateIs ==
  ASSUME NEW e \in Expressions
  PROVE  Evaluate[e] = EvaluateFrom(e, [k \in DOMAIN e.kids |-> Evaluate[e.kids[k]]])
<1> DEFINE g == CHOOSE f : IsEvaluate(MaxHeight, f)
<1>1. IsEvaluate(MaxHeight, g)
  <2>1. MaxHeight \in 0..MaxHeight
    BY ExpressionsAssumption
  <2>2. QED BY <2>1, EvaluateExists, Zenon
<1>2. Evaluate = g
  BY Zenon DEF Evaluate, IsEvaluate, Expressions
<1> HIDE DEF g
<1>3. Evaluate = [d \in Expressions |-> EvaluateFrom(d, [k \in DOMAIN d.kids |-> Evaluate[d.kids[k]]])]
  BY <1>1, <1>2, Zenon DEF IsEvaluate, Expressions
<1>4. QED BY <1>3, Zenon

LEMMA Shape ==
  ASSUME NEW e \in Expressions
  PROVE  /\ e = Node(e.op, e.arg, e.kids)
         /\ e.op \in Leaf \/ e.op \in Unary \/ e.op \in Binary \/ e.op = "?"
         /\ e.op \in Leaf => IsLeaf(e) /\ DOMAIN e.kids = {}
         /\ e.op \notin Leaf => IsNode(e, Expressions)
         /\ \A k \in DOMAIN e.kids : e.kids[k] \in Expressions
<1>1. MaxHeight \in 0..MaxHeight /\ \A n \in 0..MaxHeight : n # 0 => n - 1 \in 0..MaxHeight
  BY ExpressionsAssumption
<1>2. e \in Nested[MaxHeight]
  BY DEF Expressions
<1>3. /\ e = Node(e.op, e.arg, e.kids)
      /\ \/ e.op \in Leaf /\ IsLeaf(e)
         \/ e.op \notin Leaf /\ MaxHeight # 0 /\ IsNode(e, Nested[MaxHeight - 1])
      /\ \A k \in DOMAIN e.kids : MaxHeight # 0 /\ e.kids[k] \in Nested[MaxHeight - 1]
  BY <1>1, <1>2, KidsAre
<1>4. MaxHeight # 0 => Nested[MaxHeight - 1] \subseteq Expressions
  BY <1>1, NestedInside
<1>5. e.op \notin Leaf => IsNode(e, Expressions)
  BY <1>3, <1>4 DEF IsNode
<1>6. e.op \in Leaf => IsLeaf(e) /\ DOMAIN e.kids = {}
  BY <1>3 DEF IsLeaf
<1>7. e.op \in Leaf \/ e.op \in Unary \/ e.op \in Binary \/ e.op = "?"
  BY <1>5 DEF IsNode, Operators
<1>8. QED BY <1>3, <1>4, <1>5, <1>6, <1>7

\* Which operands there are.
LEMMA Operands ==
  ASSUME NEW e \in Expressions
  PROVE  /\ e.op \in Unary => /\ e.op \notin Leaf /\ DOMAIN e.kids = {1}
                              /\ e.kids[1] \in Expressions
         /\ e.op \in Binary => /\ e.op \notin Leaf \cup Unary /\ e.op # "?" /\ DOMAIN e.kids = {1, 2}
                               /\ e.kids[1] \in Expressions /\ e.kids[2] \in Expressions
         /\ e.op = "?" => /\ e.op \notin Leaf \cup Unary \cup Binary /\ DOMAIN e.kids = {1, 2, 3}
                          /\ e.kids[1] \in Expressions /\ e.kids[2] \in Expressions
                          /\ e.kids[3] \in Expressions
<1>1. CASE e.op \in Unary
  <2>1. e.op \notin Leaf /\ e.op \notin Binary /\ e.op # "?" /\ Arity(e.op) = 1
    BY <1>1 DEF Unary, Leaf, Arity, Binary, Foldable
  <2>2. DOMAIN e.kids = 1..1 /\ \A k \in 1..1 : e.kids[k] \in Expressions
    BY <2>1, Shape DEF IsNode
  <2>3. 1..1 = {1}
    OBVIOUS
  <2>4. QED BY <1>1, <2>1, <2>2, <2>3
<1>2. CASE e.op \in Binary
  <2>1. e.op \notin Leaf /\ e.op \notin Unary /\ e.op # "?" /\ Arity(e.op) = 2
    BY <1>2 DEF Unary, Leaf, Arity, Binary, Foldable
  <2>2. DOMAIN e.kids = 1..2 /\ \A k \in 1..2 : e.kids[k] \in Expressions
    BY <2>1, Shape DEF IsNode
  <2>3. 1..2 = {1, 2}
    OBVIOUS
  <2>4. QED BY <1>2, <2>1, <2>2, <2>3
<1>3. CASE e.op = "?"
  <2>1. e.op \notin Leaf /\ e.op \notin Unary /\ e.op \notin Binary /\ Arity(e.op) = 3
    BY <1>3 DEF Unary, Leaf, Arity, Binary, Foldable
  <2>2. DOMAIN e.kids = 1..3 /\ \A k \in 1..3 : e.kids[k] \in Expressions
    BY <2>1, Shape DEF IsNode
  <2>3. 1..3 = {1, 2, 3}
    OBVIOUS
  <2>4. QED BY <1>3, <2>1, <2>2, <2>3
<1>4. QED BY <1>1, <1>2, <1>3

-----------------------------------------------------------------------------
(* What is meant, operator by operator.                                     *)

LEMMA MeaningAt ==
  ASSUME NEW e \in Expressions, NEW env \in Environments
  PROVE  Meaning[e][env] = MeaningBy(e, [k \in DOMAIN e.kids |-> Meaning[e.kids[k]]], env)
BY MeaningIs, Zenon DEF MeaningFrom

LEMMA MeaningAtLeaf ==
  ASSUME NEW e \in Expressions, NEW env \in Environments, e.op \in Leaf
  PROVE  Meaning[e][env] = MeaningOfLeaf(e, env)
BY MeaningAt, Zenon DEF MeaningBy

LEMMA MeaningAtUnary ==
  ASSUME NEW e \in Expressions, NEW env \in Environments, e.op \in Unary
  PROVE  Meaning[e][env] = MeaningOfOne(e.op, Meaning[e.kids[1]][env])
<1>1. 1 \in DOMAIN e.kids /\ e.op \notin Leaf
  BY Operands
<1>2. [k \in DOMAIN e.kids |-> Meaning[e.kids[k]]][1] = Meaning[e.kids[1]]
  BY <1>1, Zenon
<1>3. QED BY <1>1, <1>2, MeaningAt, Zenon DEF MeaningBy

\* What a binary operator means, by what its operands mean.
BinaryMeaning(op, l, r) ==
  IF Stops(l) THEN l
  ELSE IF op = "," THEN r
  ELSE IF op \in DOMAIN Shortcut /\ (Deref(l, l.env).data # 0) = (op = "||")
       THEN Means("value", Value("bool", Shortcut[op]), l.env)
  ELSE IF Stops(r) THEN r
  ELSE MeaningOfTwo(op, l, r)

LEMMA MeaningAtBinary ==
  ASSUME NEW e \in Expressions, NEW env \in Environments, e.op \in Binary
  PROVE  Meaning[e][env] = BinaryMeaning(e.op, Meaning[e.kids[1]][env],
                                         Meaning[e.kids[2]][Meaning[e.kids[1]][env].env])
<1> DEFINE kid == [k \in DOMAIN e.kids |-> Meaning[e.kids[k]]]
<1>1. 1 \in DOMAIN e.kids /\ 2 \in DOMAIN e.kids /\ e.op \notin Leaf /\ e.op \notin Unary /\ e.op # "?"
  BY Operands
<1>2. kid[1] = Meaning[e.kids[1]] /\ kid[2] = Meaning[e.kids[2]]
  BY <1>1, Zenon
<1>3. Meaning[e][env] = MeaningBy(e, kid, env)
  BY MeaningAt
<1> HIDE DEF kid
<1>4. MeaningBy(e, kid, env) = BinaryMeaning(e.op, kid[1][env], kid[2][kid[1][env].env])
  BY <1>1, Zenon DEF MeaningBy, BinaryMeaning
<1>5. QED BY <1>2, <1>3, <1>4, Zenon

LEMMA MeaningAtTernary ==
  ASSUME NEW e \in Expressions, NEW env \in Environments, e.op = "?", NEW l,
         l = Meaning[e.kids[1]][env]
  PROVE  /\ Stops(l) => Meaning[e][env] = l
         /\ ~Stops(l) /\ Deref(l, l.env).data # 0 => Meaning[e][env] = Meaning[e.kids[2]][l.env]
         /\ ~Stops(l) /\ Deref(l, l.env).data = 0 => Meaning[e][env] = Meaning[e.kids[3]][l.env]
<1> DEFINE kid == [k \in DOMAIN e.kids |-> Meaning[e.kids[k]]]
<1>1. /\ 1 \in DOMAIN e.kids /\ 2 \in DOMAIN e.kids /\ 3 \in DOMAIN e.kids
      /\ e.op \notin Leaf /\ e.op \notin Unary /\ e.op # ","
  BY Operands DEF Binary
<1>2. kid[1] = Meaning[e.kids[1]] /\ kid[2] = Meaning[e.kids[2]] /\ kid[3] = Meaning[e.kids[3]]
  BY <1>1, Zenon
<1>3. Meaning[e][env] = MeaningBy(e, kid, env)
  BY MeaningAt
<1> HIDE DEF kid
<1>4. MeaningBy(e, kid, env) = IF Stops(l) THEN l
                               ELSE kid[IF Deref(l, l.env).data # 0 THEN 2 ELSE 3][l.env]
  BY <1>1, <1>2, Zenon DEF MeaningBy
<1>5. QED BY <1>2, <1>3, <1>4

-----------------------------------------------------------------------------
(* What is told of an expression.                                           *)

LEMMA ToldAt ==
  ASSUME NEW e \in Expressions, NEW kid, kid = [k \in DOMAIN e.kids |-> Told[e.kids[k]]],
         NEW all, all = {kid[k] : k \in DOMAIN e.kids}
  PROVE  /\ Told[e].targets = Targets(e, kid[1], kid[2], kid[3])
         /\ Told[e].replaced = Replaced(e, kid[1], all)
         /\ Told[e].temporary = Temporary(e, kid[1], kid[2], kid[3])
         /\ Told[e].boolean = Boolean(e, kid[1], kid[2], kid[3])
         /\ Told[e].throws = Throws(e, all)
         /\ Told[e].folds = Folds(e, kid)
         /\ Told[e].gone = Gone(e, kid)
         /\ Told[e].habits = HabitsWithin(e, kid[1], kid[2], all)
<1>1. Told[e] = ToldFrom(e, kid)
  BY ToldIs
<1>2. QED BY <1>1 DEF ToldFrom

LEMMA ShortcutIs == DOMAIN Shortcut = {"||", "&&"} /\ Shortcut["||"] = 1 /\ Shortcut["&&"] = 0
BY DEF Shortcut

LEMMA ToldLeaf ==
  ASSUME NEW e \in Expressions, e.op \in Leaf
  PROVE  /\ Told[e].targets = IF e.op = "var" THEN {e.arg} ELSE {}
         /\ Told[e].replaced = IF e.op = "call" /\ e.arg = "set" THEN {"x"} ELSE {}
         /\ Told[e].temporary = (e.op # "var")
         /\ Told[e].boolean = (e.op = "var" \/ (e.op = "const" /\ e.arg.type = "bool"))
         /\ Told[e].throws = (e.op = "call" /\ e.arg = "fail")
         /\ Told[e].folds = FALSE /\ Told[e].gone = FALSE /\ Told[e].habits = {}
<1> DEFINE kid == [k \in DOMAIN e.kids |-> Told[e.kids[k]]]
           all == {kid[k] : k \in DOMAIN e.kids}
<1>1. e.op = "const" \/ e.op = "var" \/ e.op = "call"
  BY DEF Leaf
<1>2. all = {}
  BY Shape
<1>3. /\ Told[e].targets = Targets(e, kid[1], kid[2], kid[3])
      /\ Told[e].replaced = Replaced(e, kid[1], all)
      /\ Told[e].temporary = Temporary(e, kid[1], kid[2], kid[3])
      /\ Told[e].boolean = Boolean(e, kid[1], kid[2], kid[3])
      /\ Told[e].throws = Throws(e, all)
      /\ Told[e].folds = Folds(e, kid)
      /\ Told[e].gone = Gone(e, kid)
      /\ Told[e].habits = HabitsWithin(e, kid[1], kid[2], all)
  BY ToldAt
<1> HIDE DEF kid, all
<1>4. Told[e].targets = IF e.op = "var" THEN {e.arg} ELSE {}
  BY <1>1, <1>3 DEF Targets
<1>5. Told[e].replaced = IF e.op = "call" /\ e.arg = "set" THEN {"x"} ELSE {}
  <2>1. UNION {k.replaced : k \in all} = {} /\ e.op # "="
    BY <1>1, <1>2
  <2>2. Told[e].replaced = {} \cup (IF e.op = "call" /\ e.arg = "set" THEN {"x"} ELSE {})
    BY <1>3, <2>1 DEF Replaced
  <2>3. QED BY <2>2
<1>6. Told[e].temporary = (e.op # "var")
  BY <1>1, <1>3 DEF Temporary
<1>7. Told[e].boolean = (e.op = "var" \/ (e.op = "const" /\ e.arg.type = "bool"))
  BY <1>1, <1>3 DEF Boolean, Unary
<1>8. Told[e].throws = (e.op = "call" /\ e.arg = "fail")
  BY <1>1, <1>2, <1>3 DEF Throws
<1>9. Told[e].folds = FALSE
  BY <1>1, <1>3 DEF Folds, Foldable
<1>10. Told[e].gone = FALSE
  <2>1. LastOperands(e) = {}
    BY <1>1, ShortcutIs DEF LastOperands, Leaf, Unary
  <2>2. QED BY <1>3, <1>9, <2>1 DEF Gone
<1>11. Told[e].habits = {}
  <2>1. ~AssignsWithin(e, kid[1], kid[2]) /\ ~ThrowsWithin(e, kid[1]) /\ ~RaisesAfterFold(e, kid[1], kid[2])
    BY <1>1, ShortcutIs DEF AssignsWithin, ThrowsWithin, RaisesAfterFold, Foldable, Unary
  <2>2. QED BY <1>2, <1>3, <2>1 DEF HabitsWithin
<1>12. QED BY <1>4, <1>5, <1>6, <1>7, <1>8, <1>9, <1>10, <1>11

LEMMA NoHabit ==
  ASSUME NEW e, NEW a, NEW b, NEW all, HabitsWithin(e, a, b, all) = {}
  PROVE  /\ ~AssignsWithin(e, a, b) /\ ~ThrowsWithin(e, a) /\ ~RaisesAfterFold(e, a, b)
         /\ \A k \in all : k.habits = {}
<1>1. \A habit \in {"assignWithin", "throwWithin", "raiseAfterFold"} :
        ~(\/ habit = "assignWithin" /\ AssignsWithin(e, a, b)
          \/ habit = "throwWithin" /\ ThrowsWithin(e, a)
          \/ habit = "raiseAfterFold" /\ RaisesAfterFold(e, a, b))
  <2> DEFINE Own == {habit \in {"assignWithin", "throwWithin", "raiseAfterFold"} :
                       \/ habit = "assignWithin" /\ AssignsWithin(e, a, b)
                       \/ habit = "throwWithin" /\ ThrowsWithin(e, a)
                       \/ habit = "raiseAfterFold" /\ RaisesAfterFold(e, a, b)}
             Others == UNION {k.habits : k \in all}
  <2>1. HabitsWithin(e, a, b, all) = Others \cup Own
    BY Zenon DEF HabitsWithin
  <2>2. Own = {}
    <3> HIDE DEF Own, Others
    <3>1. QED BY <2>1
  <2>3. QED BY <2>2, Zenon
<1>2. ~AssignsWithin(e, a, b)
  <2>1. "assignWithin" \in {"assignWithin", "throwWithin", "raiseAfterFold"}
    OBVIOUS
  <2>2. QED BY <1>1, <2>1, Zenon
<1>3. ~ThrowsWithin(e, a)
  <2>1. "throwWithin" \in {"assignWithin", "throwWithin", "raiseAfterFold"}
    OBVIOUS
  <2>2. QED BY <1>1, <2>1, Zenon
<1>4. ~RaisesAfterFold(e, a, b)
  <2>1. "raiseAfterFold" \in {"assignWithin", "throwWithin", "raiseAfterFold"}
    OBVIOUS
  <2>2. QED BY <1>1, <2>1, Zenon
<1>5. \A k \in all : k.habits = {}
  BY DEF HabitsWithin
<1>6. QED BY <1>2, <1>3, <1>4, <1>5

LEMMA ToldUnary ==
  ASSUME NEW e \in Expressions, e.op \in Unary
  PROVE  LET a == Told[e.kids[1]]
         IN  /\ Told[e].targets = {} /\ Told[e].replaced = a.replaced
             /\ Told[e].temporary = TRUE /\ Told[e].boolean = FALSE
             /\ a.throws => Told[e].throws
             /\ a.gone => Told[e].gone
             /\ Told[e].habits = {} => /\ a.habits = {} /\ ~a.throws
                                       /\ e.op = "neg" => ~(a.gone /\ a.boolean)
                                       /\ e.op = "x++" => ~(a.gone /\ (a.boolean \/ a.temporary))
<1> DEFINE a == Told[e.kids[1]]
           kid == [k \in DOMAIN e.kids |-> Told[e.kids[k]]]
           all == {kid[k] : k \in DOMAIN e.kids}
<1>1. e.op = "neg" \/ e.op = "x++"
  BY DEF Unary
<1>2. kid[1] = a /\ all = {a}
  BY Operands
<1>3. /\ Told[e].targets = Targets(e, kid[1], kid[2], kid[3])
      /\ Told[e].replaced = Replaced(e, kid[1], all)
      /\ Told[e].temporary = Temporary(e, kid[1], kid[2], kid[3])
      /\ Told[e].boolean = Boolean(e, kid[1], kid[2], kid[3])
      /\ Told[e].throws = Throws(e, all)
      /\ Told[e].folds = Folds(e, kid)
      /\ Told[e].gone = Gone(e, kid)
      /\ Told[e].habits = HabitsWithin(e, kid[1], kid[2], all)
  BY ToldAt
<1>h. Told[e.kids[1]] = a
  OBVIOUS
<1> HIDE DEF kid, all, a
<1>4. Told[e].targets = {}
  BY <1>1, <1>3 DEF Targets
<1>5. Told[e].replaced = a.replaced
  BY <1>1, <1>2, <1>3 DEF Replaced
<1>6. Told[e].temporary = TRUE
  BY <1>1, <1>3 DEF Temporary
<1>7. Told[e].boolean = FALSE
  BY <1>1, <1>3 DEF Boolean, Unary
<1>8. a.throws => Told[e].throws
  BY <1>1, <1>2, <1>3 DEF Throws
<1>9. a.gone => Told[e].gone
  BY <1>1, <1>2, <1>3 DEF Gone, LastOperands, Leaf, Unary
<1>10. ASSUME Told[e].habits = {}
       PROVE  /\ a.habits = {} /\ ~a.throws
              /\ e.op = "neg" => ~(a.gone /\ a.boolean)
              /\ e.op = "x++" => ~(a.gone /\ (a.boolean \/ a.temporary))
  <2>1. HabitsWithin(e, a, kid[2], all) = {}
    BY <1>2, <1>3, <1>10
  <2>2. ~ThrowsWithin(e, a) /\ ~RaisesAfterFold(e, a, kid[2]) /\ \A k \in all : k.habits = {}
    BY <2>1, NoHabit
  <2>3. QED BY <1>1, <1>2, <2>2 DEF ThrowsWithin, RaisesAfterFold, Unary
<1>11. QED BY <1>4, <1>5, <1>6, <1>7, <1>8, <1>9, <1>10 DEF a

LEMMA ToldBinary ==
  ASSUME NEW e \in Expressions, e.op \in Binary
  PROVE  LET a == Told[e.kids[1]]
             b == Told[e.kids[2]]
         IN  /\ Told[e].targets = IF e.op \in {"=", "+="} THEN a.targets
                                  ELSE IF e.op = "," THEN b.targets ELSE {}
             /\ Told[e].replaced = a.replaced \cup b.replaced \cup IF e.op = "=" THEN a.targets ELSE {}
             /\ e.op \in Foldable => Told[e].temporary
             /\ e.op = "," => (b.temporary => Told[e].temporary)
             /\ e.op = "+" => (a.boolean /\ b.boolean => Told[e].boolean)
             /\ e.op = "," => (b.boolean => Told[e].boolean)
             /\ e.op \notin {"+", ","} => Told[e].boolean
             /\ a.throws \/ b.throws => Told[e].throws
             /\ /\ e.op \in Foldable /\ (IsConstant(e.kids[1]) \/ a.folds) /\ (IsConstant(e.kids[2]) \/ b.folds)
                => Told[e].folds /\ Told[e].gone
             /\ b.gone => Told[e].gone
             /\ e.op \in DOMAIN Shortcut => (a.gone => Told[e].gone)
             /\ Told[e].habits = {} =>
                  /\ a.habits = {} /\ b.habits = {}
                  /\ e.op # "," => a.targets \cap b.replaced = {}
                  /\ e.op \in DOMAIN Shortcut \cup {","} => ~a.throws
                  /\ e.op = "=" => ~(b.gone /\ a.temporary)
                  /\ e.op = "+=" => ~b.gone
<1> DEFINE a == Told[e.kids[1]]
           b == Told[e.kids[2]]
           kid == [k \in DOMAIN e.kids |-> Told[e.kids[k]]]
           all == {kid[k] : k \in DOMAIN e.kids}
<1>1. e.op \in {"+", "||", "&&", "=", "+=", ","}
  BY DEF Binary, Foldable
<1>2. kid[1] = a /\ kid[2] = b /\ all = {a, b} /\ DOMAIN e.kids = {1, 2}
  BY Operands
<1>3. /\ Told[e].targets = Targets(e, kid[1], kid[2], kid[3])
      /\ Told[e].replaced = Replaced(e, kid[1], all)
      /\ Told[e].temporary = Temporary(e, kid[1], kid[2], kid[3])
      /\ Told[e].boolean = Boolean(e, kid[1], kid[2], kid[3])
      /\ Told[e].throws = Throws(e, all)
      /\ Told[e].folds = Folds(e, kid)
      /\ Told[e].gone = Gone(e, kid)
      /\ Told[e].habits = HabitsWithin(e, kid[1], kid[2], all)
  BY ToldAt
<1>h. Told[e.kids[1]] = a /\ Told[e.kids[2]] = b
  OBVIOUS
<1> HIDE DEF kid, all, a, b
<1>4. Told[e].targets = IF e.op \in {"=", "+="} THEN a.targets ELSE IF e.op = "," THEN b.targets ELSE {}
  BY <1>1, <1>2, <1>3 DEF Targets
<1>5. Told[e].replaced = a.replaced \cup b.replaced \cup IF e.op = "=" THEN a.targets ELSE {}
  <2>1. UNION {k.replaced : k \in all} = a.replaced \cup b.replaced
    BY <1>2
  <2>2. CASE e.op = "="
    <3>1. Told[e].replaced = (a.replaced \cup b.replaced) \cup a.targets
      BY <1>2, <1>3, <2>1, <2>2 DEF Replaced
    <3>2. QED BY <2>2, <3>1
  <2>3. CASE e.op # "="
    <3>1. e.op # "call"
      BY <1>1
    <3>2. Told[e].replaced = (a.replaced \cup b.replaced) \cup {}
      BY <1>3, <2>1, <2>3, <3>1, Zenon DEF Replaced
    <3>3. QED BY <2>3, <3>2
  <2>4. QED BY <2>2, <2>3
<1>6. (e.op \in Foldable => Told[e].temporary) /\ (e.op = "," => (b.temporary => Told[e].temporary))
  BY <1>1, <1>2, <1>3 DEF Temporary, Foldable
<1>7. /\ e.op = "+" => (a.boolean /\ b.boolean => Told[e].boolean)
      /\ e.op = "," => (b.boolean => Told[e].boolean)
      /\ e.op \notin {"+", ","} => Told[e].boolean
  BY <1>1, <1>2, <1>3 DEF Boolean, Unary
<1>8. a.throws \/ b.throws => Told[e].throws
  BY <1>1, <1>2, <1>3 DEF Throws
<1>9. /\ /\ e.op \in Foldable /\ (IsConstant(e.kids[1]) \/ a.folds) /\ (IsConstant(e.kids[2]) \/ b.folds)
         => Told[e].folds /\ Told[e].gone
  BY <1>1, <1>2, <1>3 DEF Folds, Gone
<1>10. (b.gone => Told[e].gone) /\ (e.op \in DOMAIN Shortcut => (a.gone => Told[e].gone))
  BY <1>1, <1>2, <1>3, ShortcutIs DEF Gone, LastOperands, Leaf, Unary
<1>11. ASSUME Told[e].habits = {}
       PROVE  /\ a.habits = {} /\ b.habits = {}
              /\ e.op # "," => a.targets \cap b.replaced = {}
              /\ e.op \in DOMAIN Shortcut \cup {","} => ~a.throws
              /\ e.op = "=" => ~(b.gone /\ a.temporary)
              /\ e.op = "+=" => ~b.gone
  <2>1. HabitsWithin(e, a, b, all) = {}
    BY <1>2, <1>3, <1>11
  <2>2. /\ ~ThrowsWithin(e, a) /\ ~RaisesAfterFold(e, a, b) /\ ~AssignsWithin(e, a, b)
        /\ \A k \in all : k.habits = {}
    BY <2>1, NoHabit
  <2>3. QED BY <1>1, <1>2, <2>2 DEF ThrowsWithin, RaisesAfterFold, AssignsWithin, Foldable
<1>12. QED BY <1>4, <1>5, <1>6, <1>7, <1>8, <1>9, <1>10, <1>11 DEF a, b

LEMMA ToldTernary ==
  ASSUME NEW e \in Expressions, e.op = "?"
  PROVE  LET a == Told[e.kids[1]]
             b == Told[e.kids[2]]
             c == Told[e.kids[3]]
         IN  /\ Told[e].targets = b.targets \cup c.targets
             /\ Told[e].replaced = a.replaced \cup b.replaced \cup c.replaced
             /\ b.temporary \/ c.temporary => Told[e].temporary
             /\ b.boolean \/ c.boolean => Told[e].boolean
             /\ a.throws \/ b.throws \/ c.throws => Told[e].throws
             /\ b.gone \/ c.gone => Told[e].gone
             /\ Told[e].habits = {} => a.habits = {} /\ b.habits = {} /\ c.habits = {} /\ ~a.throws
<1> DEFINE a == Told[e.kids[1]]
           b == Told[e.kids[2]]
           c == Told[e.kids[3]]
           kid == [k \in DOMAIN e.kids |-> Told[e.kids[k]]]
           all == {kid[k] : k \in DOMAIN e.kids}
<1>2. kid[1] = a /\ kid[2] = b /\ kid[3] = c /\ all = {a, b, c}
  BY Operands
<1>3. /\ Told[e].targets = Targets(e, kid[1], kid[2], kid[3])
      /\ Told[e].replaced = Replaced(e, kid[1], all)
      /\ Told[e].temporary = Temporary(e, kid[1], kid[2], kid[3])
      /\ Told[e].boolean = Boolean(e, kid[1], kid[2], kid[3])
      /\ Told[e].throws = Throws(e, all)
      /\ Told[e].folds = Folds(e, kid)
      /\ Told[e].gone = Gone(e, kid)
      /\ Told[e].habits = HabitsWithin(e, kid[1], kid[2], all)
  BY ToldAt
<1>h. Told[e.kids[1]] = a /\ Told[e.kids[2]] = b /\ Told[e.kids[3]] = c
  OBVIOUS
<1> HIDE DEF kid, all, a, b, c
<1>4. Told[e].targets = b.targets \cup c.targets
  BY <1>2, <1>3 DEF Targets
<1>5. Told[e].replaced = a.replaced \cup b.replaced \cup c.replaced
  BY <1>2, <1>3 DEF Replaced
<1>6. b.temporary \/ c.temporary => Told[e].temporary
  BY <1>2, <1>3 DEF Temporary
<1>7. b.boolean \/ c.boolean => Told[e].boolean
  BY <1>2, <1>3 DEF Boolean, Unary
<1>8. a.throws \/ b.throws \/ c.throws => Told[e].throws
  BY <1>2, <1>3 DEF Throws
<1>9. b.gone \/ c.gone => Told[e].gone
  <2>1. LastOperands(e) = {2, 3}
    BY ShortcutIs DEF LastOperands, Leaf, Unary
  <2>2. QED BY <1>2, <1>3, <2>1 DEF Gone
<1>10. ASSUME Told[e].habits = {}
       PROVE  a.habits = {} /\ b.habits = {} /\ c.habits = {} /\ ~a.throws
  <2>1. HabitsWithin(e, a, b, all) = {}
    BY <1>2, <1>3, <1>10
  <2>2. ~ThrowsWithin(e, a) /\ \A k \in all : k.habits = {}
    BY <2>1, NoHabit
  <2>3. QED BY <1>2, <2>2 DEF ThrowsWithin
<1>11. QED BY <1>4, <1>5, <1>6, <1>7, <1>8, <1>9, <1>10 DEF a, b, c

\* Induction over the height of expressions.
LEMMA ByHeight ==
  ASSUME NEW G,
         \A e \in Expressions : (\A k \in DOMAIN e.kids : e.kids[k] \in G) => e \in G
  PROVE  Expressions \subseteq G
<1> DEFINE S == {n \in 0..MaxHeight : ~(Nested[n] \subseteq G)}
<1>0. MaxHeight \in Nat /\ S \subseteq Nat
  BY ExpressionsAssumption
<1>1. ASSUME S # {} PROVE FALSE
  <2>1. PICK n \in S : \A m \in S : n <= m
    <3> HIDE DEF S
    <3>1. QED BY <1>0, <1>1, LeastNumber
  <2>2. n \in 0..MaxHeight
    BY <2>1
  <2>3. PICK e \in Nested[n] : e \notin G
    BY <2>1
  <2>4. e \in Expressions
    BY <2>2, <2>3, NestedInside
  <2>5. PICK k \in DOMAIN e.kids : e.kids[k] \notin G
    BY <2>3, <2>4
  <2>6. n # 0 /\ e.kids[k] \in Nested[n - 1]
    BY <2>2, <2>3, <2>5, KidsAre
  <2>7. n - 1 \in 0..MaxHeight /\ ~(n <= n - 1)
    BY <1>0, <2>2, <2>6
  <2>8. n - 1 \in S
    BY <2>5, <2>6, <2>7
  <2>9. QED BY <2>1, <2>7, <2>8
<1>2. MaxHeight \in 0..MaxHeight
  BY <1>0
<1>3. QED BY <1>1, <1>2, Zenon DEF Expressions

-----------------------------------------------------------------------------
(* What is meant has a type, and what is told of it is right.               *)

LEMMA ValueType ==
  /\ \A type \in Types, data \in 0..3 : Value(type, data) \in Values
                                        /\ Value(type, data).type = type /\ Value(type, data).data = data
  /\ \A v \in Values : v.type \in {"int", "bool"} /\ v.data \in 0..3 /\ v = Value(v.type, v.data)
BY DEF Values, Types, Value

LEMMA Digits == 0 \in 0..3 /\ 1 \in 0..3 /\ 2 \in 0..3 /\ 3 \in 0..3
OBVIOUS

LEMMA Modulo ==
  ASSUME NEW a \in Nat
  PROVE  a % 4 \in 0..3
OBVIOUS

LEMMA SumType ==
  ASSUME NEW a \in Values, NEW b \in Values
  PROVE  /\ Sum(a, b) \in Values
         /\ Sum(a, b).type = IF a.type = "bool" /\ b.type = "bool" THEN "bool" ELSE "int"
<1>1. a.data \in 0..3 /\ b.data \in 0..3 /\ (a.data + b.data) % 4 \in 0..3
  BY ValueType, Modulo
<1>2. 0 \in 0..3 /\ 1 \in 0..3 /\ "int" \in Types /\ "bool" \in Types
  BY DEF Types
<1>3. CASE a.type = "bool" /\ b.type = "bool"
  <2>1. Sum(a, b) = Value("bool", 1) \/ Sum(a, b) = Value("bool", 0)
    BY <1>3 DEF Sum
  <2>2. QED BY <1>2, <1>3, <2>1, ValueType
<1>4. CASE ~(a.type = "bool" /\ b.type = "bool")
  <2>1. Sum(a, b) = Value("int", (a.data + b.data) % 4)
    BY <1>4 DEF Sum
  <2>2. QED BY <1>1, <1>2, <1>4, <2>1, ValueType
<1>5. QED BY <1>3, <1>4

LEMMA ConnectedType ==
  ASSUME NEW op, NEW a, NEW b
  PROVE  Connected(op, a, b) \in Values /\ Connected(op, a, b).type = "bool"
<1>1. Connected(op, a, b) = Value("bool", 1) \/ Connected(op, a, b) = Value("bool", 0)
  BY DEF Connected
<1>2. 0 \in 0..3 /\ 1 \in 0..3 /\ "bool" \in Types
  BY DEF Types
<1>3. QED BY <1>1, <1>2, ValueType

Negated(a) == Value("int", (4 - a.data) % 4)
Incremented(a) == [a EXCEPT !.data = (@ + 1) % 4]

LEMMA IncrementedType ==
  ASSUME NEW a \in Values
  PROVE  /\ Incremented(a) \in Values /\ Incremented(a) = Value(a.type, (a.data + 1) % 4)
         /\ Negated(a) \in Values /\ Negated(a).type = "int"
<1>1. a.data \in 0..3 /\ a.type \in Types /\ a.data + 1 \in Nat /\ 4 - a.data \in Nat
  BY DEF Values
<1>2. (a.data + 1) % 4 \in 0..3 /\ (4 - a.data) % 4 \in 0..3
  BY <1>1, Modulo
<1>3. Incremented(a) = Value(a.type, (a.data + 1) % 4)
  BY DEF Incremented, Values, Value
<1>4. QED BY <1>1, <1>2, <1>3, ValueType DEF Negated, Types

Fits(m, d) ==
  /\ m.env \in Environments
  /\ m = Means(m.out, m.val, m.env)
  /\ m.out \in {"value", "variable", "thrown", "error"}
  /\ m.out = "value" => m.val \in Values /\ d.temporary /\ (m.val.type = "bool" => d.boolean)
  /\ m.out = "variable" => m.val \in Variables /\ m.val \in d.targets /\ d.boolean
  /\ m.out = "thrown" => d.throws /\ m.val = None
  /\ m.out = "error" => m.val = None

LEMMA MeansIs ==
  ASSUME NEW out, NEW val, NEW env
  PROVE  Means(out, val, env).out = out /\ Means(out, val, env).val = val /\ Means(out, val, env).env = env
BY DEF Means

LEMMA FitsEach ==
  ASSUME NEW d, NEW env \in Environments
  PROVE  /\ Fits(Means("error", None, env), d)
         /\ d.throws => Fits(Means("thrown", None, env), d)
         /\ \A v \in Values : d.temporary /\ (v.type = "bool" => d.boolean) => Fits(Means("value", v, env), d)
         /\ \A x \in Variables : x \in d.targets /\ d.boolean => Fits(Means("variable", x, env), d)
<1>1. Fits(Means("error", None, env), d)
  BY MeansIs DEF Fits
<1>2. d.throws => Fits(Means("thrown", None, env), d)
  BY MeansIs DEF Fits
<1>3. \A v \in Values : d.temporary /\ (v.type = "bool" => d.boolean) => Fits(Means("value", v, env), d)
  BY MeansIs DEF Fits
<1>4. \A x \in Variables : x \in d.targets /\ d.boolean => Fits(Means("variable", x, env), d)
  BY MeansIs DEF Fits
<1>5. QED BY <1>1, <1>2, <1>3, <1>4

LEMMA StopsIs ==
  ASSUME NEW m, NEW d, Fits(m, d)
  PROVE  /\ Stops(m) <=> m.out \notin {"value", "variable"}
         /\ ~Stops(m) <=> m.out \in {"value", "variable"}
         /\ \A env \in Environments : ~Stops(m) => Deref(m, env) \in Values
         /\ ~Stops(m) /\ Deref(m, m.env).type = "bool" => d.boolean
         /\ m.out = "variable" => \A env : Deref(m, env) = env[m.val]
         /\ m.out # "variable" => \A env : Deref(m, env) = m.val
<1>1. m.out \in {"value", "variable", "thrown", "error"}
  BY DEF Fits
<1>2. /\ Stops(m) <=> m.out \notin {"value", "variable"}
      /\ ~Stops(m) <=> m.out \in {"value", "variable"}
  BY <1>1 DEF Stops
<1>3. /\ m.out = "variable" => \A env : Deref(m, env) = env[m.val]
      /\ m.out # "variable" => \A env : Deref(m, env) = m.val
  BY DEF Deref
<1>4. \A env \in Environments : ~Stops(m) => Deref(m, env) \in Values
  BY <1>2, <1>3 DEF Fits, Environments
<1>5. ~Stops(m) /\ Deref(m, m.env).type = "bool" => d.boolean
  BY <1>2, <1>3 DEF Fits
<1>6. QED BY <1>2, <1>3, <1>4, <1>5

LEMMA Stored ==
  ASSUME NEW env \in Environments, NEW x \in Variables, NEW v \in Values
  PROVE  [env EXCEPT ![x] = v] \in Environments /\ [env EXCEPT ![x] = v][x] = v
BY DEF Environments

LEMMA FitsLeaf ==
  ASSUME NEW e \in Expressions, NEW env \in Environments, e.op \in Leaf
  PROVE  Fits(Meaning[e][env], Told[e])
<1>1. Meaning[e][env] = MeaningOfLeaf(e, env)
  BY MeaningAtLeaf
<1>2. IsLeaf(e) /\ (e.op = "const" \/ e.op = "var" \/ e.op = "call")
  BY Shape DEF Leaf
<1>3. CASE e.op = "const"
  <2>1. Meaning[e][env] = Means("value", e.arg, env) /\ e.arg \in Values
    BY <1>1, <1>2, <1>3 DEF MeaningOfLeaf, IsLeaf
  <2>2. Told[e].temporary /\ (e.arg.type = "bool" => Told[e].boolean)
    BY <1>3, ToldLeaf
  <2>3. QED BY <2>1, <2>2 DEF Fits, Means
<1>4. CASE e.op = "var"
  <2>1. Meaning[e][env] = Means("variable", e.arg, env) /\ e.arg \in Variables
    BY <1>1, <1>2, <1>4 DEF MeaningOfLeaf, IsLeaf
  <2>2. Told[e].boolean /\ e.arg \in Told[e].targets
    BY <1>4, ToldLeaf
  <2>3. QED BY <2>1, <2>2 DEF Fits, Means
<1>5. CASE e.op = "call"
  <2>1. Meaning[e][env] = MeaningOfCall(e.arg, env) /\ e.arg \in {"get", "set", "fail"}
    BY <1>1, <1>2, <1>5 DEF MeaningOfLeaf, IsLeaf, Functions
  <2>2. Told[e].temporary /\ (e.arg = "fail" => Told[e].throws)
    BY <1>5, ToldLeaf
  <2>3. /\ Value("int", 1) \in Values /\ Value("int", 1).type = "int"
        /\ [env EXCEPT !["x"] = Value("int", 3)] \in Environments
    <3>1. 1 \in 0..3 /\ 3 \in 0..3 /\ "int" \in Types /\ "x" \in Variables
      BY DEF Types, Variables
    <3>2. Value("int", 1) \in Values /\ Value("int", 1).type = "int" /\ Value("int", 3) \in Values
      BY <3>1, ValueType
    <3>3. QED BY <3>1, <3>2, Stored
  <2>4. CASE e.arg = "get"
    <3>1. Meaning[e][env] = Means("value", Value("int", 1), env)
      BY <2>1, <2>4 DEF MeaningOfCall
    <3>2. QED BY <2>2, <2>3, <3>1, MeansIs DEF Fits
  <2>5. CASE e.arg = "set"
    <3>1. Meaning[e][env] = Means("value", Value("int", 1), [env EXCEPT !["x"] = Value("int", 3)])
      BY <2>1, <2>5 DEF MeaningOfCall
    <3>2. QED BY <2>2, <2>3, <3>1, MeansIs DEF Fits
  <2>6. CASE e.arg = "fail"
    <3>1. Meaning[e][env] = Means("thrown", None, env)
      BY <2>1, <2>6 DEF MeaningOfCall
    <3>2. QED BY <2>2, <2>6, <3>1, MeansIs DEF Fits
  <2>7. QED BY <2>1, <2>4, <2>5, <2>6
<1>6. QED BY <1>2, <1>3, <1>4, <1>5

\* The three ways an operator with one operand may end.
LEMMA MeaningOfOneIs ==
  ASSUME NEW m, NEW d, Fits(m, d), NEW op \in Unary, NEW a, a = Deref(m, m.env)
  PROVE  /\ Stops(m) => MeaningOfOne(op, m) = m
         /\ ~Stops(m) /\ (a.type # "int" \/ (op = "x++" /\ m.out # "variable"))
            => MeaningOfOne(op, m) = Means("error", None, m.env)
         /\ ~Stops(m) /\ a.type = "int" /\ op = "neg"
            => MeaningOfOne(op, m) = Means("value", Negated(a), m.env)
         /\ ~Stops(m) /\ a.type = "int" /\ op = "x++" /\ m.out = "variable"
            => MeaningOfOne(op, m) = Means("value", a, [m.env EXCEPT ![m.val] = Incremented(a)])
<1>1. op = "neg" \/ op = "x++"
  BY DEF Unary
<1>2. Stops(m) => MeaningOfOne(op, m) = m
  BY DEF MeaningOfOne
<1>3. CASE ~Stops(m) /\ op = "neg"
  <2>1. MeaningOfOne(op, m) = IF a.type = "int" THEN Means("value", Value("int", (4 - a.data) % 4), m.env)
                              ELSE Means("error", None, m.env)
    BY <1>3, Zenon DEF MeaningOfOne
  <2>2. QED BY <1>3, <2>1 DEF Negated
<1>4. CASE ~Stops(m) /\ op = "x++"
  <2>1. MeaningOfOne(op, m) = IF a.type = "int" /\ m.out = "variable"
                              THEN Means("value", a, [m.env EXCEPT ![m.val].data = (@ + 1) % 4])
                              ELSE Means("error", None, m.env)
    BY <1>4 DEF MeaningOfOne
  <2>2. CASE m.out = "variable"
    <3>1. [m.env EXCEPT ![m.val].data = (@ + 1) % 4] = [m.env EXCEPT ![m.val] = Incremented(a)]
      BY <2>2 DEF Incremented, Deref
    <3>2. QED BY <1>4, <2>1, <2>2, <3>1
  <2>3. QED BY <1>4, <2>1, <2>2
<1>5. QED BY <1>1, <1>2, <1>3, <1>4

LEMMA FitsUnary ==
  ASSUME NEW e \in Expressions, NEW env \in Environments, e.op \in Unary,
         Fits(Meaning[e.kids[1]][env], Told[e.kids[1]])
  PROVE  Fits(Meaning[e][env], Told[e])
<1> DEFINE m == Meaning[e.kids[1]][env]
           a == Deref(m, m.env)
           d == Told[e]
<1>1. Meaning[e][env] = MeaningOfOne(e.op, m)
  BY MeaningAtUnary
<1>2. d.temporary /\ (Told[e.kids[1]].throws => d.throws)
  BY ToldUnary
<1>3. Fits(m, Told[e.kids[1]])
  OBVIOUS
<1> HIDE DEF m, d
<1>4. /\ Stops(m) => MeaningOfOne(e.op, m) = m
      /\ ~Stops(m) /\ (a.type # "int" \/ (e.op = "x++" /\ m.out # "variable"))
         => MeaningOfOne(e.op, m) = Means("error", None, m.env)
      /\ ~Stops(m) /\ a.type = "int" /\ e.op = "neg"
         => MeaningOfOne(e.op, m) = Means("value", Negated(a), m.env)
      /\ ~Stops(m) /\ a.type = "int" /\ e.op = "x++" /\ m.out = "variable"
         => MeaningOfOne(e.op, m) = Means("value", a, [m.env EXCEPT ![m.val] = Incremented(a)])
  BY <1>3, MeaningOfOneIs
<1>5. m.env \in Environments /\ (~Stops(m) => a \in Values)
  BY <1>3, StopsIs DEF Fits
<1>6. CASE Stops(m)
  <2>1. Fits(m, d)
    BY <1>2, <1>3, <1>6, StopsIs DEF Fits
  <2>2. QED BY <1>1, <1>4, <1>6, <2>1 DEF d
<1>7. CASE ~Stops(m) /\ (a.type # "int" \/ (e.op = "x++" /\ m.out # "variable"))
  <2>1. Fits(Means("error", None, m.env), d)
    BY <1>5, MeansIs DEF Fits
  <2>2. QED BY <1>1, <1>4, <1>7, <2>1 DEF d
<1>8. CASE ~Stops(m) /\ a.type = "int" /\ e.op = "neg"
  <2>1. Negated(a) \in Values /\ Negated(a).type # "bool"
    BY <1>5, <1>8, IncrementedType
  <2>2. Fits(Means("value", Negated(a), m.env), d)
    BY <1>2, <1>5, <2>1, MeansIs DEF Fits
  <2>3. QED BY <1>1, <1>4, <1>8, <2>2 DEF d
<1>9. CASE ~Stops(m) /\ a.type = "int" /\ e.op = "x++" /\ m.out = "variable"
  <2>1. m.val \in Variables /\ Incremented(a) \in Values
    BY <1>3, <1>5, <1>9, IncrementedType DEF Fits
  <2>2. [m.env EXCEPT ![m.val] = Incremented(a)] \in Environments
    BY <1>5, <2>1, Stored
  <2>3. Fits(Means("value", a, [m.env EXCEPT ![m.val] = Incremented(a)]), d)
    BY <1>2, <1>5, <1>9, <2>2, MeansIs DEF Fits
  <2>4. QED BY <1>1, <1>4, <1>9, <2>3 DEF d
<1>10. QED BY <1>6, <1>7, <1>8, <1>9 DEF Unary

\* What the operators mean that have both operands.
TwoMean(l, r, a, b) ==
  /\ MeaningOfTwo("+", l, r) = Means("value", Sum(a, b), r.env)
  /\ \A op \in {"||", "&&"} : MeaningOfTwo(op, l, r) = Means("value", Connected(op, a, b), r.env)
  /\ l.out = "variable" => MeaningOfTwo("=", l, r) = Means("variable", l.val, [r.env EXCEPT ![l.val] = b])
  /\ l.out # "variable" => MeaningOfTwo("=", l, r) = Means("error", None, r.env)
  /\ l.out = "variable" /\ a.type = "int" /\ b.type = "int"
     => MeaningOfTwo("+=", l, r) = Means("variable", l.val, [r.env EXCEPT ![l.val] = Sum(a, b)])
  /\ ~(l.out = "variable" /\ a.type = "int" /\ b.type = "int")
     => MeaningOfTwo("+=", l, r) = Means("error", None, r.env)

LEMMA MeaningOfTwoIs ==
  ASSUME NEW l, NEW r
  PROVE  TwoMean(l, r, Deref(l, r.env), Deref(r, r.env))
<1> DEFINE a == Deref(l, r.env)
           b == Deref(r, r.env)
<1>1. MeaningOfTwo("+", l, r) = Means("value", Sum(a, b), r.env)
  BY ShortcutIs DEF MeaningOfTwo
<1>2. \A op \in {"||", "&&"} : MeaningOfTwo(op, l, r) = Means("value", Connected(op, a, b), r.env)
  BY ShortcutIs DEF MeaningOfTwo
<1>3. MeaningOfTwo("=", l, r) = IF l.out = "variable" THEN Means("variable", l.val, [r.env EXCEPT ![l.val] = b])
                                ELSE Means("error", None, r.env)
  BY ShortcutIs DEF MeaningOfTwo
<1>4. MeaningOfTwo("+=", l, r) = IF l.out = "variable" /\ a.type = "int" /\ b.type = "int"
                                 THEN Means("variable", l.val, [r.env EXCEPT ![l.val] = Sum(a, b)])
                                 ELSE Means("error", None, r.env)
  BY ShortcutIs DEF MeaningOfTwo
<1> HIDE DEF a, b
<1>5. TwoMean(l, r, a, b)
  BY <1>1, <1>2, <1>3, <1>4 DEF TwoMean
<1>6. QED BY <1>5 DEF a, b

LEMMA FitsOperator ==
  ASSUME NEW e \in Expressions, e.op \in Binary, e.op # ",",
         NEW l, Fits(l, Told[e.kids[1]]), ~Stops(l),
         NEW r, Fits(r, Told[e.kids[2]]), ~Stops(r)
  PROVE  Fits(MeaningOfTwo(e.op, l, r), Told[e])
<1> DEFINE a == Deref(l, r.env)
           b == Deref(r, r.env)
<1>1. e.op = "+" \/ e.op \in {"||", "&&"} \/ e.op = "=" \/ e.op = "+="
  BY DEF Binary, Foldable
<1>2. r.env \in Environments
  BY DEF Fits
<1>3. a \in Values /\ b \in Values /\ (b.type = "bool" => Told[e.kids[2]].boolean)
  BY <1>2, StopsIs
<1>4. /\ l.out = "variable" => l.val \in Variables /\ l.val \in Told[e.kids[1]].targets
      /\ l.out = "value" => (l.val.type = "bool" => Told[e.kids[1]].boolean)
      /\ l.out = "variable" => Told[e.kids[1]].boolean
      /\ l.out = "value" \/ l.out = "variable"
      /\ l.out = "value" => a = l.val
  BY StopsIs DEF Fits
<1>a. a = Deref(l, r.env) /\ b = Deref(r, r.env)
  OBVIOUS
<1> HIDE DEF a, b
<1>5. /\ MeaningOfTwo("+", l, r) = Means("value", Sum(a, b), r.env)
      /\ \A op \in {"||", "&&"} : MeaningOfTwo(op, l, r) = Means("value", Connected(op, a, b), r.env)
      /\ l.out = "variable" => MeaningOfTwo("=", l, r) = Means("variable", l.val, [r.env EXCEPT ![l.val] = b])
      /\ l.out # "variable" => MeaningOfTwo("=", l, r) = Means("error", None, r.env)
      /\ l.out = "variable" /\ a.type = "int" /\ b.type = "int"
         => MeaningOfTwo("+=", l, r) = Means("variable", l.val, [r.env EXCEPT ![l.val] = Sum(a, b)])
      /\ ~(l.out = "variable" /\ a.type = "int" /\ b.type = "int")
         => MeaningOfTwo("+=", l, r) = Means("error", None, r.env)
  <2>1. TwoMean(l, r, a, b)
    BY <1>a, MeaningOfTwoIs
  <2>2. QED BY <2>1 DEF TwoMean
<1>6. Fits(Means("error", None, r.env), Told[e])
  BY <1>2, FitsEach
<1>7. ASSUME NEW v \in Values, l.out = "variable", e.op = "=" \/ e.op = "+="
      PROVE  Fits(Means("variable", l.val, [r.env EXCEPT ![l.val] = v]), Told[e])
  <2>1. [r.env EXCEPT ![l.val] = v] \in Environments
    BY <1>2, <1>4, <1>7, Stored
  <2>2. l.val \in Told[e].targets /\ Told[e].boolean
    <3>1. Told[e].targets = Told[e.kids[1]].targets /\ Told[e].boolean
      BY <1>7, ToldBinary
    <3>2. QED BY <1>4, <1>7, <3>1
  <2>3. QED BY <1>4, <1>7, <2>1, <2>2, FitsEach
<1>8. CASE e.op = "+"
  <2>1. Sum(a, b) \in Values /\ (Sum(a, b).type = "bool" => a.type = "bool" /\ b.type = "bool")
    BY <1>3, SumType
  <2>2. Told[e].temporary
    BY <1>8, ToldBinary DEF Foldable
  <2>3. a.type = "bool" => Told[e.kids[1]].boolean
    <3>1. CASE l.out = "value"
      BY <1>4, <3>1
    <3>2. CASE l.out = "variable"
      BY <1>4, <3>2
    <3>3. QED BY <1>4, <3>1, <3>2
  <2>4. Told[e.kids[1]].boolean /\ Told[e.kids[2]].boolean => Told[e].boolean
    BY <1>8, ToldBinary
  <2>5. QED BY <1>2, <1>3, <1>5, <1>8, <2>1, <2>2, <2>3, <2>4, FitsEach
<1>9. CASE e.op \in {"||", "&&"}
  <2>1. Connected(e.op, a, b) \in Values
    BY ConnectedType
  <2>2. Told[e].temporary /\ Told[e].boolean
    BY <1>9, ToldBinary DEF Foldable
  <2>3. QED BY <1>2, <1>5, <1>9, <2>1, <2>2, FitsEach
<1>10. CASE e.op = "="
  BY <1>3, <1>5, <1>6, <1>7, <1>10
<1>11. CASE e.op = "+="
  BY <1>3, <1>5, <1>6, <1>7, <1>11, SumType
<1>12. QED BY <1>1, <1>8, <1>9, <1>10, <1>11

LEMMA FitsBinary ==
  ASSUME NEW e \in Expressions, NEW env \in Environments, e.op \in Binary, NEW l, NEW r,
         l = Meaning[e.kids[1]][env], r = Meaning[e.kids[2]][l.env],
         Fits(l, Told[e.kids[1]]), Fits(r, Told[e.kids[2]])
  PROVE  Fits(Meaning[e][env], Told[e])
<1>1. Meaning[e][env] = BinaryMeaning(e.op, l, r)
  BY MeaningAtBinary
<1>2. /\ Told[e.kids[1]].throws \/ Told[e.kids[2]].throws => Told[e].throws
      /\ e.op \in Foldable => Told[e].temporary
      /\ e.op \notin {"+", ","} => Told[e].boolean
  BY ToldBinary
<1>3. /\ l.env \in Environments /\ r.env \in Environments
      /\ l = Means(l.out, l.val, l.env) /\ r = Means(r.out, r.val, r.env)
      /\ Stops(l) => l.out = "error" \/ l.out = "thrown"
      /\ Stops(r) => r.out = "error" \/ r.out = "thrown"
      /\ l.out = "thrown" => Told[e.kids[1]].throws
      /\ r.out = "thrown" => Told[e.kids[2]].throws
      /\ Stops(l) => l.val = None
      /\ Stops(r) => r.val = None
  BY DEF Fits, Stops
<1>4. CASE Stops(l)
  <2>1. Fits(l, Told[e])
    BY <1>2, <1>3, <1>4, FitsEach
  <2>2. QED BY <1>1, <1>4, <2>1 DEF BinaryMeaning
<1>5. CASE ~Stops(l) /\ e.op = ","
  <2>1. /\ Told[e].targets = Told[e.kids[2]].targets
        /\ Told[e.kids[2]].temporary => Told[e].temporary
        /\ Told[e.kids[2]].boolean => Told[e].boolean
    BY <1>5, ToldBinary
  <2>2. Fits(r, Told[e])
    <3>1. /\ Told[e.kids[2]].targets \subseteq Told[e].targets
          /\ Told[e.kids[2]].throws => Told[e].throws
      BY <1>2, <2>1
    <3>2. Fits(r, Told[e.kids[2]])
      OBVIOUS
    <3>3. QED BY <2>1, <3>1, <3>2 DEF Fits
  <2>3. QED BY <1>1, <1>5, <2>2 DEF BinaryMeaning
<1>6. CASE ~Stops(l) /\ e.op # "," /\ e.op \in DOMAIN Shortcut /\ (Deref(l, l.env).data # 0) = (e.op = "||")
  <2>1. e.op \in Foldable /\ e.op \notin {"+", ","}
    BY <1>6, ShortcutIs DEF Foldable
  <2>2. Shortcut[e.op] \in 0..3 /\ "bool" \in Types
    <3>1. Shortcut[e.op] = 1 \/ Shortcut[e.op] = 0
      BY <1>6, ShortcutIs
    <3>2. 0 \in 0..3 /\ 1 \in 0..3
      BY Digits
    <3>3. QED BY <3>1, <3>2 DEF Types
  <2>3. Value("bool", Shortcut[e.op]) \in Values
    BY <2>2, ValueType
  <2>4. Fits(Means("value", Value("bool", Shortcut[e.op]), l.env), Told[e])
    BY <1>2, <1>3, <2>1, <2>3, FitsEach
  <2>5. QED BY <1>1, <1>6, <2>4 DEF BinaryMeaning
<1>7. CASE /\ ~Stops(l) /\ e.op # "," /\ Stops(r)
           /\ ~(e.op \in DOMAIN Shortcut /\ (Deref(l, l.env).data # 0) = (e.op = "||"))
  <2>0. Stops(r)
    BY <1>7
  <2>1. Fits(r, Told[e])
    BY <1>2, <1>3, <2>0, FitsEach
  <2>2. QED BY <1>1, <1>7, <2>1 DEF BinaryMeaning
<1>8. CASE /\ ~Stops(l) /\ e.op # "," /\ ~Stops(r)
           /\ ~(e.op \in DOMAIN Shortcut /\ (Deref(l, l.env).data # 0) = (e.op = "||"))
  <2>1. Fits(MeaningOfTwo(e.op, l, r), Told[e])
    BY <1>8, FitsOperator
  <2>2. Meaning[e][env] = MeaningOfTwo(e.op, l, r)
    BY <1>1, <1>8, Zenon DEF BinaryMeaning
  <2>3. QED BY <2>1, <2>2
<1>9. QED BY <1>4, <1>5, <1>6, <1>7, <1>8

LEMMA FitsTernary ==
  ASSUME NEW e \in Expressions, NEW env \in Environments, e.op = "?", NEW l,
         l = Meaning[e.kids[1]][env], Fits(l, Told[e.kids[1]]),
         \A k \in {2, 3} : Fits(Meaning[e.kids[k]][l.env], Told[e.kids[k]])
  PROVE  Fits(Meaning[e][env], Told[e])
<1>1. /\ Told[e].targets = Told[e.kids[2]].targets \cup Told[e.kids[3]].targets
      /\ Told[e.kids[2]].temporary \/ Told[e.kids[3]].temporary => Told[e].temporary
      /\ Told[e.kids[2]].boolean \/ Told[e.kids[3]].boolean => Told[e].boolean
      /\ Told[e.kids[1]].throws \/ Told[e.kids[2]].throws \/ Told[e.kids[3]].throws => Told[e].throws
  BY ToldTernary
<1>2. CASE Stops(l)
  <2>1. /\ l.env \in Environments /\ l = Means(l.out, l.val, l.env) /\ l.val = None
        /\ l.out = "error" \/ (l.out = "thrown" /\ Told[e.kids[1]].throws)
    BY <1>2 DEF Fits, Stops
  <2>2. Fits(l, Told[e])
    BY <1>1, <2>1, FitsEach
  <2>3. QED BY <1>2, <2>2, MeaningAtTernary
<1>3. CASE ~Stops(l) /\ Deref(l, l.env).data # 0
  <2>1. Meaning[e][env] = Meaning[e.kids[2]][l.env]
    BY <1>3, MeaningAtTernary
  <2>2. Fits(Meaning[e.kids[2]][l.env], Told[e.kids[2]])
    OBVIOUS
  <2>3. /\ Told[e.kids[2]].targets \subseteq Told[e].targets
        /\ Told[e.kids[2]].throws => Told[e].throws
        /\ Told[e.kids[2]].temporary => Told[e].temporary
        /\ Told[e.kids[2]].boolean => Told[e].boolean
    BY <1>1
  <2>4. Fits(Meaning[e.kids[2]][l.env], Told[e])
    BY <2>2, <2>3 DEF Fits
  <2>5. QED BY <2>1, <2>4
<1>4. CASE ~Stops(l) /\ Deref(l, l.env).data = 0
  <2>1. Meaning[e][env] = Meaning[e.kids[3]][l.env]
    BY <1>4, MeaningAtTernary
  <2>2. Fits(Meaning[e.kids[3]][l.env], Told[e.kids[3]])
    OBVIOUS
  <2>3. /\ Told[e.kids[3]].targets \subseteq Told[e].targets
        /\ Told[e.kids[3]].throws => Told[e].throws
        /\ Told[e.kids[3]].temporary => Told[e].temporary
        /\ Told[e.kids[3]].boolean => Told[e].boolean
    BY <1>1
  <2>4. Fits(Meaning[e.kids[3]][l.env], Told[e])
    BY <2>2, <2>3 DEF Fits
  <2>5. QED BY <2>1, <2>4
<1>5. QED BY <1>2, <1>3, <1>4

LEMMA AllFit ==
  ASSUME NEW e \in Expressions, NEW env \in Environments
  PROVE  Fits(Meaning[e][env], Told[e])
<1> DEFINE G == {d \in Expressions : \A at \in Environments : Fits(Meaning[d][at], Told[d])}
<1>1. ASSUME NEW d \in Expressions, \A k \in DOMAIN d.kids : d.kids[k] \in G, NEW at \in Environments
      PROVE  Fits(Meaning[d][at], Told[d])
  <2>1. \A k \in DOMAIN d.kids : \A in \in Environments : Fits(Meaning[d.kids[k]][in], Told[d.kids[k]])
    BY <1>1
  <2>2. \A m, c : Fits(m, c) => m.env \in Environments
    BY DEF Fits
  <2>3. CASE d.op \in Leaf
    BY <2>3, FitsLeaf
  <2>4. CASE d.op \in Unary
    <3>1. 1 \in DOMAIN d.kids
      BY <2>4, Operands
    <3>2. QED BY <2>1, <2>4, <3>1, FitsUnary
  <2>5. CASE d.op \in Binary
    <3> DEFINE l == Meaning[d.kids[1]][at]
               r == Meaning[d.kids[2]][l.env]
    <3>1. 1 \in DOMAIN d.kids /\ 2 \in DOMAIN d.kids
      BY <2>5, Operands
    <3>2. Fits(l, Told[d.kids[1]])
      BY <2>1, <3>1
    <3>3. l.env \in Environments
      BY <2>2, <3>2, Zenon
    <3>4. Fits(r, Told[d.kids[2]])
      BY <2>1, <3>1, <3>3
    <3>5. QED BY <2>5, <3>2, <3>4, FitsBinary
  <2>6. CASE d.op = "?"
    <3> DEFINE l == Meaning[d.kids[1]][at]
    <3>1. 1 \in DOMAIN d.kids /\ \A k \in {2, 3} : k \in DOMAIN d.kids
      BY <2>6, Operands
    <3>2. Fits(l, Told[d.kids[1]])
      BY <2>1, <3>1
    <3>3. l.env \in Environments
      BY <2>2, <3>2, Zenon
    <3>4. \A k \in {2, 3} : Fits(Meaning[d.kids[k]][l.env], Told[d.kids[k]])
      BY <2>1, <3>1, <3>3
    <3>5. QED BY <2>6, <3>2, <3>4, FitsTernary
  <2>7. QED BY <2>3, <2>4, <2>5, <2>6, Shape
<1>2. \A d \in Expressions : (\A k \in DOMAIN d.kids : d.kids[k] \in G) => d \in G
  BY <1>1
<1> HIDE DEF G
<1>3. Expressions \subseteq G
  BY <1>2, ByHeight
<1>4. QED BY <1>3 DEF G

-----------------------------------------------------------------------------
(* Trees that mean the same and have no more habits.                        *)

\* What is told of t is no worse than what is told of e.
Weaker(a, b) ==
  /\ a.targets \subseteq b.targets /\ a.replaced \subseteq b.replaced /\ a.habits \subseteq b.habits
  /\ a.temporary => b.temporary
  /\ a.boolean => b.boolean
  /\ a.throws => b.throws
  /\ a.folds => b.folds
  /\ a.gone => b.gone

Simplifies(t, e) ==
  /\ t \in Expressions
  /\ \A n \in 0..MaxHeight : e \in Nested[n] => t \in Nested[n]
  /\ Meaning[t] = Meaning[e]
  /\ Weaker(Told[t], Told[e])
  /\ IsConstant(t) => IsConstant(e) \/ Told[e].folds

LEMMA SimplifiesItself ==
  ASSUME NEW e \in Expressions
  PROVE  Simplifies(e, e)
BY DEF Simplifies, Weaker

LEMMA SimplifiesTwice ==
  ASSUME NEW t, NEW u, NEW e \in Expressions, Simplifies(t, u), Simplifies(u, e)
  PROVE  Simplifies(t, e)
<1>1. Weaker(Told[t], Told[e])
  BY DEF Simplifies, Weaker
<1>2. Meaning[t] = Meaning[e] /\ t \in Expressions
  BY DEF Simplifies
<1>3. \A n \in 0..MaxHeight : e \in Nested[n] => t \in Nested[n]
  BY DEF Simplifies
<1>4. IsConstant(t) => IsConstant(e) \/ Told[e].folds
  BY DEF Simplifies, Weaker
<1>5. QED BY <1>1, <1>2, <1>3, <1>4 DEF Simplifies

LEMMA NodeIs ==
  ASSUME NEW op, NEW arg, NEW kids
  PROVE  Node(op, arg, kids).op = op /\ Node(op, arg, kids).arg = arg /\ Node(op, arg, kids).kids = kids
BY DEF Node

\* Another node with the same operator and operands that are simpler.
Rebuilt(t, e) ==
  /\ t \in Expressions /\ e \in Expressions /\ e.op \notin Leaf
  /\ t.op = e.op /\ DOMAIN t.kids = DOMAIN e.kids
  /\ \A k \in DOMAIN e.kids : Simplifies(t.kids[k], e.kids[k])

LEMMA RebuiltHeight ==
  ASSUME NEW e \in Expressions, e.op \notin Leaf, NEW kids, kids = [k \in DOMAIN e.kids |-> kids[k]],
         \A k \in DOMAIN e.kids : Simplifies(kids[k], e.kids[k]), NEW n \in 0..MaxHeight, e \in Nested[n]
  PROVE  Node(e.op, e.arg, kids) \in Nested[n]
<1>1. n # 0 /\ IsNode(e, Nested[n - 1])
  BY KidsAre
<1>2. n \in 1..MaxHeight /\ n - 1 \in 0..MaxHeight
  BY <1>1, ExpressionsAssumption
<1>3. e.op \in Operators /\ e.arg = None /\ DOMAIN e.kids = 1..Arity(e.op)
      /\ \A k \in 1..Arity(e.op) : e.kids[k] \in Nested[n - 1]
  BY <1>1 DEF IsNode
<1>4. \A k \in 1..Arity(e.op) : kids[k] \in Nested[n - 1]
  BY <1>2, <1>3 DEF Simplifies
<1>5. kids = [k \in 1..Arity(e.op) |-> kids[k]]
  BY <1>3
<1>6. Node(e.op, None, kids) \in Layer(Nested[n - 1])
  BY <1>3, <1>4, <1>5, NodeInLayer
<1>7. QED BY <1>2, <1>3, <1>6, NestedIs

LEMMA RebuiltMeaning ==
  ASSUME NEW t, NEW e, Rebuilt(t, e)
  PROVE  Meaning[t] = Meaning[e]
<1> DEFINE K == [k \in DOMAIN e.kids |-> Meaning[e.kids[k]]]
           L == [k \in DOMAIN t.kids |-> Meaning[t.kids[k]]]
<1>1. L = K
  BY DEF Rebuilt, Simplifies
<1>2. Meaning[t] = MeaningFrom(t, L) /\ Meaning[e] = MeaningFrom(e, K)
  BY MeaningIs DEF Rebuilt
<1> HIDE DEF K, L
<1>3. t.op = e.op /\ e.op \notin Leaf
  BY DEF Rebuilt
<1>4. ASSUME NEW env PROVE MeaningBy(t, K, env) = MeaningBy(e, K, env)
  BY <1>3, Zenon DEF MeaningBy
<1>5. MeaningFrom(t, K) = MeaningFrom(e, K)
  BY <1>4, Zenon DEF MeaningFrom
<1>6. QED BY <1>1, <1>2, <1>5

LEMMA RebuiltTold ==
  ASSUME NEW t, NEW e, Rebuilt(t, e)
  PROVE  Weaker(Told[t], Told[e])
<1> DEFINE K == [k \in DOMAIN e.kids |-> Told[e.kids[k]]]
           L == [k \in DOMAIN t.kids |-> Told[t.kids[k]]]
           allK == {K[k] : k \in DOMAIN e.kids}
           allL == {L[k] : k \in DOMAIN t.kids}
<1>0. t \in Expressions /\ e \in Expressions
  BY DEF Rebuilt
<1>1. /\ t \in Expressions /\ e \in Expressions /\ t.op = e.op /\ DOMAIN t.kids = DOMAIN e.kids /\ e.op \notin Leaf
      /\ \A k \in DOMAIN e.kids : Weaker(L[k], K[k])
      /\ \A k \in DOMAIN e.kids : IsConstant(t.kids[k]) => IsConstant(e.kids[k]) \/ K[k].folds
  BY DEF Rebuilt, Simplifies
<1>2. /\ Told[t].targets = Targets(t, L[1], L[2], L[3])
      /\ Told[t].replaced = Replaced(t, L[1], allL)
      /\ Told[t].temporary = Temporary(t, L[1], L[2], L[3])
      /\ Told[t].boolean = Boolean(t, L[1], L[2], L[3])
      /\ Told[t].throws = Throws(t, allL)
      /\ Told[t].folds = Folds(t, L)
      /\ Told[t].gone = Gone(t, L)
      /\ Told[t].habits = HabitsWithin(t, L[1], L[2], allL)
  <2>1. Told[t] = ToldFrom(t, L)
    BY <1>0, ToldIs
  <2>2. allL = {L[k] : k \in DOMAIN t.kids}
    OBVIOUS
  <2> HIDE DEF L, allL
  <2>3. QED BY <2>1, <2>2 DEF ToldFrom
<1>3. /\ Told[e].targets = Targets(e, K[1], K[2], K[3])
      /\ Told[e].replaced = Replaced(e, K[1], allK)
      /\ Told[e].temporary = Temporary(e, K[1], K[2], K[3])
      /\ Told[e].boolean = Boolean(e, K[1], K[2], K[3])
      /\ Told[e].throws = Throws(e, allK)
      /\ Told[e].folds = Folds(e, K)
      /\ Told[e].gone = Gone(e, K)
      /\ Told[e].habits = HabitsWithin(e, K[1], K[2], allK)
  BY <1>0, ToldAt
<1>4. \A a \in allL : \E b \in allK : Weaker(a, b)
  BY <1>1
<1>5. /\ e.op \in Unary \/ e.op \in Binary \/ e.op = "?"
      /\ e.op \in Unary => DOMAIN e.kids = {1} /\ e.op \notin Binary /\ e.op # "?"
      /\ e.op \in Binary => DOMAIN e.kids = {1, 2} /\ e.op # "?" /\ e.op \notin Unary
      /\ e.op = "?" => DOMAIN e.kids = {1, 2, 3} /\ e.op \notin Unary /\ e.op \notin Binary
      /\ e.op # "const" /\ e.op # "var" /\ e.op # "call"
  BY <1>1, Shape, Operands DEF Leaf
<1> HIDE DEF K, L, allK, allL
<1>6. Weaker(L[1], K[1])
  BY <1>1, <1>5
<1>7. e.op \in Binary \/ e.op = "?" => Weaker(L[2], K[2])
  BY <1>1, <1>5
<1>8. e.op = "?" => Weaker(L[3], K[3])
  BY <1>1, <1>5
<1>9. e.op \in Binary => e.op \in {"+", "||", "&&", "=", "+=", ","}
  BY DEF Binary, Foldable
<1>10. e.op \in Unary => e.op \in {"neg", "x++"}
  BY DEF Unary
<1>11. Told[t].targets \subseteq Told[e].targets
  <2>1. CASE e.op \in {"=", "+="}
    BY <1>1, <1>2, <1>3, <1>5, <1>6, <2>1 DEF Targets, Weaker
  <2>2. CASE e.op = ","
    <3>1. e.op \in Binary
      BY <2>2 DEF Binary
    <3>2. QED BY <1>1, <1>2, <1>3, <1>5, <1>7, <2>2, <3>1 DEF Targets, Weaker
  <2>3. CASE e.op = "?"
    BY <1>1, <1>2, <1>3, <1>5, <1>7, <1>8, <2>3 DEF Targets, Weaker
  <2>4. CASE e.op \notin {"=", "+=", ",", "?"}
    BY <1>1, <1>2, <1>3, <1>5, <2>4 DEF Targets
  <2>5. QED BY <2>1, <2>2, <2>3, <2>4
<1>12. Told[t].replaced \subseteq Told[e].replaced
  <2>1. UNION {k.replaced : k \in allL} \subseteq UNION {k.replaced : k \in allK}
    BY <1>4 DEF Weaker
  <2>2. CASE e.op = "="
    <3>1. /\ Told[t].replaced = (UNION {k.replaced : k \in allL}) \cup L[1].targets
          /\ Told[e].replaced = (UNION {k.replaced : k \in allK}) \cup K[1].targets
      BY <1>1, <1>2, <1>3, <2>2 DEF Replaced
    <3>2. L[1].targets \subseteq K[1].targets
      BY <1>6 DEF Weaker
    <3>3. QED BY <2>1, <3>1, <3>2
  <2>3. CASE e.op # "="
    <3>1. /\ Told[t].replaced = (UNION {k.replaced : k \in allL}) \cup {}
          /\ Told[e].replaced = (UNION {k.replaced : k \in allK}) \cup {}
      BY <1>1, <1>2, <1>3, <1>5, <2>3 DEF Replaced
    <3>3. QED BY <2>1, <3>1
  <2>4. QED BY <2>2, <2>3
<1>13. Told[t].temporary => Told[e].temporary
  <2>1. CASE e.op = ","
    <3>1. e.op \in Binary
      BY <2>1 DEF Binary
    <3>2. QED BY <1>1, <1>2, <1>3, <1>7, <2>1, <3>1 DEF Temporary, Weaker
  <2>2. CASE e.op = "?"
    BY <1>1, <1>2, <1>3, <1>7, <1>8, <2>2 DEF Temporary, Weaker
  <2>3. CASE e.op \in {"var", "=", "+="}
    BY <1>1, <1>2, <2>3 DEF Temporary
  <2>4. CASE e.op \notin {"var", "=", "+=", ",", "?"}
    BY <1>1, <1>3, <2>4 DEF Temporary
  <2>5. QED BY <2>1, <2>2, <2>3, <2>4
<1>14. Told[t].boolean => Told[e].boolean
  BY <1>1, <1>2, <1>3, <1>5, <1>6, <1>7, <1>8, <1>9, <1>10 DEF Boolean, Weaker, Unary
<1>15. Told[t].throws => Told[e].throws
  BY <1>1, <1>2, <1>3, <1>4, <1>5 DEF Throws, Weaker
<1>16. Told[t].folds => Told[e].folds
  BY <1>1, <1>2, <1>3, <1>5 DEF Folds, Weaker
<1>17. Told[t].gone => Told[e].gone
  <2>1. LastOperands(t) = LastOperands(e)
    BY <1>1, Zenon DEF LastOperands
  <2>2. LastOperands(e) \subseteq DOMAIN e.kids
    <3>1. CASE e.op \in Unary
      BY <1>5, <1>1, <3>1, ShortcutIs DEF LastOperands, Unary
    <3>2. CASE e.op = "?"
      BY <1>5, <1>1, <3>2, ShortcutIs DEF LastOperands, Unary
    <3>3. CASE e.op \in DOMAIN Shortcut
      BY <1>5, <1>1, <3>3, ShortcutIs DEF LastOperands, Unary, Binary, Foldable
    <3>4. CASE e.op \in Binary /\ e.op \notin DOMAIN Shortcut
      BY <1>5, <1>1, <3>4 DEF LastOperands
    <3>5. QED BY <1>5, <3>1, <3>2, <3>3, <3>4
  <2>3. \A k \in LastOperands(e) : L[k].gone => K[k].gone
    BY <1>1, <2>2 DEF Weaker
  <2>4. QED BY <1>1, <1>2, <1>3, <1>16, <2>1, <2>3 DEF Gone
<1>18. Told[t].habits \subseteq Told[e].habits
  <2>1. AssignsWithin(t, L[1], L[2]) => AssignsWithin(e, K[1], K[2])
    <3>1. e.op \in Foldable \cup {"=", "+="} => e.op \in Binary
      BY DEF Binary
    <3>2. QED BY <1>1, <1>6, <1>7, <3>1 DEF AssignsWithin, Weaker
  <2>2. ThrowsWithin(t, L[1]) => ThrowsWithin(e, K[1])
    BY <1>1, <1>6 DEF ThrowsWithin, Weaker
  <2>3. RaisesAfterFold(t, L[1], L[2]) => RaisesAfterFold(e, K[1], K[2])
    <3>1. e.op \in {"=", "+="} => e.op \in Binary
      BY DEF Binary
    <3>2. QED BY <1>1, <1>6, <1>7, <3>1 DEF RaisesAfterFold, Weaker
  <2>4. UNION {k.habits : k \in allL} \subseteq UNION {k.habits : k \in allK}
    BY <1>4 DEF Weaker
  <2>5. QED BY <1>2, <1>3, <2>1, <2>2, <2>3, <2>4 DEF HabitsWithin
<1>19. QED BY <1>11, <1>12, <1>13, <1>14, <1>15, <1>16, <1>17, <1>18 DEF Weaker

LEMMA SimplifiesNode ==
  ASSUME NEW e \in Expressions, e.op \notin Leaf, NEW kids, kids = [k \in DOMAIN e.kids |-> kids[k]],
         \A k \in DOMAIN e.kids : Simplifies(kids[k], e.kids[k])
  PROVE  Simplifies(Node(e.op, e.arg, kids), e)
<1> DEFINE t == Node(e.op, e.arg, kids)
<1>1. \A n \in 0..MaxHeight : e \in Nested[n] => t \in Nested[n]
  BY RebuiltHeight
<1>2. t \in Expressions
  <2>1. MaxHeight \in 0..MaxHeight /\ e \in Nested[MaxHeight]
    BY ExpressionsAssumption DEF Expressions
  <2>2. QED BY <1>1, <2>1 DEF Expressions
<1>3. t.op = e.op /\ t.kids = kids
  BY NodeIs
<1> HIDE DEF t
<1>4. DOMAIN t.kids = DOMAIN e.kids
  BY <1>3
<1>5. Rebuilt(t, e)
  BY <1>2, <1>3, <1>4 DEF Rebuilt
<1>6. Meaning[t] = Meaning[e] /\ Weaker(Told[t], Told[e])
  BY <1>5, RebuiltMeaning, RebuiltTold
<1>7. ~IsConstant(t)
  BY <1>3 DEF IsConstant, Leaf
<1>8. Simplifies(t, e)
  BY <1>1, <1>2, <1>6, <1>7 DEF Simplifies
<1>9. QED BY <1>8 DEF t

-----------------------------------------------------------------------------
(* Constant parts that are replaced by their value.                         *)

LEMMA ConstantMeans ==
  ASSUME NEW c \in Expressions, IsConstant(c), NEW env \in Environments
  PROVE  c.arg \in Values /\ Meaning[c][env] = Means("value", c.arg, env)
<1>1. c.op = "const" /\ c.op \in Leaf
  BY DEF IsConstant, Leaf
<1>2. c.arg \in Values
  BY <1>1, Shape DEF IsLeaf
<1>3. Meaning[c][env] = MeaningOfLeaf(c, env)
  BY <1>1, MeaningAtLeaf
<1>4. QED BY <1>1, <1>2, <1>3 DEF MeaningOfLeaf

LEMMA ConstantNode ==
  ASSUME NEW v \in Values, NEW n \in 0..MaxHeight
  PROVE  /\ Node("const", v, <<>>) \in Nested[n] /\ Node("const", v, <<>>) \in Expressions
         /\ IsConstant(Node("const", v, <<>>)) /\ Node("const", v, <<>>).arg = v
<1>1. Node("const", v, <<>>) \in Leaves
  BY DEF Leaves
<1>2. \A m \in 0..MaxHeight : Leaves \subseteq Nested[m]
  BY NestedIs, ExpressionsAssumption
<1>3. MaxHeight \in 0..MaxHeight
  BY ExpressionsAssumption
<1>4. QED BY <1>1, <1>2, <1>3 DEF Expressions, IsConstant, Node

LEMMA ConstantsFold ==
  ASSUME NEW t \in Expressions, t.op \in Foldable, IsConstant(t.kids[1]), IsConstant(t.kids[2])
  PROVE  \E v \in Values : \A env \in Environments : Meaning[t][env] = Means("value", v, env)
<1> DEFINE a == t.kids[1].arg
           b == t.kids[2].arg
           short == t.op \in DOMAIN Shortcut /\ (a.data # 0) = (t.op = "||")
           v == IF short THEN Value("bool", Shortcut[t.op])
                ELSE IF t.op = "+" THEN Sum(a, b) ELSE Connected(t.op, a, b)
<1>1. t.op \in Binary /\ t.op \in {"+", "||", "&&"} /\ t.op # ","
  BY DEF Binary, Foldable
<1>2. t.kids[1] \in Expressions /\ t.kids[2] \in Expressions
  BY <1>1, Operands
<1>3. ASSUME NEW env \in Environments
      PROVE  a \in Values /\ b \in Values /\ Meaning[t][env] = Means("value", v, env)
  <2> DEFINE l == Means("value", a, env)
             r == Means("value", b, env)
  <2>1. Meaning[t.kids[1]][env] = l /\ Meaning[t.kids[2]][env] = r /\ a \in Values /\ b \in Values
    BY <1>2, ConstantMeans
  <2>2. l.out = "value" /\ l.val = a /\ l.env = env /\ r.out = "value" /\ r.val = b /\ r.env = env
    BY MeansIs
  <2>3. Meaning[t][env] = BinaryMeaning(t.op, l, r)
    <3>1. Meaning[t][env] = BinaryMeaning(t.op, Meaning[t.kids[1]][env],
                                          Meaning[t.kids[2]][Meaning[t.kids[1]][env].env])
      BY <1>1, MeaningAtBinary
    <3>2. QED BY <2>1, <2>2, <3>1
  <2> HIDE DEF l, r, a, b
  <2>4. ~Stops(l) /\ ~Stops(r) /\ Deref(l, env) = a /\ Deref(r, env) = b
    BY <2>2 DEF Stops, Deref
  <2>5. CASE short
    <3>1. BinaryMeaning(t.op, l, r) = Means("value", Value("bool", Shortcut[t.op]), env)
      BY <1>1, <2>2, <2>4, <2>5 DEF BinaryMeaning
    <3>2. QED BY <2>1, <2>3, <2>5, <3>1
  <2>6. CASE ~short
    <3>1. BinaryMeaning(t.op, l, r) = MeaningOfTwo(t.op, l, r)
      BY <1>1, <2>2, <2>4, <2>6, Zenon DEF BinaryMeaning
    <3>2. TwoMean(l, r, a, b)
      <4>1. TwoMean(l, r, Deref(l, r.env), Deref(r, r.env))
        BY MeaningOfTwoIs
      <4>2. QED BY <2>2, <2>4, <4>1
    <3>3. CASE t.op = "+"
      <4>1. MeaningOfTwo("+", l, r) = Means("value", Sum(a, b), r.env)
        BY <3>2 DEF TwoMean
      <4>2. QED BY <2>1, <2>2, <2>3, <2>6, <3>1, <3>3, <4>1
    <3>4. CASE t.op # "+"
      <4>1. t.op \in {"||", "&&"}
        BY <1>1, <3>4
      <4>2. MeaningOfTwo(t.op, l, r) = Means("value", Connected(t.op, a, b), r.env)
        BY <3>2, <4>1 DEF TwoMean
      <4>3. QED BY <2>1, <2>2, <2>3, <2>6, <3>1, <3>4, <4>2
    <3>5. QED BY <3>3, <3>4
  <2>7. QED BY <2>5, <2>6
<1>4. PICK env \in Environments : TRUE
  <2>1. [x \in Variables |-> Value("int", 0)] \in Environments
    BY Digits, ValueType DEF Environments, Types
  <2>2. QED BY <2>1
<1>5. a \in Values /\ b \in Values
  BY <1>3, <1>4
<1>6. v \in Values
  <2>1. short => Shortcut[t.op] \in 0..3
    BY ShortcutIs, Digits
  <2>2. Sum(a, b) \in Values /\ Connected(t.op, a, b) \in Values
    BY <1>5, SumType, ConnectedType
  <2>3. "bool" \in Types
    BY DEF Types
  <2>4. short => Value("bool", Shortcut[t.op]) \in Values
    BY <2>1, <2>3, ValueType
  <2> HIDE DEF short, a, b
  <2>5. QED BY <2>2, <2>4
<1> HIDE DEF v
<1>7. QED BY <1>3, <1>6

LEMMA FoldedSimplifies ==
  ASSUME NEW t \in Expressions, t.op \in Foldable, IsConstant(t.kids[1]), IsConstant(t.kids[2]),
         NEW env \in Environments, NEW value, Meaning[t][env].val = value
  PROVE  Simplifies(Node("const", value, <<>>), t)
<1> DEFINE c == Node("const", value, <<>>)
<1>1. PICK v \in Values : \A at \in Environments : Meaning[t][at] = Means("value", v, at)
  BY ConstantsFold
<1>2. v = value /\ value \in Values
  BY <1>1, MeansIs
<1>3. /\ \A n \in 0..MaxHeight : c \in Nested[n]
      /\ c \in Expressions /\ IsConstant(c) /\ c.arg = value
  <2>1. MaxHeight \in 0..MaxHeight
    BY ExpressionsAssumption
  <2>2. QED BY <1>2, <2>1, ConstantNode
<1> HIDE DEF c
<1>4. \A at \in Environments : Meaning[c][at] = Meaning[t][at]
  BY <1>1, <1>2, <1>3, ConstantMeans
<1>5. Meaning[c] = Meaning[t]
  <2>1. Meaning[c] = [at \in Environments |-> Meaning[c][at]] /\ Meaning[t] = [at \in Environments |-> Meaning[t][at]]
    BY <1>3, MeaningIs DEF MeaningFrom
  <2>2. QED BY <1>4, <2>1
<1>6. t.op \in Binary /\ t.op \notin {"=", "+=", ","}
  BY DEF Foldable, Binary
<1>7. Told[t].temporary /\ Told[t].folds
  BY <1>6, ToldBinary
<1>8. value.type = "bool" => Told[t].boolean
  <2>1. Fits(Meaning[t][env], Told[t])
    BY AllFit
  <2>2. Meaning[t][env].out = "value" /\ Meaning[t][env].val = value
    BY <1>1, MeansIs
  <2>3. QED BY <2>1, <2>2 DEF Fits
<1>9. Weaker(Told[c], Told[t])
  <2>1. c.op = "const" /\ c.op \in Leaf
    BY <1>3 DEF IsConstant, Leaf
  <2>2. /\ Told[c].targets = {} /\ Told[c].replaced = {} /\ Told[c].habits = {}
        /\ Told[c].boolean = (c.arg.type = "bool") /\ Told[c].throws = FALSE
        /\ Told[c].folds = FALSE /\ Told[c].gone = FALSE
    BY <1>3, <2>1, ToldLeaf
  <2>3. QED BY <1>3, <1>7, <1>8, <2>2 DEF Weaker
<1>10. Simplifies(c, t)
  BY <1>3, <1>5, <1>7, <1>9 DEF Simplifies
<1>11. QED BY <1>10 DEF c

-----------------------------------------------------------------------------
(* Heaps between two steps of the evaluator.                                *)

LiveOf(h) == {v \in DOMAIN h.slots : h.slots[v].live}

\* A variable owns one value, and a value that has an owner is that variable's.
Owned(h) ==
  /\ \A x \in Variables : h.var[x] \in LiveOf(h) /\ h.slots[h.var[x]].owner = x
  /\ \A v \in LiveOf(h) : h.slots[v].owner # "" => h.var[h.slots[v].owner] = v
\* What is in a pool is there once, and is released.
Pooled(h) ==
  /\ \A type \in Types : \A i \in DOMAIN h.free[type] :
       /\ h.free[type][i] \in DOMAIN h.slots
       /\ ~h.slots[h.free[type][i]].live /\ h.slots[h.free[type][i]].type = type
  /\ \A type \in Types : \A i, j \in DOMAIN h.free[type] : h.free[type][i] = h.free[type][j] => i = j
Sound(h) == h \in Heaps /\ Owned(h) /\ Pooled(h) /\ ~h.stale /\ ~h.lost

\* What most operations leave alone.
Kept(h, g) == g.exception = h.exception /\ g.error = h.error /\ g.placed = h.placed

\* g is h with a new temporary v.
Given(h, g, v, value) ==
  /\ Sound(g) /\ Kept(h, g) /\ g.var = h.var
  /\ v \notin LiveOf(h) /\ LiveOf(g) = LiveOf(h) \cup {v}
  /\ g.slots[v] = Slot(value)
  /\ \A w \in LiveOf(h) : g.slots[w] = h.slots[w]

\* g is h without the temporary v.
Taken(h, g, v) ==
  /\ Sound(g) /\ Kept(h, g) /\ g.var = h.var
  /\ LiveOf(g) = LiveOf(h) \ {v}
  /\ \A w \in LiveOf(g) : g.slots[w] = h.slots[w]

LEMMA HeapType ==
  ASSUME NEW h \in Heaps
  PROVE  /\ h.slots \in Seq(Slots) /\ h.free \in [Types -> Seq(Nat)] /\ h.var \in [Variables -> Nat]
         /\ h.exception \in Nat /\ h.error \in BOOLEAN /\ h.placed \in BOOLEAN
         /\ h.lost \in BOOLEAN /\ h.stale \in BOOLEAN
         /\ DOMAIN h.slots = 1..Len(h.slots) /\ Len(h.slots) \in Nat
         /\ \A v \in DOMAIN h.slots : h.slots[v] \in Slots
         /\ \A type \in Types : h.free[type] \in Seq(Nat)
BY DEF Heaps

LEMMA SlotType ==
  /\ \A value \in Values : /\ Slot(value) \in Slots /\ Slot(value).type = value.type
                           /\ Slot(value).data = value.data /\ Slot(value).owner = "" /\ Slot(value).live = TRUE
                           /\ Value(Slot(value).type, Slot(value).data) = value
  /\ \A s \in Slots : /\ Value(s.type, s.data) \in Values /\ s.type \in Types /\ s.data \in 0..3
                      /\ s.owner \in Variables \cup {""} /\ s.live \in BOOLEAN
  /\ "" \notin Variables
<1>1. ASSUME NEW value \in Values
      PROVE  /\ value.type \in Types /\ value.data \in 0..3
             /\ value = [type |-> value.type, data |-> value.data]
  BY DEF Values
<1>2. TRUE \in BOOLEAN /\ "" \in Variables \cup {""}
  OBVIOUS
<1>3. ASSUME NEW value \in Values PROVE Slot(value) \in Slots
  BY <1>1, <1>2 DEF Slot, Slots
<1>4. ASSUME NEW value \in Values
      PROVE  /\ Slot(value).type = value.type
             /\ Slot(value).data = value.data /\ Slot(value).owner = "" /\ Slot(value).live = TRUE
             /\ Value(Slot(value).type, Slot(value).data) = value
  BY <1>1 DEF Slot, Value
<1>5. ASSUME NEW s \in Slots
      PROVE  /\ s.type \in Types /\ s.data \in 0..3
             /\ s.owner \in Variables \cup {""} /\ s.live \in BOOLEAN
  BY DEF Slots
<1>6. ASSUME NEW s \in Slots PROVE Value(s.type, s.data) \in Values
  BY <1>5 DEF Values, Value
<1>7. "" \notin Variables
  BY DEF Variables
<1>8. QED BY <1>3, <1>4, <1>5, <1>6, <1>7

\* The pools of g are h's, or shorter, and none of their values was touched.
LEMMA PooledStill ==
  ASSUME NEW h, NEW g, Pooled(h),
         \A type \in Types : \A i \in DOMAIN g.free[type] :
            /\ i \in DOMAIN h.free[type] /\ g.free[type][i] = h.free[type][i]
            /\ g.free[type][i] \in DOMAIN g.slots
            /\ g.slots[g.free[type][i]].live = h.slots[g.free[type][i]].live
            /\ g.slots[g.free[type][i]].type = h.slots[g.free[type][i]].type
  PROVE  Pooled(g)
BY DEF Pooled

-----------------------------------------------------------------------------
(* A value is taken from a pool.                                            *)

LEMMA ConstructIs ==
  ASSUME NEW h \in Heaps, NEW value \in Values, NEW t
  PROVE  LET d == Construct(h, value, t)
             pool == h.free[value.type]
             g == d.h
         IN  /\ d.t = t /\ d = Done(g, d.v, t)
             /\ Kept(h, g) /\ g.var = h.var /\ g.stale = h.stale /\ g.lost = h.lost
             /\ d.v = IF pool = <<>> THEN Len(h.slots) + 1 ELSE pool[Len(pool)]
             /\ g.slots = IF pool = <<>> THEN Append(h.slots, Slot(value)) ELSE [h.slots EXCEPT ![d.v] = Slot(value)]
             /\ g.free = [h.free EXCEPT ![value.type] = IF pool = <<>> THEN @ ELSE SubSeq(@, 1, Len(@) - 1)]
             /\ g = [slots |-> g.slots, free |-> g.free, var |-> g.var, exception |-> g.exception,
                     error |-> g.error, placed |-> g.placed, lost |-> g.lost, stale |-> g.stale]
BY DEF Heaps, Construct, Done, Kept

\* The last value of the pool of its type.
LEMMA LastOfPool ==
  ASSUME NEW h \in Heaps, Pooled(h), NEW type \in Types, h.free[type] # <<>>
  PROVE  LET pool == h.free[type]
             v == pool[Len(pool)]
             rest == SubSeq(pool, 1, Len(pool) - 1)
         IN  /\ v \in DOMAIN h.slots /\ ~h.slots[v].live /\ h.slots[v].type = type
             /\ rest \in Seq(Nat)
             /\ DOMAIN rest \subseteq DOMAIN pool
             /\ \A i \in DOMAIN rest : rest[i] = pool[i] /\ rest[i] # v
<1> DEFINE pool == h.free[type]
           n == Len(pool)
           rest == SubSeq(pool, 1, n - 1)
<1>1. pool \in Seq(Nat) /\ n \in Nat /\ n # 0 /\ DOMAIN pool = 1..n
  BY HeapType
<1>2. n \in DOMAIN pool
  BY <1>1
<1>3. pool[n] \in DOMAIN h.slots /\ ~h.slots[pool[n]].live /\ h.slots[pool[n]].type = type
  BY <1>2 DEF Pooled
<1>4. rest \in Seq(Nat) /\ DOMAIN rest = 1..(n - 1) /\ \A i \in 1..(n - 1) : rest[i] = pool[i]
  BY <1>1
<1>5. \A i \in 1..(n - 1) : i \in DOMAIN pool /\ i # n
  BY <1>1
<1>6. \A i \in 1..(n - 1) : pool[i] # pool[n]
  BY <1>2, <1>5 DEF Pooled
<1>7. QED BY <1>3, <1>4, <1>5, <1>6

\* A heap with one more value.
LEMMA GivenWhen ==
  ASSUME NEW h, Sound(h), NEW g \in Heaps, NEW v, NEW value \in Values,
         Kept(h, g), g.var = h.var, g.stale = h.stale, g.lost = h.lost,
         v \notin LiveOf(h), DOMAIN g.slots = DOMAIN h.slots \cup {v},
         g.slots[v] = Slot(value), \A w \in DOMAIN h.slots : w # v => g.slots[w] = h.slots[w],
         \A type \in Types : \A i \in DOMAIN g.free[type] :
            i \in DOMAIN h.free[type] /\ g.free[type][i] = h.free[type][i] /\ g.free[type][i] # v
  PROVE  Given(h, g, v, value)
<1>1. Owned(h) /\ Pooled(h)
  BY DEF Sound
<1>2. Slot(value).live /\ Slot(value).owner = ""
  BY SlotType
<1>3. LiveOf(g) = LiveOf(h) \cup {v}
  BY <1>2 DEF LiveOf
<1>4. \A w \in LiveOf(h) : g.slots[w] = h.slots[w]
  BY DEF LiveOf
<1>5. Owned(g)
  <2>1. ASSUME NEW x \in Variables
        PROVE  g.var[x] \in LiveOf(g) /\ g.slots[g.var[x]].owner = x
    <3>1. h.var[x] \in LiveOf(h) /\ h.slots[h.var[x]].owner = x /\ g.var[x] = h.var[x]
      BY <1>1 DEF Owned
    <3>2. g.slots[h.var[x]] = h.slots[h.var[x]]
      BY <1>4, <3>1
    <3>3. QED BY <1>3, <3>1, <3>2
  <2>2. ASSUME NEW w \in LiveOf(g), g.slots[w].owner # ""
        PROVE  g.var[g.slots[w].owner] = w
    <3>1. w \in LiveOf(h)
      BY <1>2, <1>3, <2>2
    <3>2. QED BY <1>1, <1>4, <2>2, <3>1 DEF Owned
  <2>3. QED BY <2>1, <2>2 DEF Owned
<1>6. ASSUME NEW type \in Types, NEW i \in DOMAIN g.free[type]
      PROVE  /\ i \in DOMAIN h.free[type] /\ g.free[type][i] = h.free[type][i]
             /\ g.free[type][i] \in DOMAIN g.slots
             /\ g.slots[g.free[type][i]].live = h.slots[g.free[type][i]].live
             /\ g.slots[g.free[type][i]].type = h.slots[g.free[type][i]].type
  <2>1. i \in DOMAIN h.free[type] /\ g.free[type][i] = h.free[type][i] /\ g.free[type][i] # v
    BY <1>6
  <2>2. h.free[type][i] \in DOMAIN h.slots
    BY <1>1, <2>1 DEF Pooled
  <2>3. QED BY <2>1, <2>2
<1>7. Pooled(g)
  BY <1>1, <1>6, PooledStill
<1>8. QED BY <1>3, <1>4, <1>5, <1>7 DEF Given, Sound

LEMMA Appended ==
  ASSUME NEW S \in Seq(Slots), NEW s \in Slots
  PROVE  /\ Append(S, s) \in Seq(Slots) /\ DOMAIN Append(S, s) = DOMAIN S \cup {Len(S) + 1}
         /\ Len(S) + 1 \notin DOMAIN S /\ Append(S, s)[Len(S) + 1] = s
         /\ \A w \in DOMAIN S : Append(S, s)[w] = S[w]
<1>1. Append(S, s) \in Seq(Slots) /\ DOMAIN Append(S, s) = 1..(Len(S) + 1) /\ DOMAIN S = 1..Len(S) /\ Len(S) \in Nat
  OBVIOUS
<1>2. Append(S, s)[Len(S) + 1] = s /\ \A w \in 1..Len(S) : Append(S, s)[w] = S[w]
  OBVIOUS
<1>3. QED BY <1>1, <1>2

LEMMA Overwritten ==
  ASSUME NEW S \in Seq(Slots), NEW s \in Slots, NEW v \in DOMAIN S
  PROVE  LET T == [S EXCEPT ![v] = s]
         IN  /\ T \in Seq(Slots) /\ DOMAIN T = DOMAIN S /\ Len(T) = Len(S)
             /\ T[v] = s /\ \A w \in DOMAIN S : w # v => T[w] = S[w]
OBVIOUS

LEMMA Constructed ==
  ASSUME NEW h, Sound(h), NEW value \in Values, NEW t
  PROVE  LET d == Construct(h, value, t)
         IN  d.t = t /\ d = Done(d.h, d.v, t) /\ Given(h, d.h, d.v, value)
<1> DEFINE d == Construct(h, value, t)
           g == d.h
           v == d.v
           type == value.type
           pool == h.free[type]
<1>1. h \in Heaps /\ type \in Types /\ Owned(h) /\ Pooled(h)
  BY DEF Sound, Values
<1>2. Slot(value) \in Slots /\ Slot(value).live /\ Slot(value).owner = "" /\ Slot(value).type = type
  BY SlotType
<1>3. /\ d.t = t /\ d = Done(g, v, t)
      /\ Kept(h, g) /\ g.var = h.var /\ g.stale = h.stale /\ g.lost = h.lost
      /\ v = IF pool = <<>> THEN Len(h.slots) + 1 ELSE pool[Len(pool)]
      /\ g.slots = IF pool = <<>> THEN Append(h.slots, Slot(value)) ELSE [h.slots EXCEPT ![v] = Slot(value)]
      /\ g.free = [h.free EXCEPT ![type] = IF pool = <<>> THEN @ ELSE SubSeq(@, 1, Len(@) - 1)]
      /\ g = [slots |-> g.slots, free |-> g.free, var |-> g.var, exception |-> g.exception,
              error |-> g.error, placed |-> g.placed, lost |-> g.lost, stale |-> g.stale]
  BY <1>1, ConstructIs
<1>4. /\ h.slots \in Seq(Slots) /\ h.free \in [Types -> Seq(Nat)] /\ DOMAIN h.slots = 1..Len(h.slots)
      /\ Len(h.slots) \in Nat
  BY <1>1, HeapType
<1>5. pool = <<>> \/ /\ pool # <<>>
                     /\ pool[Len(pool)] \in DOMAIN h.slots /\ ~h.slots[pool[Len(pool)]].live
                     /\ SubSeq(pool, 1, Len(pool) - 1) \in Seq(Nat)
                     /\ DOMAIN SubSeq(pool, 1, Len(pool) - 1) \subseteq DOMAIN pool
                     /\ \A i \in DOMAIN SubSeq(pool, 1, Len(pool) - 1) :
                           /\ SubSeq(pool, 1, Len(pool) - 1)[i] = pool[i]
                           /\ SubSeq(pool, 1, Len(pool) - 1)[i] # pool[Len(pool)]
  BY <1>1, LastOfPool
<1>6. \A other \in Types : other # type => \A i \in DOMAIN h.free[other] : h.slots[h.free[other][i]].type = other
  BY <1>1 DEF Pooled
<1>6a. /\ \A other \in Types : \A i \in DOMAIN h.free[other] : h.free[other][i] \in DOMAIN h.slots
       /\ pool # <<>> => h.slots[pool[Len(pool)]].type = type
  BY <1>1, LastOfPool DEF Pooled
<1>6b. pool = h.free[type]
  OBVIOUS
<1> HIDE DEF d, g, v, type, pool
<1>7. /\ g.slots \in Seq(Slots) /\ v \notin LiveOf(h) /\ DOMAIN g.slots = DOMAIN h.slots \cup {v}
      /\ g.slots[v] = Slot(value) /\ \A w \in DOMAIN h.slots : w # v => g.slots[w] = h.slots[w]
  <2>1. CASE pool = <<>>
    <3>1. v = Len(h.slots) + 1 /\ g.slots = Append(h.slots, Slot(value))
      BY <1>3, <2>1
    <3> DEFINE S == Append(h.slots, Slot(value))
    <3>2. /\ S \in Seq(Slots) /\ DOMAIN S = DOMAIN h.slots \cup {Len(h.slots) + 1}
          /\ Len(h.slots) + 1 \notin DOMAIN h.slots
          /\ S[Len(h.slots) + 1] = Slot(value) /\ \A w \in DOMAIN h.slots : S[w] = h.slots[w]
      BY <1>2, <1>4, Appended, Zenon
    <3> HIDE DEF S
    <3>3. v = Len(h.slots) + 1 /\ g.slots = S
      BY <3>1 DEF S
    <3>4. QED BY <3>2, <3>3 DEF LiveOf
  <2>2. CASE pool # <<>>
    <3>1. v \in DOMAIN h.slots /\ ~h.slots[v].live /\ g.slots = [h.slots EXCEPT ![v] = Slot(value)]
      BY <1>3, <1>5, <2>2
    <3> DEFINE S == [h.slots EXCEPT ![v] = Slot(value)]
    <3>2. /\ S \in Seq(Slots) /\ DOMAIN S = DOMAIN h.slots
          /\ S[v] = Slot(value) /\ \A w \in DOMAIN h.slots : w # v => S[w] = h.slots[w]
      <4>1. v \in DOMAIN h.slots
        BY <3>1
      <4>2. QED BY <1>2, <1>4, <4>1, Overwritten, Zenon
    <3> HIDE DEF S
    <3>3. g.slots = S
      BY <3>1 DEF S
    <3>4. v \notin LiveOf(h)
      BY <3>1 DEF LiveOf
    <3>5. QED BY <3>1, <3>2, <3>3, <3>4
  <2>3. QED BY <2>1, <2>2
<1>8. /\ g.free \in [Types -> Seq(Nat)]
      /\ \A other \in Types : \A i \in DOMAIN g.free[other] :
            i \in DOMAIN h.free[other] /\ g.free[other][i] = h.free[other][i] /\ g.free[other][i] # v
  <2>1. CASE pool = <<>>
    <3>1. g.free = h.free
      BY <1>1, <1>3, <1>4, <1>6b, <2>1
    <3>2. v = Len(h.slots) + 1
      BY <1>3, <2>1
    <3>3. QED BY <1>4, <1>6a, <3>1, <3>2
  <2>2. CASE pool # <<>>
    <3>1. v = pool[Len(pool)] /\ g.free = [h.free EXCEPT ![type] = SubSeq(pool, 1, Len(pool) - 1)]
      BY <1>1, <1>3, <1>4, <1>6b, <2>2
    <3>2. g.free \in [Types -> Seq(Nat)]
      BY <1>4, <1>5, <2>2, <3>1
    <3>3. ASSUME NEW other \in Types, NEW i \in DOMAIN g.free[other]
          PROVE  i \in DOMAIN h.free[other] /\ g.free[other][i] = h.free[other][i] /\ g.free[other][i] # v
      <4>1. CASE other = type
        <5>1. g.free[other] = SubSeq(pool, 1, Len(pool) - 1)
          BY <1>4, <3>1, <4>1
        <5>2. QED BY <1>5, <1>6b, <2>2, <3>1, <3>3, <4>1, <5>1
      <4>2. CASE other # type
        <5>1. g.free[other] = h.free[other]
          BY <1>4, <3>1, <4>2
        <5>2. QED BY <1>6, <1>6a, <2>2, <3>1, <3>3, <4>2, <5>1
      <4>3. QED BY <4>1, <4>2
    <3>4. QED BY <3>2, <3>3
  <2>3. QED BY <2>1, <2>2
<1>9. g \in Heaps
  <2>1. /\ g.var \in [Variables -> Nat] /\ g.exception \in Nat /\ g.error \in BOOLEAN /\ g.placed \in BOOLEAN
        /\ g.lost \in BOOLEAN /\ g.stale \in BOOLEAN
    BY <1>1, <1>3, HeapType DEF Kept
  <2>2. QED BY <1>3, <1>7, <1>8, <2>1 DEF Heaps
<1>10. Given(h, g, v, value)
  <2>1. Kept(h, g) /\ g.var = h.var /\ g.stale = h.stale /\ g.lost = h.lost
    BY <1>3
  <2>2. QED BY <1>7, <1>8, <1>9, <2>1, GivenWhen
<1>11. QED BY <1>3, <1>10 DEF d, g, v

-----------------------------------------------------------------------------
(* What is live: temporaries, and the values of the variables.              *)

Temps(h) == {v \in LiveOf(h) : h.slots[v].owner = ""}

LEMMA LiveIs ==
  ASSUME NEW h, Sound(h)
  PROVE  /\ h \in Heaps
         /\ \A x \in Variables : /\ h.var[x] \in LiveOf(h) /\ h.slots[h.var[x]].owner = x
                                 /\ h.var[x] \notin Temps(h) /\ HasOwner(h, h.var[x])
         /\ \A x, y \in Variables : h.var[x] = h.var[y] => x = y
         /\ \A v \in LiveOf(h) : /\ v \in DOMAIN h.slots /\ h.slots[v].live /\ h.slots[v] \in Slots
                                 /\ Datum(h, v) \in Values /\ v # None
         /\ \A v \in Temps(h) : v \in LiveOf(h) /\ ~HasOwner(h, v)
         /\ \A v \in LiveOf(h) \ Temps(h) : \E x \in Variables : v = h.var[x]
<1>1. h \in Heaps /\ Owned(h)
  BY DEF Sound
<1>2. ASSUME NEW v \in LiveOf(h)
      PROVE  v \in DOMAIN h.slots /\ h.slots[v].live /\ h.slots[v] \in Slots /\ v # None
  <2>1. v \in DOMAIN h.slots /\ h.slots[v].live
    BY <1>2 DEF LiveOf
  <2>2. QED BY <1>1, <2>1, HeapType DEF None
<1>3. ASSUME NEW v \in LiveOf(h) PROVE Datum(h, v) \in Values
  BY <1>2, SlotType DEF Datum
<1>4. ASSUME NEW x \in Variables
      PROVE  /\ h.var[x] \in LiveOf(h) /\ h.slots[h.var[x]].owner = x
             /\ h.var[x] \notin Temps(h) /\ HasOwner(h, h.var[x])
  <2>1. h.var[x] \in LiveOf(h) /\ h.slots[h.var[x]].owner = x
    BY <1>1 DEF Owned
  <2>2. x # ""
    BY SlotType
  <2>3. QED BY <2>1, <2>2 DEF Temps, HasOwner
<1>5. ASSUME NEW v \in LiveOf(h) \ Temps(h) PROVE \E x \in Variables : v = h.var[x]
  <2>1. h.slots[v].owner # "" /\ h.slots[v] \in Slots
    BY <1>2 DEF Temps
  <2>2. h.slots[v].owner \in Variables
    BY <2>1, SlotType
  <2>3. QED BY <1>1, <2>1, <2>2 DEF Owned
<1>6. \A v \in Temps(h) : v \in LiveOf(h) /\ ~HasOwner(h, v)
  BY DEF Temps, HasOwner
<1>7. \A x, y \in Variables : h.var[x] = h.var[y] => x = y
  BY <1>4
<1>8. QED BY <1>1, <1>2, <1>3, <1>4, <1>5, <1>6, <1>7

LEMMA ContentsAre ==
  ASSUME NEW h, Sound(h)
  PROVE  /\ Contents(h) \in Environments
         /\ Contents(h) = [x \in Variables |-> Datum(h, h.var[x])]
         /\ \A x \in Variables : Contents(h)[x] = Datum(h, h.var[x])
<1>1. DOMAIN h.var = Variables
  BY HeapType DEF Sound
<1>2. Contents(h) = [x \in Variables |-> Datum(h, h.var[x])]
  BY <1>1, Zenon DEF Contents, Datum
<1>3. \A x \in Variables : Datum(h, h.var[x]) \in Values
  BY LiveIs
<1>4. QED BY <1>2, <1>3 DEF Environments

LEMMA SameContents ==
  ASSUME NEW h, Sound(h), NEW g, Sound(g), g.var = h.var,
         \A x \in Variables : g.slots[h.var[x]] = h.slots[h.var[x]]
  PROVE  Contents(g) = Contents(h)
<1>1. \A x \in Variables : Datum(g, g.var[x]) = Datum(h, h.var[x])
  BY DEF Datum
<1>2. QED BY <1>1, ContentsAre

\* g has the temporaries T, and is otherwise like h.
Like(h, g, T) ==
  /\ Sound(g) /\ g.var = h.var /\ Contents(g) = Contents(h) /\ Temps(g) = T
  /\ \A v \in Temps(h) \cap T : g.slots[v] = h.slots[v]

LEMMA GivenIs ==
  ASSUME NEW h, Sound(h), NEW g, NEW v, NEW value \in Values, Given(h, g, v, value)
  PROVE  /\ Like(h, g, Temps(h) \cup {v}) /\ v \notin Temps(h) /\ v \in Temps(g)
         /\ Datum(g, v) = value /\ Kept(h, g)
         /\ \A w \in LiveOf(h) : w \in LiveOf(g) /\ w # v /\ g.slots[w] = h.slots[w] /\ Datum(g, w) = Datum(h, w)
<1>1. /\ Sound(g) /\ Kept(h, g) /\ g.var = h.var
      /\ v \notin LiveOf(h) /\ LiveOf(g) = LiveOf(h) \cup {v}
      /\ g.slots[v] = Slot(value)
      /\ \A w \in LiveOf(h) : g.slots[w] = h.slots[w]
  BY DEF Given
<1>2. Slot(value).owner = "" /\ Value(Slot(value).type, Slot(value).data) = value
  BY SlotType
<1>3. Contents(g) = Contents(h)
  BY <1>1, LiveIs, SameContents
<1>4. Temps(g) = Temps(h) \cup {v}
  BY <1>1, <1>2 DEF Temps
<1>5. v \notin Temps(h) /\ \A w \in Temps(h) : w \in LiveOf(h)
  BY <1>1 DEF Temps
<1>6. Datum(g, v) = value /\ \A w \in LiveOf(h) : Datum(g, w) = Datum(h, w)
  BY <1>1, <1>2 DEF Datum
<1>7. Like(h, g, Temps(h) \cup {v})
  BY <1>1, <1>3, <1>4, <1>5 DEF Like
<1>8. QED BY <1>1, <1>4, <1>5, <1>6, <1>7

LEMMA TakenIs ==
  ASSUME NEW h, Sound(h), NEW g, NEW v \in Temps(h), Taken(h, g, v)
  PROVE  /\ Like(h, g, Temps(h) \ {v}) /\ Kept(h, g)
         /\ \A w \in LiveOf(h) : w # v => w \in LiveOf(g) /\ g.slots[w] = h.slots[w] /\ Datum(g, w) = Datum(h, w)
<1>1. /\ Sound(g) /\ Kept(h, g) /\ g.var = h.var
      /\ LiveOf(g) = LiveOf(h) \ {v}
      /\ \A w \in LiveOf(g) : g.slots[w] = h.slots[w]
  BY DEF Taken
<1>2. \A x \in Variables : h.var[x] \in LiveOf(g)
  BY <1>1, LiveIs
<1>3. Contents(g) = Contents(h)
  BY <1>1, <1>2, SameContents
<1>4. Temps(g) = Temps(h) \ {v}
  BY <1>1 DEF Temps
<1>5. \A w \in Temps(h) : w # v => w \in LiveOf(g)
  BY <1>1 DEF Temps
<1>6. Like(h, g, Temps(h) \ {v})
  BY <1>1, <1>3, <1>4, <1>5 DEF Like
<1>7. \A w \in LiveOf(h) : w # v => w \in LiveOf(g) /\ g.slots[w] = h.slots[w]
  BY <1>1
<1>8. QED BY <1>1, <1>6, <1>7 DEF Datum

-----------------------------------------------------------------------------
(* A value is given back to its pool.                                       *)

LEMMA ReleaseIs ==
  ASSUME NEW h \in Heaps, NEW v \in DOMAIN h.slots, h.slots[v].live
  PROVE  LET g == Release(h, v)
             type == h.slots[v].type
         IN  /\ g \in Heaps
             /\ Kept(h, g) /\ g.var = h.var /\ g.stale = h.stale /\ g.lost = h.lost
             /\ g.slots = [h.slots EXCEPT ![v].live = FALSE, ![v].owner = ""]
             /\ g.free = [h.free EXCEPT ![type] = Append(@, v)]
<1> DEFINE g == Release(h, v)
           type == h.slots[v].type
<1>1. h.slots[v] \in Slots /\ type \in Types /\ v \in Nat
  <2>1. h.slots[v] \in Slots /\ v \in Nat
    BY HeapType
  <2>2. QED BY <2>1, SlotType
<1>2. /\ Kept(h, g) /\ g.var = h.var /\ g.stale = h.stale /\ g.lost = h.lost
      /\ g.slots = [h.slots EXCEPT ![v].live = FALSE, ![v].owner = ""]
      /\ g.free = [h.free EXCEPT ![type] = Append(@, v)]
  BY DEF Heaps, Release, Kept
<1>3. g = [slots |-> g.slots, free |-> g.free, var |-> g.var, exception |-> g.exception,
           error |-> g.error, placed |-> g.placed, lost |-> g.lost, stale |-> g.stale]
  <2> DEFINE S == [h.slots EXCEPT ![v].live = FALSE, ![v].owner = ""]
             F == [h.free EXCEPT ![type] = Append(@, v)]
             z == h.stale \/ ~h.slots[v].live
  <2>1. g = [h EXCEPT !.stale = z, !.slots = S, !.free = F]
    BY DEF Release, Heaps
  <2> HIDE DEF S, F, z
  <2>2. QED BY <2>1 DEF Heaps
<1>4. g.slots \in Seq(Slots)
  <2> DEFINE s == [h.slots[v] EXCEPT !.live = FALSE, !.owner = ""]
  <2>1. s \in Slots
    BY <1>1 DEF Slots
  <2>2. g.slots = [h.slots EXCEPT ![v] = s]
    BY <1>1, <1>2, HeapType DEF Slots
  <2> HIDE DEF s
  <2>3. h.slots \in Seq(Slots)
    BY HeapType
  <2>4. [h.slots EXCEPT ![v] = s] \in Seq(Slots)
    BY <2>1, <2>3, Overwritten, Zenon
  <2>5. QED BY <2>2, <2>4
<1>5. g.free \in [Types -> Seq(Nat)]
  <2>1. h.free \in [Types -> Seq(Nat)] /\ h.free[type] \in Seq(Nat)
    BY <1>1, HeapType
  <2>2. Append(h.free[type], v) \in Seq(Nat)
    BY <1>1, <2>1
  <2>3. QED BY <1>1, <1>2, <2>1, <2>2
<1> HIDE DEF g
<1>6. g \in Heaps
  <2>1. /\ g.var \in [Variables -> Nat] /\ g.exception \in Nat /\ g.error \in BOOLEAN /\ g.placed \in BOOLEAN
        /\ g.lost \in BOOLEAN /\ g.stale \in BOOLEAN
    BY <1>2, HeapType DEF Kept
  <2>2. QED BY <1>3, <1>4, <1>5, <2>1 DEF Heaps
<1>7. QED BY <1>2, <1>6 DEF g

LEMMA PooledAgain ==
  ASSUME NEW h \in Heaps, Pooled(h), NEW g, NEW v \in DOMAIN h.slots, NEW type, type = h.slots[v].type,
         type \in Types, h.slots[v].live, DOMAIN g.slots = DOMAIN h.slots,
         ~g.slots[v].live, g.slots[v].type = type,
         \A w \in DOMAIN h.slots : w # v => g.slots[w] = h.slots[w],
         g.free = [h.free EXCEPT ![type] = Append(@, v)]
  PROVE  Pooled(g)
<1> DEFINE pool == h.free[type]
<1>1. h.free \in [Types -> Seq(Nat)] /\ pool \in Seq(Nat) /\ v \in Nat
  BY HeapType
<1>2. /\ DOMAIN pool = 1..Len(pool) /\ Len(pool) \in Nat /\ DOMAIN Append(pool, v) = 1..(Len(pool) + 1)
      /\ Append(pool, v)[Len(pool) + 1] = v
      /\ \A i \in DOMAIN pool : Append(pool, v)[i] = pool[i]
  BY <1>1
<1>3. g.free[type] = Append(pool, v) /\ \A other \in Types : other # type => g.free[other] = h.free[other]
  BY <1>1
<1>4. ASSUME NEW other \in Types, NEW i \in DOMAIN h.free[other]
      PROVE  /\ h.free[other][i] \in DOMAIN g.slots /\ h.free[other][i] # v
             /\ ~g.slots[h.free[other][i]].live /\ g.slots[h.free[other][i]].type = other
  <2>1. /\ h.free[other][i] \in DOMAIN h.slots
        /\ ~h.slots[h.free[other][i]].live /\ h.slots[h.free[other][i]].type = other
    BY <1>4 DEF Pooled
  <2>2. h.free[other][i] # v
    BY <2>1
  <2>3. QED BY <2>1, <2>2
<1>5. ASSUME NEW other \in Types, NEW i, NEW j, i \in DOMAIN h.free[other], j \in DOMAIN h.free[other],
             h.free[other][i] = h.free[other][j]
      PROVE  i = j
  BY <1>5 DEF Pooled
<1>5a. pool = h.free[type]
  OBVIOUS
<1> HIDE DEF pool
<1>6. ASSUME NEW other \in Types, NEW i \in DOMAIN g.free[other]
      PROVE  \/ i \in DOMAIN h.free[other] /\ g.free[other][i] = h.free[other][i]
             \/ other = type /\ i = Len(pool) + 1 /\ g.free[other][i] = v
  <2>1. CASE other = type
    <3>1. i \in 1..(Len(pool) + 1) /\ g.free[other][i] = Append(pool, v)[i]
      BY <1>2, <1>3, <1>6, <2>1
    <3>2. i \in DOMAIN pool \/ i = Len(pool) + 1
      BY <1>2, <3>1
    <3>3. QED BY <1>2, <1>5a, <2>1, <3>1, <3>2
  <2>2. CASE other # type
    BY <1>3, <1>6, <2>2
  <2>3. QED BY <2>1, <2>2
<1>7. ASSUME NEW other \in Types, NEW i \in DOMAIN g.free[other]
      PROVE  /\ g.free[other][i] \in DOMAIN g.slots
             /\ ~g.slots[g.free[other][i]].live /\ g.slots[g.free[other][i]].type = other
  <2>1. CASE i \in DOMAIN h.free[other] /\ g.free[other][i] = h.free[other][i]
    <3>1. /\ h.free[other][i] \in DOMAIN g.slots
          /\ ~g.slots[h.free[other][i]].live /\ g.slots[h.free[other][i]].type = other
      BY <1>4, <2>1, Zenon
    <3>2. QED BY <2>1, <3>1, Zenon
  <2>2. CASE other = type /\ i = Len(pool) + 1 /\ g.free[other][i] = v
    BY <2>2
  <2>3. QED BY <1>6, <1>7, <2>1, <2>2
<1>8. ASSUME NEW other \in Types, NEW i \in DOMAIN g.free[other], NEW j \in DOMAIN g.free[other],
             g.free[other][i] = g.free[other][j]
      PROVE  i = j
  <2>1. CASE i \in DOMAIN h.free[other] /\ g.free[other][i] = h.free[other][i]
    <3>1. g.free[other][j] # v
      <4>1. h.free[other][i] # v
        BY <1>4, <2>1, Zenon
      <4>2. QED BY <1>8, <2>1, <4>1, Zenon
    <3>2. j \in DOMAIN h.free[other] /\ g.free[other][j] = h.free[other][j]
      BY <1>6, <1>8, <3>1
    <3>3. QED BY <1>5, <1>8, <2>1, <3>2
  <2>2. CASE other = type /\ i = Len(pool) + 1 /\ g.free[other][i] = v
    <3>1. ~(j \in DOMAIN h.free[other] /\ g.free[other][j] = h.free[other][j])
      <4>1. ASSUME j \in DOMAIN h.free[other], g.free[other][j] = h.free[other][j]
            PROVE  FALSE
        <5>1. h.free[other][j] # v
          BY <1>4, <4>1, Zenon
        <5>2. QED BY <1>8, <2>2, <4>1, <5>1, Zenon
      <4>2. QED BY <4>1
    <3>2. QED BY <1>6, <1>8, <2>2, <3>1
  <2>3. QED BY <1>6, <1>8, <2>1, <2>2
<1>9. QED BY <1>7, <1>8 DEF Pooled

\* What is left of a value that was live.
LEMMA ReleasedLive ==
  ASSUME NEW h, Sound(h), NEW v \in LiveOf(h)
  PROVE  LET g == Release(h, v)
         IN  /\ g \in Heaps /\ Pooled(g) /\ ~g.stale /\ ~g.lost
             /\ Kept(h, g) /\ g.var = h.var /\ DOMAIN g.slots = DOMAIN h.slots
             /\ LiveOf(g) = LiveOf(h) \ {v}
             /\ \A w \in DOMAIN h.slots : w # v => g.slots[w] = h.slots[w]
<1> DEFINE g == Release(h, v)
           type == h.slots[v].type
<1>1. h \in Heaps /\ Pooled(h) /\ ~h.stale /\ ~h.lost /\ v \in DOMAIN h.slots /\ h.slots[v].live
      /\ h.slots[v] \in Slots
  BY LiveIs DEF Sound
<1>2. type \in Types
  BY <1>1, SlotType
<1>3. /\ g \in Heaps
      /\ Kept(h, g) /\ g.var = h.var /\ g.stale = h.stale /\ g.lost = h.lost
      /\ g.slots = [h.slots EXCEPT ![v].live = FALSE, ![v].owner = ""]
      /\ g.free = [h.free EXCEPT ![type] = Append(@, v)]
  BY <1>1, ReleaseIs
<1> HIDE DEF g
<1>4. /\ DOMAIN g.slots = DOMAIN h.slots /\ ~g.slots[v].live /\ g.slots[v].type = type
      /\ \A w \in DOMAIN h.slots : w # v => g.slots[w] = h.slots[w]
  <2> DEFINE s == [h.slots[v] EXCEPT !.live = FALSE, !.owner = ""]
  <2>1. s \in Slots /\ ~s.live /\ s.type = type
    BY <1>1 DEF Slots
  <2>2. g.slots = [h.slots EXCEPT ![v] = s]
    BY <1>1, <1>3, HeapType DEF Slots
  <2>3. h.slots \in Seq(Slots)
    BY <1>1, HeapType
  <2> HIDE DEF s
  <2> DEFINE T == [h.slots EXCEPT ![v] = s]
  <2>4. DOMAIN T = DOMAIN h.slots /\ T[v] = s /\ \A w \in DOMAIN h.slots : w # v => T[w] = h.slots[w]
    BY <1>1, <2>1, <2>3, Overwritten, Zenon
  <2>5. g.slots = T
    BY <2>2
  <2> HIDE DEF T
  <2>6. QED BY <2>1, <2>4, <2>5
<1> HIDE DEF type
<1>5. Pooled(g)
  BY <1>1, <1>2, <1>3, <1>4, PooledAgain DEF type
<1>6. LiveOf(g) = LiveOf(h) \ {v}
  BY <1>1, <1>4 DEF LiveOf
<1>7. QED BY <1>1, <1>3, <1>4, <1>5, <1>6 DEF g

LEMMA Released ==
  ASSUME NEW h, Sound(h), NEW v \in Temps(h)
  PROVE  Taken(h, Release(h, v), v)
<1> DEFINE g == Release(h, v)
<1>1. v \in LiveOf(h)
  BY LiveIs
<1>2. /\ g \in Heaps /\ Pooled(g) /\ ~g.stale /\ ~g.lost
      /\ Kept(h, g) /\ g.var = h.var /\ DOMAIN g.slots = DOMAIN h.slots
      /\ LiveOf(g) = LiveOf(h) \ {v}
      /\ \A w \in DOMAIN h.slots : w # v => g.slots[w] = h.slots[w]
  BY <1>1, ReleasedLive
<1> HIDE DEF g
<1>3. \A w \in LiveOf(g) : w \in LiveOf(h) /\ g.slots[w] = h.slots[w]
  BY <1>2, LiveIs
<1>4. \A x \in Variables : h.var[x] \in LiveOf(g) /\ h.slots[h.var[x]].owner = x
  <2>1. v \in Temps(h)
    OBVIOUS
  <2>2. QED BY <1>2, <2>1, LiveIs
<1>5. \A w \in LiveOf(h) : h.slots[w].owner # "" => h.var[h.slots[w].owner] = w
  BY DEF Sound, Owned
<1>6. Owned(g)
  <2>1. ASSUME NEW x \in Variables PROVE g.var[x] \in LiveOf(g) /\ g.slots[g.var[x]].owner = x
    BY <1>2, <1>3, <1>4
  <2>2. ASSUME NEW w \in LiveOf(g), g.slots[w].owner # "" PROVE g.var[g.slots[w].owner] = w
    BY <1>2, <1>3, <1>5, <2>2
  <2>3. QED BY <2>1, <2>2 DEF Owned
<1>7. QED BY <1>2, <1>3, <1>6 DEF Taken, Sound, g

\* Temporaries are released, and the values of variables are not.
LEMMA ReleasedTemporary ==
  ASSUME NEW h, Sound(h), ~h.error
  PROVE  /\ \A v \in Temps(h) : LET g == ReleaseTemporary(h, v)
                                IN  /\ Like(h, g, Temps(h) \ {v}) /\ Kept(h, g)
                                    /\ \A w \in LiveOf(h) : w # v => /\ w \in LiveOf(g)
                                                                     /\ g.slots[w] = h.slots[w]
                                                                     /\ Datum(g, w) = Datum(h, w)
         /\ \A v : HasOwner(h, v) => ReleaseTemporary(h, v) = h
<1>1. ASSUME NEW v \in Temps(h)
      PROVE  LET g == ReleaseTemporary(h, v)
             IN  /\ Like(h, g, Temps(h) \ {v}) /\ Kept(h, g)
                 /\ \A w \in LiveOf(h) : w # v => /\ w \in LiveOf(g)
                                                  /\ g.slots[w] = h.slots[w]
                                                  /\ Datum(g, w) = Datum(h, w)
  <2>1. ReleaseTemporary(h, v) = Release(h, v)
    BY LiveIs DEF ReleaseTemporary
  <2>2. Taken(h, Release(h, v), v)
    BY Released
  <2> DEFINE g == Release(h, v)
  <2>3. /\ Like(h, g, Temps(h) \ {v}) /\ Kept(h, g)
        /\ \A w \in LiveOf(h) : w # v => w \in LiveOf(g) /\ g.slots[w] = h.slots[w] /\ Datum(g, w) = Datum(h, w)
    BY <2>2, TakenIs
  <2>4. g = ReleaseTemporary(h, v)
    BY <2>1
  <2> HIDE DEF g
  <2>5. QED BY <2>3, <2>4, Zenon
<1>2. ASSUME NEW v, HasOwner(h, v) PROVE ReleaseTemporary(h, v) = h
  BY <1>2 DEF ReleaseTemporary
<1>3. QED BY <1>1, <1>2

\* A live value may be looked at.
LEMMA SeenIs ==
  ASSUME NEW h, Sound(h), NEW v \in LiveOf(h)
  PROVE  Seen(h, v) = h
<1>1. h \in Heaps /\ ~h.stale /\ h.slots[v].live
  BY LiveIs DEF Sound
<1>2. h.stale = FALSE
  BY <1>1, HeapType
<1>3. QED BY <1>1, <1>2 DEF Seen, Heaps

-----------------------------------------------------------------------------
(* A variable is given a temporary as its new value.                        *)

Assigned(h, g, x, v) ==
  /\ Sound(g) /\ Kept(h, g) /\ g.var = [h.var EXCEPT ![x] = v]
  /\ Temps(g) = Temps(h) \ {v}
  /\ Contents(g) = [Contents(h) EXCEPT ![x] = Datum(h, v)]
  /\ \A w \in LiveOf(h) : w # v /\ w # h.var[x] => w \in LiveOf(g) /\ g.slots[w] = h.slots[w]
  /\ h.var[x] \notin LiveOf(g) /\ v \in LiveOf(g)

\* The end of both: g has been left by h without the old value of x.
LEMMA AssignedWhen ==
  ASSUME NEW h, Sound(h), NEW x \in Variables, NEW v \in Temps(h),
         NEW g \in Heaps, Pooled(g), ~g.stale, ~g.lost, Kept(h, g), g.var = [h.var EXCEPT ![x] = v],
         LiveOf(g) = LiveOf(h) \ {h.var[x]},
         g.slots[v].owner = x, g.slots[v].type = h.slots[v].type, g.slots[v].data = h.slots[v].data,
         \A w \in LiveOf(g) : w # v => g.slots[w] = h.slots[w]
  PROVE  Assigned(h, g, x, v)
<1>1. /\ h.var \in [Variables -> Nat] /\ v \in LiveOf(h) /\ v # h.var[x]
      /\ \A y \in Variables : /\ h.var[y] \in LiveOf(h) /\ h.slots[h.var[y]].owner = y /\ h.var[y] # v
                              /\ h.var[y] = h.var[x] => y = x
  BY LiveIs, HeapType
<1>2. g.var[x] = v /\ \A y \in Variables : y # x => g.var[y] = h.var[y]
  BY <1>1
<1>3. \A w \in LiveOf(h) : h.slots[w].owner # "" => h.var[h.slots[w].owner] = w
  BY DEF Sound, Owned
<1>4. v \in LiveOf(g) /\ h.slots[v].owner = "" /\ x # ""
  BY <1>1, SlotType DEF Temps
<1>5. ASSUME NEW y \in Variables PROVE g.var[y] \in LiveOf(g) /\ g.slots[g.var[y]].owner = y
  <2>1. CASE y = x
    BY <1>2, <1>4, <2>1
  <2>2. CASE y # x
    <3>1. g.var[y] = h.var[y] /\ h.var[y] \in LiveOf(g) /\ h.var[y] # v
      BY <1>1, <1>2, <2>2
    <3>2. QED BY <1>1, <3>1
  <2>3. QED BY <2>1, <2>2
<1>6. ASSUME NEW w \in LiveOf(g), g.slots[w].owner # "" PROVE g.var[g.slots[w].owner] = w
  <2>1. CASE w = v
    BY <1>2, <2>1
  <2>2. CASE w # v
    <3>1. g.slots[w] = h.slots[w] /\ w \in LiveOf(h) /\ h.var[h.slots[w].owner] = w
      BY <1>3, <1>6, <2>2
    <3>2. h.slots[w].owner # x /\ h.slots[w].owner \in Variables
      <4>1. h.slots[w] \in Slots
        BY <3>1, LiveIs
      <4>2. h.slots[w].owner \in Variables
        BY <1>6, <3>1, <4>1, SlotType
      <4>3. w # h.var[x]
        BY <1>6
      <4>4. QED BY <3>1, <4>2, <4>3
    <3>3. QED BY <1>2, <3>1, <3>2
  <2>3. QED BY <2>1, <2>2
<1>7. Sound(g)
  BY <1>5, <1>6 DEF Sound, Owned
<1>8. Temps(g) = Temps(h) \ {v}
  <2>1. h.var[x] \notin Temps(h)
    BY LiveIs
  <2>2. QED BY <1>4, <2>1 DEF Temps
<1>9. Contents(g) = [Contents(h) EXCEPT ![x] = Datum(h, v)]
  <2>1. Contents(g)[x] = Datum(h, v)
    <3>1. Contents(g)[x] = Datum(g, v)
      <4>1. \A y \in Variables : Contents(g)[y] = Datum(g, g.var[y])
        BY <1>7, ContentsAre, Zenon
      <4>2. QED BY <1>2, <4>1, Zenon
    <3>2. QED BY <3>1 DEF Datum
  <2>2. ASSUME NEW y \in Variables, y # x PROVE Contents(g)[y] = Contents(h)[y]
    <3>1. g.slots[h.var[y]] = h.slots[h.var[y]]
      BY <1>1, <2>2
    <3>2. Contents(g)[y] = Datum(g, h.var[y]) /\ Contents(h)[y] = Datum(h, h.var[y])
      <4>1. Contents(g)[y] = Datum(g, g.var[y]) /\ Contents(h)[y] = Datum(h, h.var[y])
        BY <1>7, ContentsAre, Zenon
      <4>2. QED BY <1>2, <2>2, <4>1, Zenon
    <3>3. QED BY <3>1, <3>2 DEF Datum
  <2>3. Contents(g) \in [Variables -> Values] /\ Contents(h) \in [Variables -> Values]
    BY <1>7, ContentsAre DEF Environments
  <2>4. QED BY <2>1, <2>2, <2>3
<1>10. QED BY <1>1, <1>4, <1>7, <1>8, <1>9 DEF Assigned

LEMMA OwnedStill ==
  ASSUME NEW h, Owned(h), NEW g, g.var = h.var, LiveOf(g) = LiveOf(h),
         \A w \in LiveOf(h) : g.slots[w].owner = h.slots[w].owner
  PROVE  Owned(g)
<1>1. ASSUME NEW x \in Variables PROVE g.var[x] \in LiveOf(g) /\ g.slots[g.var[x]].owner = x
  <2>1. h.var[x] \in LiveOf(h) /\ h.slots[h.var[x]].owner = x /\ g.var[x] = h.var[x]
    BY DEF Owned
  <2>2. g.slots[h.var[x]].owner = x
    BY <2>1
  <2>3. QED BY <2>1, <2>2
<1>2. ASSUME NEW w \in LiveOf(g), g.slots[w].owner # "" PROVE g.var[g.slots[w].owner] = w
  <2>1. w \in LiveOf(h) /\ g.slots[w].owner = h.slots[w].owner
    OBVIOUS
  <2>2. h.var[h.slots[w].owner] = w
    BY <1>2, <2>1 DEF Owned
  <2>3. QED BY <2>1, <2>2
<1>3. QED BY <1>1, <1>2 DEF Owned

LEMMA SlotsOnly ==
  ASSUME NEW h \in Heaps, NEW S, NEW g, g = [h EXCEPT !.slots = S]
  PROVE  /\ g.slots = S /\ g.var = h.var /\ g.var \in [Variables -> Nat]
         /\ g = [slots |-> g.slots, free |-> h.free, var |-> g.var, exception |-> h.exception,
                 error |-> h.error, placed |-> h.placed, lost |-> h.lost, stale |-> h.stale]
BY DEF Heaps

\* Another record in one slot.
LEMMA SlotChanged ==
  ASSUME NEW h \in Heaps, NEW v \in DOMAIN h.slots, NEW s \in Slots, NEW g,
         g.slots = [h.slots EXCEPT ![v] = s],
         g = [slots |-> g.slots, free |-> h.free, var |-> g.var, exception |-> h.exception,
              error |-> h.error, placed |-> h.placed, lost |-> h.lost, stale |-> h.stale],
         g.var \in [Variables -> Nat]
  PROVE  /\ g \in Heaps /\ DOMAIN g.slots = DOMAIN h.slots /\ g.slots[v] = s
         /\ \A w \in DOMAIN h.slots : w # v => g.slots[w] = h.slots[w]
<1>1. h.slots \in Seq(Slots)
  BY HeapType
<1> DEFINE T == [h.slots EXCEPT ![v] = s]
<1>2. T \in Seq(Slots) /\ DOMAIN T = DOMAIN h.slots /\ T[v] = s /\ \A w \in DOMAIN h.slots : w # v => T[w] = h.slots[w]
  BY <1>1, Overwritten, Zenon
<1>3. g.slots = T
  OBVIOUS
<1> HIDE DEF T
<1>4. g \in Heaps
  BY <1>2, <1>3, HeapType DEF Heaps
<1>5. QED BY <1>2, <1>3, <1>4

LEMMA SetValueIs ==
  ASSUME NEW h, Sound(h), NEW x \in Variables, NEW v \in Temps(h)
  PROVE  Assigned(h, SetValue(h, x, v), x, v)
<1> DEFINE old == h.var[x]
           r == Release(h, old)
           g == SetValue(h, x, v)
           s == [h.slots[v] EXCEPT !.owner = x]
<1>1. /\ h \in Heaps /\ old \in LiveOf(h) /\ v \in LiveOf(h) /\ v # old /\ v \in DOMAIN h.slots
      /\ h.slots[v] \in Slots /\ h.slots[v].live
  BY LiveIs
<1>2. /\ r \in Heaps /\ Pooled(r) /\ ~r.stale /\ ~r.lost
      /\ Kept(h, r) /\ r.var = h.var /\ DOMAIN r.slots = DOMAIN h.slots
      /\ LiveOf(r) = LiveOf(h) \ {old}
      /\ \A w \in DOMAIN h.slots : w # old => r.slots[w] = h.slots[w]
  BY <1>1, ReleasedLive
<1>3. g = [r EXCEPT !.var[x] = v, !.slots[v].owner = x]
  BY DEF SetValue
<1>4. s \in Slots /\ s.owner = x /\ s.type = h.slots[v].type /\ s.data = h.slots[v].data /\ s.live = h.slots[v].live
  BY <1>1, SlotType DEF Slots
<1>5. r.slots[v] = h.slots[v]
  BY <1>1, <1>2
<1> HIDE DEF r, g, s, old
<1>6. /\ g.slots = [r.slots EXCEPT ![v] = s] /\ g.var = [h.var EXCEPT ![x] = v]
      /\ g = [slots |-> g.slots, free |-> r.free, var |-> g.var, exception |-> r.exception,
              error |-> r.error, placed |-> r.placed, lost |-> r.lost, stale |-> r.stale]
  <2> DEFINE S == [r.slots EXCEPT ![v].owner = x]
             V == [r.var EXCEPT ![x] = v]
  <2>1. g = [r EXCEPT !.var = V, !.slots = S]
    BY <1>2, <1>3 DEF Heaps
  <2>2. S = [r.slots EXCEPT ![v] = s]
    BY <1>1, <1>2, <1>5, HeapType DEF s
  <2>3. V = [h.var EXCEPT ![x] = v]
    BY <1>2
  <2> HIDE DEF S, V
  <2>4. QED BY <1>2, <2>1, <2>2, <2>3 DEF Heaps
<1>7. g.var \in [Variables -> Nat]
  BY <1>1, <1>6, HeapType
<1>8. /\ g \in Heaps /\ DOMAIN g.slots = DOMAIN r.slots /\ g.slots[v] = s
      /\ \A w \in DOMAIN r.slots : w # v => g.slots[w] = r.slots[w]
  BY <1>1, <1>2, <1>4, <1>6, <1>7, SlotChanged
<1>9. g.free = r.free /\ g.exception = r.exception /\ g.error = r.error /\ g.placed = r.placed
      /\ g.lost = r.lost /\ g.stale = r.stale
  BY <1>6
<1>10. s.live = r.slots[v].live /\ s.type = r.slots[v].type
  BY <1>4, <1>5
<1>11. \A w \in DOMAIN r.slots : g.slots[w].live = r.slots[w].live /\ g.slots[w].type = r.slots[w].type
  BY <1>8, <1>10
<1>12. LiveOf(g) = LiveOf(h) \ {old}
  BY <1>2, <1>8, <1>11 DEF LiveOf
<1>13. Pooled(g)
  <2>1. \A type \in Types : \A i \in DOMAIN r.free[type] : r.free[type][i] \in DOMAIN r.slots
    BY <1>2 DEF Pooled
  <2>2. QED BY <1>2, <1>8, <1>9, <1>11, <2>1, PooledStill
<1>14. \A w \in LiveOf(g) : w # v => g.slots[w] = h.slots[w]
  <2>1. \A w \in LiveOf(g) : w \in DOMAIN h.slots /\ w # old
    BY <1>12, LiveIs
  <2>2. QED BY <1>2, <1>8, <2>1
<1>15. Kept(h, g) /\ ~g.stale /\ ~g.lost
  BY <1>2, <1>9 DEF Kept
<1>16. g.slots[v].owner = x /\ g.slots[v].type = h.slots[v].type /\ g.slots[v].data = h.slots[v].data
  BY <1>4, <1>8
<1>17. LiveOf(g) = LiveOf(h) \ {h.var[x]}
  BY <1>12 DEF old
<1>18. Assigned(h, g, x, v)
  BY <1>6, <1>8, <1>13, <1>14, <1>15, <1>16, <1>17, AssignedWhen
<1>19. QED BY <1>18 DEF g

LEMMA SetValueDomain ==
  ASSUME NEW h, Sound(h), NEW x \in Variables, NEW v \in Temps(h)
  PROVE  DOMAIN SetValue(h, x, v).slots = DOMAIN h.slots
<1> DEFINE r == Release(h, h.var[x])
<1>1. r \in Heaps /\ DOMAIN r.slots = DOMAIN h.slots
  BY LiveIs, ReleasedLive
<1> HIDE DEF r
<1>2. SetValue(h, x, v) = [r EXCEPT !.var[x] = v, !.slots[v].owner = x]
  BY DEF SetValue, r
<1>3. QED BY <1>1, <1>2 DEF Heaps

-----------------------------------------------------------------------------
(* Changes that no live value notices, and changes in place.                *)

Unnoticed(h, g) ==
  /\ Sound(g) /\ g.var = h.var /\ Contents(g) = Contents(h) /\ Temps(g) = Temps(h) /\ LiveOf(g) = LiveOf(h)
  /\ \A v \in LiveOf(h) : g.slots[v] = h.slots[v]

LEMMA SameHeap ==
  ASSUME NEW h, Sound(h), NEW g \in Heaps, g.slots = h.slots, g.free = h.free, g.var = h.var,
         g.stale = h.stale, g.lost = h.lost
  PROVE  Unnoticed(h, g)
<1>1. LiveOf(g) = LiveOf(h)
  BY DEF LiveOf
<1>2. Sound(g)
  <2>1. Owned(g)
    BY <1>1, OwnedStill DEF Sound
  <2>2. Pooled(g)
    BY DEF Sound, Pooled
  <2>3. QED BY <2>1, <2>2 DEF Sound
<1>3. Contents(g) = Contents(h)
  BY <1>2, SameContents
<1>4. Temps(g) = Temps(h)
  BY <1>1 DEF Temps
<1>5. QED BY <1>1, <1>2, <1>3, <1>4 DEF Unnoticed

\* The released value of a variable is given its owner back.
LEMMA OwnerBack ==
  ASSUME NEW h, Sound(h), NEW v \in DOMAIN h.slots \ LiveOf(h), NEW x \in Variables
  PROVE  LET g == [h EXCEPT !.slots[v].owner = x]
         IN  Unnoticed(h, g) /\ Kept(h, g) /\ HasOwner(g, v)
<1> DEFINE g == [h EXCEPT !.slots[v].owner = x]
           s == [h.slots[v] EXCEPT !.owner = x]
<1>1. h \in Heaps /\ v \in DOMAIN h.slots /\ ~h.slots[v].live /\ h.slots[v] \in Slots /\ Owned(h) /\ Pooled(h)
      /\ ~h.stale /\ ~h.lost
  BY HeapType DEF Sound, LiveOf
<1>2. s \in Slots /\ s.owner = x /\ s.type = h.slots[v].type /\ s.live = h.slots[v].live /\ x # ""
  BY <1>1, SlotType DEF Slots
<1>3. /\ g.slots = [h.slots EXCEPT ![v] = s] /\ g.var = h.var /\ g.var \in [Variables -> Nat]
      /\ g = [slots |-> g.slots, free |-> h.free, var |-> g.var, exception |-> h.exception,
              error |-> h.error, placed |-> h.placed, lost |-> h.lost, stale |-> h.stale]
  <2> DEFINE S == [h.slots EXCEPT ![v].owner = x]
  <2>1. g = [h EXCEPT !.slots = S]
    BY <1>1 DEF Heaps
  <2>2. S = [h.slots EXCEPT ![v] = s]
    BY <1>1, HeapType
  <2> HIDE DEF S, g, s
  <2>3. QED BY <1>1, <2>1, <2>2, SlotsOnly
<1> HIDE DEF g, s
<1>4. /\ g \in Heaps /\ DOMAIN g.slots = DOMAIN h.slots /\ g.slots[v] = s
      /\ \A w \in DOMAIN h.slots : w # v => g.slots[w] = h.slots[w]
  <2>1. h \in Heaps /\ v \in DOMAIN h.slots /\ s \in Slots
    BY <1>1, <1>2
  <2>2. QED BY <1>3, <2>1, SlotChanged
<1>5. g.free = h.free /\ Kept(h, g) /\ g.lost = h.lost /\ g.stale = h.stale
  BY <1>3 DEF Kept
<1>6. \A w \in DOMAIN h.slots : g.slots[w].live = h.slots[w].live /\ g.slots[w].type = h.slots[w].type
  BY <1>2, <1>4
<1>7. LiveOf(g) = LiveOf(h)
  BY <1>4, <1>6 DEF LiveOf
<1>8. \A w \in LiveOf(h) : g.slots[w] = h.slots[w]
  BY <1>4 DEF LiveOf
<1>9. Pooled(g)
  <2>1. \A type \in Types : \A i \in DOMAIN h.free[type] : h.free[type][i] \in DOMAIN h.slots
    BY <1>1 DEF Pooled
  <2>2. QED BY <1>1, <1>4, <1>5, <1>6, <2>1, PooledStill
<1>10. Owned(g)
  BY <1>1, <1>3, <1>7, <1>8, OwnedStill
<1>11. Sound(g)
  BY <1>1, <1>4, <1>5, <1>9, <1>10 DEF Sound
<1>12. Contents(g) = Contents(h)
  BY <1>3, <1>8, <1>11, LiveIs, SameContents
<1>13. Temps(g) = Temps(h)
  BY <1>7, <1>8 DEF Temps
<1>14. HasOwner(g, v)
  BY <1>2, <1>4 DEF HasOwner
<1>15. QED BY <1>3, <1>5, <1>7, <1>8, <1>11, <1>12, <1>13, <1>14 DEF Unnoticed, g

\* The value of a variable is changed in place.
Overwrites(h, g, v, x, data) ==
  /\ Sound(g) /\ Kept(h, g) /\ g.var = h.var /\ Temps(g) = Temps(h) /\ LiveOf(g) = LiveOf(h)
  /\ Contents(g) = [Contents(h) EXCEPT ![x] = Value(h.slots[v].type, data)]
  /\ \A w \in LiveOf(h) : w # v => g.slots[w] = h.slots[w]

LEMMA Overwrite ==
  ASSUME NEW h, Sound(h), NEW x \in Variables, NEW data \in 0..3
  PROVE  \A v : v = h.var[x] => Overwrites(h, [h EXCEPT !.slots[v].data = data], v, x, data)
<1> DEFINE v == h.var[x]
           g == [h EXCEPT !.slots[v].data = data]
           s == [h.slots[v] EXCEPT !.data = data]
<1>1. /\ h \in Heaps /\ v \in LiveOf(h) /\ v \in DOMAIN h.slots /\ h.slots[v] \in Slots /\ Owned(h) /\ Pooled(h)
      /\ ~h.stale /\ ~h.lost /\ h.slots[v].owner = x
  BY LiveIs DEF Sound
<1>2. /\ s \in Slots /\ s.owner = h.slots[v].owner /\ s.type = h.slots[v].type /\ s.live = h.slots[v].live
      /\ s.data = data
  BY <1>1 DEF Slots
<1>2a. v = h.var[x]
  OBVIOUS
<1>3. /\ g.slots = [h.slots EXCEPT ![v] = s] /\ g.var = h.var /\ g.var \in [Variables -> Nat]
      /\ g = [slots |-> g.slots, free |-> h.free, var |-> g.var, exception |-> h.exception,
              error |-> h.error, placed |-> h.placed, lost |-> h.lost, stale |-> h.stale]
  <2> DEFINE S == [h.slots EXCEPT ![v].data = data]
  <2>1. g = [h EXCEPT !.slots = S]
    BY <1>1 DEF Heaps
  <2>2. S = [h.slots EXCEPT ![v] = s]
    BY <1>1, HeapType
  <2> HIDE DEF S, g, s
  <2>3. QED BY <1>1, <2>1, <2>2, SlotsOnly
<1> HIDE DEF g, s, v
<1>4. /\ g \in Heaps /\ DOMAIN g.slots = DOMAIN h.slots /\ g.slots[v] = s
      /\ \A w \in DOMAIN h.slots : w # v => g.slots[w] = h.slots[w]
  BY <1>1, <1>2, <1>3, SlotChanged
<1>5. g.free = h.free /\ Kept(h, g) /\ g.lost = h.lost /\ g.stale = h.stale
  BY <1>3 DEF Kept
<1>6. \A w \in DOMAIN h.slots : /\ g.slots[w].live = h.slots[w].live /\ g.slots[w].type = h.slots[w].type
                                /\ g.slots[w].owner = h.slots[w].owner
  BY <1>2, <1>4
<1>7. LiveOf(g) = LiveOf(h)
  BY <1>4, <1>6 DEF LiveOf
<1>8. \A w \in LiveOf(h) : w \in DOMAIN h.slots
  BY DEF LiveOf
<1>9. Pooled(g)
  <2>1. \A type \in Types : \A i \in DOMAIN h.free[type] : h.free[type][i] \in DOMAIN h.slots
    BY <1>1 DEF Pooled
  <2>2. QED BY <1>1, <1>4, <1>5, <1>6, <2>1, PooledStill
<1>10. Owned(g)
  <2>1. \A w \in LiveOf(h) : g.slots[w].owner = h.slots[w].owner
    BY <1>6, <1>8
  <2>2. QED BY <1>1, <1>3, <1>7, <2>1, OwnedStill
<1>11. Sound(g)
  BY <1>1, <1>4, <1>5, <1>9, <1>10 DEF Sound
<1>12. Contents(g) = [Contents(h) EXCEPT ![x] = Value(h.slots[v].type, data)]
  <2>1. /\ \A y \in Variables : Contents(g)[y] = Datum(g, g.var[y])
        /\ \A y \in Variables : Contents(h)[y] = Datum(h, h.var[y])
    BY <1>11, ContentsAre, Zenon
  <2>2. Contents(g)[x] = Value(h.slots[v].type, data)
    BY <1>2, <1>2a, <1>3, <1>4, <2>1 DEF Datum
  <2>3. ASSUME NEW y \in Variables, y # x PROVE Contents(g)[y] = Contents(h)[y]
    <3>1. h.var[y] \in DOMAIN h.slots /\ h.var[y] # v
      BY <1>2a, <2>3, LiveIs
    <3>2. QED BY <1>3, <1>4, <2>1, <3>1 DEF Datum
  <2>4. Contents(g) \in [Variables -> Values] /\ Contents(h) \in [Variables -> Values]
    BY <1>11, ContentsAre DEF Environments
  <2>5. QED BY <2>2, <2>3, <2>4
<1>13. Temps(g) = Temps(h)
  BY <1>6, <1>7, <1>8 DEF Temps
<1>14. \A w \in LiveOf(h) : w # v => g.slots[w] = h.slots[w]
  BY <1>4, <1>8
<1>15. Overwrites(h, g, v, x, data)
  BY <1>3, <1>5, <1>7, <1>11, <1>12, <1>13, <1>14 DEF Overwrites
<1>16. ASSUME NEW u, u = v PROVE Overwrites(h, [h EXCEPT !.slots[u].data = data], u, x, data)
  BY <1>15, <1>16, Zenon DEF g
<1>17. QED BY <1>16 DEF v

\* What is remembered beside the values.
LEMMA PlacedIs ==
  ASSUME NEW h, Sound(h), NEW p \in BOOLEAN
  PROVE  LET g == [h EXCEPT !.placed = p]
         IN  Unnoticed(h, g) /\ g.exception = h.exception /\ g.error = h.error /\ g.placed = p
<1> DEFINE g == [h EXCEPT !.placed = p]
<1>1. h \in Heaps
  BY DEF Sound
<1>2. /\ g \in Heaps /\ g.slots = h.slots /\ g.free = h.free /\ g.var = h.var
      /\ g.stale = h.stale /\ g.lost = h.lost
      /\ g.exception = h.exception /\ g.error = h.error /\ g.placed = p
  BY <1>1 DEF Heaps
<1> HIDE DEF g
<1>3. Unnoticed(h, g)
  BY <1>2, SameHeap
<1>4. QED BY <1>2, <1>3 DEF g

LEMMA ExceptionIs ==
  ASSUME NEW h, Sound(h), NEW v \in Nat
  PROVE  LET g == [h EXCEPT !.exception = v]
         IN  Unnoticed(h, g) /\ g.exception = v /\ g.error = h.error /\ g.placed = h.placed
<1> DEFINE g == [h EXCEPT !.exception = v]
<1>1. h \in Heaps
  BY DEF Sound
<1>2. /\ g \in Heaps /\ g.slots = h.slots /\ g.free = h.free /\ g.var = h.var
      /\ g.stale = h.stale /\ g.lost = h.lost
      /\ g.exception = v /\ g.error = h.error /\ g.placed = h.placed
  BY <1>1 DEF Heaps
<1> HIDE DEF g
<1>3. Unnoticed(h, g)
  BY <1>2, SameHeap
<1>4. QED BY <1>2, <1>3 DEF g

LEMMA ErrorIs ==
  ASSUME NEW h, Sound(h), h.placed, NEW t
  PROVE  LET g == RuntimeError(h, t).h
         IN  Sound(g) /\ Contents(g) = Contents(h) /\ g.error = TRUE
<1> DEFINE g == [h EXCEPT !.error = TRUE, !.lost = @ \/ ~h.placed]
<1>1. h \in Heaps
  BY DEF Sound
<1>2. /\ g \in Heaps /\ g.slots = h.slots /\ g.free = h.free /\ g.var = h.var
      /\ g.stale = h.stale /\ g.lost = h.lost /\ g.error = TRUE
  BY <1>1 DEF Heaps
<1>3. RuntimeError(h, t).h = g
  BY DEF RuntimeError, Done
<1> HIDE DEF g
<1>4. Unnoticed(h, g)
  BY <1>2, SameHeap
<1>5. QED BY <1>2, <1>3, <1>4 DEF Unnoticed

-----------------------------------------------------------------------------
(* From one heap to the next.                                               *)

\* g has temporaries T, h's among them untouched, and variables that hold env;
\* only those in X may have another value object.
Becomes(h, g, T, env, X) ==
  /\ Sound(g) /\ Temps(g) = T /\ Contents(g) = env
  /\ \A v \in Temps(h) : v \in T => g.slots[v] = h.slots[v]
  /\ \A x \in Variables : x \notin X => g.var[x] = h.var[x]

LEMMA BecomesTwice ==
  ASSUME NEW h, NEW g, NEW k, NEW T, NEW U, NEW env, NEW X, NEW Y, NEW Z, NEW e,
         Becomes(h, g, T, e, X), Becomes(g, k, U, env, Y), X \subseteq Z, Y \subseteq Z,
         \A v \in Temps(h) : v \in U => v \in T
  PROVE  Becomes(h, k, U, env, Z)
BY DEF Becomes

LEMMA LikeBecomes ==
  ASSUME NEW h, NEW g, NEW T, Like(h, g, T)
  PROVE  Becomes(h, g, T, Contents(h), {})
BY DEF Like, Becomes

LEMMA UnnoticedBecomes ==
  ASSUME NEW h, NEW g, Unnoticed(h, g)
  PROVE  Becomes(h, g, Temps(h), Contents(h), {})
BY DEF Unnoticed, Becomes, Temps

LEMMA AssignedBecomes ==
  ASSUME NEW h, Sound(h), NEW g, NEW x \in Variables, NEW v \in Temps(h), Assigned(h, g, x, v)
  PROVE  Becomes(h, g, Temps(h) \ {v}, [Contents(h) EXCEPT ![x] = Datum(h, v)], {x})
<1>1. h.var \in [Variables -> Nat] /\ \A w \in Temps(h) : w \in LiveOf(h) /\ w # h.var[x]
  BY LiveIs, HeapType
<1>2. \A y \in Variables : y # x => g.var[y] = h.var[y]
  BY <1>1 DEF Assigned
<1>3. \A w \in Temps(h) : w # v => g.slots[w] = h.slots[w]
  BY <1>1 DEF Assigned
<1>4. QED BY <1>2, <1>3 DEF Assigned, Becomes

\* What Evaluate has done, r, of what is meant, m: what is told of e is d.
Realizes(h, r, m, d, e) ==
  /\ Sound(r.h) /\ Contents(r.h) = m.env /\ r.h.error = (m.out = "error")
  /\ m.out # "error" =>
       /\ Becomes(h, r.h, IF m.out = "variable" THEN Temps(h) ELSE Temps(h) \cup {r.v}, m.env, d.replaced)
       /\ Simplifies(r.t, e)
       /\ m.out # "variable" => r.v \notin Temps(h)
       /\ ~r.h.placed => d.gone /\ m.out # "thrown"
       /\ r.h.exception = IF m.out = "thrown" THEN r.v ELSE None
       /\ m.out = "value" => Datum(r.h, r.v) = m.val
       /\ m.out = "variable" => r.v = r.h.var[m.val]

\* The pointer of an operand.
LEMMA Pointer ==
  ASSUME NEW h, NEW r, NEW m, NEW d, NEW e, Realizes(h, r, m, d, e), Fits(m, d), ~Stops(m)
  PROVE  /\ Sound(r.h) /\ ~r.h.error /\ r.h.exception = None /\ m.out \in {"value", "variable"}
         /\ r.v \in LiveOf(r.h) /\ Datum(r.h, r.v) = Deref(m, m.env) /\ Deref(m, m.env) \in Values
         /\ m.out = "value" => r.v \in Temps(r.h) /\ r.v \notin Temps(h) /\ Temps(r.h) = Temps(h) \cup {r.v}
                               /\ d.temporary /\ ~HasOwner(r.h, r.v)
         /\ m.out = "variable" => m.val \in Variables /\ m.val \in d.targets /\ HasOwner(r.h, r.v)
                                  /\ Temps(r.h) = Temps(h) /\ r.v = r.h.var[m.val]
         /\ Deref(m, m.env).type = "bool" => d.boolean
         /\ ~r.h.placed => d.gone
<1>1. m.out \in {"value", "variable"}
  BY StopsIs
<1>2. Sound(r.h) /\ ~r.h.error /\ r.h.exception = None /\ Contents(r.h) = m.env /\ (~r.h.placed => d.gone)
  BY <1>1 DEF Realizes
<1>3. Deref(m, m.env) \in Values /\ (Deref(m, m.env).type = "bool" => d.boolean)
  BY StopsIs DEF Fits
<1>4. CASE m.out = "value"
  <2>1. /\ Temps(r.h) = Temps(h) \cup {r.v} /\ r.v \notin Temps(h) /\ Datum(r.h, r.v) = m.val
    BY <1>4 DEF Realizes, Becomes
  <2>2. r.v \in LiveOf(r.h) /\ ~HasOwner(r.h, r.v)
    BY <1>2, <2>1, LiveIs
  <2>3. Deref(m, m.env) = m.val /\ d.temporary
    BY <1>4 DEF Deref, Fits
  <2>4. QED BY <1>2, <1>3, <1>4, <2>1, <2>2, <2>3
<1>5. CASE m.out = "variable"
  <2>1. Temps(r.h) = Temps(h) /\ r.v = r.h.var[m.val]
    BY <1>5 DEF Realizes, Becomes
  <2>2. m.val \in Variables /\ m.val \in d.targets
    BY <1>5 DEF Fits
  <2>3. r.v \in LiveOf(r.h) /\ HasOwner(r.h, r.v)
    BY <1>2, <2>1, <2>2, LiveIs
  <2>4. Datum(r.h, r.v) = Deref(m, m.env)
    <3>1. Contents(r.h)[m.val] = Datum(r.h, r.h.var[m.val])
      BY <1>2, <2>2, ContentsAre, Zenon
    <3>2. QED BY <1>2, <1>5, <2>1, <3>1 DEF Deref
  <2>5. QED BY <1>2, <1>3, <1>5, <2>1, <2>2, <2>3, <2>4
<1>6. QED BY <1>1, <1>4, <1>5

\* d: a value was constructed in h.
New(h, d, value, t) ==
  /\ d.t = t /\ d = Done(d.h, d.v, t)
  /\ Sound(d.h) /\ Becomes(h, d.h, Temps(h) \cup {d.v}, Contents(h), {})
  /\ d.v \notin Temps(h) /\ d.v \in Temps(d.h) /\ d.v \in Nat /\ Datum(d.h, d.v) = value
  /\ Kept(h, d.h) /\ d.h.var = h.var
  /\ \A w \in LiveOf(h) : w \in LiveOf(d.h) /\ w # d.v /\ Datum(d.h, w) = Datum(h, w) /\ d.h.slots[w] = h.slots[w]

LEMMA ConstructIsNew ==
  ASSUME NEW h, Sound(h), NEW value \in Values, NEW t
  PROVE  New(h, Construct(h, value, t), value, t)
<1> DEFINE d == Construct(h, value, t)
<1>1. d.t = t /\ d = Done(d.h, d.v, t) /\ Given(h, d.h, d.v, value)
  BY Constructed
<1> HIDE DEF d
<1>2. /\ Like(h, d.h, Temps(h) \cup {d.v}) /\ d.v \notin Temps(h) /\ d.v \in Temps(d.h)
      /\ Datum(d.h, d.v) = value /\ Kept(h, d.h)
      /\ \A w \in LiveOf(h) : w \in LiveOf(d.h) /\ w # d.v /\ d.h.slots[w] = h.slots[w] /\ Datum(d.h, w) = Datum(h, w)
  BY <1>1, GivenIs
<1>3. Becomes(h, d.h, Temps(h) \cup {d.v}, Contents(h), {})
  BY <1>2, LikeBecomes
<1>4. Sound(d.h) /\ d.h.var = h.var
  BY <1>2 DEF Like
<1>5. d.v \in Nat
  <2>1. d.v \in DOMAIN d.h.slots /\ d.h \in Heaps
    BY <1>2, <1>4, LiveIs
  <2>2. QED BY <2>1, HeapType
<1>6. QED BY <1>1, <1>2, <1>3, <1>4, <1>5 DEF New, d

LEMMA AtIs ==
  ASSUME NEW h, Sound(h), NEW e
  PROVE  LET at == SetExecutionPosition(h, e)
         IN  /\ at \in Heaps /\ Sound(at) /\ Becomes(h, at, Temps(h), Contents(h), {}) /\ at.var = h.var
             /\ Temps(at) = Temps(h) /\ Contents(at) = Contents(h)
             /\ at.placed /\ at.exception = h.exception /\ at.error = h.error
<1> DEFINE at == SetExecutionPosition(h, e)
<1>1. Unnoticed(h, at) /\ at.exception = h.exception /\ at.error = h.error /\ at.placed = TRUE
  BY PlacedIs DEF SetExecutionPosition
<1> HIDE DEF at
<1>2. Becomes(h, at, Temps(h), Contents(h), {})
  BY <1>1, UnnoticedBecomes
<1>3. QED BY <1>1, <1>2 DEF Unnoticed, Sound, at

\* A value that has just been constructed is the result.
LEMMA NewRealizes ==
  ASSUME NEW h, NEW g, NEW d, NEW value, NEW t, NEW m, NEW told, NEW e, NEW env, NEW X,
         Becomes(h, g, Temps(h), env, X), X \subseteq told.replaced,
         New(g, d, value, t), m = Means("value", value, env),
         ~g.error, g.exception = None, ~g.placed => told.gone, Simplifies(t, e)
  PROVE  Realizes(h, d, m, told, e)
<1>1. m.out = "value" /\ m.val = value /\ m.env = env
  BY MeansIs
<1>2. Temps(g) = Temps(h) /\ Contents(g) = env
  BY DEF Becomes
<1>3. /\ d.t = t /\ Sound(d.h) /\ Becomes(g, d.h, Temps(h) \cup {d.v}, env, {})
      /\ d.v \notin Temps(h) /\ Datum(d.h, d.v) = value /\ Kept(g, d.h)
  BY <1>2 DEF New
<1>4. Becomes(h, d.h, Temps(h) \cup {d.v}, env, told.replaced)
  BY <1>3, BecomesTwice
<1>5. Contents(d.h) = env
  BY <1>4 DEF Becomes
<1>6. ~d.h.error /\ d.h.exception = None /\ (~d.h.placed => told.gone) /\ d.h.error \in BOOLEAN
  BY <1>3, HeapType DEF Kept, Sound
<1>7. QED BY <1>1, <1>3, <1>4, <1>5, <1>6 DEF Realizes

Ready(h) == Sound(h) /\ ~h.error /\ h.exception = None

-----------------------------------------------------------------------------
(* Expressions without operands.                                            *)

LEMMA RealizesConst ==
  ASSUME NEW h, Ready(h), NEW e \in Expressions, e.op = "const"
  PROVE  Realizes(h, EvaluateLeaf(SetExecutionPosition(h, e), e), MeaningOfLeaf(e, Contents(h)), Told[e], e)
<1> DEFINE at == SetExecutionPosition(h, e)
           d == Construct(at, e.arg, e)
<1>1. e.arg \in Values
  BY Shape DEF IsLeaf, Leaf
<1>2. /\ Sound(at) /\ Becomes(h, at, Temps(h), Contents(h), {})
      /\ at.placed /\ at.exception = None /\ ~at.error
  BY AtIs DEF Ready
<1>3. EvaluateLeaf(at, e) = d
  BY DEF EvaluateLeaf
<1>4. MeaningOfLeaf(e, Contents(h)) = Means("value", e.arg, Contents(h))
  BY DEF MeaningOfLeaf
<1> HIDE DEF at
<1>5. New(at, d, e.arg, e)
  BY <1>1, <1>2, ConstructIsNew
<1> HIDE DEF d
<1>6. Realizes(h, d, MeaningOfLeaf(e, Contents(h)), Told[e], e)
  BY <1>2, <1>4, <1>5, SimplifiesItself, NewRealizes
<1>7. QED BY <1>3, <1>6 DEF at

LEMMA RealizesVar ==
  ASSUME NEW h, Ready(h), NEW e \in Expressions, e.op = "var"
  PROVE  Realizes(h, EvaluateLeaf(SetExecutionPosition(h, e), e), MeaningOfLeaf(e, Contents(h)), Told[e], e)
<1> DEFINE at == SetExecutionPosition(h, e)
           d == EvaluateLeaf(at, e)
           m == MeaningOfLeaf(e, Contents(h))
<1>2. /\ Sound(at) /\ Becomes(h, at, Temps(h), Contents(h), {})
      /\ at.placed /\ at.exception = None /\ ~at.error /\ at \in Heaps
  BY AtIs DEF Ready
<1>3. d.h = at /\ d.v = at.var[e.arg] /\ d.t = e
  BY DEF EvaluateLeaf, Done
<1>4. m.out = "variable" /\ m.val = e.arg /\ m.env = Contents(h)
  BY DEF MeaningOfLeaf, Means
<1> HIDE DEF at, d, m
<1>5. Contents(at) = Contents(h) /\ Becomes(h, at, Temps(h), Contents(h), Told[e].replaced)
  BY <1>2 DEF Becomes
<1>6. Simplifies(e, e)
  BY SimplifiesItself
<1>6a. at.error = FALSE
  BY <1>2, HeapType
<1>7. Realizes(h, d, m, Told[e], e)
  BY <1>2, <1>3, <1>4, <1>5, <1>6, <1>6a DEF Realizes
<1>8. QED BY <1>7 DEF at, d, m

LEMMA RealizesFail ==
  ASSUME NEW h, Ready(h), NEW e \in Expressions, e.op = "call", e.arg = "fail"
  PROVE  Realizes(h, EvaluateLeaf(SetExecutionPosition(h, e), e), MeaningOfLeaf(e, Contents(h)), Told[e], e)
<1> DEFINE at == SetExecutionPosition(h, e)
           c == Construct(at, True, e)
           g == [c.h EXCEPT !.exception = c.v]
           d == EvaluateLeaf(at, e)
           m == MeaningOfLeaf(e, Contents(h))
<1>1. True \in Values
  BY ValueType, Digits DEF True, Types
<1>2. /\ Sound(at) /\ Becomes(h, at, Temps(h), Contents(h), {})
      /\ at.placed /\ at.exception = None /\ ~at.error /\ at \in Heaps
  BY AtIs DEF Ready
<1>3. d.h = g /\ d.v = c.v /\ d.t = e
  BY DEF EvaluateLeaf, Done, Call
<1>4. m.out = "thrown" /\ m.env = Contents(h)
  BY DEF MeaningOfLeaf, MeaningOfCall, Means
<1> HIDE DEF at, d, m
<1>5. New(at, c, True, e)
  BY <1>1, <1>2, ConstructIsNew
<1> HIDE DEF c
<1>6. /\ Sound(c.h) /\ Becomes(at, c.h, Temps(at) \cup {c.v}, Contents(at), {})
      /\ c.v \notin Temps(at) /\ c.v \in Nat /\ Kept(at, c.h)
  BY <1>5 DEF New
<1>7. Unnoticed(c.h, g) /\ g.exception = c.v /\ g.error = c.h.error /\ g.placed = c.h.placed
  BY <1>6, ExceptionIs
<1> HIDE DEF g
<1>8. Becomes(c.h, g, Temps(c.h), Contents(c.h), {})
  BY <1>7, UnnoticedBecomes
<1>9. Temps(at) = Temps(h) /\ Contents(at) = Contents(h) /\ Temps(c.h) = Temps(at) \cup {c.v} /\ Contents(c.h) = Contents(at)
  BY <1>2, <1>6 DEF Becomes
<1>10. Becomes(h, c.h, Temps(h) \cup {c.v}, Contents(h), {})
  BY <1>2, <1>6, <1>9, BecomesTwice
<1>11. Becomes(h, g, Temps(h) \cup {c.v}, Contents(h), Told[e].replaced)
  BY <1>8, <1>9, <1>10, BecomesTwice
<1>12. Simplifies(e, e)
  BY SimplifiesItself
<1>13. g.error = FALSE /\ g.placed
  BY <1>2, <1>6, <1>7, HeapType DEF Kept
<1>14. Sound(g) /\ Contents(g) = Contents(h)
  BY <1>11 DEF Becomes
<1>15. Realizes(h, d, m, Told[e], e)
  BY <1>3, <1>4, <1>6, <1>7, <1>9, <1>11, <1>12, <1>13, <1>14 DEF Realizes
<1>16. QED BY <1>15 DEF at, d, m

LEMMA RealizesGet ==
  ASSUME NEW h, Ready(h), NEW e \in Expressions, e.op = "call", e.arg = "get"
  PROVE  Realizes(h, EvaluateLeaf(SetExecutionPosition(h, e), e), MeaningOfLeaf(e, Contents(h)), Told[e], e)
<1> DEFINE at == SetExecutionPosition(h, e)
           one == Value("int", 1)
           d == Construct(at, one, e)
<1>1. one \in Values
  BY ValueType, Digits DEF Types
<1>2. /\ Sound(at) /\ Becomes(h, at, Temps(h), Contents(h), {})
      /\ at.placed /\ at.exception = None /\ ~at.error
  BY AtIs DEF Ready
<1>3. EvaluateLeaf(at, e) = d
  BY DEF EvaluateLeaf, Call
<1>4. MeaningOfLeaf(e, Contents(h)) = Means("value", one, Contents(h))
  BY DEF MeaningOfLeaf, MeaningOfCall
<1> HIDE DEF at, one
<1>5. New(at, d, one, e)
  BY <1>1, <1>2, ConstructIsNew
<1> HIDE DEF d
<1>6. Realizes(h, d, MeaningOfLeaf(e, Contents(h)), Told[e], e)
  BY <1>2, <1>4, <1>5, SimplifiesItself, NewRealizes
<1>7. QED BY <1>3, <1>6 DEF at

LEMMA RealizesSet ==
  ASSUME NEW h, Ready(h), NEW e \in Expressions, e.op = "call", e.arg = "set"
  PROVE  Realizes(h, EvaluateLeaf(SetExecutionPosition(h, e), e), MeaningOfLeaf(e, Contents(h)), Told[e], e)
<1> DEFINE at == SetExecutionPosition(h, e)
           one == Value("int", 1)
           three == Value("int", 3)
           c == Construct(at, three, e)
           g == SetValue(c.h, "x", c.v)
           d == Construct(g, one, e)
           env == [Contents(h) EXCEPT !["x"] = three]
<1>1. one \in Values /\ three \in Values /\ "x" \in Variables
  BY ValueType, Digits DEF Types, Variables
<1>2. /\ Sound(at) /\ Becomes(h, at, Temps(h), Contents(h), {})
      /\ at.placed /\ at.exception = None /\ ~at.error
  BY AtIs DEF Ready
<1>3. EvaluateLeaf(at, e) = d
  BY DEF EvaluateLeaf, Call
<1>4. MeaningOfLeaf(e, Contents(h)) = Means("value", one, env)
  BY DEF MeaningOfLeaf, MeaningOfCall
<1> HIDE DEF at, one
<1>5. New(at, c, three, e)
  BY <1>1, <1>2, ConstructIsNew
<1> HIDE DEF c, three
<1>6. /\ Sound(c.h) /\ Becomes(at, c.h, Temps(at) \cup {c.v}, Contents(at), {})
      /\ c.v \notin Temps(at) /\ c.v \in Temps(c.h) /\ Kept(at, c.h) /\ Datum(c.h, c.v) = three
  BY <1>5 DEF New
<1>7. Assigned(c.h, g, "x", c.v)
  BY <1>1, <1>6, SetValueIs
<1> HIDE DEF g
<1>8. /\ Temps(at) = Temps(h) /\ Contents(at) = Contents(h)
      /\ Temps(c.h) = Temps(h) \cup {c.v} /\ Contents(c.h) = Contents(h)
  BY <1>2, <1>6 DEF Becomes
<1>9. env = [Contents(c.h) EXCEPT !["x"] = Datum(c.h, c.v)]
  BY <1>6, <1>8
<1> HIDE DEF env
<1>10. Becomes(c.h, g, Temps(c.h) \ {c.v}, env, {"x"})
  BY <1>1, <1>6, <1>7, <1>9, AssignedBecomes
<1>11. Temps(c.h) \ {c.v} = Temps(h)
  BY <1>6, <1>8
<1>12. Becomes(h, c.h, Temps(h) \cup {c.v}, Contents(h), {})
  BY <1>2, <1>6, <1>8, BecomesTwice
<1>13. Becomes(h, g, Temps(h), env, {"x"})
  BY <1>10, <1>11, <1>12, BecomesTwice
<1>14. Told[e].replaced = {"x"}
  BY ToldLeaf DEF Leaf
<1>15. Kept(c.h, g) /\ Sound(g)
  BY <1>7 DEF Assigned
<1>16. g.placed /\ g.exception = None /\ ~g.error
  BY <1>2, <1>6, <1>15 DEF Kept
<1>17. New(g, d, one, e)
  BY <1>1, <1>15, ConstructIsNew
<1> HIDE DEF d
<1>18. Realizes(h, d, MeaningOfLeaf(e, Contents(h)), Told[e], e)
  BY <1>4, <1>13, <1>14, <1>16, <1>17, SimplifiesItself, NewRealizes
<1>19. QED BY <1>3, <1>18 DEF at

LEMMA RealizesLeaf ==
  ASSUME NEW h, Ready(h), NEW e \in Expressions, e.op \in Leaf
  PROVE  Realizes(h, EvaluateLeaf(SetExecutionPosition(h, e), e), MeaningOfLeaf(e, Contents(h)), Told[e], e)
<1>1. e.op = "call" => e.arg \in {"get", "set", "fail"}
  BY Shape DEF IsLeaf, Functions
<1>2. e.op \in {"const", "var", "call"}
  BY DEF Leaf
<1>3. CASE e.op = "const"
  BY <1>3, RealizesConst
<1>4. CASE e.op = "var"
  BY <1>4, RealizesVar
<1>5. CASE e.op = "call"
  BY <1>1, <1>5, RealizesGet, RealizesSet, RealizesFail
<1>6. QED BY <1>2, <1>3, <1>4, <1>5

-----------------------------------------------------------------------------
(* Operators with one operand.                                              *)

\* An operand that has been used is released, unless a variable owns it.
LEMMA Dropped ==
  ASSUME NEW h, NEW g, NEW T, NEW env, NEW X, Becomes(h, g, T, env, X), ~g.error, NEW v,
         v \in Temps(g) \/ HasOwner(g, v), v \notin Temps(h)
  PROVE  LET k == ReleaseTemporary(g, v)
         IN  /\ Becomes(h, k, T \ {v}, env, X) /\ Kept(g, k) /\ Sound(k)
             /\ k.var = g.var
             /\ \A w \in LiveOf(g) : w # v => w \in LiveOf(k) /\ k.slots[w] = g.slots[w] /\ Datum(k, w) = Datum(g, w)
<1> DEFINE k == ReleaseTemporary(g, v)
<1>1. Sound(g) /\ Temps(g) = T /\ Contents(g) = env
  BY DEF Becomes
<1>2. CASE v \in Temps(g)
  <2>1. /\ Like(g, k, Temps(g) \ {v}) /\ Kept(g, k)
        /\ \A w \in LiveOf(g) : w # v => w \in LiveOf(k) /\ k.slots[w] = g.slots[w] /\ Datum(k, w) = Datum(g, w)
    BY <1>1, <1>2, ReleasedTemporary
  <2> HIDE DEF k
  <2>2. Becomes(g, k, T \ {v}, env, {})
    BY <1>1, <2>1, LikeBecomes
  <2>3. Becomes(h, k, T \ {v}, env, X)
    BY <2>2, BecomesTwice
  <2>4. Sound(k) /\ k.var = g.var
    BY <2>1 DEF Like
  <2>5. QED BY <2>1, <2>3, <2>4 DEF k
<1>3. CASE HasOwner(g, v)
  <2>1. k = g
    BY <1>1, <1>3, ReleasedTemporary
  <2>2. T \ {v} = T
    BY <1>1, <1>3, LiveIs
  <2> HIDE DEF k
  <2>3. Kept(g, g)
    BY DEF Kept
  <2>4. QED BY <1>1, <2>1, <2>2, <2>3 DEF k
<1>4. QED BY <1>2, <1>3

\* d: a value was constructed, and the variables are env now.
Made(h, d, value, t, env, X) ==
  /\ d.t = t /\ Sound(d.h) /\ Becomes(h, d.h, Temps(h) \cup {d.v}, env, X)
  /\ d.v \notin Temps(h) /\ d.v \in Temps(d.h) /\ Datum(d.h, d.v) = value
  /\ Kept(h, d.h) /\ d.h.var = h.var
  /\ \A w \in LiveOf(h) : w \in LiveOf(d.h) /\ w # d.v /\ d.h.slots[w].owner = h.slots[w].owner

LEMMA NewIsMade ==
  ASSUME NEW h, NEW d, NEW value, NEW t, New(h, d, value, t)
  PROVE  Made(h, d, value, t, Contents(h), {})
BY DEF New, Made

LEMMA Incremented1 ==
  ASSUME NEW h, Sound(h), NEW x \in Variables, NEW t, h.slots[h.var[x]].type = "int"
  PROVE  LET v == h.var[x]
             old == Construct(h, Datum(h, v), t)
         IN  Made(h, Done([old.h EXCEPT !.slots[v].data = (@ + 1) % 4], old.v, t), Datum(h, v), t,
                  [Contents(h) EXCEPT ![x] = Incremented(Datum(h, v))], {})
<1> DEFINE v == h.var[x]
           a == Datum(h, v)
           old == Construct(h, a, t)
           data == (old.h.slots[v].data + 1) % 4
           g == [old.h EXCEPT !.slots[v].data = data]
           d == Done([old.h EXCEPT !.slots[v].data = (@ + 1) % 4], old.v, t)
           env == [Contents(h) EXCEPT ![x] = Incremented(a)]
<1>1. v \in LiveOf(h) /\ a \in Values /\ h.slots[v] \in Slots /\ Contents(h)[x] = a
  BY LiveIs, ContentsAre
<1>2. New(h, old, a, t)
  BY <1>1, ConstructIsNew
<1>3. d.h = g /\ d.v = old.v /\ d.t = t
  BY DEF Done
<1>4. a.type = "int" /\ a.data = h.slots[v].data
  BY DEF Datum, Value
<1> HIDE DEF a, old
<1>5. /\ Sound(old.h) /\ Becomes(h, old.h, Temps(h) \cup {old.v}, Contents(h), {})
      /\ old.v \notin Temps(h) /\ old.v \in Temps(old.h) /\ Datum(old.h, old.v) = a
      /\ Kept(h, old.h) /\ old.h.var = h.var
      /\ \A w \in LiveOf(h) : w \in LiveOf(old.h) /\ w # old.v /\ old.h.slots[w] = h.slots[w]
  BY <1>2 DEF New
<1>6. old.h.slots[v] = h.slots[v] /\ v = old.h.var[x]
  BY <1>1, <1>5
<1>7. data \in 0..3 /\ Value(h.slots[v].type, data) = Incremented(a)
  <2>1. data = (a.data + 1) % 4 /\ a.data \in Nat
    BY <1>1, <1>4, <1>6, ValueType
  <2>2. data \in 0..3
    BY <2>1, Modulo
  <2>3. Incremented(a) = Value(a.type, data)
    BY <1>1, <2>1, IncrementedType
  <2>4. QED BY <1>4, <2>2, <2>3
<1> HIDE DEF data
<1>8. /\ Sound(g) /\ Kept(old.h, g) /\ g.var = old.h.var /\ Temps(g) = Temps(old.h) /\ LiveOf(g) = LiveOf(old.h)
      /\ Contents(g) = [Contents(old.h) EXCEPT ![x] = Value(old.h.slots[v].type, data)]
      /\ \A w \in LiveOf(old.h) : w # v => g.slots[w] = old.h.slots[w]
  <2> DEFINE from == old.h
  <2>1. v = from.var[x] /\ Sound(from)
    BY <1>5, <1>6
  <2>2. g = [from EXCEPT !.slots[v].data = data]
    OBVIOUS
  <2> HIDE DEF from, v, g
  <2>3. Overwrites(from, [from EXCEPT !.slots[v].data = data], v, x, data)
    BY <1>7, <2>1, Overwrite
  <2>4. Overwrites(from, g, v, x, data)
    BY <2>2, <2>3
  <2>5. QED BY <2>4 DEF Overwrites, from
<1> HIDE DEF g, d
<1>9. Contents(old.h) = Contents(h) /\ Temps(old.h) = Temps(h) \cup {old.v}
  BY <1>5 DEF Becomes
<1>10. Contents(g) = env
  BY <1>6, <1>7, <1>8, <1>9
<1>11. \A w \in Temps(old.h) : w \in LiveOf(old.h) /\ w # v
  BY <1>5, <1>6, LiveIs
<1> HIDE DEF env, v
<1>12. Becomes(old.h, g, Temps(h) \cup {old.v}, env, {})
  BY <1>8, <1>9, <1>10, <1>11 DEF Becomes
<1>13. Becomes(h, g, Temps(h) \cup {old.v}, env, {})
  BY <1>5, <1>12, BecomesTwice
<1>14. old.v \in Temps(g) /\ Datum(g, old.v) = a
  BY <1>5, <1>8, <1>11 DEF Datum
<1>15. Kept(h, g) /\ g.var = h.var
  BY <1>5, <1>8 DEF Kept
<1>16. ASSUME NEW w \in LiveOf(h)
       PROVE  w \in LiveOf(g) /\ w # old.v /\ g.slots[w].owner = h.slots[w].owner
  <2>1. w \in LiveOf(old.h) /\ w # old.v /\ old.h.slots[w] = h.slots[w]
    BY <1>5
  <2>2. g.slots[v].owner = x /\ old.h.slots[v].owner = x
    <3>1. g.var[x] = v /\ old.h.var[x] = v
      BY <1>6, <1>8
    <3>2. QED BY <1>5, <1>8, <3>1, LiveIs
  <2>3. QED BY <1>8, <2>1, <2>2
<1>17. Made(h, d, a, t, env, {})
  BY <1>3, <1>5, <1>8, <1>13, <1>14, <1>15, <1>16 DEF Made
<1>18. QED BY <1>17 DEF d, a, v, env, old

\* What OperateOne does with the operand v.
LEMMA OperateOneIs ==
  ASSUME NEW h, Ready(h), NEW v \in LiveOf(h), NEW op \in Unary, NEW t, NEW a, a = Datum(h, v)
  PROVE  LET d == OperateOne(op, h, v, t)
         IN  /\ a.type # "int" \/ (op = "x++" /\ ~HasOwner(h, v)) => d = RuntimeError(h, t)
             /\ a.type = "int" /\ op = "neg" => Made(h, d, Negated(a), t, Contents(h), {})
             /\ \A x \in Variables : a.type = "int" /\ op = "x++" /\ v = h.var[x] =>
                   Made(h, d, a, t, [Contents(h) EXCEPT ![x] = Incremented(a)], {})
<1> DEFINE d == OperateOne(op, h, v, t)
<1>1. Sound(h) /\ a \in Values /\ a.type = h.slots[v].type /\ a.data = h.slots[v].data
  BY LiveIs DEF Ready, Datum, Value
<1>2. Seen(h, v) = h
  BY <1>1, SeenIs
<1>3. a.type # "int" \/ (op = "x++" /\ ~HasOwner(h, v)) => d = RuntimeError(h, t)
  BY <1>1, <1>2 DEF OperateOne
<1>4. ASSUME a.type = "int", op = "neg"
      PROVE  Made(h, d, Negated(a), t, Contents(h), {})
  <2>1. d = Construct(h, Negated(a), t)
    BY <1>1, <1>2, <1>4 DEF OperateOne, Negated
  <2>2. Negated(a) \in Values
    BY <1>1, IncrementedType
  <2> HIDE DEF d
  <2>3. New(h, d, Negated(a), t)
    BY <1>1, <2>1, <2>2, ConstructIsNew
  <2>4. QED BY <2>3, NewIsMade
<1>5. ASSUME NEW x \in Variables, a.type = "int", op = "x++", v = h.var[x]
      PROVE  Made(h, d, a, t, [Contents(h) EXCEPT ![x] = Incremented(a)], {})
  <2>1. HasOwner(h, v)
    BY <1>1, <1>5, LiveIs
  <2> DEFINE old == Construct(h, Datum(h, v), t)
             k == Done([old.h EXCEPT !.slots[v].data = (@ + 1) % 4], old.v, t)
  <2>2. d = k
    BY <1>1, <1>2, <1>5, <2>1 DEF OperateOne
  <2>3. Made(h, k, a, t, [Contents(h) EXCEPT ![x] = Incremented(a)], {})
    BY <1>1, <1>5, Incremented1
  <2> HIDE DEF d, k
  <2>4. QED BY <2>2, <2>3
<1>6. QED BY <1>3, <1>4, <1>5

-----------------------------------------------------------------------------
(* What is done, operator by operator.                                      *)

LEMMA EvaluateAt ==
  ASSUME NEW e \in Expressions, NEW h \in Heaps
  PROVE  Evaluate[e][h] = EvaluateBy(e, [k \in DOMAIN e.kids |-> Evaluate[e.kids[k]]], h)
BY EvaluateIs, Zenon DEF EvaluateFrom

LEMMA EvaluateByIs ==
  ASSUME NEW e, NEW kid, NEW h
  PROVE  /\ h.exception # None => EvaluateBy(e, kid, h) = Done(h, h.exception, e)
         /\ ~h.error /\ h.exception = None =>
              /\ e.op \in Leaf => EvaluateBy(e, kid, h) = EvaluateLeaf(SetExecutionPosition(h, e), e)
              /\ e.op \in Unary => EvaluateBy(e, kid, h) = EvaluateUnary(SetExecutionPosition(h, e), e, kid)
<1>1. h.exception # None => EvaluateBy(e, kid, h) = Done(h, h.exception, e)
  BY Zenon DEF EvaluateBy
<1>2. e.op \in Leaf => e.op \notin Unary /\ e.op # "," /\ e.op # "?"
  BY DEF Leaf, Unary
<1>3. e.op \in Unary => e.op \notin Leaf /\ e.op # "," /\ e.op # "?"
  BY DEF Leaf, Unary
<1>4. ASSUME ~h.error, h.exception = None, e.op \in Leaf
      PROVE  EvaluateBy(e, kid, h) = EvaluateLeaf(SetExecutionPosition(h, e), e)
  BY <1>2, <1>4 DEF EvaluateBy
<1>5. ASSUME ~h.error, h.exception = None, e.op \in Unary
      PROVE  EvaluateBy(e, kid, h) = EvaluateUnary(SetExecutionPosition(h, e), e, kid)
  BY <1>3, <1>5 DEF EvaluateBy
<1>6. QED BY <1>1, <1>4, <1>5

LEMMA EvaluatePending ==
  ASSUME NEW e \in Expressions, NEW h \in Heaps, h.exception # None
  PROVE  LET r == Evaluate[e][h]
         IN  r.h = h /\ r.v = h.exception /\ r.t = e
<1>1. Evaluate[e][h] = Done(h, h.exception, e)
  BY EvaluateAt, EvaluateByIs
<1>2. QED BY <1>1 DEF Done

LEMMA EvaluateAtLeaf ==
  ASSUME NEW e \in Expressions, NEW h, Ready(h), e.op \in Leaf
  PROVE  Evaluate[e][h] = EvaluateLeaf(SetExecutionPosition(h, e), e)
<1>1. h \in Heaps /\ ~h.error /\ h.exception = None
  BY DEF Ready, Sound
<1>2. QED BY <1>1, EvaluateAt, EvaluateByIs

LEMMA EvaluateAtUnary ==
  ASSUME NEW e \in Expressions, NEW h, Ready(h), e.op \in Unary
  PROVE  LET k == Evaluate[e.kids[1]][SetExecutionPosition(h, e)]
             t == Node(e.op, e.arg, <<k.t>>)
             done == OperateOne(e.op, k.h, k.v, t)
         IN  /\ k.h.error => Evaluate[e][h] = k
             /\ ~k.h.error => Evaluate[e][h] = Done(ReleaseTemporary(done.h, k.v), done.v, t)
<1> DEFINE kid == [k \in DOMAIN e.kids |-> Evaluate[e.kids[k]]]
           at == SetExecutionPosition(h, e)
<1>1. h \in Heaps /\ ~h.error /\ h.exception = None
  BY DEF Ready, Sound
<1>2. e.op \notin Leaf /\ kid[1] = Evaluate[e.kids[1]]
  BY Operands
<1>3. Evaluate[e][h] = EvaluateBy(e, kid, h)
  BY <1>1, EvaluateAt
<1> HIDE DEF kid
<1>4. Evaluate[e][h] = EvaluateUnary(at, e, kid)
  BY <1>1, <1>2, <1>3, EvaluateByIs
<1> HIDE DEF at
<1>5. QED BY <1>2, <1>4 DEF EvaluateUnary, at

LEMMA EvaluateAtSequence ==
  ASSUME NEW e \in Expressions, NEW h, Ready(h), e.op = ","
  PROVE  LET l == Evaluate[e.kids[1]][SetExecutionPosition(h, e)]
             r == Evaluate[e.kids[2]][ReleaseTemporary(l.h, l.v)]
         IN  /\ l.h.error => Evaluate[e][h] = l
             /\ ~l.h.error => Evaluate[e][h] = Done(r.h, r.v, Node(e.op, e.arg, <<l.t, r.t>>))
<1> DEFINE kid == [k \in DOMAIN e.kids |-> Evaluate[e.kids[k]]]
           at == SetExecutionPosition(h, e)
<1>1. h \in Heaps /\ ~h.error /\ h.exception = None
  BY DEF Ready, Sound
<1>2. e.op \notin Leaf \cup Unary /\ kid[1] = Evaluate[e.kids[1]] /\ kid[2] = Evaluate[e.kids[2]]
  BY Operands DEF Binary
<1>3. Evaluate[e][h] = EvaluateBy(e, kid, h)
  BY <1>1, EvaluateAt
<1> HIDE DEF kid
<1>4. Evaluate[e][h] = EvaluateSequence(at, e, kid)
  BY <1>1, <1>2, <1>3 DEF EvaluateBy
<1> HIDE DEF at
<1>5. QED BY <1>2, <1>4 DEF EvaluateSequence, at

LEMMA EvaluateAtTernary ==
  ASSUME NEW e \in Expressions, NEW h, Ready(h), e.op = "?"
  PROVE  LET c == Evaluate[e.kids[1]][SetExecutionPosition(h, e)]
             branch == IF c.h.slots[c.v].data # 0 THEN 2 ELSE 3
             b == Evaluate[e.kids[branch]][ReleaseTemporary(Seen(c.h, c.v), c.v)]
         IN  /\ c.h.error => Evaluate[e][h] = c
             /\ ~c.h.error => Evaluate[e][h] = Done(b.h, b.v, [e EXCEPT !.kids[1] = c.t, !.kids[branch] = b.t])
<1> DEFINE kid == [k \in DOMAIN e.kids |-> Evaluate[e.kids[k]]]
           at == SetExecutionPosition(h, e)
<1>1. h \in Heaps /\ ~h.error /\ h.exception = None
  BY DEF Ready, Sound
<1>2. /\ e.op \notin Leaf \cup Unary /\ kid[1] = Evaluate[e.kids[1]]
      /\ kid[2] = Evaluate[e.kids[2]] /\ kid[3] = Evaluate[e.kids[3]]
  BY Operands
<1>3. Evaluate[e][h] = EvaluateBy(e, kid, h)
  BY <1>1, EvaluateAt
<1> HIDE DEF kid
<1>4. Evaluate[e][h] = EvaluateTernary(at, e, kid)
  BY <1>1, <1>2, <1>3 DEF EvaluateBy
<1> HIDE DEF at
<1> DEFINE c == kid[1][at]
           branch == IF c.h.slots[c.v].data # 0 THEN 2 ELSE 3
<1>5. kid[branch] = Evaluate[e.kids[branch]]
  BY <1>2
<1>6. QED BY <1>2, <1>4, <1>5 DEF EvaluateTernary, at

LEMMA EvaluateAtBinary ==
  ASSUME NEW e \in Expressions, NEW h, Ready(h), e.op \in Binary, e.op # ","
  PROVE  LET l == Evaluate[e.kids[1]][SetExecutionPosition(h, e)]
             r == Evaluate[e.kids[2]][l.h]
             short == Node(e.op, e.arg, <<l.t, e.kids[2]>>)
             t == Node(e.op, e.arg, <<l.t, r.t>>)
             done == Operate(e.op, r.h, l.v, r.v, t)
         IN  Evaluate[e][h] =
               IF l.h.error THEN l
               ELSE IF ConditionalShortcut(e.op, l.h, l.v) THEN
                 Folded(Construct(ReleaseTemporary(Seen(l.h, l.v), l.v), Value("bool", Shortcut[e.op]), short))
               ELSE IF r.h.error THEN r
               ELSE IF r.h.exception # None THEN Done(ReleaseAfterThrow(r.h, l.v), r.h.exception, t)
               ELSE IF done.h.error THEN done
               ELSE Folded(Done(ReleaseTemporary(ReleaseTemporary(done.h, l.v), r.v), done.v, t))
<1> DEFINE kid == [k \in DOMAIN e.kids |-> Evaluate[e.kids[k]]]
           at == SetExecutionPosition(h, e)
<1>1. h \in Heaps /\ ~h.error /\ h.exception = None
  BY DEF Ready, Sound
<1>2. /\ e.op \notin Leaf \cup Unary /\ e.op # "?" /\ kid[1] = Evaluate[e.kids[1]]
      /\ kid[2] = Evaluate[e.kids[2]]
  BY Operands
<1>3. Evaluate[e][h] = EvaluateBy(e, kid, h)
  BY <1>1, EvaluateAt
<1> HIDE DEF kid
<1>4. Evaluate[e][h] = EvaluateBinary(at, e, kid)
  BY <1>1, <1>2, <1>3 DEF EvaluateBy
<1> HIDE DEF at
<1>5. QED BY <1>2, <1>4, Zenon DEF EvaluateBinary, at

\* A value that was made is the result, once the operands are dropped.
LEMMA MadeRealizes ==
  ASSUME NEW h, NEW g, NEW v, NEW value, NEW t, NEW m, NEW told, NEW e, NEW env, NEW X,
         Becomes(h, g, Temps(h) \cup {v}, env, X), X \subseteq told.replaced, v \notin Temps(h),
         Datum(g, v) = value, m = Means("value", value, env),
         ~g.error, g.exception = None, ~g.placed => told.gone, Simplifies(t, e)
  PROVE  Realizes(h, Done(g, v, t), m, told, e)
<1> DEFINE d == Done(g, v, t)
<1>1. m.out = "value" /\ m.val = value /\ m.env = env
  BY MeansIs
<1>2. d.h = g /\ d.v = v /\ d.t = t
  BY DEF Done
<1> HIDE DEF d
<1>3. Sound(g) /\ Contents(g) = env /\ g.error = FALSE
  BY HeapType DEF Becomes, Sound
<1>4. Becomes(h, g, Temps(h) \cup {v}, env, told.replaced)
  BY DEF Becomes
<1>5. Realizes(h, d, m, told, e)
  BY <1>1, <1>2, <1>3, <1>4 DEF Realizes
<1>6. QED BY <1>5 DEF d

\* The same for an error: nothing but the variables matters.
LEMMA ErrorRealizes ==
  ASSUME NEW h, NEW r, NEW m, NEW told, NEW e,
         Sound(r.h), Contents(r.h) = m.env, r.h.error, m.out = "error"
  PROVE  Realizes(h, r, m, told, e)
<1>1. r.h.error = TRUE
  BY HeapType DEF Sound
<1>2. QED BY <1>1 DEF Realizes

\* Heaps that differ only in the position.
LEMMA RealizesBefore ==
  ASSUME NEW h, NEW at, Becomes(h, at, Temps(h), Contents(h), {}), NEW r, NEW m, NEW d, NEW e,
         Realizes(at, r, m, d, e)
  PROVE  Realizes(h, r, m, d, e)
<1>1. Temps(at) = Temps(h)
  BY DEF Becomes
<1>2. CASE m.out = "error"
  BY <1>2 DEF Realizes
<1>3. CASE m.out # "error"
  <2> DEFINE T == IF m.out = "variable" THEN Temps(h) ELSE Temps(h) \cup {r.v}
  <2>1. Becomes(at, r.h, T, m.env, d.replaced)
    BY <1>1, <1>3 DEF Realizes
  <2> HIDE DEF T
  <2>2. Becomes(h, r.h, T, m.env, d.replaced)
    BY <2>1, BecomesTwice
  <2>3. QED BY <1>1, <1>3, <2>2 DEF Realizes, T
<1>4. QED BY <1>2, <1>3

\* Evaluate does with e what e means.
Right(e) ==
  Told[e].habits = {} =>
    \A h : Ready(h) => Realizes(h, Evaluate[e][h], Meaning[e][Contents(h)], Told[e], e)

LEMMA RightOperand ==
  ASSUME NEW e \in Expressions, Right(e), Told[e].habits = {}, NEW h, Ready(h)
  PROVE  LET r == Evaluate[e][h]
             m == Meaning[e][Contents(h)]
         IN  Realizes(h, r, m, Told[e], e) /\ Fits(m, Told[e]) /\ m.env \in Environments
<1>1. Contents(h) \in Environments
  BY ContentsAre DEF Ready
<1>2. QED BY <1>1, AllFit DEF Right, Fits

LEMMA ReadyAt ==
  ASSUME NEW h, Ready(h), NEW e
  PROVE  LET at == SetExecutionPosition(h, e)
         IN  /\ Ready(at) /\ Contents(at) = Contents(h) /\ Temps(at) = Temps(h)
             /\ Becomes(h, at, Temps(h), Contents(h), {})
BY AtIs DEF Ready

LEMMA RightUnary ==
  ASSUME NEW e \in Expressions, e.op \in Unary, Right(e.kids[1])
  PROVE  Right(e)
<1> SUFFICES ASSUME Told[e].habits = {}, NEW h, Ready(h)
             PROVE  Realizes(h, Evaluate[e][h], Meaning[e][Contents(h)], Told[e], e)
  BY DEF Right
<1> DEFINE kid == e.kids[1]
           at == SetExecutionPosition(h, e)
           k == Evaluate[kid][at]
           m == Meaning[kid][Contents(at)]
           a == Told[kid]
           t == Node(e.op, e.arg, <<k.t>>)
           done == OperateOne(e.op, k.h, k.v, t)
           r == Evaluate[e][h]
           mean == Meaning[e][Contents(h)]
           d == Told[e]
<1>1. /\ Ready(at) /\ Contents(at) = Contents(h) /\ Temps(at) = Temps(h)
      /\ Becomes(h, at, Temps(h), Contents(h), {})
  BY ReadyAt
<1>2. kid \in Expressions /\ Right(kid) /\ DOMAIN e.kids = {1} /\ e.op \notin Leaf
  BY Operands
<1>3. /\ d.replaced = a.replaced /\ (a.gone => d.gone) /\ a.habits = {} /\ ~a.throws
      /\ e.op = "neg" => ~(a.gone /\ a.boolean)
      /\ e.op = "x++" => ~(a.gone /\ (a.boolean \/ a.temporary))
  BY ToldUnary
<1>4. /\ k.h.error => r = k
      /\ ~k.h.error => r = Done(ReleaseTemporary(done.h, k.v), done.v, t)
  BY EvaluateAtUnary
<1>5. mean = MeaningOfOne(e.op, m)
  <2>1. Contents(h) \in Environments
    BY ContentsAre DEF Ready
  <2>2. QED BY <1>1, <2>1, MeaningAtUnary
<1>6. Realizes(at, k, m, a, kid) /\ Fits(m, a) /\ m.env \in Environments
  BY <1>1, <1>2, <1>3, RightOperand
<1>7. e.kids[1] = kid
  OBVIOUS
<1> HIDE DEF kid, at, k, m, a, done, r, mean, d
<1>8. Realizes(h, k, m, a, kid)
  BY <1>1, <1>6, RealizesBefore
<1>9. CASE Stops(m)
  <2>1. m.out = "error"
    BY <1>3, <1>6, <1>9, StopsIs DEF Fits
  <2>2. Sound(k.h) /\ Contents(k.h) = m.env /\ k.h.error
    BY <1>8, <2>1 DEF Realizes
  <2>3. r = k /\ mean = m
    BY <1>4, <1>5, <1>6, <1>9, <2>2, MeaningOfOneIs
  <2>4. Realizes(h, r, mean, d, e)
    BY <2>1, <2>2, <2>3, ErrorRealizes
  <2>5. QED BY <2>4 DEF r, mean, d
<1>10. CASE ~Stops(m)
  <2> DEFINE x == Deref(m, m.env)
  <2>1. /\ Sound(k.h) /\ ~k.h.error /\ k.h.exception = None /\ m.out \in {"value", "variable"}
        /\ k.v \in LiveOf(k.h) /\ Datum(k.h, k.v) = x /\ x \in Values
        /\ m.out = "value" => k.v \in Temps(k.h) /\ k.v \notin Temps(h) /\ Temps(k.h) = Temps(h) \cup {k.v}
                              /\ a.temporary /\ ~HasOwner(k.h, k.v)
        /\ m.out = "variable" => m.val \in Variables /\ m.val \in a.targets /\ HasOwner(k.h, k.v)
                                 /\ Temps(k.h) = Temps(h) /\ k.v = k.h.var[m.val]
        /\ x.type = "bool" => a.boolean
        /\ ~k.h.placed => a.gone
    BY <1>6, <1>8, <1>10, Pointer
  <2>2. Becomes(h, k.h, Temps(k.h), m.env, d.replaced) /\ Contents(k.h) = m.env
    BY <1>3, <1>8, <2>1 DEF Realizes, Becomes
  <2>3. Ready(k.h)
    BY <2>1 DEF Ready
  <2>4. r = Done(ReleaseTemporary(done.h, k.v), done.v, t)
    BY <1>4, <2>1
  <2>5. /\ x.type # "int" \/ (e.op = "x++" /\ ~HasOwner(k.h, k.v)) => done = RuntimeError(k.h, t)
        /\ x.type = "int" /\ e.op = "neg" => Made(k.h, done, Negated(x), t, Contents(k.h), {})
        /\ \A y \in Variables : x.type = "int" /\ e.op = "x++" /\ k.v = k.h.var[y] =>
              Made(k.h, done, x, t, [Contents(k.h) EXCEPT ![y] = Incremented(x)], {})
    BY <2>1, <2>3, OperateOneIs DEF done
  <2>6. /\ x.type # "int" \/ (e.op = "x++" /\ m.out # "variable") => mean = Means("error", None, m.env)
        /\ x.type = "int" /\ e.op = "neg" => mean = Means("value", Negated(x), m.env)
        /\ x.type = "int" /\ e.op = "x++" /\ m.out = "variable" =>
              mean = Means("value", x, [m.env EXCEPT ![m.val] = Incremented(x)])
    BY <1>5, <1>6, <1>10, MeaningOfOneIs
  <2> HIDE DEF x
  <2>7. x.type \in {"int", "bool"} /\ e.op \in {"neg", "x++"}
    BY <2>1, ValueType DEF Unary
  <2>8. CASE x.type # "int" \/ (e.op = "x++" /\ m.out # "variable")
    <3>1. k.h.placed
      BY <1>3, <2>1, <2>7, <2>8
    <3>2. done = RuntimeError(k.h, t)
      BY <2>1, <2>5, <2>8
    <3>3. Sound(done.h) /\ Contents(done.h) = m.env /\ done.h.error
      BY <2>1, <2>2, <3>1, <3>2, ErrorIs
    <3>4. r.h = done.h
      BY <2>4, <3>3 DEF ReleaseTemporary, Done
    <3>5. mean.out = "error" /\ mean.env = m.env
      BY <2>6, <2>8, MeansIs
    <3>6. Realizes(h, r, mean, d, e)
      BY <3>3, <3>4, <3>5, ErrorRealizes
    <3>7. QED BY <3>6 DEF r, mean, d
  <2>9. CASE ~(x.type # "int" \/ (e.op = "x++" /\ m.out # "variable"))
    <3>1. PICK value, env : Made(k.h, done, value, t, env, {}) /\ mean = Means("value", value, env)
      <4>1. CASE e.op = "neg"
        BY <2>2, <2>5, <2>6, <2>9, <4>1
      <4>2. CASE e.op = "x++"
        BY <2>1, <2>2, <2>5, <2>6, <2>9, <4>2
      <4>3. QED BY <2>7, <4>1, <4>2
    <3> DEFINE g == ReleaseTemporary(done.h, k.v)
    <3>2. /\ Sound(done.h) /\ Becomes(k.h, done.h, Temps(k.h) \cup {done.v}, env, {})
          /\ done.v \notin Temps(k.h) /\ done.v \in Temps(done.h) /\ Datum(done.h, done.v) = value
          /\ Kept(k.h, done.h)
          /\ k.v \in LiveOf(done.h) /\ k.v # done.v /\ done.h.slots[k.v].owner = k.h.slots[k.v].owner
      BY <2>1, <3>1 DEF Made
    <3>3. Becomes(h, done.h, Temps(k.h) \cup {done.v}, env, d.replaced)
      <4>1. \A v \in Temps(h) : v \in Temps(k.h)
        BY <2>1
      <4>2. QED BY <2>2, <3>2, <4>1, BecomesTwice
    <3>4. k.v \in Temps(done.h) \/ HasOwner(done.h, k.v)
      BY <3>2 DEF Temps, HasOwner
    <3>5. k.v \notin Temps(h) /\ (Temps(k.h) \cup {done.v}) \ {k.v} = Temps(h) \cup {done.v} /\ done.v \notin Temps(h)
      <4>1. CASE m.out = "value"
        BY <2>1, <3>2, <4>1
      <4>2. CASE m.out = "variable"
        <5>1. k.v \notin Temps(k.h)
          BY <2>1, <4>2, LiveIs
        <5>2. QED BY <2>1, <3>2, <4>2, <5>1
      <4>3. QED BY <2>1, <4>1, <4>2
    <3>6. ~done.h.error /\ done.h.exception = None /\ (~done.h.placed => d.gone)
      BY <1>3, <2>1, <3>2 DEF Kept
    <3>7. done.v \in LiveOf(done.h)
      BY <3>2 DEF Temps
    <3>8. /\ Becomes(h, g, Temps(h) \cup {done.v}, env, d.replaced) /\ Kept(done.h, g)
          /\ Datum(g, done.v) = value
      BY <3>2, <3>3, <3>4, <3>5, <3>6, <3>7, Dropped
    <3>9. Simplifies(t, e)
      <4>1. Simplifies(k.t, kid)
        BY <1>8, <2>1 DEF Realizes
      <4> DEFINE kids == <<k.t>>
      <4>2. DOMAIN kids = {1} /\ kids[1] = k.t /\ kids = [i \in DOMAIN e.kids |-> kids[i]]
        BY <1>2
      <4> HIDE DEF kids
      <4>3. \A i \in DOMAIN e.kids : Simplifies(kids[i], e.kids[i])
        BY <1>2, <1>7, <4>1, <4>2
      <4>4. Simplifies(Node(e.op, e.arg, kids), e)
        BY <1>2, <4>2, <4>3, SimplifiesNode
      <4>5. QED BY <4>4 DEF kids
    <3> HIDE DEF g, t
    <3>10. ~g.error /\ g.exception = None /\ (~g.placed => d.gone)
      BY <3>6, <3>8 DEF Kept
    <3>11. Realizes(h, Done(g, done.v, t), mean, d, e)
      BY <3>1, <3>5, <3>8, <3>9, <3>10, MadeRealizes
    <3>12. r = Done(g, done.v, t)
      BY <2>4 DEF g
    <3>13. QED BY <3>11, <3>12 DEF r, mean, d
  <2>10. QED BY <2>8, <2>9
<1>11. QED BY <1>9, <1>10

-----------------------------------------------------------------------------
(* Operators that go on with another operand when one has been dropped.     *)

LEMMA OperandDropped ==
  ASSUME NEW h, NEW l, NEW m, NEW a, NEW e, Realizes(h, l, m, a, e), Fits(m, a), ~Stops(m)
  PROVE  LET g == ReleaseTemporary(l.h, l.v)
         IN  /\ Ready(g) /\ Becomes(h, g, Temps(h), m.env, a.replaced)
             /\ Contents(g) = m.env /\ Temps(g) = Temps(h) /\ (~g.placed => a.gone)
             /\ Simplifies(l.t, e)
<1> DEFINE g == ReleaseTemporary(l.h, l.v)
           T == IF m.out = "variable" THEN Temps(h) ELSE Temps(h) \cup {l.v}
<1>1. /\ Sound(l.h) /\ ~l.h.error /\ l.h.exception = None /\ m.out \in {"value", "variable"}
      /\ m.out = "value" => l.v \in Temps(l.h) /\ l.v \notin Temps(h)
      /\ m.out = "variable" => m.val \in Variables /\ HasOwner(l.h, l.v) /\ Temps(l.h) = Temps(h) /\ l.v = l.h.var[m.val]
      /\ ~l.h.placed => a.gone
  BY Pointer
<1>2. Becomes(h, l.h, T, m.env, a.replaced) /\ Simplifies(l.t, e)
  BY <1>1 DEF Realizes
<1>3. l.v \notin Temps(h) /\ T \ {l.v} = Temps(h) /\ (l.v \in Temps(l.h) \/ HasOwner(l.h, l.v))
  <2>1. CASE m.out = "value"
    BY <1>1, <2>1
  <2>2. CASE m.out = "variable"
    <3>1. l.v \notin Temps(l.h)
      BY <1>1, <2>2, LiveIs
    <3>2. QED BY <1>1, <2>2, <3>1
  <2>3. QED BY <1>1, <2>1, <2>2
<1> HIDE DEF T
<1>4. Becomes(h, g, T \ {l.v}, m.env, a.replaced) /\ Kept(l.h, g) /\ Sound(g)
  BY <1>1, <1>2, <1>3, Dropped
<1> HIDE DEF g
<1>5. Becomes(h, g, Temps(h), m.env, a.replaced)
  BY <1>3, <1>4
<1>6. Ready(g) /\ (~g.placed => a.gone)
  BY <1>1, <1>4 DEF Ready, Kept
<1>7. Contents(g) = m.env /\ Temps(g) = Temps(h)
  BY <1>5 DEF Becomes
<1>8. QED BY <1>2, <1>5, <1>6, <1>7 DEF g

\* The last operand is the result.
LEMMA GoesOn ==
  ASSUME NEW h, NEW g, NEW env, NEW X, Becomes(h, g, Temps(h), env, X),
         NEW r, NEW m, NEW b, NEW kid, Realizes(g, r, m, b, kid),
         NEW d, X \subseteq d.replaced, b.replaced \subseteq d.replaced,
         b.gone => d.gone \/ m.out = "thrown",
         NEW e, NEW t, Simplifies(r.t, kid) => Simplifies(t, e)
  PROVE  Realizes(h, Done(r.h, r.v, t), m, d, e)
<1> DEFINE done == Done(r.h, r.v, t)
<1>1. done.h = r.h /\ done.v = r.v /\ done.t = t
  BY DEF Done
<1> HIDE DEF done
<1>2. Temps(g) = Temps(h)
  BY DEF Becomes
<1>3. CASE m.out = "error"
  <2>1. Sound(done.h) /\ Contents(done.h) = m.env /\ done.h.error
    BY <1>1, <1>3 DEF Realizes
  <2>2. Realizes(h, done, m, d, e)
    BY <1>3, <2>1, ErrorRealizes
  <2>3. QED BY <2>2 DEF done
<1>4. CASE m.out # "error"
  <2> DEFINE T == IF m.out = "variable" THEN Temps(h) ELSE Temps(h) \cup {r.v}
  <2>1. Becomes(g, r.h, T, m.env, b.replaced) /\ Simplifies(t, e)
    BY <1>2, <1>4 DEF Realizes
  <2> HIDE DEF T
  <2>2. Becomes(h, r.h, T, m.env, d.replaced)
    BY <1>2, <2>1, BecomesTwice
  <2>3. Realizes(h, done, m, d, e)
    BY <1>1, <1>2, <1>4, <2>1, <2>2 DEF Realizes, T
  <2>4. QED BY <2>3 DEF done
<1>5. QED BY <1>3, <1>4

LEMMA PairSimplifies ==
  ASSUME NEW e \in Expressions, e.op \notin Leaf, DOMAIN e.kids = {1, 2}, NEW x, NEW y,
         Simplifies(x, e.kids[1]), Simplifies(y, e.kids[2])
  PROVE  Simplifies(Node(e.op, e.arg, <<x, y>>), e)
<1> DEFINE kids == <<x, y>>
<1>1. DOMAIN kids = {1, 2} /\ kids[1] = x /\ kids[2] = y /\ kids = [i \in {1, 2} |-> kids[i]]
  OBVIOUS
<1> HIDE DEF kids
<1>2. kids = [i \in DOMAIN e.kids |-> kids[i]] /\ \A i \in DOMAIN e.kids : Simplifies(kids[i], e.kids[i])
  BY <1>1
<1>3. Simplifies(Node(e.op, e.arg, kids), e)
  BY <1>2, SimplifiesNode
<1>4. QED BY <1>3 DEF kids

LEMMA RightSequence ==
  ASSUME NEW e \in Expressions, e.op = ",", Right(e.kids[1]), Right(e.kids[2])
  PROVE  Right(e)
<1> SUFFICES ASSUME Told[e].habits = {}, NEW h, Ready(h)
             PROVE  Realizes(h, Evaluate[e][h], Meaning[e][Contents(h)], Told[e], e)
  BY DEF Right
<1> DEFINE at == SetExecutionPosition(h, e)
           one == e.kids[1]
           two == e.kids[2]
           a == Told[one]
           b == Told[two]
           d == Told[e]
           l == Evaluate[one][at]
           g == ReleaseTemporary(l.h, l.v)
           r == Evaluate[two][g]
           m == Meaning[one][Contents(at)]
           n == Meaning[two][m.env]
           t == Node(e.op, e.arg, <<l.t, r.t>>)
           done == Evaluate[e][h]
           mean == Meaning[e][Contents(h)]
<1>1. /\ Ready(at) /\ Contents(at) = Contents(h) /\ Temps(at) = Temps(h)
      /\ Becomes(h, at, Temps(h), Contents(h), {})
  BY ReadyAt
<1>2. e.op \in Binary
  BY DEF Binary
<1>3. one \in Expressions /\ two \in Expressions /\ Right(one) /\ Right(two) /\ DOMAIN e.kids = {1, 2} /\ e.op \notin Leaf
  BY <1>2, Operands
<1>4. /\ a.habits = {} /\ b.habits = {} /\ ~a.throws
      /\ a.replaced \subseteq d.replaced /\ b.replaced \subseteq d.replaced /\ (b.gone => d.gone)
  <2>1. a.habits = {} /\ b.habits = {} /\ (e.op \in DOMAIN Shortcut \cup {","} => ~a.throws)
    BY <1>2, ToldBinary, Zenon
  <2>2. Told[e].replaced = a.replaced \cup b.replaced \cup IF e.op = "=" THEN a.targets ELSE {}
    BY <1>2, ToldBinary, Zenon
  <2>3. b.gone => d.gone
    BY <1>2, ToldBinary, Zenon
  <2> HIDE DEF a, b
  <2>4. QED BY <2>1, <2>2, <2>3
<1>5. /\ l.h.error => done = l
      /\ ~l.h.error => done = Done(r.h, r.v, t)
  BY EvaluateAtSequence
<1>6. mean = BinaryMeaning(",", m, n)
  <2>1. Contents(h) \in Environments
    BY ContentsAre DEF Ready
  <2>2. QED BY <1>1, <1>2, <2>1, MeaningAtBinary
<1>7. Realizes(at, l, m, a, one) /\ Fits(m, a) /\ m.env \in Environments
  BY <1>1, <1>3, <1>4, RightOperand
<1>8. e.kids[1] = one /\ e.kids[2] = two
  OBVIOUS
<1> HIDE DEF at, one, two, a, b, d, l, m
<1>9. Realizes(h, l, m, a, one)
  BY <1>1, <1>7, RealizesBefore
<1>10. CASE Stops(m)
  <2>1. m.out = "error"
    BY <1>4, <1>7, <1>10, StopsIs DEF Fits
  <2>2. Sound(l.h) /\ Contents(l.h) = m.env /\ l.h.error
    BY <1>9, <2>1 DEF Realizes
  <2>3. mean = m /\ done = l
    BY <1>5, <1>6, <1>10, <2>2 DEF BinaryMeaning
  <2> HIDE DEF mean, done
  <2>4. Realizes(h, done, mean, d, e)
    BY <2>1, <2>2, <2>3, ErrorRealizes
  <2>5. QED BY <2>4 DEF done, mean, d
<1>11. CASE ~Stops(m)
  <2>1. /\ Ready(g) /\ Becomes(h, g, Temps(h), m.env, a.replaced)
        /\ Contents(g) = m.env /\ Simplifies(l.t, one)
    BY <1>7, <1>9, <1>11, OperandDropped
  <2>2. Realizes(g, r, n, b, two)
    <3>1. n = Meaning[two][Contents(g)]
      BY <2>1
    <3> HIDE DEF g
    <3>2. QED BY <1>3, <1>4, <2>1, <3>1, RightOperand DEF b
  <2>3. mean = n
    BY <1>6, <1>11 DEF BinaryMeaning
  <2>4. ~l.h.error
    BY <1>7, <1>9, <1>11, Pointer
  <2>5. done = Done(r.h, r.v, t)
    BY <1>5, <2>4
  <2>6. ASSUME Simplifies(r.t, two) PROVE Simplifies(t, e)
    <3> HIDE DEF r
    <3>1. Simplifies(l.t, e.kids[1]) /\ Simplifies(r.t, e.kids[2])
      BY <1>8, <2>1, <2>6
    <3>2. QED BY <1>3, <3>1, PairSimplifies
  <2> HIDE DEF r, t, n, mean, done, g
  <2>7. Realizes(h, Done(r.h, r.v, t), n, d, e)
    BY <1>4, <2>1, <2>2, <2>6, GoesOn
  <2>8. QED BY <2>3, <2>5, <2>7 DEF done, mean, d
<1>12. QED BY <1>10, <1>11

LEMMA KidsAreAFunction ==
  ASSUME NEW e \in Expressions, e.op \notin Leaf
  PROVE  e.kids = [i \in DOMAIN e.kids |-> e.kids[i]]
<1>1. MaxHeight \in Nat
  BY ExpressionsAssumption
<1>2. e \notin Leaves
  BY LeafIs
<1>3. MaxHeight # 0
  BY <1>2, NestedIs DEF Expressions
<1>4. MaxHeight \in 1..MaxHeight
  BY <1>1, <1>3
<1>5. e \in Layer(Nested[MaxHeight - 1])
  BY <1>2, <1>4, NestedIs DEF Expressions
<1> DEFINE S == Nested[MaxHeight - 1]
<1> HIDE DEF S
<1>6. e \in Nodes(Unary, 1, S) \/ e \in Nodes(Binary, 2, S) \/ e \in Nodes({"?"}, 3, S)
  BY <1>5 DEF Layer, S
<1>7. e.kids \in [1..1 -> S] \/ e.kids \in [1..2 -> S] \/ e.kids \in [1..3 -> S]
  BY <1>6 DEF Nodes
<1>8. QED BY <1>7

LEMMA RightTernary ==
  ASSUME NEW e \in Expressions, e.op = "?", Right(e.kids[1]), Right(e.kids[2]), Right(e.kids[3])
  PROVE  Right(e)
<1> SUFFICES ASSUME Told[e].habits = {}, NEW h, Ready(h)
             PROVE  Realizes(h, Evaluate[e][h], Meaning[e][Contents(h)], Told[e], e)
  BY DEF Right
<1> DEFINE at == SetExecutionPosition(h, e)
           one == e.kids[1]
           a == Told[one]
           d == Told[e]
           c == Evaluate[one][at]
           g == ReleaseTemporary(Seen(c.h, c.v), c.v)
           branch == IF c.h.slots[c.v].data # 0 THEN 2 ELSE 3
           two == e.kids[branch]
           b == Told[two]
           r == Evaluate[two][g]
           m == Meaning[one][Contents(at)]
           n == Meaning[two][m.env]
           t == [e EXCEPT !.kids[1] = c.t, !.kids[branch] = r.t]
           done == Evaluate[e][h]
           mean == Meaning[e][Contents(h)]
<1>1. /\ Ready(at) /\ Contents(at) = Contents(h) /\ Temps(at) = Temps(h)
      /\ Becomes(h, at, Temps(h), Contents(h), {})
  BY ReadyAt
<1>2. branch \in {2, 3} /\ one \in Expressions /\ Right(one) /\ DOMAIN e.kids = {1, 2, 3} /\ e.op \notin Leaf
  BY Operands
<1>3. two \in Expressions /\ Right(two)
  <2>1. e.kids[2] \in Expressions /\ e.kids[3] \in Expressions
    BY Operands
  <2>2. QED BY <2>1
<1>4. /\ a.habits = {} /\ b.habits = {} /\ ~a.throws
      /\ a.replaced \subseteq d.replaced /\ b.replaced \subseteq d.replaced /\ (b.gone => d.gone)
  <2>1. a.habits = {} /\ Told[e.kids[2]].habits = {} /\ Told[e.kids[3]].habits = {} /\ ~a.throws
    BY ToldTernary, Zenon
  <2>2. Told[e].replaced = a.replaced \cup Told[e.kids[2]].replaced \cup Told[e.kids[3]].replaced
    BY ToldTernary, Zenon
  <2>3. Told[e.kids[2]].gone \/ Told[e.kids[3]].gone => d.gone
    BY ToldTernary, Zenon
  <2>4. b = Told[e.kids[2]] \/ b = Told[e.kids[3]]
    BY <1>2
  <2> HIDE DEF a, b
  <2>5. QED BY <2>1, <2>2, <2>3, <2>4
<1>5. /\ c.h.error => done = c
      /\ ~c.h.error => done = Done(r.h, r.v, t)
  BY EvaluateAtTernary
<1>6. /\ Stops(m) => mean = m
      /\ ~Stops(m) /\ Deref(m, m.env).data # 0 => mean = Meaning[e.kids[2]][m.env]
      /\ ~Stops(m) /\ Deref(m, m.env).data = 0 => mean = Meaning[e.kids[3]][m.env]
  <2>1. Contents(h) \in Environments
    BY ContentsAre DEF Ready
  <2>2. m = Meaning[e.kids[1]][Contents(h)]
    BY <1>1
  <2> HIDE DEF m
  <2>3. QED BY <2>1, <2>2, MeaningAtTernary
<1>7. Realizes(at, c, m, a, one) /\ Fits(m, a) /\ m.env \in Environments
  BY <1>1, <1>2, <1>4, RightOperand
<1>8. e.kids[1] = one /\ e.kids[branch] = two /\ e = Node(e.op, e.arg, e.kids)
  BY Shape
<1>8a. branch = IF c.h.slots[c.v].data # 0 THEN 2 ELSE 3
  OBVIOUS
<1>8b. branch = 2 => n = Meaning[e.kids[2]][m.env]
  OBVIOUS
<1>8c. branch = 3 => n = Meaning[e.kids[3]][m.env]
  OBVIOUS
<1> HIDE DEF at, one, two, a, b, d, c, m, branch, n
<1>9. Realizes(h, c, m, a, one)
  BY <1>1, <1>7, RealizesBefore
<1>10. CASE Stops(m)
  <2>1. m.out = "error"
    BY <1>4, <1>7, <1>10, StopsIs DEF Fits
  <2>2. Sound(c.h) /\ Contents(c.h) = m.env /\ c.h.error
    BY <1>9, <2>1 DEF Realizes
  <2>3. mean = m /\ done = c
    BY <1>5, <1>6, <1>10, <2>2
  <2> HIDE DEF mean, done
  <2>4. Realizes(h, done, mean, d, e)
    BY <2>1, <2>2, <2>3, ErrorRealizes
  <2>5. QED BY <2>4 DEF done, mean, d
<1>11. CASE ~Stops(m)
  <2>0. /\ Sound(c.h) /\ ~c.h.error /\ c.v \in LiveOf(c.h) /\ Datum(c.h, c.v) = Deref(m, m.env)
    BY <1>7, <1>9, <1>11, Pointer
  <2>1. g = ReleaseTemporary(c.h, c.v)
    BY <2>0, SeenIs
  <2> HIDE DEF g
  <2>2. /\ Ready(g) /\ Becomes(h, g, Temps(h), m.env, a.replaced)
        /\ Contents(g) = m.env /\ Simplifies(c.t, one)
    BY <1>7, <1>9, <1>11, <2>1, OperandDropped
  <2>3. Realizes(g, r, n, b, two)
    <3>1. n = Meaning[two][Contents(g)]
      BY <2>2 DEF n
    <3>2. QED BY <1>3, <1>4, <2>2, <3>1, RightOperand DEF b
  <2>4. mean = n
    <3>1. Deref(m, m.env).data = c.h.slots[c.v].data
      BY <2>0 DEF Datum, Value
    <3>2. QED BY <1>6, <1>8a, <1>8b, <1>8c, <1>11, <3>1
  <2>5. done = Done(r.h, r.v, t)
    BY <1>5, <2>0
  <2>6. ASSUME Simplifies(r.t, two) PROVE Simplifies(t, e)
    <3> DEFINE kids == [e.kids EXCEPT ![1] = c.t, ![branch] = r.t]
    <3> HIDE DEF r
    <3>1. /\ kids = [i \in DOMAIN e.kids |-> kids[i]]
          /\ kids[1] = c.t /\ kids[branch] = r.t /\ \A i \in DOMAIN e.kids : i # 1 /\ i # branch => kids[i] = e.kids[i]
      <4>1. e.kids = [i \in DOMAIN e.kids |-> e.kids[i]]
        BY <1>2, KidsAreAFunction
      <4>2. QED BY <1>2, <4>1
    <3>2. t = Node(e.op, e.arg, kids)
      <4>1. e = [op |-> e.op, arg |-> e.arg, kids |-> e.kids]
        BY <1>8 DEF Node
      <4>2. t = [e EXCEPT !.kids = kids]
        BY <4>1
      <4> HIDE DEF kids, t
      <4>3. QED BY <4>1, <4>2 DEF Node
    <3> HIDE DEF kids, t
    <3>3. ASSUME NEW i \in DOMAIN e.kids PROVE Simplifies(kids[i], e.kids[i])
      <4>1. i # 1 /\ i # branch => Simplifies(e.kids[i], e.kids[i])
        BY Shape, SimplifiesItself
      <4>2. QED BY <1>8, <2>2, <2>6, <3>1, <4>1
    <3>4. Simplifies(Node(e.op, e.arg, kids), e)
      BY <1>2, <3>1, <3>3, SimplifiesNode
    <3>5. QED BY <3>2, <3>4
  <2> HIDE DEF r, t, mean, done
  <2>7. Realizes(h, Done(r.h, r.v, t), n, d, e)
    BY <1>4, <2>2, <2>3, <2>6, GoesOn
  <2>8. QED BY <2>4, <2>5, <2>7 DEF done, mean, d
<1>12. QED BY <1>10, <1>11

-----------------------------------------------------------------------------
(* Operators that have both operands.                                       *)

\* The pointer v leads to what m means.
Holds(g, v, m) ==
  /\ v \in LiveOf(g) /\ Datum(g, v) = Deref(m, Contents(g)) /\ Datum(g, v) \in Values
  /\ m.out \in {"value", "variable"}
  /\ m.out = "value" => v \in Temps(g) /\ ~HasOwner(g, v)
  /\ m.out = "variable" => m.val \in Variables /\ v = g.var[m.val] /\ HasOwner(g, v)

\* OP_ADDITION of two types: the coerced copy is gone in the end.
LEMMA CoercedIsGone ==
  ASSUME NEW g, Sound(g), NEW copy \in Values, NEW sum \in Values, NEW t
  PROVE  LET coerced == Construct(g, copy, t)
             mixed == Construct(coerced.h, sum, t)
         IN  Made(g, Done(Release(mixed.h, coerced.v), mixed.v, t), sum, t, Contents(g), {})
<1> DEFINE coerced == Construct(g, copy, t)
           mixed == Construct(coerced.h, sum, t)
           k == Release(mixed.h, coerced.v)
           d == Done(k, mixed.v, t)
<1>1. New(g, coerced, copy, t)
  BY ConstructIsNew
<1> HIDE DEF coerced
<1>2. /\ Sound(coerced.h) /\ Becomes(g, coerced.h, Temps(g) \cup {coerced.v}, Contents(g), {})
      /\ coerced.v \notin Temps(g) /\ coerced.v \in Temps(coerced.h) /\ Kept(g, coerced.h) /\ coerced.h.var = g.var
      /\ \A w \in LiveOf(g) : w \in LiveOf(coerced.h) /\ w # coerced.v /\ coerced.h.slots[w] = g.slots[w]
  BY <1>1 DEF New
<1>3. New(coerced.h, mixed, sum, t)
  BY <1>2, ConstructIsNew
<1> HIDE DEF mixed
<1>4. /\ Sound(mixed.h) /\ Becomes(coerced.h, mixed.h, Temps(coerced.h) \cup {mixed.v}, Contents(coerced.h), {})
      /\ mixed.v \notin Temps(coerced.h) /\ mixed.v \in Temps(mixed.h) /\ Datum(mixed.h, mixed.v) = sum
      /\ Kept(coerced.h, mixed.h) /\ mixed.h.var = coerced.h.var
      /\ \A w \in LiveOf(coerced.h) : w \in LiveOf(mixed.h) /\ w # mixed.v /\ mixed.h.slots[w] = coerced.h.slots[w]
  BY <1>3 DEF New
<1>5. /\ Temps(coerced.h) = Temps(g) \cup {coerced.v} /\ Contents(coerced.h) = Contents(g)
      /\ Temps(mixed.h) = Temps(coerced.h) \cup {mixed.v} /\ Contents(mixed.h) = Contents(g)
  BY <1>2, <1>4 DEF Becomes
<1>6. coerced.v \in Temps(mixed.h)
  BY <1>2, <1>5
<1>7. Taken(mixed.h, k, coerced.v)
  BY <1>4, <1>6, Released
<1> HIDE DEF k
<1>8. /\ Like(mixed.h, k, Temps(mixed.h) \ {coerced.v}) /\ Kept(mixed.h, k)
      /\ \A w \in LiveOf(mixed.h) : w # coerced.v => /\ w \in LiveOf(k) /\ k.slots[w] = mixed.h.slots[w]
                                                     /\ Datum(k, w) = Datum(mixed.h, w)
  <2>1. Sound(mixed.h)
    BY <1>4
  <2>2. QED BY <1>6, <1>7, <2>1, TakenIs, Zenon
<1>9. Temps(mixed.h) \ {coerced.v} = Temps(g) \cup {mixed.v} /\ mixed.v \notin Temps(g) /\ mixed.v # coerced.v
  BY <1>2, <1>4, <1>5
<1>10. Becomes(mixed.h, k, Temps(g) \cup {mixed.v}, Contents(g), {})
  BY <1>5, <1>8, <1>9, LikeBecomes
<1>11. Becomes(g, mixed.h, Temps(mixed.h), Contents(g), {})
  BY <1>2, <1>4, <1>5, BecomesTwice
<1>12. Becomes(g, k, Temps(g) \cup {mixed.v}, Contents(g), {})
  BY <1>5, <1>10, <1>11, BecomesTwice
<1>13. mixed.v \in LiveOf(mixed.h)
  BY <1>4 DEF Temps
<1>14. Datum(k, mixed.v) = sum /\ Temps(k) = Temps(g) \cup {mixed.v} /\ Sound(k)
  BY <1>4, <1>8, <1>9, <1>12, <1>13 DEF Becomes
<1>15. Kept(g, k) /\ k.var = g.var
  BY <1>2, <1>4, <1>8 DEF Kept, Like
<1>16. ASSUME NEW w \in LiveOf(g)
       PROVE  w \in LiveOf(k) /\ w # mixed.v /\ k.slots[w].owner = g.slots[w].owner
  <2>1. w \in LiveOf(coerced.h) /\ w # coerced.v /\ coerced.h.slots[w] = g.slots[w]
    BY <1>2
  <2>2. w \in LiveOf(mixed.h) /\ w # mixed.v /\ mixed.h.slots[w] = coerced.h.slots[w]
    BY <1>4, <2>1
  <2>3. QED BY <1>8, <2>1, <2>2
<1>17. d.h = k /\ d.v = mixed.v /\ d.t = t
  BY DEF Done
<1> HIDE DEF d
<1>18. Made(g, d, sum, t, Contents(g), {})
  BY <1>9, <1>12, <1>14, <1>15, <1>16, <1>17 DEF Made
<1>19. QED BY <1>18 DEF d, k, mixed, coerced

LEMMA AdditionIs ==
  ASSUME NEW g, Sound(g), NEW l \in LiveOf(g), NEW r \in LiveOf(g), NEW t
  PROVE  Made(g, OP_ADDITION(g, l, r, t), Sum(Datum(g, l), Datum(g, r)), t, Contents(g), {})
<1> DEFINE sum == Sum(Datum(g, l), Datum(g, r))
           weaker == IF g.slots[l].type = "bool" THEN l ELSE r
           copy == Value("int", g.slots[weaker].data)
           d == OP_ADDITION(g, l, r, t)
<1>1. Datum(g, l) \in Values /\ Datum(g, r) \in Values /\ g.slots[l] \in Slots /\ g.slots[r] \in Slots
  BY LiveIs
<1>2. sum \in Values
  BY <1>1, SumType
<1>3. copy \in Values
  <2>1. g.slots[weaker].data \in 0..3
    BY <1>1, SlotType
  <2>2. QED BY <2>1, ValueType DEF Types
<1>4. CASE g.slots[l].type = g.slots[r].type
  <2>1. d = Construct(g, sum, t)
    BY <1>4 DEF OP_ADDITION
  <2> HIDE DEF sum, d
  <2>2. New(g, d, sum, t)
    BY <1>2, <2>1, ConstructIsNew
  <2>3. Made(g, d, sum, t, Contents(g), {})
    BY <2>2, NewIsMade
  <2>4. QED BY <2>3 DEF sum, d
<1>5. CASE g.slots[l].type # g.slots[r].type
  <2> DEFINE coerced == Construct(g, copy, t)
             mixed == Construct(coerced.h, sum, t)
             k == Done(Release(mixed.h, coerced.v), mixed.v, t)
  <2>1. d = k
    BY <1>5 DEF OP_ADDITION
  <2> HIDE DEF sum, copy, d
  <2>2. Made(g, k, sum, t, Contents(g), {})
    BY <1>2, <1>3, CoercedIsGone
  <2> HIDE DEF k
  <2>3. Made(g, d, sum, t, Contents(g), {})
    BY <2>1, <2>2
  <2>4. QED BY <2>3 DEF sum, d
<1>6. QED BY <1>4, <1>5

\* The variable x has been given a value, X a new value object: the variables are env now.
Put(g, d, x, X, env, t, l, r) ==
  /\ d.t = t /\ Sound(d.h) /\ Becomes(g, d.h, Temps(g), env, X) /\ d.v = d.h.var[x] /\ Kept(g, d.h)
  /\ HasOwner(d.h, l)
  /\ r \in Temps(d.h) \/ HasOwner(d.h, r)

LEMMA SameVariable ==
  ASSUME NEW g, Sound(g), NEW x \in Variables, NEW t
  PROVE  LET l == g.var[x]
         IN  Put(g, Done(g, l, t), x, {x}, [Contents(g) EXCEPT ![x] = Datum(g, l)], t, l, l)
<1> DEFINE l == g.var[x]
           env == [Contents(g) EXCEPT ![x] = Datum(g, l)]
           d == Done(g, l, t)
<1>1. d.h = g /\ d.v = l /\ d.t = t
  BY DEF Done
<1>2. Contents(g) \in [Variables -> Values] /\ Contents(g)[x] = Datum(g, l)
  BY ContentsAre DEF Environments
<1>3. env = Contents(g)
  BY <1>2
<1> HIDE DEF env, d
<1>4. Becomes(g, g, Temps(g), env, {x})
  BY <1>3 DEF Becomes
<1>5. HasOwner(g, l)
  BY LiveIs
<1>6. Put(g, d, x, {x}, env, t, l, l)
  BY <1>1, <1>4, <1>5 DEF Put, Kept
<1>7. QED BY <1>6 DEF env, d

LEMMA CopyAssigned ==
  ASSUME NEW g, Sound(g), NEW x \in Variables, NEW l, l = g.var[x],
         NEW r \in LiveOf(g), l # r, NEW t
  PROVE  LET copy == Construct(g, Datum(g, r), t)
             set == SetValue(copy.h, x, copy.v)
         IN  Put(g, Done([set EXCEPT !.slots[l].owner = x], set.var[x], t), x, {x},
                 [Contents(g) EXCEPT ![x] = Datum(g, r)], t, l, r)
<1> DEFINE b == Datum(g, r)
           copy == Construct(g, b, t)
           set == SetValue(copy.h, x, copy.v)
           k == [set EXCEPT !.slots[l].owner = x]
           d == Done(k, set.var[x], t)
           env == [Contents(g) EXCEPT ![x] = b]
<1>1. b \in Values /\ l \in LiveOf(g)
  BY LiveIs
<1>2. New(g, copy, b, t)
  BY <1>1, ConstructIsNew
<1>3. d.h = k /\ d.v = set.var[x] /\ d.t = t
  BY DEF Done
<1>4. b = Datum(g, r)
  OBVIOUS
<1> HIDE DEF copy, b, d
<1>5. /\ Sound(copy.h) /\ Becomes(g, copy.h, Temps(g) \cup {copy.v}, Contents(g), {})
      /\ copy.v \notin Temps(g) /\ copy.v \in Temps(copy.h) /\ Datum(copy.h, copy.v) = b
      /\ Kept(g, copy.h) /\ copy.h.var = g.var
      /\ \A w \in LiveOf(g) : w \in LiveOf(copy.h) /\ w # copy.v /\ copy.h.slots[w] = g.slots[w]
  BY <1>2 DEF New
<1>6. Assigned(copy.h, set, x, copy.v)
  BY <1>5, SetValueIs
<1> HIDE DEF set
<1>7. Temps(copy.h) = Temps(g) \cup {copy.v} /\ Contents(copy.h) = Contents(g)
  BY <1>5 DEF Becomes
<1>8. env = [Contents(copy.h) EXCEPT ![x] = Datum(copy.h, copy.v)]
  BY <1>5, <1>7
<1> HIDE DEF env
<1>9. Becomes(copy.h, set, Temps(copy.h) \ {copy.v}, env, {x})
  BY <1>5, <1>6, <1>8, AssignedBecomes
<1>10. Temps(copy.h) \ {copy.v} = Temps(g)
  BY <1>5, <1>7
<1>11. Becomes(g, set, Temps(g), env, {x})
  BY <1>5, <1>9, <1>10, BecomesTwice
<1>12. /\ Sound(set) /\ Kept(copy.h, set) /\ set.var = [copy.h.var EXCEPT ![x] = copy.v]
       /\ copy.h.var[x] \notin LiveOf(set) /\ copy.v \in LiveOf(set)
       /\ \A w \in LiveOf(copy.h) : w # copy.v /\ w # copy.h.var[x] => w \in LiveOf(set) /\ set.slots[w] = copy.h.slots[w]
  BY <1>6 DEF Assigned
<1>13. l \in DOMAIN set.slots \ LiveOf(set)
  <2>1. l \notin LiveOf(set)
    BY <1>5, <1>12
  <2>2. l \in DOMAIN copy.h.slots /\ copy.h \in Heaps
    BY <1>1, <1>5, LiveIs
  <2>3. DOMAIN set.slots = DOMAIN copy.h.slots
    BY <1>5, <1>6, SetValueDomain DEF set
  <2>4. QED BY <2>1, <2>2, <2>3
<1>14. Unnoticed(set, k) /\ Kept(set, k) /\ HasOwner(k, l)
  BY <1>12, <1>13, OwnerBack
<1> HIDE DEF k
<1>15. /\ Sound(k) /\ k.var = set.var /\ Temps(k) = Temps(set) /\ LiveOf(k) = LiveOf(set)
       /\ \A w \in LiveOf(set) : k.slots[w] = set.slots[w]
  BY <1>14 DEF Unnoticed
<1>16. Becomes(set, k, Temps(set), Contents(set), {})
  BY <1>14, UnnoticedBecomes
<1>17. Temps(set) = Temps(g) /\ Contents(set) = env
  BY <1>11 DEF Becomes
<1>18. Becomes(g, k, Temps(g), env, {x})
  BY <1>11, <1>16, <1>17, BecomesTwice
<1>19. r \in Temps(k) \/ HasOwner(k, r)
  <2>1. CASE r \in Temps(g)
    BY <1>15, <1>17, <2>1
  <2>2. CASE r \notin Temps(g)
    <3>1. g.slots[r].owner # ""
      BY <2>2 DEF Temps
    <3>2. r \in LiveOf(copy.h) /\ r # copy.v /\ copy.h.slots[r] = g.slots[r] /\ r # copy.h.var[x]
      BY <1>5
    <3>3. r \in LiveOf(set) /\ set.slots[r] = copy.h.slots[r]
      BY <1>12, <3>2
    <3>4. k.slots[r] = g.slots[r]
      BY <1>15, <3>2, <3>3
    <3>5. QED BY <3>1, <3>4 DEF HasOwner
  <2>3. QED BY <2>1, <2>2
<1>20. Kept(g, k)
  BY <1>5, <1>12, <1>14 DEF Kept
<1>21. Put(g, d, x, {x}, env, t, l, r)
  BY <1>3, <1>14, <1>15, <1>18, <1>19, <1>20 DEF Put
<1>22. QED BY <1>21 DEF d, env, k, set, copy, b

LEMMA AddedInPlace ==
  ASSUME NEW g, Sound(g), NEW x \in Variables, NEW l, l = g.var[x], NEW r \in LiveOf(g), NEW t,
         g.slots[l].type = "int", g.slots[r].type = "int"
  PROVE  Put(g, Done([g EXCEPT !.slots[l].data = (@ + g.slots[r].data) % 4], l, t), x, {},
             [Contents(g) EXCEPT ![x] = Sum(Datum(g, l), Datum(g, r))], t, l, r)
<1> DEFINE data == (g.slots[l].data + g.slots[r].data) % 4
           k == [g EXCEPT !.slots[l].data = data]
           d == Done([g EXCEPT !.slots[l].data = (@ + g.slots[r].data) % 4], l, t)
           sum == Sum(Datum(g, l), Datum(g, r))
           env == [Contents(g) EXCEPT ![x] = sum]
<1>1. l \in LiveOf(g) /\ g.slots[l] \in Slots /\ g.slots[r] \in Slots
  BY LiveIs
<1>2. d.h = k /\ d.v = l /\ d.t = t
  BY DEF Done
<1>3. data \in 0..3
  <2>1. g.slots[l].data \in 0..3 /\ g.slots[r].data \in 0..3
    BY <1>1, SlotType
  <2>2. QED BY <2>1, Modulo
<1>4. sum = Value(g.slots[l].type, data)
  BY DEF Sum, Datum, Value
<1> HIDE DEF data, sum
<1>5. /\ Sound(k) /\ Kept(g, k) /\ k.var = g.var /\ Temps(k) = Temps(g) /\ LiveOf(k) = LiveOf(g)
      /\ Contents(k) = [Contents(g) EXCEPT ![x] = Value(g.slots[l].type, data)]
      /\ \A w \in LiveOf(g) : w # l => k.slots[w] = g.slots[w]
  <2>1. Overwrites(g, k, l, x, data)
    BY <1>3, Overwrite
  <2> HIDE DEF k
  <2>2. QED BY <2>1 DEF Overwrites
<1>6. Contents(k) = env
  BY <1>4, <1>5
<1> HIDE DEF d, k, env
<1>7. \A w \in Temps(g) : w # l /\ w \in LiveOf(g)
  BY LiveIs
<1>8. Becomes(g, k, Temps(g), env, {})
  BY <1>5, <1>6, <1>7 DEF Becomes
<1>9. \A y \in Variables : HasOwner(k, g.var[y])
  BY <1>5, LiveIs
<1>10. r \in Temps(k) \/ HasOwner(k, r)
  <2>1. r \in Temps(g) \/ \E y \in Variables : r = g.var[y]
    BY LiveIs
  <2>2. QED BY <1>5, <1>9, <2>1
<1>11. Put(g, d, x, {}, env, t, l, r)
  BY <1>2, <1>5, <1>8, <1>9, <1>10 DEF Put
<1>12. QED BY <1>11 DEF d, env, sum

\* The operators, once both operands are there.
OperatesRight(g, done, mean, t, l, r, m, X) ==
  /\ mean.out = "error" /\ g.placed => Sound(done.h) /\ Contents(done.h) = mean.env /\ done.h.error
  /\ mean.out = "value" =>
       mean = Means("value", mean.val, Contents(g)) /\ Made(g, done, mean.val, t, Contents(g), {})
  /\ mean.out = "variable" =>
       mean = Means("variable", m.val, mean.env) /\ Put(g, done, m.val, X, mean.env, t, l, r)
  /\ mean.out \in {"error", "value", "variable"}

LEMMA OperatesValue ==
  ASSUME NEW g, NEW done, NEW mean, NEW t, NEW l, NEW r, NEW m, NEW X, NEW value,
         mean = Means("value", value, Contents(g)), Made(g, done, value, t, Contents(g), {})
  PROVE  OperatesRight(g, done, mean, t, l, r, m, X)
BY MeansIs DEF OperatesRight

LEMMA OperatesVariable ==
  ASSUME NEW g, NEW done, NEW mean, NEW t, NEW l, NEW r, NEW m, NEW X, NEW env,
         mean = Means("variable", m.val, env), Put(g, done, m.val, X, env, t, l, r)
  PROVE  OperatesRight(g, done, mean, t, l, r, m, X)
BY MeansIs DEF OperatesRight

LEMMA OperatesError ==
  ASSUME NEW g, Sound(g), NEW done, NEW mean, NEW t, NEW l, NEW r, NEW m, NEW X,
         mean = Means("error", None, Contents(g)), done = RuntimeError(g, t)
  PROVE  OperatesRight(g, done, mean, t, l, r, m, X)
<1>1. mean.out = "error" /\ mean.env = Contents(g)
  BY MeansIs
<1>2. g.placed => Sound(done.h) /\ Contents(done.h) = mean.env /\ done.h.error
  BY <1>1, ErrorIs
<1>3. QED BY <1>1, <1>2 DEF OperatesRight

LEMMA OperateIs ==
  ASSUME NEW g, Ready(g), NEW op \in Binary, op # ",", NEW t, NEW l, NEW r, NEW m, NEW n,
         Holds(g, l, m), Holds(g, r, n), n.env = Contents(g)
  PROVE  OperatesRight(g, Operate(op, g, l, r, t), MeaningOfTwo(op, m, n), t, l, r, m,
                       IF op = "=" THEN {m.val} ELSE {})
<1> DEFINE done == Operate(op, g, l, r, t)
           mean == MeaningOfTwo(op, m, n)
           a == Datum(g, l)
           b == Datum(g, r)
           env == Contents(g)
           X == IF op = "=" THEN {m.val} ELSE {}
<1>1. /\ Sound(g) /\ l \in LiveOf(g) /\ r \in LiveOf(g) /\ a \in Values /\ b \in Values
      /\ a = Deref(m, n.env) /\ b = Deref(n, n.env)
      /\ m.out \in {"value", "variable"}
      /\ m.out = "value" => ~HasOwner(g, l)
      /\ m.out = "variable" => m.val \in Variables /\ l = g.var[m.val] /\ HasOwner(g, l) /\ g.slots[l].owner = m.val
  <2>1. Sound(g)
    BY DEF Ready
  <2>2. /\ l \in LiveOf(g) /\ r \in LiveOf(g) /\ a \in Values /\ b \in Values
        /\ a = Deref(m, n.env) /\ b = Deref(n, n.env)
    BY DEF Holds
  <2>3. /\ m.out \in {"value", "variable"}
        /\ m.out = "value" => ~HasOwner(g, l)
        /\ m.out = "variable" => m.val \in Variables /\ l = g.var[m.val] /\ HasOwner(g, l)
    BY DEF Holds
  <2>4. m.out = "variable" => g.slots[l].owner = m.val
    <3>1. \A x \in Variables : g.slots[g.var[x]].owner = x
      BY <2>1, LiveIs
    <3>2. QED BY <2>3, <3>1
  <2>5. QED BY <2>1, <2>2, <2>3, <2>4
<1>2. Seen(Seen(g, l), r) = g
  BY <1>1, SeenIs
<1>3. TwoMean(m, n, a, b)
  BY <1>1, MeaningOfTwoIs
<1>4. a.type = g.slots[l].type /\ b.type = g.slots[r].type
  BY DEF Datum, Value
<1>5. op \in {"+", "||", "&&", "=", "+="}
  BY DEF Binary, Foldable
<1>6. DOMAIN Shortcut = {"||", "&&"}
  BY ShortcutIs
<1>7. n.env = env
  OBVIOUS
<1>8. a = Datum(g, l) /\ b = Datum(g, r)
  OBVIOUS
<1>0. (op = "=" => X = {m.val}) /\ (op # "=" => X = {})
  OBVIOUS
<1> HIDE DEF a, b, env, X
<1>9. CASE op = "+"
  <2>1. done = OP_ADDITION(g, l, r, t)
    BY <1>2, <1>6, <1>9 DEF Operate
  <2>2. mean = Means("value", Sum(a, b), env)
    BY <1>3, <1>7, <1>9 DEF TwoMean
  <2> HIDE DEF done, mean
  <2>3. Made(g, done, Sum(a, b), t, env, {})
    BY <1>1, <1>8, <2>1, AdditionIs DEF env
  <2>4. OperatesRight(g, done, mean, t, l, r, m, X)
    BY <2>2, <2>3, OperatesValue DEF env
  <2>5. QED BY <2>4 DEF done, mean, X
<1>10. CASE op \in {"||", "&&"}
  <2>1. done = Construct(g, Connected(op, a, b), t)
    BY <1>2, <1>6, <1>8, <1>10 DEF Operate
  <2>2. mean = Means("value", Connected(op, a, b), env)
    BY <1>3, <1>7, <1>10 DEF TwoMean
  <2> HIDE DEF done, mean
  <2>3. New(g, done, Connected(op, a, b), t)
    BY <1>1, <2>1, ConnectedType, ConstructIsNew
  <2>4. Made(g, done, Connected(op, a, b), t, env, {})
    BY <2>3, NewIsMade DEF env
  <2>5. OperatesRight(g, done, mean, t, l, r, m, X)
    BY <2>2, <2>4, OperatesValue DEF env
  <2>6. QED BY <2>5 DEF done, mean, X
<1>11. CASE op = "="
  <2>1. done = OP_ASSIGNMENT(g, l, r, t)
    BY <1>2, <1>6, <1>11 DEF Operate
  <2>2. CASE m.out = "value"
    <3>1. done = RuntimeError(g, t)
      BY <1>1, <2>1, <2>2 DEF OP_ASSIGNMENT, HasOwner
    <3>2. mean = Means("error", None, env)
      BY <1>3, <1>7, <1>11, <2>2 DEF TwoMean
    <3> HIDE DEF done, mean
    <3>3. OperatesRight(g, done, mean, t, l, r, m, X)
      BY <1>1, <3>1, <3>2, OperatesError DEF env
    <3>4. QED BY <3>3 DEF done, mean, X
  <2>3. CASE m.out = "variable"
    <3> DEFINE x == m.val
    <3>1. x \in Variables /\ l = g.var[x] /\ g.slots[l].owner = x /\ x # ""
      BY <1>1, <2>3, SlotType
    <3>2. mean = Means("variable", x, [env EXCEPT ![x] = b])
      BY <1>3, <1>7, <1>11, <2>3 DEF TwoMean
    <3>3. Put(g, done, x, {x}, [env EXCEPT ![x] = b], t, l, r)
      <4>1. CASE l = r
        <5>1. done = Done(g, l, t)
          BY <2>1, <3>1, <4>1 DEF OP_ASSIGNMENT
        <5>2. Put(g, Done(g, l, t), x, {x}, [Contents(g) EXCEPT ![x] = Datum(g, l)], t, l, l)
          BY <1>1, <3>1, SameVariable
        <5> HIDE DEF done
        <5>3. QED BY <1>8, <4>1, <5>1, <5>2 DEF env
      <4>2. CASE l # r
        <5> DEFINE copy == Construct(g, Datum(g, r), t)
                   set == SetValue(copy.h, x, copy.v)
                   k == Done([set EXCEPT !.slots[l].owner = x], set.var[x], t)
        <5>1. done = k
          BY <2>1, <3>1, <4>2 DEF OP_ASSIGNMENT
        <5>2. Put(g, k, x, {x}, [Contents(g) EXCEPT ![x] = Datum(g, r)], t, l, r)
          BY <1>1, <3>1, <4>2, CopyAssigned
        <5> HIDE DEF done, k
        <5>3. QED BY <1>8, <5>1, <5>2 DEF env
      <4>3. QED BY <4>1, <4>2
    <3> HIDE DEF done, mean
    <3>4. OperatesRight(g, done, mean, t, l, r, m, X)
      BY <1>0, <1>11, <3>2, <3>3, OperatesVariable
    <3>5. QED BY <3>4 DEF done, mean, X
  <2>4. QED BY <1>1, <2>2, <2>3
<1>12. CASE op = "+="
  <2>1. done = OP_ASSIGNMENT_ADDITION(g, l, r, t)
    BY <1>2, <1>6, <1>12 DEF Operate
  <2>2. CASE m.out = "variable" /\ a.type = "int" /\ b.type = "int"
    <3> DEFINE x == m.val
               k == Done([g EXCEPT !.slots[l].data = (@ + g.slots[r].data) % 4], l, t)
    <3>1. x \in Variables /\ l = g.var[x] /\ HasOwner(g, l)
      BY <1>1, <2>2
    <3>2. mean = Means("variable", x, [env EXCEPT ![x] = Sum(a, b)])
      BY <1>3, <1>7, <1>12, <2>2 DEF TwoMean
    <3>3. done = k
      BY <1>4, <2>1, <2>2, <3>1 DEF OP_ASSIGNMENT_ADDITION
    <3>4. Put(g, k, x, {}, [Contents(g) EXCEPT ![x] = Sum(Datum(g, l), Datum(g, r))], t, l, r)
      BY <1>1, <1>4, <2>2, <3>1, AddedInPlace
    <3> HIDE DEF done, mean, k
    <3>5. OperatesRight(g, done, mean, t, l, r, m, X)
      BY <1>0, <1>8, <1>12, <3>2, <3>3, <3>4, OperatesVariable DEF env
    <3>6. QED BY <3>5 DEF done, mean, X
  <2>3. CASE ~(m.out = "variable" /\ a.type = "int" /\ b.type = "int")
    <3>1. done = RuntimeError(g, t)
      BY <1>1, <1>4, <2>1, <2>3 DEF OP_ASSIGNMENT_ADDITION
    <3>2. mean = Means("error", None, env)
      BY <1>3, <1>7, <1>12, <2>3 DEF TwoMean
    <3> HIDE DEF done, mean
    <3>3. OperatesRight(g, done, mean, t, l, r, m, X)
      BY <1>1, <3>1, <3>2, OperatesError DEF env
    <3>4. QED BY <3>3 DEF done, mean, X
  <2>4. QED BY <2>2, <2>3
<1>13. QED BY <1>5, <1>9, <1>10, <1>11, <1>12

-----------------------------------------------------------------------------
(* Operators with two operands.                                             *)

\* Constant operands are replaced together with their operator.
LEMMA FoldedRealizes ==
  ASSUME NEW e \in Expressions, e.op \in Binary, NEW h, Ready(h), NEW c, NEW x, NEW y,
         c.t = Node(e.op, e.arg, <<x, y>>), Simplifies(x, e.kids[1]), Simplifies(y, e.kids[2]),
         Realizes(h, c, Meaning[e][Contents(h)], Told[e], e),
         e.op \in Foldable => Meaning[e][Contents(h)].out = "value"
  PROVE  Realizes(h, Folded(c), Meaning[e][Contents(h)], Told[e], e)
<1> DEFINE t == c.t
           m == Meaning[e][Contents(h)]
           d == Told[e]
           value == Datum(c.h, c.v)
           g == [c.h EXCEPT !.placed = FALSE]
           f == Node("const", value, <<>>)
           folded == Done(g, c.v, f)
<1>1. /\ e.op \notin Leaf /\ DOMAIN e.kids = {1, 2} /\ e.kids[1] \in Expressions /\ e.kids[2] \in Expressions
      /\ Contents(h) \in Environments
  BY Operands, ContentsAre DEF Ready
<1>2. Simplifies(t, e)
  BY <1>1, PairSimplifies
<1>3. t.op = e.op /\ t.kids[1] = x /\ t.kids[2] = y
  BY DEF Node
<1>4. CASE ~(e.op \in Foldable /\ IsConstant(x) /\ IsConstant(y))
  <2>1. Folded(c) = c
    BY <1>3, <1>4 DEF Folded
  <2>2. QED BY <2>1
<1>5. CASE e.op \in Foldable /\ IsConstant(x) /\ IsConstant(y)
  <2>1. Folded(c) = folded
    BY <1>3, <1>5 DEF Folded
  <2>2. /\ IsConstant(e.kids[1]) \/ Told[e.kids[1]].folds
        /\ IsConstant(e.kids[2]) \/ Told[e.kids[2]].folds
    BY <1>5 DEF Simplifies
  <2>3. d.gone
    BY <1>5, <2>2, ToldBinary
  <2>4. m.out = "value"
    BY <1>5
  <2> HIDE DEF m, d
  <2>5. Realizes(h, c, m, d, e)
    BY DEF m, d
  <2>6. /\ Sound(c.h) /\ Contents(c.h) = m.env /\ c.h.error = FALSE
        /\ Becomes(h, c.h, Temps(h) \cup {c.v}, m.env, d.replaced)
        /\ c.v \notin Temps(h) /\ c.h.exception = None /\ value = m.val
    BY <2>4, <2>5 DEF Realizes
  <2>7. Unnoticed(c.h, g) /\ g.exception = c.h.exception /\ g.error = c.h.error
    BY <2>6, PlacedIs
  <2>8. Simplifies(f, e)
    <3>1. t \in Expressions /\ Meaning[t] = Meaning[e]
      BY <1>2 DEF Simplifies
    <3>2. Meaning[t][Contents(h)].val = value
      BY <2>6, <3>1 DEF m
    <3> HIDE DEF t, value
    <3>3. IsConstant(t.kids[1]) /\ IsConstant(t.kids[2]) /\ t.op \in Foldable
      BY <1>3, <1>5
    <3>4. Simplifies(Node("const", value, <<>>), t)
      BY <1>1, <3>1, <3>2, <3>3, FoldedSimplifies
    <3>5. QED BY <1>2, <3>4, SimplifiesTwice
  <2>9. folded.h = g /\ folded.v = c.v /\ folded.t = f
    BY DEF Done
  <2> HIDE DEF g, f, folded
  <2>10. Becomes(c.h, g, Temps(c.h), Contents(c.h), {})
    BY <2>7, UnnoticedBecomes
  <2>11. Temps(c.h) = Temps(h) \cup {c.v} /\ Contents(g) = m.env /\ Sound(g)
    BY <2>6, <2>10 DEF Becomes
  <2>12. Becomes(h, g, Temps(h) \cup {c.v}, m.env, d.replaced)
    BY <2>6, <2>10, <2>11, BecomesTwice
  <2>13. Datum(g, c.v) = value
    <3>1. c.v \in LiveOf(c.h)
      BY <2>11 DEF Temps
    <3>2. g.slots[c.v] = c.h.slots[c.v]
      BY <2>7, <3>1 DEF Unnoticed
    <3>3. QED BY <3>2 DEF Datum
  <2> HIDE DEF value
  <2>14. Realizes(h, folded, m, d, e)
    BY <2>3, <2>4, <2>6, <2>7, <2>8, <2>9, <2>11, <2>12, <2>13 DEF Realizes
  <2>15. QED BY <2>1, <2>14 DEF m, d
<1>6. QED BY <1>4, <1>5

\* The first operand has been evaluated, and the second after it.
BothEvaluated(e, h, l, r, m, n) ==
  /\ e \in Expressions /\ e.op \in Binary /\ e.op # "," /\ Told[e].habits = {} /\ Ready(h)
  /\ Meaning[e][Contents(h)] = BinaryMeaning(e.op, m, n)
  /\ Realizes(h, l, m, Told[e.kids[1]], e.kids[1]) /\ Fits(m, Told[e.kids[1]]) /\ m.env \in Environments
  /\ r = Evaluate[e.kids[2]][l.h]
  /\ ~Stops(m) => Realizes(l.h, r, n, Told[e.kids[2]], e.kids[2]) /\ Fits(n, Told[e.kids[2]])

\* What is told of the operands when there are no habits.
Safe(e, a, b, d) ==
  /\ a.targets \cap b.replaced = {} /\ a.replaced \subseteq d.replaced /\ b.replaced \subseteq d.replaced
  /\ b.gone => d.gone
  /\ e.op \in DOMAIN Shortcut => ~a.throws /\ (a.gone => d.gone)
  /\ e.op = "=" => a.targets \subseteq d.replaced /\ ~(b.gone /\ a.temporary)
  /\ e.op = "+=" => ~b.gone

LEMMA SafeBinary ==
  ASSUME NEW e \in Expressions, e.op \in Binary, e.op # ",", Told[e].habits = {}
  PROVE  Safe(e, Told[e.kids[1]], Told[e.kids[2]], Told[e])
<1> DEFINE a == Told[e.kids[1]]
           b == Told[e.kids[2]]
<1>1. Told[e].replaced = a.replaced \cup b.replaced \cup IF e.op = "=" THEN a.targets ELSE {}
  BY ToldBinary, Zenon
<1>2. /\ e.op # "," => a.targets \cap b.replaced = {}
      /\ e.op \in DOMAIN Shortcut \cup {","} => ~a.throws
      /\ e.op = "=" => ~(b.gone /\ a.temporary)
      /\ e.op = "+=" => ~b.gone
  BY ToldBinary, Zenon
<1>3. (b.gone => Told[e].gone) /\ (e.op \in DOMAIN Shortcut => (a.gone => Told[e].gone))
  BY ToldBinary, Zenon
<1> HIDE DEF a, b
<1>4. Safe(e, a, b, Told[e])
  BY <1>1, <1>2, <1>3 DEF Safe
<1>5. QED BY <1>4 DEF a, b

\* What EvaluateBinary does once it has evaluated its operands.
BinaryDone(e, l, r) ==
  LET short == Node(e.op, e.arg, <<l.t, e.kids[2]>>)
      t == Node(e.op, e.arg, <<l.t, r.t>>)
      done == Operate(e.op, r.h, l.v, r.v, t)
  IN IF l.h.error THEN l
     ELSE IF ConditionalShortcut(e.op, l.h, l.v) THEN
       Folded(Construct(ReleaseTemporary(Seen(l.h, l.v), l.v), Value("bool", Shortcut[e.op]), short))
     ELSE IF r.h.error THEN r
     ELSE IF r.h.exception # None THEN Done(ReleaseAfterThrow(r.h, l.v), r.h.exception, t)
     ELSE IF done.h.error THEN done
     ELSE Folded(Done(ReleaseTemporary(ReleaseTemporary(done.h, l.v), r.v), done.v, t))

\* The node realizes what it means.
NodeRealizes(e, h, l, r) == Realizes(h, BinaryDone(e, l, r), Meaning[e][Contents(h)], Told[e], e)

LEMMA LeftStops ==
  ASSUME NEW e, NEW h, NEW l, NEW r, NEW m, NEW n, BothEvaluated(e, h, l, r, m, n), Stops(m)
  PROVE  NodeRealizes(e, h, l, r)
<1> DEFINE a == Told[e.kids[1]]
           b == Told[e.kids[2]]
           d == Told[e]
           mean == Meaning[e][Contents(h)]
           done == BinaryDone(e, l, r)
           two == e.kids[2]
<1>1. /\ e \in Expressions /\ e.op \in Binary /\ e.op # "," /\ d.habits = {} /\ Ready(h)
      /\ mean = BinaryMeaning(e.op, m, n) /\ Realizes(h, l, m, a, e.kids[1]) /\ Fits(m, a)
      /\ r = Evaluate[two][l.h]
  BY DEF BothEvaluated
<1>2. /\ two \in Expressions /\ e.op \notin Leaf /\ DOMAIN e.kids = {1, 2}
  BY <1>1, Operands
<1>3. Safe(e, a, b, d)
  BY <1>1, SafeBinary
<1>4. two = e.kids[2]
  OBVIOUS
<1> HIDE DEF a, b, d, mean, two
<1>5. mean = m
  BY <1>1 DEF BinaryMeaning
<1>6. CASE m.out = "error"
  <2>1. Sound(l.h) /\ Contents(l.h) = m.env /\ l.h.error
    BY <1>1, <1>6 DEF Realizes
  <2>2. done = l
    BY <2>1 DEF BinaryDone
  <2> HIDE DEF done
  <2>3. Realizes(h, done, mean, d, e)
    BY <1>5, <1>6, <2>1, <2>2, ErrorRealizes
  <2>4. QED BY <2>3 DEF done, mean, d, NodeRealizes
<1>7. CASE m.out = "thrown"
  <2>1. e.op \notin DOMAIN Shortcut
    BY <1>1, <1>3, <1>7 DEF Fits, Safe
  <2>2. /\ Sound(l.h) /\ l.h.error = FALSE /\ l.h.exception = l.v /\ Simplifies(l.t, e.kids[1])
        /\ Temps(l.h) = Temps(h) \cup {l.v}
    BY <1>1, <1>7 DEF Realizes, Becomes
  <2>3. l.v # None /\ l.h \in Heaps
    BY <2>2, LiveIs
  <2>4. r.h = l.h /\ r.v = l.v /\ r.t = two
    <3> DEFINE g == l.h
               k == Evaluate[two][g]
    <3>1. g \in Heaps /\ g.exception # None /\ g.exception = l.v
      BY <2>2, <2>3
    <3>2. r = k
      BY <1>1
    <3> HIDE DEF g
    <3>3. k.h = g /\ k.v = g.exception /\ k.t = two
      BY <1>2, <3>1, EvaluatePending
    <3>4. QED BY <3>1, <3>2, <3>3 DEF g
  <2> DEFINE t == Node(e.op, e.arg, <<l.t, two>>)
  <2>5. done = Done(l.h, l.v, t)
    BY <2>1, <2>2, <2>3, <2>4 DEF BinaryDone, ConditionalShortcut, ReleaseAfterThrow
  <2>6. Simplifies(l.t, e.kids[1]) => Simplifies(t, e)
    BY <1>1, <1>2, <1>4, PairSimplifies, SimplifiesItself
  <2>7. Becomes(h, h, Temps(h), Contents(h), {})
    BY <1>1 DEF Becomes, Ready
  <2>8. a.replaced \subseteq d.replaced
    BY <1>3 DEF Safe
  <2> HIDE DEF t, done
  <2>9. Realizes(h, Done(l.h, l.v, t), m, d, e)
    BY <1>1, <1>7, <2>6, <2>7, <2>8, GoesOn
  <2>10. QED BY <1>5, <2>5, <2>9 DEF done, mean, d, NodeRealizes
<1>8. QED BY <1>1, <1>6, <1>7, StopsIs DEF Fits

\* The first operand of || and && may be enough.
LEMMA LeftDecides ==
  ASSUME NEW e, NEW h, NEW l, NEW r, NEW m, NEW n, BothEvaluated(e, h, l, r, m, n), ~Stops(m),
         ConditionalShortcut(e.op, l.h, l.v)
  PROVE  NodeRealizes(e, h, l, r)
<1> DEFINE a == Told[e.kids[1]]
           b == Told[e.kids[2]]
           d == Told[e]
           mean == Meaning[e][Contents(h)]
           done == BinaryDone(e, l, r)
           value == Value("bool", Shortcut[e.op])
           t == Node(e.op, e.arg, <<l.t, e.kids[2]>>)
           g == ReleaseTemporary(l.h, l.v)
           c == Construct(g, value, t)
<1>1. /\ e \in Expressions /\ e.op \in Binary /\ e.op # "," /\ d.habits = {} /\ Ready(h)
      /\ mean = BinaryMeaning(e.op, m, n) /\ Realizes(h, l, m, a, e.kids[1]) /\ Fits(m, a)
  BY DEF BothEvaluated
<1>2. e.kids[2] \in Expressions /\ e.op \notin Leaf /\ DOMAIN e.kids = {1, 2}
  BY <1>1, Operands
<1>3. Safe(e, a, b, d)
  BY <1>1, SafeBinary
<1>4. e.op \in DOMAIN Shortcut /\ (l.h.slots[l.v].data # 0) = (e.op = "||")
  BY DEF ConditionalShortcut
<1>5. value \in Values
  BY <1>4, ShortcutIs, Digits, ValueType DEF Types
<1> HIDE DEF a, b, d, mean, done, value
<1>6. /\ Sound(l.h) /\ ~l.h.error /\ l.v \in LiveOf(l.h) /\ Datum(l.h, l.v) = Deref(m, m.env)
  BY <1>1, Pointer
<1>7. Deref(m, m.env).data = l.h.slots[l.v].data
  BY <1>6 DEF Datum, Value
<1>8. mean = Means("value", value, m.env)
  BY <1>1, <1>4, <1>7 DEF BinaryMeaning, value
<1>9. done = Folded(c)
  <2>1. Seen(l.h, l.v) = l.h
    BY <1>6, SeenIs
  <2>2. QED BY <1>6, <2>1 DEF done, BinaryDone, value
<1>10. /\ Ready(g) /\ Becomes(h, g, Temps(h), m.env, a.replaced) /\ (~g.placed => a.gone)
       /\ Contents(g) = m.env /\ Simplifies(l.t, e.kids[1])
  BY <1>1, OperandDropped
<1>11. Simplifies(t, e)
  BY <1>1, <1>2, <1>10, PairSimplifies, SimplifiesItself
<1>12. New(g, c, value, t)
  BY <1>5, <1>10, ConstructIsNew DEF Ready
<1>13. t = Node(e.op, e.arg, <<l.t, e.kids[2]>>) /\ c.t = t
  BY <1>12 DEF New
<1>14. a.replaced \subseteq d.replaced /\ (~g.placed => d.gone) /\ ~g.error /\ g.exception = None
  BY <1>3, <1>4, <1>10 DEF Safe, Ready
<1> HIDE DEF g, c, t
<1>15. Realizes(h, c, mean, d, e)
  BY <1>8, <1>10, <1>11, <1>12, <1>14, NewRealizes
<1>16. mean.out = "value"
  BY <1>8, MeansIs
<1>17. Simplifies(e.kids[2], e.kids[2])
  BY <1>2, SimplifiesItself
<1>18. Realizes(h, Folded(c), mean, d, e)
  BY <1>1, <1>10, <1>13, <1>15, <1>16, <1>17, FoldedRealizes DEF mean, d
<1>19. QED BY <1>9, <1>18 DEF done, mean, d, NodeRealizes

\* The pointer of the first operand is still good when the second has been evaluated.
Held(e, h, l, r, m, n, d) ==
  /\ Sound(r.h) /\ ~r.h.error /\ Contents(r.h) = n.env /\ Becomes(h, r.h, Temps(r.h), n.env, d.replaced)
  /\ m.out \in {"value", "variable"} /\ l.v \notin Temps(h)
  /\ m.out = "value" => l.v \in Temps(r.h) /\ Datum(r.h, l.v) = m.val
  /\ m.out = "variable" => /\ m.val \in Variables /\ m.val \in Told[e.kids[1]].targets
                           /\ l.v = r.h.var[m.val] /\ HasOwner(r.h, l.v)
  /\ n.out # "variable" => r.v \in Temps(r.h) /\ r.v # l.v /\ r.v \notin Temps(h)
  /\ Temps(r.h) \ {l.v} = IF n.out = "variable" THEN Temps(h) ELSE Temps(h) \cup {r.v}
  /\ Simplifies(l.t, e.kids[1]) /\ Simplifies(r.t, e.kids[2])
  /\ ~r.h.placed => Told[e.kids[2]].gone /\ n.out # "thrown"

LEMMA LeftIsHeld ==
  ASSUME NEW e, NEW h, NEW l, NEW r, NEW m, NEW n, BothEvaluated(e, h, l, r, m, n), ~Stops(m),
         n.out # "error"
  PROVE  Held(e, h, l, r, m, n, Told[e])
<1> DEFINE a == Told[e.kids[1]]
           b == Told[e.kids[2]]
           d == Told[e]
           T == IF n.out = "variable" THEN Temps(l.h) ELSE Temps(l.h) \cup {r.v}
<1>1. /\ e \in Expressions /\ e.op \in Binary /\ e.op # "," /\ d.habits = {} /\ Ready(h)
      /\ Realizes(h, l, m, a, e.kids[1]) /\ Fits(m, a)
      /\ Realizes(l.h, r, n, b, e.kids[2]) /\ Fits(n, b)
  BY DEF BothEvaluated
<1>2. Safe(e, a, b, d)
  BY <1>1, SafeBinary
<1>3. a.targets \cap b.replaced = {} /\ a.replaced \subseteq d.replaced /\ b.replaced \subseteq d.replaced
  BY <1>2 DEF Safe
<1>4. /\ Sound(l.h) /\ ~l.h.error /\ m.out \in {"value", "variable"}
      /\ l.v \in LiveOf(l.h)
      /\ m.out = "value" => l.v \in Temps(l.h) /\ l.v \notin Temps(h) /\ Temps(l.h) = Temps(h) \cup {l.v}
      /\ m.out = "variable" => m.val \in Variables /\ m.val \in a.targets /\ HasOwner(l.h, l.v)
                               /\ Temps(l.h) = Temps(h) /\ l.v = l.h.var[m.val]
      /\ Datum(l.h, l.v) = Deref(m, m.env)
  BY <1>1, Pointer
<1> HIDE DEF a, b, d
<1>5. /\ Simplifies(l.t, e.kids[1]) /\ Becomes(h, l.h, Temps(l.h), m.env, a.replaced)
  BY <1>1, <1>4 DEF Realizes, Becomes
<1>6. /\ Sound(r.h) /\ Contents(r.h) = n.env /\ r.h.error = FALSE
      /\ Becomes(l.h, r.h, T, n.env, b.replaced)
      /\ Simplifies(r.t, e.kids[2])
      /\ n.out # "variable" => r.v \notin Temps(l.h)
      /\ ~r.h.placed => b.gone /\ n.out # "thrown"
  BY <1>1 DEF Realizes
<1>7. /\ Temps(r.h) = T
      /\ \A v \in Temps(l.h) : v \in T => r.h.slots[v] = l.h.slots[v]
      /\ \A x \in Variables : x \notin b.replaced => r.h.var[x] = l.h.var[x]
  BY <1>6 DEF Becomes
<1>8. \A v \in Temps(h) : v \in Temps(l.h)
  BY <1>4
<1>9. Temps(l.h) \subseteq T
  OBVIOUS
<1>10. n.out # "variable" => r.v \in T
  OBVIOUS
<1>11. (n.out = "variable" => T = Temps(l.h)) /\ (n.out # "variable" => T = Temps(l.h) \cup {r.v})
  OBVIOUS
<1> HIDE DEF T
<1>12. Becomes(h, r.h, Temps(r.h), n.env, d.replaced)
  BY <1>3, <1>5, <1>6, <1>7, <1>8, BecomesTwice
<1>13. m.out = "value" => l.v \in Temps(r.h) /\ Datum(r.h, l.v) = m.val
  <2> SUFFICES ASSUME m.out = "value" PROVE l.v \in Temps(r.h) /\ Datum(r.h, l.v) = m.val
    OBVIOUS
  <2>1. l.v \in Temps(r.h) /\ r.h.slots[l.v] = l.h.slots[l.v]
    BY <1>4, <1>7, <1>9
  <2>2. Datum(l.h, l.v) = m.val
    BY <1>4 DEF Deref
  <2>3. QED BY <2>1, <2>2 DEF Datum
<1>14. m.out = "variable" => /\ m.val \in Variables /\ m.val \in a.targets
                             /\ l.v = r.h.var[m.val] /\ HasOwner(r.h, l.v)
  <2> SUFFICES ASSUME m.out = "variable"
               PROVE  m.val \in Variables /\ m.val \in a.targets /\ l.v = r.h.var[m.val] /\ HasOwner(r.h, l.v)
    OBVIOUS
  <2>1. m.val \in Variables /\ m.val \in a.targets /\ l.v = r.h.var[m.val]
    BY <1>3, <1>4, <1>7
  <2>2. HasOwner(r.h, r.h.var[m.val])
    BY <1>6, <2>1, LiveIs
  <2>3. QED BY <2>1, <2>2
<1>15. m.out = "variable" => l.v \notin Temps(r.h)
  BY <1>6, <1>14, LiveIs
<1>16. l.v \notin Temps(h)
  <2>1. CASE m.out = "value"
    BY <1>4, <2>1
  <2>2. CASE m.out = "variable"
    BY <1>4, <1>7, <1>9, <1>15, <2>2
  <2>3. QED BY <1>4, <2>1, <2>2
<1>17. n.out # "variable" => r.v \in Temps(r.h) /\ r.v # l.v /\ r.v \notin Temps(h)
  <2> SUFFICES ASSUME n.out # "variable" PROVE r.v \in Temps(r.h) /\ r.v # l.v /\ r.v \notin Temps(h)
    OBVIOUS
  <2>1. r.v \in Temps(r.h) /\ r.v \notin Temps(l.h)
    BY <1>6, <1>7, <1>10
  <2>2. QED BY <1>4, <1>8, <1>15, <2>1
<1>18. Temps(r.h) \ {l.v} = IF n.out = "variable" THEN Temps(h) ELSE Temps(h) \cup {r.v}
  <2>1. Temps(l.h) \ {l.v} = Temps(h)
    BY <1>4, <1>16
  <2>2. CASE n.out = "variable"
    BY <1>7, <1>11, <2>1, <2>2
  <2>3. CASE n.out # "variable"
    BY <1>7, <1>11, <1>17, <2>1, <2>3
  <2>4. QED BY <2>2, <2>3
<1>19. ~r.h.error
  BY <1>6
<1>20. Held(e, h, l, r, m, n, d)
  BY <1>4, <1>5, <1>6, <1>12, <1>13, <1>14, <1>16, <1>17, <1>18, <1>19 DEF Held, a, b
<1>21. QED BY <1>20 DEF d

\* The second operand is evaluated unless the first is enough.
LEMMA NoShortcutTaken ==
  ASSUME NEW e, NEW h, NEW l, NEW r, NEW m, NEW n, BothEvaluated(e, h, l, r, m, n), ~Stops(m),
         ~ConditionalShortcut(e.op, l.h, l.v)
  PROVE  /\ Meaning[e][Contents(h)] = IF Stops(n) THEN n ELSE MeaningOfTwo(e.op, m, n)
         /\ ~l.h.error
<1> DEFINE a == Told[e.kids[1]]
<1>1. /\ Meaning[e][Contents(h)] = BinaryMeaning(e.op, m, n) /\ e.op # ","
      /\ Realizes(h, l, m, a, e.kids[1]) /\ Fits(m, a)
  BY DEF BothEvaluated
<1>2. Datum(l.h, l.v) = Deref(m, m.env) /\ ~l.h.error
  BY <1>1, Pointer
<1>3. Deref(m, m.env).data = l.h.slots[l.v].data
  BY <1>2 DEF Datum, Value
<1>4. ~(e.op \in DOMAIN Shortcut /\ (Deref(m, m.env).data # 0) = (e.op = "||"))
  BY <1>3 DEF ConditionalShortcut
<1>5. QED BY <1>1, <1>2, <1>4 DEF BinaryMeaning

LEMMA RightStops ==
  ASSUME NEW e, NEW h, NEW l, NEW r, NEW m, NEW n, BothEvaluated(e, h, l, r, m, n), ~Stops(m),
         ~ConditionalShortcut(e.op, l.h, l.v), Stops(n)
  PROVE  NodeRealizes(e, h, l, r)
<1> DEFINE b == Told[e.kids[2]]
           d == Told[e]
           mean == Meaning[e][Contents(h)]
           done == BinaryDone(e, l, r)
           t == Node(e.op, e.arg, <<l.t, r.t>>)
           k == ReleaseTemporary(r.h, l.v)
<1>1. /\ e \in Expressions /\ e.op \in Binary /\ e.op # "," /\ d.habits = {} /\ Ready(h)
      /\ Realizes(l.h, r, n, b, e.kids[2]) /\ Fits(n, b)
  BY DEF BothEvaluated
<1>2. e.op \notin Leaf /\ DOMAIN e.kids = {1, 2}
  BY <1>1, Operands
<1>3. mean = n /\ ~l.h.error
  BY NoShortcutTaken
<1>4. CASE n.out = "error"
  <2> HIDE DEF b
  <2>1. Sound(r.h) /\ Contents(r.h) = n.env /\ r.h.error
    BY <1>1, <1>4 DEF Realizes
  <2>2. done = r
    BY <1>3, <2>1 DEF BinaryDone
  <2> HIDE DEF done, mean
  <2>3. Realizes(h, done, mean, d, e)
    BY <1>3, <1>4, <2>1, <2>2, ErrorRealizes
  <2>4. QED BY <2>3 DEF done, mean, d, NodeRealizes
<1>5. CASE n.out = "thrown"
  <2> HIDE DEF b, mean
  <2>1. r.h.exception = r.v
    BY <1>1, <1>5 DEF Realizes
  <2>2. Held(e, h, l, r, m, n, d)
    BY <1>5, LeftIsHeld
  <2> HIDE DEF d
  <2>3. /\ Sound(r.h) /\ ~r.h.error /\ Contents(r.h) = n.env /\ Becomes(h, r.h, Temps(r.h), n.env, d.replaced)
        /\ m.out \in {"value", "variable"} /\ l.v \notin Temps(h)
        /\ m.out = "value" => l.v \in Temps(r.h)
        /\ m.out = "variable" => HasOwner(r.h, l.v)
        /\ r.v \in Temps(r.h) /\ r.v # l.v /\ r.v \notin Temps(h)
        /\ Temps(r.h) \ {l.v} = Temps(h) \cup {r.v}
        /\ Simplifies(l.t, e.kids[1]) /\ Simplifies(r.t, e.kids[2]) /\ r.h.placed
    BY <1>5, <2>2 DEF Held
  <2>4. r.v # None
    <3>1. r.v \in LiveOf(r.h)
      BY <2>3 DEF Temps
    <3>2. QED BY <2>3, <3>1, LiveIs
  <2>5. done = Done(k, r.v, t)
    BY <1>3, <2>1, <2>3, <2>4 DEF BinaryDone, ReleaseAfterThrow
  <2>6. Simplifies(t, e)
    BY <1>1, <1>2, <2>3, PairSimplifies
  <2>7. Becomes(h, k, Temps(r.h) \ {l.v}, n.env, d.replaced) /\ Kept(r.h, k) /\ Sound(k)
    BY <2>3, Dropped
  <2> HIDE DEF done, t, k
  <2>8. done.h = k /\ done.v = r.v /\ done.t = t
    BY <2>5 DEF Done
  <2>9. /\ k.error = FALSE /\ k.exception = r.v /\ k.placed
    BY <2>1, <2>3, <2>7, HeapType DEF Kept, Sound
  <2>10. Becomes(h, k, Temps(h) \cup {r.v}, n.env, d.replaced) /\ Contents(k) = n.env
    BY <2>3, <2>7 DEF Becomes
  <2>11. Realizes(h, done, n, d, e)
    BY <1>5, <2>3, <2>6, <2>7, <2>8, <2>9, <2>10 DEF Realizes
  <2>12. QED BY <1>3, <2>11 DEF done, mean, d, NodeRealizes
<1>6. QED BY <1>1, <1>4, <1>5, StopsIs DEF Fits

\* Both operands are given back in the end.
LEMMA BothDropped ==
  ASSUME NEW h, NEW g, NEW T, NEW env, NEW X, Becomes(h, g, T, env, X), ~g.error, NEW l, NEW r,
         l \in Temps(g) \/ HasOwner(g, l), l \notin Temps(h),
         r \in Temps(g) \/ HasOwner(g, r), r \notin Temps(h),
         HasOwner(g, l) \/ (l # r /\ r \in LiveOf(g))
  PROVE  LET k == ReleaseTemporary(ReleaseTemporary(g, l), r)
         IN  /\ Becomes(h, k, T \ {l, r}, env, X) /\ Kept(g, k) /\ Sound(k) /\ k.var = g.var
             /\ \A w \in LiveOf(g) : w \notin {l, r} => Datum(k, w) = Datum(g, w)
<1> DEFINE one == ReleaseTemporary(g, l)
           k == ReleaseTemporary(one, r)
<1>1. /\ Becomes(h, one, T \ {l}, env, X) /\ Kept(g, one) /\ Sound(one)
      /\ one.var = g.var
      /\ \A w \in LiveOf(g) : w # l => w \in LiveOf(one) /\ one.slots[w] = g.slots[w] /\ Datum(one, w) = Datum(g, w)
  BY Dropped
<1>2. r \in Temps(one) \/ HasOwner(one, r)
  <2>1. CASE HasOwner(g, l)
    <3>1. one = g
      BY <2>1 DEF ReleaseTemporary
    <3>2. QED BY <3>1
  <2>2. CASE l # r /\ r \in LiveOf(g)
    <3>1. r \in LiveOf(one) /\ one.slots[r] = g.slots[r]
      BY <1>1, <2>2
    <3>2. QED BY <3>1 DEF Temps, HasOwner
  <2>3. QED BY <2>1, <2>2
<1>3. ~one.error
  BY <1>1 DEF Kept
<1> HIDE DEF one
<1>4. /\ Becomes(h, k, (T \ {l}) \ {r}, env, X) /\ Kept(one, k) /\ Sound(k)
      /\ k.var = one.var
      /\ \A w \in LiveOf(one) : w # r => Datum(k, w) = Datum(one, w)
  <2> DEFINE U == T \ {l}
  <2>1. Becomes(h, one, U, env, X)
    BY <1>1
  <2> HIDE DEF U
  <2>2. /\ Becomes(h, k, U \ {r}, env, X) /\ Kept(one, k) /\ Sound(k)
        /\ k.var = one.var
        /\ \A w \in LiveOf(one) : w # r => Datum(k, w) = Datum(one, w)
    BY <1>2, <1>3, <2>1, Dropped
  <2>3. QED BY <2>2 DEF U
<1> HIDE DEF k
<1>5. (T \ {l}) \ {r} = T \ {l, r}
  OBVIOUS
<1>6. \A w \in LiveOf(g) : w \notin {l, r} => Datum(k, w) = Datum(g, w)
  BY <1>1, <1>4
<1>7. /\ Becomes(h, k, T \ {l, r}, env, X) /\ Kept(g, k) /\ Sound(k) /\ k.var = g.var
  BY <1>1, <1>4, <1>5 DEF Kept
<1>8. QED BY <1>6, <1>7 DEF k, one

\* How operators may end.
LEMMA OperatorEnds ==
  ASSUME NEW op \in Binary, op # ",", NEW m, NEW n
  PROVE  /\ op \in Foldable => MeaningOfTwo(op, m, n).out = "value"
         /\ op \notin Foldable => op \in {"=", "+="}
         /\ op = "=" /\ m.out = "variable" => MeaningOfTwo(op, m, n).out = "variable"
<1> DEFINE a == Deref(m, n.env)
           b == Deref(n, n.env)
<1>1. TwoMean(m, n, a, b)
  BY MeaningOfTwoIs
<1> HIDE DEF a, b
<1>2. op \in Foldable => op \in {"+", "||", "&&"}
  BY DEF Foldable
<1>3. op \in Foldable => MeaningOfTwo(op, m, n).out = "value"
  <2>1. op = "+" => MeaningOfTwo(op, m, n).out = "value"
    BY <1>1, MeansIs DEF TwoMean
  <2>2. op \in {"||", "&&"} => MeaningOfTwo(op, m, n).out = "value"
    <3>1. \A o \in {"||", "&&"} : MeaningOfTwo(o, m, n) = Means("value", Connected(o, a, b), n.env)
      BY <1>1, Zenon DEF TwoMean
    <3>2. op \in {"||", "&&"} => MeaningOfTwo(op, m, n) = Means("value", Connected(op, a, b), n.env)
      BY <3>1, Zenon
    <3>3. Means("value", Connected(op, a, b), n.env).out = "value"
      <4> DEFINE v == Connected(op, a, b)
      <4> HIDE DEF v
      <4>1. Means("value", v, n.env).out = "value"
        BY DEF Means
      <4>2. QED BY <4>1 DEF v
    <3>4. QED BY <3>2, <3>3
  <2>3. QED BY <1>2, <2>1, <2>2
<1>4. op = "=" /\ m.out = "variable" => MeaningOfTwo(op, m, n).out = "variable"
  BY <1>1, MeansIs DEF TwoMean
<1>5. QED BY <1>3, <1>4 DEF Binary

\* Both operands are there, and lead to what they mean.
Both(e, h, g, l, r, m, n) ==
  /\ Ready(g) /\ Contents(g) = n.env /\ Becomes(h, g, Temps(g), n.env, Told[e].replaced)
  /\ Holds(g, l, m) /\ Holds(g, r, n)
  /\ l \notin Temps(h) /\ r \notin Temps(h) /\ (l = r => HasOwner(g, l))
  /\ Temps(g) \ {l, r} = Temps(h)
  /\ ~g.placed => Told[e.kids[2]].gone
  /\ m.out = "value" => Told[e.kids[1]].temporary
  /\ m.out = "variable" => m.val \in Told[e.kids[1]].targets

LEMMA BothAreThere ==
  ASSUME NEW e, NEW h, NEW l, NEW r, NEW m, NEW n, BothEvaluated(e, h, l, r, m, n), ~Stops(m), ~Stops(n)
  PROVE  /\ Both(e, h, r.h, l.v, r.v, m, n) /\ ~r.h.error /\ r.h.exception = None
         /\ Simplifies(l.t, e.kids[1]) /\ Simplifies(r.t, e.kids[2])
<1> DEFINE a == Told[e.kids[1]]
           b == Told[e.kids[2]]
           g == r.h
<1>1. /\ Realizes(h, l, m, a, e.kids[1]) /\ Fits(m, a)
      /\ Realizes(l.h, r, n, b, e.kids[2]) /\ Fits(n, b)
  BY DEF BothEvaluated
<1>2. /\ Sound(g) /\ ~g.error /\ g.exception = None /\ n.out \in {"value", "variable"}
      /\ r.v \in LiveOf(g) /\ Datum(g, r.v) = Deref(n, n.env) /\ Deref(n, n.env) \in Values
      /\ n.out = "value" => r.v \in Temps(g) /\ ~HasOwner(g, r.v)
      /\ n.out = "variable" => n.val \in Variables /\ HasOwner(g, r.v) /\ r.v = g.var[n.val]
  BY <1>1, Pointer
<1>3. m.out = "value" => a.temporary
  BY <1>1 DEF Fits
<1>4. Held(e, h, l, r, m, n, Told[e])
  BY <1>2, LeftIsHeld
<1> DEFINE replaced == Told[e].replaced
<1> HIDE DEF g, a, b, replaced
<1>5. /\ Contents(g) = n.env /\ Becomes(h, g, Temps(g), n.env, replaced)
      /\ m.out \in {"value", "variable"} /\ l.v \notin Temps(h)
      /\ m.out = "value" => l.v \in Temps(g) /\ Datum(g, l.v) = m.val
      /\ m.out = "variable" => /\ m.val \in Variables /\ m.val \in a.targets
                               /\ l.v = g.var[m.val] /\ HasOwner(g, l.v)
      /\ n.out # "variable" => r.v \in Temps(g) /\ r.v # l.v /\ r.v \notin Temps(h)
      /\ Temps(g) \ {l.v} = IF n.out = "variable" THEN Temps(h) ELSE Temps(h) \cup {r.v}
      /\ Simplifies(l.t, e.kids[1]) /\ Simplifies(r.t, e.kids[2])
      /\ ~g.placed => b.gone
  BY <1>4 DEF Held, a, b, g, replaced
<1>6. Holds(g, l.v, m)
  <2>1. CASE m.out = "value"
    <3>1. l.v \in LiveOf(g) /\ ~HasOwner(g, l.v) /\ Datum(g, l.v) \in Values
      BY <1>2, <1>5, <2>1, LiveIs
    <3>2. QED BY <1>5, <2>1, <3>1 DEF Holds, Deref
  <2>2. CASE m.out = "variable"
    <3>1. l.v \in LiveOf(g) /\ Datum(g, l.v) \in Values
      BY <1>2, <1>5, <2>2, LiveIs
    <3>2. Contents(g)[m.val] = Datum(g, l.v)
      BY <1>2, <1>5, <2>2, ContentsAre
    <3>3. QED BY <1>5, <2>2, <3>1, <3>2 DEF Holds, Deref
  <2>3. QED BY <1>5, <2>1, <2>2
<1>7. Holds(g, r.v, n)
  BY <1>2, <1>5 DEF Holds
<1>8. n.out = "variable" => r.v \notin Temps(g)
  BY <1>2, LiveIs
<1>9. r.v \notin Temps(h) /\ Temps(g) \ {l.v, r.v} = Temps(h)
  <2>1. CASE n.out = "variable"
    <3>1. Temps(g) \ {l.v} = Temps(h)
      BY <1>5, <2>1
    <3>2. QED BY <1>8, <2>1, <3>1
  <2>2. CASE n.out # "variable"
    BY <1>5, <2>2
  <2>3. QED BY <2>1, <2>2
<1>10. l.v = r.v => HasOwner(g, l.v)
  BY <1>2, <1>5
<1>11. Ready(g)
  BY <1>2 DEF Ready
<1>12. Both(e, h, g, l.v, r.v, m, n)
  BY <1>3, <1>5, <1>6, <1>7, <1>9, <1>10, <1>11 DEF Both, a, b, replaced
<1>13. QED BY <1>2, <1>5, <1>12 DEF g

LEMMA ErrorOperates ==
  ASSUME NEW e, NEW h, NEW l, NEW r, NEW m, NEW n, BothEvaluated(e, h, l, r, m, n), ~Stops(m),
         ~ConditionalShortcut(e.op, l.h, l.v), ~Stops(n), MeaningOfTwo(e.op, m, n).out = "error"
  PROVE  NodeRealizes(e, h, l, r)
<1> DEFINE a == Told[e.kids[1]]
           b == Told[e.kids[2]]
           d == Told[e]
           mean == Meaning[e][Contents(h)]
           t == Node(e.op, e.arg, <<l.t, r.t>>)
           g == r.h
           done == Operate(e.op, g, l.v, r.v, t)
           X == IF e.op = "=" THEN {m.val} ELSE {}
<1>1. /\ e.op \in Binary /\ e.op # "," /\ e \in Expressions /\ d.habits = {}
  BY DEF BothEvaluated
<1>2. mean = MeaningOfTwo(e.op, m, n) /\ ~l.h.error
  BY NoShortcutTaken
<1>3. Both(e, h, g, l.v, r.v, m, n) /\ ~g.error /\ g.exception = None
  BY BothAreThere
<1>4. Safe(e, a, b, d)
  BY <1>1, SafeBinary
<1>5. BinaryDone(e, l, r) = IF done.h.error THEN done
                            ELSE Folded(Done(ReleaseTemporary(ReleaseTemporary(done.h, l.v), r.v), done.v, t))
  BY <1>2, <1>3 DEF BinaryDone
<1> HIDE DEF a, b, d, mean, t, g
<1>6. /\ Ready(g) /\ Contents(g) = n.env /\ Holds(g, l.v, m) /\ Holds(g, r.v, n)
      /\ ~g.placed => b.gone
      /\ m.out = "value" => a.temporary
      /\ m.out \in {"value", "variable"}
  BY <1>3 DEF Both, Holds, a, b
<1>7. g.placed
  <2>1. e.op \in {"=", "+="} /\ (e.op = "=" => m.out = "value")
    BY <1>1, <1>6, OperatorEnds
  <2>2. (e.op = "=" => ~(b.gone /\ a.temporary)) /\ (e.op = "+=" => ~b.gone)
    BY <1>4 DEF Safe
  <2>3. QED BY <1>6, <2>1, <2>2
<1>8. OperatesRight(g, done, MeaningOfTwo(e.op, m, n), t, l.v, r.v, m, X)
  BY <1>1, <1>6, OperateIs
<1> HIDE DEF done, X
<1>9. Sound(done.h) /\ Contents(done.h) = mean.env /\ done.h.error
  BY <1>2, <1>7, <1>8 DEF OperatesRight
<1>10. BinaryDone(e, l, r) = done
  BY <1>5, <1>9
<1>11. Realizes(h, done, mean, d, e)
  BY <1>2, <1>9, ErrorRealizes
<1>12. QED BY <1>10, <1>11 DEF NodeRealizes, mean, d

LEMMA ValueOperates ==
  ASSUME NEW e, NEW h, NEW l, NEW r, NEW m, NEW n, BothEvaluated(e, h, l, r, m, n), ~Stops(m),
         ~ConditionalShortcut(e.op, l.h, l.v), ~Stops(n), MeaningOfTwo(e.op, m, n).out = "value"
  PROVE  NodeRealizes(e, h, l, r)
<1> DEFINE b == Told[e.kids[2]]
           d == Told[e]
           mean == Meaning[e][Contents(h)]
           t == Node(e.op, e.arg, <<l.t, r.t>>)
           g == r.h
           done == Operate(e.op, g, l.v, r.v, t)
           X == IF e.op = "=" THEN {m.val} ELSE {}
           k == ReleaseTemporary(ReleaseTemporary(done.h, l.v), r.v)
           c == Done(k, done.v, t)
<1>1. /\ e.op \in Binary /\ e.op # "," /\ e \in Expressions /\ d.habits = {} /\ Ready(h)
  BY DEF BothEvaluated
<1>2. mean = MeaningOfTwo(e.op, m, n) /\ ~l.h.error
  BY NoShortcutTaken
<1>3. /\ Both(e, h, g, l.v, r.v, m, n) /\ ~g.error /\ g.exception = None
      /\ Simplifies(l.t, e.kids[1]) /\ Simplifies(r.t, e.kids[2])
  BY BothAreThere
<1>4. Safe(e, Told[e.kids[1]], b, d)
  BY <1>1, SafeBinary
<1>5. b.gone => d.gone
  BY <1>4 DEF Safe
<1>6. BinaryDone(e, l, r) = IF done.h.error THEN done ELSE Folded(c)
  BY <1>2, <1>3 DEF BinaryDone
<1>7. Simplifies(t, e)
  BY <1>1, <1>3, Operands, PairSimplifies
<1>8. t = Node(e.op, e.arg, <<l.t, r.t>>) /\ c.t = t /\ c.h = k /\ c.v = done.v
  BY DEF Done
<1> HIDE DEF b, d, mean, t, g, c
<1>9. /\ Ready(g) /\ Contents(g) = n.env /\ Becomes(h, g, Temps(g), n.env, d.replaced)
      /\ Holds(g, l.v, m) /\ Holds(g, r.v, n)
      /\ l.v \notin Temps(h) /\ r.v \notin Temps(h) /\ (l.v = r.v => HasOwner(g, l.v))
      /\ Temps(g) \ {l.v, r.v} = Temps(h)
      /\ ~g.placed => b.gone
  BY <1>3 DEF Both, b, d
<1>10. OperatesRight(g, done, MeaningOfTwo(e.op, m, n), t, l.v, r.v, m, X)
  BY <1>1, <1>9, OperateIs
<1> HIDE DEF done, X
<1>11. mean = Means("value", mean.val, n.env) /\ Made(g, done, mean.val, t, n.env, {})
  BY <1>2, <1>9, <1>10 DEF OperatesRight
<1>12. /\ Sound(done.h) /\ Becomes(g, done.h, Temps(g) \cup {done.v}, n.env, {})
       /\ done.v \notin Temps(g) /\ done.v \in Temps(done.h) /\ Datum(done.h, done.v) = mean.val
       /\ Kept(g, done.h)
       /\ \A w \in LiveOf(g) : w \in LiveOf(done.h) /\ w # done.v /\ done.h.slots[w].owner = g.slots[w].owner
  BY <1>11 DEF Made
<1>13. Becomes(h, done.h, Temps(g) \cup {done.v}, n.env, d.replaced)
  <2>1. \A v \in Temps(h) : v \in Temps(g)
    BY <1>9
  <2>2. QED BY <1>9, <1>12, <2>1, BecomesTwice
<1>14. l.v \in LiveOf(g) /\ r.v \in LiveOf(g)
  BY <1>9 DEF Holds
<1>15. /\ l.v \in LiveOf(done.h) /\ r.v \in LiveOf(done.h) /\ l.v # done.v /\ r.v # done.v
       /\ l.v = r.v => HasOwner(done.h, l.v)
  BY <1>9, <1>12, <1>14 DEF HasOwner
<1>16. /\ l.v \in Temps(done.h) \/ HasOwner(done.h, l.v)
       /\ r.v \in Temps(done.h) \/ HasOwner(done.h, r.v)
  BY <1>15 DEF Temps, HasOwner
<1>17. ~done.h.error /\ done.h.exception = None /\ (~done.h.placed => d.gone)
  BY <1>3, <1>5, <1>9, <1>12 DEF Kept
<1>18. done.v \in LiveOf(done.h)
  BY <1>12 DEF Temps
<1>19. HasOwner(done.h, l.v) \/ (l.v # r.v /\ r.v \in LiveOf(done.h))
  BY <1>15
<1>20. /\ Becomes(h, k, (Temps(g) \cup {done.v}) \ {l.v, r.v}, n.env, d.replaced) /\ Kept(done.h, k)
       /\ Datum(k, done.v) = Datum(done.h, done.v)
  <2> DEFINE T == Temps(g) \cup {done.v}
  <2>1. Becomes(h, done.h, T, n.env, d.replaced)
    BY <1>13
  <2> DEFINE from == done.h
             one == l.v
             two == r.v
  <2>4. k = ReleaseTemporary(ReleaseTemporary(from, one), two)
    OBVIOUS
  <2>5. /\ Becomes(h, from, T, n.env, d.replaced) /\ ~from.error
        /\ one \in Temps(from) \/ HasOwner(from, one)
        /\ two \in Temps(from) \/ HasOwner(from, two)
        /\ one \notin Temps(h) /\ two \notin Temps(h)
        /\ HasOwner(from, one) \/ (one # two /\ two \in LiveOf(from))
    BY <1>9, <1>16, <1>17, <1>19, <2>1
  <2> HIDE DEF T, from, one, two
  <2>6. /\ Becomes(h, k, T \ {one, two}, n.env, d.replaced) /\ Kept(from, k)
        /\ \A w \in LiveOf(from) : w \notin {one, two} => Datum(k, w) = Datum(from, w)
    BY <2>4, <2>5, BothDropped
  <2>2. /\ Becomes(h, k, T \ {l.v, r.v}, n.env, d.replaced) /\ Kept(done.h, k)
        /\ \A w \in LiveOf(done.h) : w \notin {l.v, r.v} => Datum(k, w) = Datum(done.h, w)
    BY <2>6 DEF from, one, two
  <2> HIDE DEF k
  <2>3. QED BY <1>15, <1>18, <2>2 DEF T
<1> HIDE DEF k
<1>21. (Temps(g) \cup {done.v}) \ {l.v, r.v} = Temps(h) \cup {done.v} /\ done.v \notin Temps(h)
  BY <1>9, <1>12, <1>15
<1>22. ~k.error /\ k.exception = None /\ (~k.placed => d.gone)
  BY <1>17, <1>20 DEF Kept
<1>23. Becomes(h, k, Temps(h) \cup {done.v}, n.env, d.replaced) /\ Datum(k, done.v) = mean.val
  BY <1>12, <1>20, <1>21
<1>24. Realizes(h, Done(k, done.v, t), mean, d, e)
  BY <1>7, <1>11, <1>21, <1>22, <1>23, MadeRealizes
<1>25. c = Done(k, done.v, t)
  BY DEF c, k
<1>26. c.t = Node(e.op, e.arg, <<l.t, r.t>>)
  BY <1>8
<1>27. mean.out = "value"
  BY <1>2
<1>28. Realizes(h, c, mean, d, e)
  BY <1>24, <1>25
<1>29. Realizes(h, Folded(c), mean, d, e)
  BY <1>1, <1>3, <1>26, <1>27, <1>28, FoldedRealizes DEF mean, d
<1>30. BinaryDone(e, l, r) = Folded(c)
  BY <1>6, <1>17
<1>31. QED BY <1>29, <1>30 DEF NodeRealizes, mean, d

LEMMA VariableOperates ==
  ASSUME NEW e, NEW h, NEW l, NEW r, NEW m, NEW n, BothEvaluated(e, h, l, r, m, n), ~Stops(m),
         ~ConditionalShortcut(e.op, l.h, l.v), ~Stops(n), MeaningOfTwo(e.op, m, n).out = "variable"
  PROVE  NodeRealizes(e, h, l, r)
<1> DEFINE a == Told[e.kids[1]]
           b == Told[e.kids[2]]
           d == Told[e]
           mean == Meaning[e][Contents(h)]
           t == Node(e.op, e.arg, <<l.t, r.t>>)
           g == r.h
           done == Operate(e.op, g, l.v, r.v, t)
           X == IF e.op = "=" THEN {m.val} ELSE {}
           k == ReleaseTemporary(ReleaseTemporary(done.h, l.v), r.v)
           c == Done(k, done.v, t)
<1>1. /\ e.op \in Binary /\ e.op # "," /\ e \in Expressions /\ d.habits = {} /\ Ready(h)
  BY DEF BothEvaluated
<1>2. mean = MeaningOfTwo(e.op, m, n) /\ ~l.h.error
  BY NoShortcutTaken
<1>3. /\ Both(e, h, g, l.v, r.v, m, n) /\ ~g.error /\ g.exception = None
      /\ Simplifies(l.t, e.kids[1]) /\ Simplifies(r.t, e.kids[2])
  BY BothAreThere
<1>4. Safe(e, a, b, d)
  BY <1>1, SafeBinary
<1>5. (b.gone => d.gone) /\ (e.op = "=" => a.targets \subseteq d.replaced)
  BY <1>4 DEF Safe
<1>6. BinaryDone(e, l, r) = IF done.h.error THEN done ELSE Folded(c)
  BY <1>2, <1>3 DEF BinaryDone
<1>7. Simplifies(t, e)
  BY <1>1, <1>3, Operands, PairSimplifies
<1>8. c.t = Node(e.op, e.arg, <<l.t, r.t>>) /\ c.t = t /\ c.h = k /\ c.v = done.v
  BY DEF Done
<1> HIDE DEF a, b, d, mean, t, g, c
<1>9. /\ Ready(g) /\ Contents(g) = n.env /\ Becomes(h, g, Temps(g), n.env, d.replaced)
      /\ Holds(g, l.v, m) /\ Holds(g, r.v, n)
      /\ l.v \notin Temps(h) /\ r.v \notin Temps(h)
      /\ Temps(g) \ {l.v, r.v} = Temps(h)
      /\ ~g.placed => b.gone
      /\ m.out = "variable" => m.val \in a.targets
  BY <1>3 DEF Both, a, b, d
<1>10. OperatesRight(g, done, MeaningOfTwo(e.op, m, n), t, l.v, r.v, m, X)
  BY <1>1, <1>9, OperateIs
<1>11. X \subseteq d.replaced
  <2>1. m.out = "variable"
    <3>1. m.out \in {"value", "variable"}
      BY <1>9 DEF Holds
    <3>2. CASE m.out = "value"
      <4>1. TwoMean(m, n, Deref(m, n.env), Deref(n, n.env))
        BY MeaningOfTwoIs
      <4>2. e.op \in {"=", "+="} 
        BY <1>1, OperatorEnds
      <4>3. MeaningOfTwo(e.op, m, n) = Means("error", None, n.env)
        BY <3>2, <4>1, <4>2 DEF TwoMean
      <4>4. QED BY <4>3, MeansIs
    <3>3. QED BY <3>1, <3>2
  <2>2. QED BY <1>5, <1>9, <2>1
<1> HIDE DEF done, X
<1>12. mean.out = "variable" /\ mean = Means("variable", m.val, mean.env) /\ Put(g, done, m.val, X, mean.env, t, l.v, r.v)
  BY <1>2, <1>10 DEF OperatesRight
<1> DEFINE env == mean.env
<1>13. mean.val = m.val
  BY <1>12, MeansIs
<1>14. /\ Sound(done.h) /\ Becomes(g, done.h, Temps(g), env, X) /\ done.v = done.h.var[m.val]
       /\ Kept(g, done.h) /\ HasOwner(done.h, l.v)
       /\ r.v \in Temps(done.h) \/ HasOwner(done.h, r.v)
  BY <1>12 DEF Put
<1> HIDE DEF env
<1>15. Becomes(h, done.h, Temps(g), env, d.replaced)
  <2>1. \A v \in Temps(h) : v \in Temps(g)
    BY <1>9
  <2>2. QED BY <1>9, <1>11, <1>14, <2>1, BecomesTwice
<1>16. ~done.h.error /\ done.h.exception = None /\ (~done.h.placed => d.gone)
  BY <1>3, <1>5, <1>9, <1>14 DEF Kept
<1>17. /\ Becomes(h, k, Temps(g) \ {l.v, r.v}, env, d.replaced) /\ Kept(done.h, k) /\ Sound(k) /\ k.var = done.h.var
  <2> DEFINE T == Temps(g)
             from == done.h
             one == l.v
             two == r.v
  <2>1. k = ReleaseTemporary(ReleaseTemporary(from, one), two)
    OBVIOUS
  <2>2. /\ Becomes(h, from, T, env, d.replaced) /\ ~from.error
        /\ one \in Temps(from) \/ HasOwner(from, one)
        /\ two \in Temps(from) \/ HasOwner(from, two)
        /\ one \notin Temps(h) /\ two \notin Temps(h)
        /\ HasOwner(from, one) \/ (one # two /\ two \in LiveOf(from))
    BY <1>9, <1>14, <1>15, <1>16
  <2> HIDE DEF T, from, one, two, k
  <2>3. Becomes(h, k, T \ {one, two}, env, d.replaced) /\ Kept(from, k) /\ Sound(k) /\ k.var = from.var
    BY <2>1, <2>2, BothDropped
  <2>4. QED BY <2>3 DEF T, from, one, two
<1> HIDE DEF k
<1>18. Becomes(h, k, Temps(h), env, d.replaced) /\ Contents(k) = env
  BY <1>9, <1>17 DEF Becomes
<1>19. k.error = FALSE /\ k.exception = None /\ (~k.placed => d.gone)
  BY <1>16, <1>17, HeapType DEF Kept, Sound
<1>20. Realizes(h, c, mean, d, e)
  BY <1>7, <1>8, <1>12, <1>13, <1>14, <1>17, <1>18, <1>19 DEF Realizes, env
<1>21. e.op \notin Foldable
  BY <1>1, <1>2, <1>12, OperatorEnds
<1>22. Realizes(h, Folded(c), mean, d, e)
  BY <1>1, <1>3, <1>8, <1>20, <1>21, FoldedRealizes DEF mean, d
<1>23. BinaryDone(e, l, r) = Folded(c)
  BY <1>6, <1>16
<1>24. QED BY <1>22, <1>23 DEF NodeRealizes, mean, d

LEMMA RightBinary ==
  ASSUME NEW e \in Expressions, e.op \in Binary, e.op # ",", Right(e.kids[1]), Right(e.kids[2])
  PROVE  Right(e)
<1> SUFFICES ASSUME Told[e].habits = {}, NEW h, Ready(h)
             PROVE  Realizes(h, Evaluate[e][h], Meaning[e][Contents(h)], Told[e], e)
  BY DEF Right
<1> DEFINE at == SetExecutionPosition(h, e)
           one == e.kids[1]
           two == e.kids[2]
           l == Evaluate[one][at]
           r == Evaluate[two][l.h]
           m == Meaning[one][Contents(at)]
           n == Meaning[two][m.env]
<1>1. /\ Ready(at) /\ Contents(at) = Contents(h) /\ Temps(at) = Temps(h)
      /\ Becomes(h, at, Temps(h), Contents(h), {})
  BY ReadyAt
<1>2. one \in Expressions /\ two \in Expressions /\ Right(one) /\ Right(two)
  BY Operands
<1>3. Told[one].habits = {} /\ Told[two].habits = {}
  BY ToldBinary, Zenon
<1>4. Meaning[e][Contents(h)] = BinaryMeaning(e.op, m, n)
  <2>1. Contents(h) \in Environments
    BY ContentsAre DEF Ready
  <2>2. QED BY <1>1, <2>1, MeaningAtBinary
<1>5. Evaluate[e][h] = BinaryDone(e, l, r)
  <2>1. Evaluate[e][h] =
          LET short == Node(e.op, e.arg, <<l.t, e.kids[2]>>)
              t == Node(e.op, e.arg, <<l.t, r.t>>)
              done == Operate(e.op, r.h, l.v, r.v, t)
          IN IF l.h.error THEN l
             ELSE IF ConditionalShortcut(e.op, l.h, l.v) THEN
               Folded(Construct(ReleaseTemporary(Seen(l.h, l.v), l.v), Value("bool", Shortcut[e.op]), short))
             ELSE IF r.h.error THEN r
             ELSE IF r.h.exception # None THEN Done(ReleaseAfterThrow(r.h, l.v), r.h.exception, t)
             ELSE IF done.h.error THEN done
             ELSE Folded(Done(ReleaseTemporary(ReleaseTemporary(done.h, l.v), r.v), done.v, t))
    BY EvaluateAtBinary, Zenon
  <2> HIDE DEF l, r
  <2>2. QED BY <2>1 DEF BinaryDone
<1>6. Realizes(at, l, m, Told[one], one) /\ Fits(m, Told[one]) /\ m.env \in Environments
  <2> HIDE DEF at
  <2>1. QED BY <1>1, <1>2, <1>3, RightOperand
<1>7. one = e.kids[1] /\ two = e.kids[2]
  OBVIOUS
<1>8. r = Evaluate[two][l.h] /\ n = Meaning[two][m.env]
  OBVIOUS
<1> HIDE DEF at, one, two, l, m, r, n
<1>9. Realizes(h, l, m, Told[one], one)
  BY <1>1, <1>6, RealizesBefore
<1>10. ASSUME ~Stops(m)
       PROVE  Realizes(l.h, r, n, Told[two], two) /\ Fits(n, Told[two])
  <2>1. Sound(l.h) /\ ~l.h.error /\ l.h.exception = None
    BY <1>6, <1>9, <1>10, Pointer
  <2>2. Contents(l.h) = m.env
    BY <1>9 DEF Realizes
  <2> DEFINE g == l.h
  <2>3. Ready(g) /\ r = Evaluate[two][g] /\ n = Meaning[two][Contents(g)]
    BY <1>8, <2>1, <2>2 DEF Ready
  <2> HIDE DEF g
  <2>4. Realizes(g, r, n, Told[two], two) /\ Fits(n, Told[two])
    BY <1>2, <1>3, <2>3, RightOperand
  <2>5. QED BY <2>4 DEF g
<1>11. BothEvaluated(e, h, l, r, m, n)
  BY <1>4, <1>6, <1>7, <1>8, <1>9, <1>10 DEF BothEvaluated
<1>12. NodeRealizes(e, h, l, r)
  <2>1. CASE Stops(m)
    BY <1>11, <2>1, LeftStops
  <2>2. CASE ~Stops(m) /\ ConditionalShortcut(e.op, l.h, l.v)
    BY <1>11, <2>2, LeftDecides
  <2>3. CASE ~Stops(m) /\ ~ConditionalShortcut(e.op, l.h, l.v) /\ Stops(n)
    BY <1>11, <2>3, RightStops
  <2>4. CASE ~Stops(m) /\ ~ConditionalShortcut(e.op, l.h, l.v) /\ ~Stops(n)
    <3>1. MeaningOfTwo(e.op, m, n).out \in {"error", "value", "variable"}
      <4>1. Both(e, h, r.h, l.v, r.v, m, n)
        BY <1>11, <2>4, BothAreThere
      <4> DEFINE g == r.h
                 v == l.v
                 w == r.v
      <4>2. Ready(g) /\ Holds(g, v, m) /\ Holds(g, w, n) /\ n.env = Contents(g)
        BY <4>1 DEF Both
      <4> HIDE DEF g, v, w
      <4> DEFINE t == None
                 done == Operate(e.op, g, v, w, t)
                 X == IF e.op = "=" THEN {m.val} ELSE {}
      <4>3. OperatesRight(g, done, MeaningOfTwo(e.op, m, n), t, v, w, m, X)
        BY <4>2, OperateIs
      <4> HIDE DEF t, done, X
      <4>4. QED BY <4>3 DEF OperatesRight
    <3>2. CASE MeaningOfTwo(e.op, m, n).out = "error"
      BY <1>11, <2>4, <3>2, ErrorOperates
    <3>3. CASE MeaningOfTwo(e.op, m, n).out = "value"
      BY <1>11, <2>4, <3>3, ValueOperates
    <3>4. CASE MeaningOfTwo(e.op, m, n).out = "variable"
      BY <1>11, <2>4, <3>4, VariableOperates
    <3>5. QED BY <3>1, <3>2, <3>3, <3>4
  <2>5. QED BY <2>1, <2>2, <2>3, <2>4
<1>13. QED BY <1>5, <1>12 DEF NodeRealizes

LEMMA RightLeaf ==
  ASSUME NEW e \in Expressions, e.op \in Leaf
  PROVE  Right(e)
<1> SUFFICES ASSUME NEW h, Ready(h)
             PROVE  Realizes(h, Evaluate[e][h], Meaning[e][Contents(h)], Told[e], e)
  BY DEF Right
<1>1. Contents(h) \in Environments
  BY ContentsAre DEF Ready
<1>2. Meaning[e][Contents(h)] = MeaningOfLeaf(e, Contents(h))
  BY <1>1, MeaningAtLeaf
<1>3. Evaluate[e][h] = EvaluateLeaf(SetExecutionPosition(h, e), e)
  BY EvaluateAtLeaf
<1>4. Realizes(h, EvaluateLeaf(SetExecutionPosition(h, e), e), MeaningOfLeaf(e, Contents(h)), Told[e], e)
  BY RealizesLeaf
<1>5. QED BY <1>2, <1>3, <1>4, Zenon

\* Whatever the height, expressions without habits are evaluated to what they mean.
LEMMA AllRight ==
  ASSUME NEW e \in Expressions
  PROVE  Right(e)
<1> DEFINE G == {x \in Expressions : Right(x)}
<1>1. ASSUME NEW x \in Expressions, \A k \in DOMAIN x.kids : x.kids[k] \in G
      PROVE  x \in G
  <2>1. \A k \in DOMAIN x.kids : Right(x.kids[k])
    BY <1>1
  <2>2. CASE x.op \in Leaf
    BY <2>2, RightLeaf
  <2>3. CASE x.op \in Unary
    BY <2>1, <2>3, Operands, RightUnary
  <2>4. CASE x.op \in Binary /\ x.op # ","
    BY <2>1, <2>4, Operands, RightBinary
  <2>5. CASE x.op = ","
    <3>1. x.op \in Binary
      BY <2>5 DEF Binary
    <3>2. QED BY <2>1, <2>5, <3>1, Operands, RightSequence
  <2>6. CASE x.op = "?"
    BY <2>1, <2>6, Operands, RightTernary
  <2>7. QED BY <2>2, <2>3, <2>4, <2>5, <2>6, Shape
<1> HIDE DEF G
<1>2. Expressions \subseteq G
  BY <1>1, ByHeight
<1>3. QED BY <1>2 DEF G

-----------------------------------------------------------------------------
(* The statement, executed again and again.                                 *)

\* After each execution the heap is sound, even after an error; otherwise there
\* are no temporaries, and the tree still means what the source means.
Between ==
  heap.exception = None /\ Temps(heap) = {} /\ Simplifies(tree, source)
IInv ==
  /\ source \in Expressions /\ Told[source].habits = {} /\ before \in Environments
  /\ Sound(heap)
  /\ ~heap.error => Between
  /\ MeansWhatItSays

\* The first heap: three variables, nothing in the pools.
FirstHeap ==
  [slots |-> <<[Slot(Value("int", 1)) EXCEPT !.owner = "x"],
               [Slot(Value("int", 2)) EXCEPT !.owner = "y"],
               [Slot(True) EXCEPT !.owner = "b"]>>,
   free |-> [type \in Types |-> <<>>],
   var |-> [x |-> 1, y |-> 2, b |-> 3],
   exception |-> None, error |-> FALSE, placed |-> TRUE, lost |-> FALSE, stale |-> FALSE]

LEMMA FirstIs ==
  /\ Sound(FirstHeap) /\ Temps(FirstHeap) = {} /\ ~FirstHeap.error /\ FirstHeap.exception = None
<1> DEFINE h == FirstHeap
           one == [Slot(Value("int", 1)) EXCEPT !.owner = "x"]
           two == [Slot(Value("int", 2)) EXCEPT !.owner = "y"]
           three == [Slot(True) EXCEPT !.owner = "b"]
<1>1. /\ one \in Slots /\ two \in Slots /\ three \in Slots
      /\ one.live = TRUE /\ two.live = TRUE /\ three.live = TRUE
      /\ one.owner = "x" /\ two.owner = "y" /\ three.owner = "b"
  BY Digits DEF Slots, Slot, Value, True, Types, Variables
<1>2. /\ h.slots = <<one, two, three>> /\ h.free = [type \in Types |-> <<>>]
      /\ h.var = [x |-> 1, y |-> 2, b |-> 3]
      /\ h.exception = None /\ h.error = FALSE /\ h.placed = TRUE /\ h.lost = FALSE /\ h.stale = FALSE
      /\ h = [slots |-> h.slots, free |-> h.free, var |-> h.var, exception |-> h.exception,
              error |-> h.error, placed |-> h.placed, lost |-> h.lost, stale |-> h.stale]
  BY DEF FirstHeap
<1> HIDE DEF h, one, two, three
<1>3. /\ h.slots \in Seq(Slots) /\ DOMAIN h.slots = {1, 2, 3}
      /\ h.slots[1] = one /\ h.slots[2] = two /\ h.slots[3] = three
  BY <1>1, <1>2
<1>4. h.var \in [Variables -> Nat] /\ h.var["x"] = 1 /\ h.var["y"] = 2 /\ h.var["b"] = 3
  BY <1>2 DEF Variables
<1>5. h.free \in [Types -> Seq(Nat)]
  BY <1>2
<1>6. \A type \in Types : DOMAIN h.free[type] = {}
  BY <1>2
<1>7. None \in Nat
  BY DEF None
<1>8. h \in Heaps
  BY <1>2, <1>3, <1>4, <1>5, <1>7 DEF Heaps
<1>9. LiveOf(h) = {1, 2, 3}
  BY <1>1, <1>3 DEF LiveOf
<1>10. Temps(h) = {}
  BY <1>1, <1>3, <1>9 DEF Temps
<1>11. Owned(h)
  <2>1. \A x \in Variables : h.var[x] \in LiveOf(h) /\ h.slots[h.var[x]].owner = x
    BY <1>1, <1>3, <1>4, <1>9 DEF Variables
  <2>2. \A v \in LiveOf(h) : h.slots[v].owner # "" => h.var[h.slots[v].owner] = v
    BY <1>1, <1>3, <1>4, <1>9
  <2>3. QED BY <2>1, <2>2 DEF Owned
<1>12. Pooled(h)
  BY <1>6 DEF Pooled
<1>13. Sound(h) /\ ~h.error /\ h.exception = None
  BY <1>2, <1>8, <1>11, <1>12 DEF Sound
<1>14. QED BY <1>10, <1>13 DEF h

LEMMA InitSound ==
  ASSUME Habits = {}, Init
  PROVE  IInv
<1>1. heap = FirstHeap
  BY DEF Init, FirstHeap
<1>2. source \in Expressions /\ Told[source].habits = {} /\ tree = source /\ before = Contents(heap) /\ runs = 0
  BY ExpressionsAssumption DEF Init
<1>3. Sound(heap) /\ Temps(heap) = {} /\ heap.exception = None
  BY <1>1, FirstIs
<1>4. before \in Environments
  BY <1>2, <1>3, ContentsAre
<1>5. Between
  BY <1>2, <1>3, SimplifiesItself DEF Between
<1>6. MeansWhatItSays
  BY <1>2 DEF MeansWhatItSays
<1>7. QED BY <1>2, <1>3, <1>4, <1>5, <1>6 DEF IInv

\* What an execution leaves: the heap g, and what it came to.
Executed(h, done, m) ==
  LET k == done.h
      g == CASE k.error -> k
             [] ~k.error /\ k.exception # None -> [Release(k, k.exception) EXCEPT !.exception = None]
             [] OTHER -> ReleaseTemporary(k, done.v)
  IN  /\ Sound(g) /\ Contents(g) = m.env
      /\ ~g.error => g.exception = None /\ Temps(g) = Temps(h) /\ Simplifies(done.t, tree)
      /\ Means(IF k.error THEN "error" ELSE IF k.exception # None THEN "thrown" ELSE "value",
               IF k.error \/ k.exception # None THEN None ELSE Datum(k, done.v), Contents(g))
         = Means(IF Stops(m) THEN m.out ELSE "value", Deref(m, m.env), m.env)

LEMMA ExecutedIs ==
  ASSUME NEW h, Ready(h), NEW done, NEW m, NEW d, Realizes(h, done, m, d, tree), Fits(m, d)
  PROVE  Executed(h, done, m)
<1> DEFINE k == done.h
           v == done.v
<1>1. Sound(k) /\ Contents(k) = m.env /\ k.error = (m.out = "error")
  BY DEF Realizes
<1>2. CASE m.out = "error"
  <2>1. k.error = TRUE
    BY <1>1, <1>2
  <2>2. Stops(m) /\ Deref(m, m.env) = None
    BY <1>2 DEF Stops, Fits, Deref
  <2> HIDE DEF k
  <2>3. QED BY <1>1, <1>2, <2>1, <2>2 DEF Executed, k
<1>3. CASE m.out = "thrown"
  <2>1. /\ k.error = FALSE /\ k.exception = v /\ Simplifies(done.t, tree) /\ v \notin Temps(h)
        /\ Becomes(h, k, Temps(h) \cup {v}, m.env, d.replaced)
    BY <1>1, <1>3 DEF Realizes
  <2>2. Stops(m) /\ Deref(m, m.env) = None
    BY <1>3 DEF Stops, Fits, Deref
  <2> DEFINE released == Release(k, v)
             g == [released EXCEPT !.exception = None]
  <2> HIDE DEF k, v
  <2>3. Temps(k) = Temps(h) \cup {v}
    BY <2>1 DEF Becomes
  <2>4. v \in Temps(k) /\ v # None
    BY <1>1, <2>3, LiveIs DEF Temps
  <2>5. Taken(k, released, v)
    BY <1>1, <2>4, Released
  <2> HIDE DEF released
  <2>6. Like(k, released, Temps(k) \ {v}) /\ Kept(k, released)
    BY <1>1, <2>4, <2>5, TakenIs
  <2>7. None \in Nat
    BY DEF None
  <2>8. Sound(released)
    BY <2>6 DEF Like
  <2>9. Unnoticed(released, g) /\ g.exception = None /\ g.error = released.error
    BY <2>7, <2>8, ExceptionIs
  <2> HIDE DEF g
  <2>10. Sound(g) /\ Contents(g) = m.env /\ Temps(g) = Temps(h)
    BY <1>1, <2>1, <2>3, <2>6, <2>9 DEF Unnoticed, Like
  <2>11. g = CASE k.error -> k
               [] ~k.error /\ k.exception # None -> [Release(k, k.exception) EXCEPT !.exception = None]
               [] OTHER -> ReleaseTemporary(k, v)
    BY <2>1, <2>4 DEF g, released
  <2>12. QED BY <1>3, <2>1, <2>2, <2>4, <2>9, <2>10, <2>11 DEF Executed, k, v
<1>4. CASE ~Stops(m)
  <2>1. /\ Sound(k) /\ ~k.error /\ k.exception = None /\ Datum(k, v) = Deref(m, m.env)
    BY <1>4, Pointer
  <2> DEFINE g == ReleaseTemporary(k, v)
  <2>2. Ready(g) /\ Contents(g) = m.env /\ Temps(g) = Temps(h) /\ Simplifies(done.t, tree)
    BY <1>4, OperandDropped
  <2> HIDE DEF g
  <2>3. g = CASE k.error -> k
              [] ~k.error /\ k.exception # None -> [Release(k, k.exception) EXCEPT !.exception = None]
              [] OTHER -> ReleaseTemporary(k, v)
    BY <2>1 DEF g
  <2> HIDE DEF k, v
  <2>4. QED BY <1>4, <2>1, <2>2, <2>3 DEF Executed, k, v, Ready
<1>5. QED BY <1>2, <1>3, <1>4, StopsIs DEF Fits

LEMMA NextSound ==
  ASSUME IInv, [Next]_vars
  PROVE  IInv'
<1>1. CASE Execute
  <2> DEFINE done == Evaluate[tree][heap]
             m == Meaning[tree][Contents(heap)]
             d == Told[tree]
  <2>1. ~heap.error /\ source' = source /\ tree' = done.t /\ before' = Contents(heap)
    BY <1>1 DEF Execute
  <2>2. Sound(heap) /\ heap.exception = None /\ Temps(heap) = {} /\ Simplifies(tree, source)
        /\ source \in Expressions /\ Told[source].habits = {}
    BY <2>1 DEF IInv, Between
  <2>3. Ready(heap) /\ Contents(heap) \in Environments
    BY <2>1, <2>2, ContentsAre DEF Ready
  <2>4. tree \in Expressions /\ d.habits = {} /\ Meaning[tree] = Meaning[source]
    BY <2>2 DEF Simplifies, Weaker
  <2>5. Realizes(heap, done, m, d, tree) /\ Fits(m, d)
    BY <2>3, <2>4, AllRight, RightOperand
  <2>6. heap' = CASE done.h.error -> done.h
                  [] ~done.h.error /\ done.h.exception # None -> [Release(done.h, done.h.exception) EXCEPT !.exception = None]
                  [] OTHER -> ReleaseTemporary(done.h, done.v)
    BY <1>1 DEF Execute
  <2>7. outcome' = Means(IF done.h.error THEN "error" ELSE IF done.h.exception # None THEN "thrown" ELSE "value",
                         IF done.h.error \/ done.h.exception # None THEN None ELSE Datum(done.h, done.v),
                         Contents(heap'))
    BY <1>1 DEF Execute
  <2>8. m = Meaning[source'][before']
    BY <2>1, <2>4
  <2> HIDE DEF done, m, d
  <2>9. Executed(heap, done, m)
    BY <2>3, <2>5, ExecutedIs
  <2>10. /\ Sound(heap')
         /\ ~heap'.error => heap'.exception = None /\ Temps(heap') = Temps(heap) /\ Simplifies(done.t, tree)
         /\ outcome' = Means(IF Stops(m) THEN m.out ELSE "value", Deref(m, m.env), m.env)
    BY <2>6, <2>7, <2>9 DEF Executed
  <2>11. (~heap.error => Between)'
    <3>1. ASSUME ~heap'.error PROVE heap'.exception = None /\ Temps(heap') = {} /\ Simplifies(tree', source')
      <4>1. heap'.exception = None /\ Temps(heap') = {} /\ Simplifies(done.t, tree)
        BY <2>2, <2>10, <3>1
      <4>2. Simplifies(done.t, source)
        BY <2>2, <4>1, SimplifiesTwice
      <4>3. QED BY <2>1, <4>1, <4>2
    <3>2. QED BY <3>1 DEF Between
  <2>12. MeansWhatItSays'
    BY <2>8, <2>10 DEF MeansWhatItSays
  <2>13. QED BY <2>1, <2>2, <2>3, <2>10, <2>11, <2>12 DEF IInv
<1>2. CASE UNCHANGED vars
  <2>1. Sound(heap)' = Sound(heap') /\ heap' = heap /\ source' = source /\ tree' = tree /\ before' = before
    BY <1>2 DEF vars
  <2>2. MeansWhatItSays'
    BY <1>2 DEF vars, MeansWhatItSays, IInv
  <2>3. (~heap.error => Between)'
    BY <2>1 DEF IInv, Between
  <2>4. QED BY <2>1, <2>2, <2>3 DEF IInv
<1>3. QED BY <1>1, <1>2 DEF Next

LEMMA SoundIsEnough ==
  ASSUME IInv
  PROVE  NothingGoneIsUsed /\ NothingLeaks /\ MeansWhatItSays
<1>1. NothingGoneIsUsed
  BY DEF IInv, Sound, NothingGoneIsUsed, NothingStale, PositionIsAlive
<1>2. ASSUME ~heap.error
      PROVE  {v \in DOMAIN heap.slots : heap.slots[v].live} = {heap.var[x] : x \in DOMAIN heap.var}
  <2>1. Sound(heap) /\ Temps(heap) = {}
    BY <1>2 DEF IInv, Between
  <2>2. DOMAIN heap.var = Variables
    BY <2>1, LiveIs, HeapType
  <2>3. /\ \A x \in Variables : heap.var[x] \in LiveOf(heap)
        /\ \A v \in LiveOf(heap) : \E x \in Variables : v = heap.var[x]
    BY <2>1, LiveIs
  <2>4. LiveOf(heap) = {heap.var[x] : x \in Variables}
    BY <2>3
  <2>5. QED BY <2>2, <2>4 DEF LiveOf
<1>3. NothingLeaks
  BY <1>2 DEF NothingLeaks
<1>4. QED BY <1>1, <1>3 DEF IInv

LEMMA AlwaysSound ==
  ASSUME Habits = {}
  PROVE  Spec => []IInv
<1>1. Init => IInv
  BY InitSound
<1>2. IInv /\ [Next]_vars => IInv'
  BY NextSound
<1>3. QED BY <1>1, <1>2, PTL DEF Spec

\* Expressions that have none of the habits, of every height, use no value after
\* its release, and no node after it was folded away: CRuntimeExpression::Evaluate.
THEOREM NothingGoneIsEverUsed ==
  ASSUME Habits = {}
  PROVE  Spec => []NothingGoneIsUsed
<1>1. IInv => NothingGoneIsUsed
  BY SoundIsEnough
<1>2. QED BY <1>1, AlwaysSound, PTL

\* And they leave nothing behind that is not the value of a variable, whatever
\* operand threw: the releases in Evaluate, EvaluateUnary and Execute.
THEOREM TemporariesAreReleased ==
  ASSUME Habits = {}
  PROVE  Spec => []NothingLeaks
<1>1. IInv => NothingLeaks
  BY SoundIsEnough
<1>2. QED BY <1>1, AlwaysSound, PTL

\* And they return, throw and store what the language promises, each time they
\* are executed, although EvaluateBinary has rewritten the tree in between.
THEOREM EvaluationMeansWhatItSays ==
  ASSUME Habits = {}
  PROVE  Spec => []MeansWhatItSays
<1>1. IInv => MeansWhatItSays
  BY SoundIsEnough
<1>2. QED BY <1>1, AlwaysSound, PTL
=============================================================================
