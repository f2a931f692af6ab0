-------------------------- MODULE Aggregates_proof --------------------------
(***************************************************************************)
(* Proofs about Aggregates.                                                *)
(***************************************************************************)
EXTENDS Aggregates, FiniteSetTheorems, WellFoundedInduction, TLAPS

\* Induction: a set of naturals that is not empty has a least element.
LEMMA LeastNumber ==
  ASSUME NEW S, S \subseteq Nat, S # {}
  PROVE  \E n \in S : \A m \in S : n <= m
<1>1. \E n \in S : \A m \in S : <<m, n>> \notin OpToRel(<, Nat)
  BY NatLessThanWellFounded, WFMin
<1>2. PICK n \in S : \A m \in S : <<m, n>> \notin OpToRel(<, Nat)
  BY <1>1
<1>3. ASSUME NEW m \in S PROVE n <= m
  <2>1. m \in Nat /\ n \in Nat
    OBVIOUS
  <2>2. ~(m < n)
    BY <1>2, <2>1 DEF OpToRel
  <2>3. QED BY <2>1, <2>2
<1>4. QED BY <1>3

-----------------------------------------------------------------------------
(* Induction *)

\* A set with 0 and every successor has all numbers.
LEMMA AllNumbers ==
  ASSUME NEW S, 0 \in S, \A n \in Nat : n \in S => n + 1 \in S
  PROVE  \A n \in Nat : n \in S
<1> DEFINE T == Nat \ S
<1>1. SUFFICES ASSUME T # {} PROVE FALSE
  OBVIOUS
<1>2. PICK n \in T : \A m \in T : n <= m
  <2> HIDE DEF T
  <2>1. T \subseteq Nat
    BY DEF T
  <2>2. QED BY <1>1, <2>1, LeastNumber
<1>3. n \in Nat /\ n # 0 /\ n - 1 \in Nat /\ ~(n <= n - 1) /\ (n - 1) + 1 = n
  BY <1>2
<1>4. n - 1 \notin T
  BY <1>2, <1>3
<1>5. n - 1 \in S
  BY <1>3, <1>4
<1>6. n \in S
  BY <1>3, <1>5
<1>7. QED BY <1>2, <1>6

-----------------------------------------------------------------------------
(* Steps on heaps, one after the other *)

IsAfter(h, steps, m, f) == f = [k \in 0..m |-> IF k = 0 THEN h ELSE steps[k][f[k - 1]]]

LEMMA AfterExists ==
  ASSUME NEW h, NEW steps, NEW m \in Nat
  PROVE  \E f : IsAfter(h, steps, m, f)
<1> DEFINE S == {n \in Nat : \E f : IsAfter(h, steps, n, f)}
<1>1. 0 \in S
  <2>1. IsAfter(h, steps, 0, [k \in 0..0 |-> h])
    BY DEF IsAfter
  <2>2. QED BY <2>1
<1>2. ASSUME NEW n \in Nat, n \in S PROVE n + 1 \in S
  <2>1. PICK g : IsAfter(h, steps, n, g)
    BY <1>2
  <2> DEFINE f == [k \in 0..(n + 1) |-> IF k = 0 THEN h ELSE steps[k][g[k - 1]]]
  <2>2. \A k \in 0..n : k \in 0..(n + 1) /\ g[k] = IF k = 0 THEN h ELSE steps[k][g[k - 1]]
    <3>1. \A k \in 0..n : k \in 0..(n + 1)
      BY <1>2
    <3>2. \A k \in 0..n : g[k] = IF k = 0 THEN h ELSE steps[k][g[k - 1]]
      BY <2>1, Zenon DEF IsAfter
    <3>3. QED BY <3>1, <3>2
  <2>3. \A k \in 0..n : f[k] = g[k]
    BY <2>2, Zenon
  <2>4. \A k \in 0..(n + 1) : k # 0 => k - 1 \in 0..n
    BY <1>2
  <2>5. \A k \in 0..(n + 1) : k # 0 => f[k - 1] = g[k - 1]
    BY <2>3, <2>4, Zenon
  <2>6. f = [k \in 0..(n + 1) |-> IF k = 0 THEN h ELSE steps[k][f[k - 1]]]
    <3> DEFINE e == f
    <3>1. \A k \in 0..(n + 1) : k # 0 => e[k - 1] = g[k - 1]
      BY <2>5
    <3> HIDE DEF e
    <3>2. [k \in 0..(n + 1) |-> IF k = 0 THEN h ELSE steps[k][e[k - 1]]] = f
      BY <3>1
    <3>3. QED BY <3>2 DEF e
  <2>7. IsAfter(h, steps, n + 1, f)
    BY <2>6, Zenon DEF IsAfter
  <2>8. QED BY <2>7
<1> HIDE DEF S
<1>3. m \in S
  BY <1>1, <1>2, AllNumbers
<1>4. QED BY <1>3 DEF S

\* A property of the heap that every step carries on, from one set to the next.
LEMMA ThroughGoes ==
  ASSUME NEW n \in Nat, NEW steps, Len(steps) = n, NEW G, NEW h, h \in G[0],
         \A k \in 1..n : \A g \in G[k - 1] : steps[k][g] \in G[k]
  PROVE  Through(h, steps) \in G[n]
<1> DEFINE after == CHOOSE f : IsAfter(h, steps, n, f)
<1>1. IsAfter(h, steps, n, after)
  BY AfterExists, Zenon
<1>2. Through(h, steps) = after[n]
  BY Zenon DEF Through, IsAfter
<1> HIDE DEF after
<1>3. \A k \in 0..n : after[k] = IF k = 0 THEN h ELSE steps[k][after[k - 1]]
  BY <1>1, Zenon DEF IsAfter
<1> DEFINE S == {k \in Nat : k <= n => after[k] \in G[k]}
<1>4. 0 \in S
  BY <1>3
<1>5. ASSUME NEW k \in Nat, k \in S PROVE k + 1 \in S
  <2> SUFFICES ASSUME k + 1 <= n PROVE after[k + 1] \in G[k + 1]
    OBVIOUS
  <2>1. k + 1 \in 0..n /\ k + 1 \in 1..n /\ k + 1 # 0 /\ (k + 1) - 1 = k /\ k <= n
    OBVIOUS
  <2>2. after[k + 1] = steps[k + 1][after[k]]
    BY <1>3, <2>1
  <2>3. after[k] \in G[k]
    BY <1>5, <2>1
  <2>4. QED BY <2>1, <2>2, <2>3
<1> HIDE DEF S
<1>6. n \in S
  BY <1>4, <1>5, AllNumbers
<1>7. QED BY <1>2, <1>6 DEF S

-----------------------------------------------------------------------------
(* Release, level by level *)

IsReleased(m, f) ==
  f = [n \in 0..m |-> [v \in Numbers |-> [h \in Heaps |->
         ReleaseBy(IF n = 0 THEN [w \in Numbers |-> NoStep] ELSE f[n - 1], h, v)]]]
ReleasedFrom(release) == [v \in Numbers |-> [h \in Heaps |-> ReleaseBy(release, h, v)]]
LEMMA ReleasedExists ==
  ASSUME NEW m \in Nat
  PROVE  \E f : IsReleased(m, f)
<1> DEFINE None == [w \in Numbers |-> NoStep]
           S == {n \in Nat : \E f : IsReleased(n, f)}
<1>1. 0 \in S
  <2>1. IsReleased(0, [n \in 0..0 |-> ReleasedFrom(None)])
    BY DEF IsReleased, ReleasedFrom
  <2>2. QED BY <2>1
<1>2. ASSUME NEW n \in Nat, n \in S PROVE n + 1 \in S
  <2>1. PICK g : IsReleased(n, g)
    BY <1>2
  <2> DEFINE f == [k \in 0..(n + 1) |-> ReleasedFrom(IF k = 0 THEN None ELSE g[k - 1])]
  <2>2. \A k \in 0..n : k \in 0..(n + 1) /\ g[k] = ReleasedFrom(IF k = 0 THEN None ELSE g[k - 1])
    <3>1. \A k \in 0..n : k \in 0..(n + 1)
      BY <1>2
    <3>2. \A k \in 0..n : g[k] = ReleasedFrom(IF k = 0 THEN None ELSE g[k - 1])
      BY <2>1, Zenon DEF IsReleased, ReleasedFrom
    <3>3. QED BY <3>1, <3>2
  <2>3. \A k \in 0..n : f[k] = g[k]
    BY <2>2, Zenon
  <2>4. \A k \in 0..(n + 1) : k # 0 => k - 1 \in 0..n
    BY <1>2
  <2>5. \A k \in 0..(n + 1) : k # 0 => f[k - 1] = g[k - 1]
    BY <2>3, <2>4, Zenon
  <2>6. f = [k \in 0..(n + 1) |-> ReleasedFrom(IF k = 0 THEN None ELSE f[k - 1])]
    <3> DEFINE e == f
    <3>1. \A k \in 0..(n + 1) : k # 0 => e[k - 1] = g[k - 1]
      BY <2>5
    <3> HIDE DEF e
    <3>2. \A k \in 0..(n + 1) : (IF k = 0 THEN None ELSE e[k - 1]) = (IF k = 0 THEN None ELSE g[k - 1])
      BY <3>1, Zenon
    <3>3. [k \in 0..(n + 1) |-> ReleasedFrom(IF k = 0 THEN None ELSE e[k - 1])] = f
      BY <3>2, Zenon
    <3>4. QED BY <3>3 DEF e
  <2>7. IsReleased(n + 1, f)
    BY <2>6, Zenon DEF IsReleased, ReleasedFrom
  <2>8. QED BY <2>7
<1> HIDE DEF S
<1>3. m \in S
  BY <1>1, <1>2, AllNumbers
<1>4. QED BY <1>3 DEF S

LEMMA ReleasedIs ==
  ASSUME NEW n \in 0..MaxContents
  PROVE  Released[n] = ReleasedFrom(IF n = 0 THEN [w \in Numbers |-> NoStep] ELSE Released[n - 1])
<1>1. MaxContents \in Nat
  BY AggregatesAssumption
<1> DEFINE g == CHOOSE f : IsReleased(MaxContents, f)
<1>2. IsReleased(MaxContents, g)
  BY <1>1, ReleasedExists, Zenon
<1>3. Released = g
  BY Zenon DEF Released, IsReleased
<1> HIDE DEF g
<1>4. Released = [k \in 0..MaxContents |->
                    ReleasedFrom(IF k = 0 THEN [w \in Numbers |-> NoStep] ELSE Released[k - 1])]
  BY <1>2, <1>3, Zenon DEF IsReleased, ReleasedFrom
<1>5. QED BY <1>4, Zenon

-----------------------------------------------------------------------------
(* Places *)

Spots == {Place(d, k) : d \in Numbers, k \in Slots}

\* The elements that are handles on what they hold: those of a set Q do not count,
\* as they have been released, or their content is about to go.
Live(h, Q) == {p \in Spots \ Q : p.at \in DOMAIN Content(h, p.content)}
Held(h, c, Q) == {p \in Live(h, Q) : ValueAt(h, p) = c}

LEMMA SlotsAre ==
  /\ Variables \in Nat \ {0} /\ MaxContents \in Nat /\ MaxElements \in Nat \ {0}
  /\ Keys \subseteq Slots /\ 1..Variables \subseteq Slots
  /\ IsFiniteSet(Slots) /\ IsFiniteSet(Numbers)
  /\ Frame \in Numbers /\ Scalar \in Numbers /\ Numbers = {0} \cup 1..MaxContents
  /\ 1..MaxContents \subseteq Numbers /\ \A c \in Numbers : c # 0 => c \in 1..MaxContents
  /\ Len([k \in Slots |-> 0]) \in Nat
<1>1. Variables \in Nat \ {0} /\ MaxContents \in Nat /\ MaxElements \in Nat \ {0}
  BY AggregatesAssumption
<1>2. (IF Variables > MaxElements THEN Variables ELSE MaxElements) \in Nat
  BY <1>1
<1>3. IsFiniteSet(Slots) /\ IsFiniteSet(Numbers)
  BY <1>1, <1>2, FS_Interval DEF Slots, Numbers
<1>4. Keys \subseteq Slots /\ 1..Variables \subseteq Slots
  BY <1>1 DEF Keys, Slots
<1>5. Numbers = {0} \cup 1..MaxContents
  BY <1>1 DEF Numbers
<1>6. Len([k \in Slots |-> 0]) \in Nat
  BY <1>2 DEF Slots
<1>7. QED BY <1>1, <1>3, <1>4, <1>5, <1>6 DEF Frame, Scalar

LEMMA SpotsAre ==
  /\ \A p \in Spots : p.content \in Numbers /\ p.at \in Slots /\ p = Place(p.content, p.at)
  /\ \A d \in Numbers, k \in Slots : Place(d, k) \in Spots
  /\ \A d, e, k, l : Place(d, k) = Place(e, l) <=> d = e /\ k = l
  /\ \A d, k : Place(d, k).content = d /\ Place(d, k).at = k
BY DEF Spots, Place

LEMMA SpotsFinite == IsFiniteSet(Spots)
<1> DEFINE f == [x \in Numbers \X Slots |-> Place(x[1], x[2])]
<1>1. IsFiniteSet(Numbers \X Slots)
  BY SlotsAre, FS_Product
<1>2. f \in Surjection(Numbers \X Slots, Spots)
  <2>1. f \in [Numbers \X Slots -> Spots]
    BY SpotsAre
  <2>2. \A p \in Spots : \E x \in Numbers \X Slots : f[x] = p
    <3> TAKE p \in Spots
    <3>1. <<p.content, p.at>> \in Numbers \X Slots /\ f[<<p.content, p.at>>] = p
      BY SpotsAre
    <3>2. QED BY <3>1
  <2>3. QED BY <2>1, <2>2 DEF Surjection
<1>3. QED BY <1>1, <1>2, FS_Surjection

LEMMA CountsAre ==
  ASSUME NEW h, NEW Q
  PROVE  /\ IsFiniteSet(Live(h, Q)) /\ Cardinality(Live(h, Q)) \in Nat
         /\ \A c : IsFiniteSet(Held(h, c, Q)) /\ Cardinality(Held(h, c, Q)) \in Nat
<1>1. Live(h, Q) \subseteq Spots /\ \A c : Held(h, c, Q) \subseteq Spots
  BY DEF Live, Held
<1>2. \A T \in SUBSET Spots : IsFiniteSet(T) /\ Cardinality(T) \in Nat
  BY SpotsFinite, FS_Subset, FS_CardinalityType
<1>3. QED BY <1>1, <1>2

-----------------------------------------------------------------------------
(* The balance of a heap *)

\* What elements and handles look like, whoever has them.
Shape(h) ==
  /\ h \in Heaps /\ h.live \in Nat
  /\ h.contents[Frame].uses = 1 /\ Content(h, Frame) \in [1..Variables -> Numbers]
  /\ \A c \in 1..MaxContents :
       /\ h.contents[c].uses \in Nat
       /\ h.contents[c].uses = 0 => h.contents[c] = Free
       /\ DOMAIN Content(h, c) \subseteq Keys
       /\ h.contents[c].kind = "array" => Content(h, c) \in Seq(Numbers)

\* Beside the elements that count, x[c] handles on c are on their way: operands,
\* temporaries, and the one that holds a content while it is emptied.  n values
\* are on their way in all.
Balanced(h, Q, x, n) ==
  /\ Shape(h) /\ Q \subseteq Spots /\ x \in [Numbers -> Nat] /\ n \in Nat
  /\ \A c \in 1..MaxContents : h.contents[c].uses = Cardinality(Held(h, c, Q)) + x[c]
  /\ h.live = Cardinality(Live(h, Q)) + n

More(x, v) == [x EXCEPT ![v] = @ + 1]
Less(x, v) == [x EXCEPT ![v] = @ - 1]
Nobody == [c \in Numbers |-> 0]

\* A content that is still there has the elements it had.
Same(h, g, c) == Content(g, c) = Content(h, c) /\ g.contents[c].kind = h.contents[c].kind

LEMMA HeapFields ==
  ASSUME NEW h \in Heaps
  PROVE  /\ h = [contents |-> h.contents, live |-> h.live, twice |-> h.twice]
         /\ h.contents \in [Numbers -> Contents] /\ h.live \in Int /\ h.twice \in BOOLEAN
         /\ \A c \in Numbers : /\ h.contents[c] \in Contents
                               /\ Content(h, c) \in Elements /\ h.contents[c].uses \in Int
                               /\ h.contents[c].kind \in {"free", "frame", "array", "object"}
BY DEF Heaps, Contents, Content

LEMMA ElementsAre ==
  /\ \A e \in Elements : DOMAIN e \subseteq Slots /\ \A k \in DOMAIN e : e[k] \in Numbers
  /\ \A e, D : D \subseteq Slots /\ e \in [D -> Numbers] => e \in Elements
BY DEF Elements

LEMMA FreeIs ==
  /\ Free \in Contents /\ Free.uses = 0 /\ Free.kind = "free" /\ DOMAIN Free.elements = {}
<1>1. <<>> \in [{} -> Numbers]
  OBVIOUS
<1>2. <<>> \in Elements
  BY <1>1, ElementsAre
<1>3. QED BY <1>1, <1>2 DEF Free, Contents

LEMMA LiveIs ==
  ASSUME NEW h \in Heaps, NEW Q, NEW p \in Live(h, Q)
  PROVE  /\ p \in Spots /\ p \notin Q /\ p.content \in Numbers /\ p.at \in DOMAIN Content(h, p.content)
         /\ ValueAt(h, p) \in Numbers
<1>1. p \in Spots /\ p \notin Q /\ p.at \in DOMAIN Content(h, p.content)
  BY DEF Live
<1>2. QED BY <1>1, SpotsAre, HeapFields, ElementsAre DEF ValueAt

LEMMA MoreIs ==
  ASSUME NEW x \in [Numbers -> Nat], NEW v \in Numbers
  PROVE  /\ More(x, v) \in [Numbers -> Nat]
         /\ \A c \in Numbers : More(x, v)[c] = x[c] + (IF c = v THEN 1 ELSE 0)
BY DEF More

LEMMA LessIs ==
  ASSUME NEW x \in [Numbers -> Nat], NEW v \in Numbers, x[v] >= 1
  PROVE  /\ Less(x, v) \in [Numbers -> Nat]
         /\ \A c \in Numbers : Less(x, v)[c] = x[c] - (IF c = v THEN 1 ELSE 0)
         /\ More(Less(x, v), v) = x
<1>1. Less(x, v) \in [Numbers -> Nat] /\ \A c \in Numbers : Less(x, v)[c] = x[c] - (IF c = v THEN 1 ELSE 0)
  BY DEF Less
<1>2. More(Less(x, v), v) \in [Numbers -> Nat] /\ \A c \in Numbers : More(Less(x, v), v)[c] = x[c]
  BY <1>1, MoreIs
<1>3. QED BY <1>1, <1>2

LEMMA LessOfMore ==
  ASSUME NEW x \in [Numbers -> Nat], NEW v \in Numbers
  PROVE  Less(More(x, v), v) = x /\ More(x, v)[v] >= 1
<1>1. More(x, v) \in [Numbers -> Nat] /\ More(x, v)[v] >= 1
      /\ \A c \in Numbers : More(x, v)[c] = x[c] + (IF c = v THEN 1 ELSE 0)
  BY MoreIs
<1>2. Less(More(x, v), v) \in [Numbers -> Nat] /\ \A c \in Numbers : Less(More(x, v), v)[c] = x[c]
  BY <1>1, LessIs
<1>3. QED BY <1>1, <1>2

LEMMA CopyFields ==
  ASSUME NEW h \in Heaps, NEW v \in Numbers
  PROVE  /\ Copy(h, v) \in Heaps /\ Copy(h, v).live = h.live + 1 /\ Copy(h, v).twice = h.twice
         /\ \A c \in Numbers : /\ Same(h, Copy(h, v), c)
                               /\ Copy(h, v).contents[c].uses =
                                    h.contents[c].uses + (IF c = v /\ v # 0 THEN 1 ELSE 0)
<1>1. CASE v = 0
  <2>1. Copy(h, v) = [h EXCEPT !.live = @ + 1]
    BY <1>1 DEF Copy, Scalar
  <2>2. QED BY <1>1, <2>1, HeapFields DEF Heaps, Same, Content
<1>2. CASE v # 0
  <2> DEFINE r == [h.contents[v] EXCEPT !.uses = @ + 1]
             f == [h.contents EXCEPT ![v] = r]
  <2>1. Copy(h, v) = [contents |-> f, live |-> h.live + 1, twice |-> h.twice]
    BY <1>2, HeapFields DEF Copy, Scalar, Heaps
  <2>2. /\ r \in Contents /\ r.uses = h.contents[v].uses + 1
        /\ r.kind = h.contents[v].kind /\ r.elements = h.contents[v].elements
    BY HeapFields DEF Contents
  <2>3. f \in [Numbers -> Contents] /\ \A c \in Numbers : f[c] = IF c = v THEN r ELSE h.contents[c]
    BY <2>2, HeapFields
  <2> HIDE DEF f, r
  <2>4. QED BY <1>2, <2>1, <2>2, <2>3, HeapFields DEF Heaps, Same, Content
<1>3. QED BY <1>1, <1>2

\* Heaps with the same elements have the same places.
LEMMA SameLive ==
  ASSUME NEW h, NEW g, NEW Q, \A c \in Numbers : Content(g, c) = Content(h, c)
  PROVE  Live(g, Q) = Live(h, Q) /\ \A c : Held(g, c, Q) = Held(h, c, Q)
<1>1. \A p \in Spots : Content(g, p.content) = Content(h, p.content)
  BY SpotsAre
<1>2. Live(g, Q) = Live(h, Q)
  BY <1>1 DEF Live
<1>3. \A p \in Live(h, Q) : ValueAt(g, p) = ValueAt(h, p)
  BY <1>1 DEF Live, ValueAt
<1>4. QED BY <1>2, <1>3 DEF Held

LEMMA CopyBalanced ==
  ASSUME NEW h, NEW Q, NEW x, NEW n, Balanced(h, Q, x, n), NEW v \in Numbers
  PROVE  /\ Balanced(Copy(h, v), Q, More(x, v), n + 1)
         /\ Copy(h, v).twice = h.twice
         /\ \A c \in Numbers : Same(h, Copy(h, v), c)
         /\ v = 0 \/ Exists(h, v) => \A c \in Numbers : Exists(Copy(h, v), c) <=> Exists(h, c)
<1> DEFINE g == Copy(h, v)
<1>1. Shape(h) /\ Q \subseteq Spots /\ x \in [Numbers -> Nat] /\ n \in Nat /\ h \in Heaps
  BY DEF Balanced, Shape
<1>2. /\ g \in Heaps /\ g.live = h.live + 1 /\ g.twice = h.twice
      /\ \A c \in Numbers : /\ Same(h, g, c)
                            /\ g.contents[c].uses = h.contents[c].uses + (IF c = v /\ v # 0 THEN 1 ELSE 0)
  BY <1>1, CopyFields
<1> HIDE DEF g
<1>3. Live(g, Q) = Live(h, Q) /\ \A c : Held(g, c, Q) = Held(h, c, Q)
  BY <1>2, SameLive DEF Same
<1>4. More(x, v) \in [Numbers -> Nat] /\ \A c \in Numbers : More(x, v)[c] = x[c] + (IF c = v THEN 1 ELSE 0)
  BY <1>1 DEF More
<1>5. Shape(g)
  <2>1. g.contents[Frame].uses = 1 /\ Content(g, Frame) \in [1..Variables -> Numbers]
    BY <1>1, <1>2, SlotsAre DEF Shape, Same, Frame
  <2>2. ASSUME NEW c \in 1..MaxContents
        PROVE  /\ g.contents[c].uses \in Nat
               /\ g.contents[c].uses = 0 => g.contents[c] = Free
               /\ DOMAIN Content(g, c) \subseteq Keys
               /\ g.contents[c].kind = "array" => Content(g, c) \in Seq(Numbers)
    <3>1. /\ c \in Numbers /\ Same(h, g, c) /\ h.contents[c].uses \in Nat
          /\ g.contents[c].uses = h.contents[c].uses + (IF c = v /\ v # 0 THEN 1 ELSE 0)
          /\ h.contents[c].uses = 0 => h.contents[c] = Free
          /\ h.contents[c] \in Contents /\ g.contents[c] \in Contents
          /\ DOMAIN Content(h, c) \subseteq Keys
          /\ h.contents[c].kind = "array" => Content(h, c) \in Seq(Numbers)
      BY <1>1, <1>2, SlotsAre, HeapFields DEF Shape
    <3>2. g.contents[c].uses = 0 => g.contents[c] = h.contents[c]
      BY <3>1 DEF Same, Content, Contents
    <3>3. QED BY <3>1, <3>2 DEF Same
  <2>3. QED BY <1>1, <1>2, <2>1, <2>2 DEF Shape
<1>6. \A c \in 1..MaxContents : g.contents[c].uses = Cardinality(Held(g, c, Q)) + More(x, v)[c]
  <2> TAKE c \in 1..MaxContents
  <2>1. c \in Numbers /\ c # 0 /\ h.contents[c].uses = Cardinality(Held(h, c, Q)) + x[c]
    BY SlotsAre DEF Balanced
  <2>2. x[c] \in Nat /\ Cardinality(Held(h, c, Q)) \in Nat
    BY <1>1, <2>1, CountsAre
  <2>3. QED BY <1>2, <1>3, <1>4, <2>1, <2>2
<1>7. g.live = Cardinality(Live(g, Q)) + (n + 1)
  BY <1>1, <1>2, <1>3, CountsAre DEF Balanced
<1>8. v = 0 \/ Exists(h, v) => \A c \in Numbers : Exists(g, c) <=> Exists(h, c)
  <2>1. \A c \in Numbers : h.contents[c].uses \in Int
    BY <1>1, HeapFields
  <2>2. QED BY <1>2, <2>1 DEF Exists
<1>9. n + 1 \in Nat
  BY <1>1
<1>10. QED BY <1>1, <1>2, <1>4, <1>5, <1>6, <1>7, <1>8, <1>9 DEF Balanced, g

\* An element hands its value over: it is no longer the handle that counts.
LEMMA HandOver ==
  ASSUME NEW h, NEW Q, NEW x, NEW n, Balanced(h, Q, x, n), NEW p \in Live(h, Q)
  PROVE  Balanced(h, Q \cup {p}, More(x, ValueAt(h, p)), n + 1)
<1> DEFINE v == ValueAt(h, p)
           R == Q \cup {p}
<1>1. Shape(h) /\ Q \subseteq Spots /\ x \in [Numbers -> Nat] /\ n \in Nat /\ h \in Heaps
  BY DEF Balanced, Shape
<1>2. p \in Spots /\ p \notin Q /\ v \in Numbers
  BY <1>1, LiveIs
<1>3. Live(h, R) = Live(h, Q) \ {p}
  BY DEF Live
<1>4. \A c : Held(h, c, R) = Held(h, c, Q) \ {p}
  BY <1>3 DEF Held
<1>5. Cardinality(Live(h, R)) = Cardinality(Live(h, Q)) - 1
  BY <1>3, CountsAre, FS_RemoveElement
<1>6. \A c : Cardinality(Held(h, c, R)) = Cardinality(Held(h, c, Q)) - (IF c = v THEN 1 ELSE 0)
  <2> TAKE c
  <2>1. p \in Held(h, c, Q) <=> c = v
    BY DEF Held
  <2>2. Cardinality(Held(h, c, Q)) \in Nat /\ IsFiniteSet(Held(h, c, Q))
    BY CountsAre
  <2>3. Cardinality(Held(h, c, R)) = IF p \in Held(h, c, Q) THEN Cardinality(Held(h, c, Q)) - 1
                                     ELSE Cardinality(Held(h, c, Q))
    BY <1>4, <2>2, FS_RemoveElement
  <2>4. QED BY <2>1, <2>2, <2>3
<1>7. More(x, v) \in [Numbers -> Nat] /\ \A c \in Numbers : More(x, v)[c] = x[c] + (IF c = v THEN 1 ELSE 0)
  BY <1>1, <1>2, MoreIs
<1> HIDE DEF v, R
<1>8. \A c \in 1..MaxContents : h.contents[c].uses = Cardinality(Held(h, c, R)) + More(x, v)[c]
  <2> TAKE c \in 1..MaxContents
  <2>1. c \in Numbers /\ h.contents[c].uses = Cardinality(Held(h, c, Q)) + x[c]
    BY SlotsAre DEF Balanced
  <2>2. x[c] \in Nat /\ Cardinality(Held(h, c, Q)) \in Nat
    BY <1>1, <2>1, CountsAre
  <2>3. QED BY <1>6, <1>7, <2>1, <2>2
<1>9. h.live = Cardinality(Live(h, R)) + (n + 1)
  <2>1. h.live = Cardinality(Live(h, Q)) + n
    BY DEF Balanced
  <2>2. QED BY <1>1, <1>5, <2>1, CountsAre
<1>10. R \subseteq Spots /\ n + 1 \in Nat
  BY <1>1, <1>2 DEF R
<1>11. Balanced(h, R, More(x, v), n + 1)
  BY <1>1, <1>7, <1>8, <1>9, <1>10 DEF Balanced
<1>12. QED BY <1>11 DEF v, R

-----------------------------------------------------------------------------
(* Release *)

\* What a release leaves: the frame as it was, and of the contents, those that are
\* still there with their elements.
Shrinks(h, g) ==
  /\ g.twice = h.twice /\ g.contents[Frame] = h.contents[Frame]
  /\ \A c \in 1..MaxContents : /\ ~Exists(g, c) \/ Same(h, g, c)
                               /\ Exists(g, c) => Exists(h, c)

\* Contents that stay: a handle on each of them is on its way, or held by a variable
\* or by an element of another one.
Kept(h, Q, x, O) ==
  \A o \in O : \/ x[o] >= 1
               \/ \E p \in Live(h, Q) : p.content \in O \cup {Frame} /\ ValueAt(h, p) = o

\* A handle on v may be released: the elements that do not count are in contents that
\* stay without it.  And what its release does.
Ready(h, Q, x, n, v, O) ==
  /\ Balanced(h, Q, x, n) /\ v \in Numbers /\ x[v] >= 1 /\ n >= 1
  /\ O \subseteq 1..MaxContents /\ Kept(h, Q, Less(x, v), O)
  /\ \A q \in Q : q.content \in O \cup {Frame}
ReleasesOf(h, Q, x, n, v, O, g) ==
  /\ Balanced(g, Q, Less(x, v), n - 1) /\ Shrinks(h, g)
  /\ \A o \in O : Exists(g, o)

\* Steps that release values, if no more than m contents are emptied one inside of another.
Releases(release, m) ==
  \A h, Q, x, n, v, O :
    Ready(h, Q, x, n, v, O) /\ Cardinality((1..MaxContents) \ O) <= m =>
      ReleasesOf(h, Q, x, n, v, O, release[v][h])

\* What is known of a handle that may be released.
LEMMA ReadyIs ==
  ASSUME NEW h, NEW Q, NEW x, NEW n, NEW v, NEW O, Ready(h, Q, x, n, v, O)
  PROVE  /\ Balanced(h, Q, x, n) /\ Shape(h) /\ h \in Heaps /\ Q \subseteq Spots
         /\ x \in [Numbers -> Nat] /\ n \in Nat /\ n >= 1 /\ x[v] >= 1
         /\ O \subseteq 1..MaxContents /\ v \in Numbers
         /\ Kept(h, Q, Less(x, v), O) /\ (\A q \in Q : q.content \in O \cup {Frame})
         /\ h.live = Cardinality(Live(h, Q)) + n
         /\ \A c \in 1..MaxContents : h.contents[c].uses = Cardinality(Held(h, c, Q)) + x[c]
<1>1. /\ Balanced(h, Q, x, n) /\ n >= 1 /\ x[v] >= 1 /\ O \subseteq 1..MaxContents /\ v \in Numbers
      /\ Kept(h, Q, Less(x, v), O) /\ \A q \in Q : q.content \in O \cup {Frame}
  BY Zenon DEF Ready
<1>2. /\ Shape(h) /\ Q \subseteq Spots /\ x \in [Numbers -> Nat] /\ n \in Nat
      /\ h.live = Cardinality(Live(h, Q)) + n
      /\ \A c \in 1..MaxContents : h.contents[c].uses = Cardinality(Held(h, c, Q)) + x[c]
  BY <1>1, Zenon DEF Balanced
<1>3. h \in Heaps
  BY <1>2, Zenon DEF Shape
<1>4. QED BY <1>1, <1>2, <1>3, Zenon

\* Contents that stay are there.
LEMMA KeptExist ==
  ASSUME NEW h, NEW Q, NEW x, NEW n, NEW v, NEW O, Ready(h, Q, x, n, v, O), NEW o \in O
  PROVE  /\ Exists(h, o) /\ h.contents[o].uses \in Nat /\ Less(x, v)[o] <= x[o]
         /\ o = v => h.contents[o].uses >= 2
<1>1. /\ Shape(h) /\ x \in [Numbers -> Nat] /\ v \in Numbers /\ x[v] >= 1
      /\ o \in 1..MaxContents /\ o \in Numbers /\ O \subseteq Numbers
      /\ h.contents[o].uses = Cardinality(Held(h, o, Q)) + x[o]
  BY SlotsAre DEF Ready, Balanced
<1>2. /\ Less(x, v) \in [Numbers -> Nat]
      /\ Less(x, v)[o] = x[o] - (IF o = v THEN 1 ELSE 0)
  BY <1>1, LessIs
<1>3. Cardinality(Held(h, o, Q)) \in Nat /\ IsFiniteSet(Held(h, o, Q))
  BY CountsAre
<1>4. CASE Less(x, v)[o] >= 1
  BY <1>1, <1>2, <1>3, <1>4 DEF Exists
<1>5. CASE \E p \in Live(h, Q) : ValueAt(h, p) = o
  <2>1. Held(h, o, Q) # {}
    BY <1>5 DEF Held
  <2>2. Cardinality(Held(h, o, Q)) >= 1
    BY <1>3, <2>1, FS_EmptySet
  <2>3. QED BY <1>1, <1>2, <1>3, <2>2 DEF Exists
<1>6. QED BY <1>4, <1>5 DEF Ready, Kept

LEMMA ShrinksAgain ==
  ASSUME NEW h \in Heaps, NEW g \in Heaps, NEW f \in Heaps, Shrinks(h, g), Shrinks(g, f)
  PROVE  Shrinks(h, f)
BY DEF Shrinks, Same

LEMMA ShrinksNot == \A h : Shrinks(h, h)
BY DEF Shrinks, Same

\* What is left of a heap has no other places than before.
LEMMA ShrunkLive ==
  ASSUME NEW h, NEW g, NEW Q, Shape(h), Shape(g), Shrinks(h, g)
  PROVE  /\ \A p \in Live(g, Q) : p \in Live(h, Q) /\ ValueAt(g, p) = ValueAt(h, p)
         /\ \A c : Held(g, c, Q) \subseteq Held(h, c, Q)
<1>1. ASSUME NEW p \in Live(g, Q)
      PROVE  p \in Live(h, Q) /\ ValueAt(g, p) = ValueAt(h, p)
  <2>1. p \in Spots \ Q /\ p.at \in DOMAIN Content(g, p.content) /\ p.content \in Numbers
    BY SpotsAre DEF Live
  <2>2. CASE p.content = 0
    BY <2>1, <2>2 DEF Shrinks, Live, ValueAt, Content, Frame
  <2>3. CASE p.content # 0
    <3>1. p.content \in 1..MaxContents
      BY <2>1, <2>3, SlotsAre
    <3>2. Content(g, p.content) # Free.elements
      BY <2>1, FreeIs
    <3>3. g.contents[p.content].uses # 0 /\ g.contents[p.content].uses \in Nat
      BY <3>1, <3>2 DEF Shape, Content
    <3>4. Same(h, g, p.content)
      BY <3>1, <3>3 DEF Shrinks, Exists
    <3>5. QED BY <2>1, <3>4 DEF Live, ValueAt, Same
  <2>4. QED BY <2>2, <2>3
<1>2. QED BY <1>1 DEF Held

\* The handle is not the last one, or there is none.
LEMMA ReleaseScalar ==
  ASSUME NEW h, NEW Q, NEW x, NEW n, NEW O, Ready(h, Q, x, n, 0, O),
         NEW g, g = [h EXCEPT !.live = @ - 1]
  PROVE  ReleasesOf(h, Q, x, n, 0, O, g)
<1>1. /\ Shape(h) /\ Q \subseteq Spots /\ x \in [Numbers -> Nat] /\ n \in Nat /\ h \in Heaps
      /\ h.live = Cardinality(Live(h, Q)) + n /\ x[0] >= 1 /\ n >= 1
      /\ \A c \in 1..MaxContents : h.contents[c].uses = Cardinality(Held(h, c, Q)) + x[c]
  BY ReadyIs
<1>2. g.contents = h.contents /\ g.twice = h.twice /\ g.live = h.live - 1 /\ g \in Heaps
  BY <1>1 DEF Heaps
<1>3. Live(g, Q) = Live(h, Q) /\ \A c : Held(g, c, Q) = Held(h, c, Q)
  <2>1. \A c \in Numbers : Content(g, c) = Content(h, c)
    BY <1>2 DEF Content
  <2>2. QED BY <2>1, SameLive
<1>4. g.live = Cardinality(Live(h, Q)) + (n - 1) /\ g.live \in Nat
  BY <1>1, <1>2, CountsAre
<1>5. Shape(g)
  BY <1>1, <1>2, <1>4 DEF Shape, Content
<1>6. 0 \in Numbers
  BY SlotsAre
<1>7. Less(x, 0) \in [Numbers -> Nat] /\ \A c \in 1..MaxContents : Less(x, 0)[c] = x[c]
  <2>1. \A c \in 1..MaxContents : c \in Numbers /\ c # 0
    BY SlotsAre
  <2>2. /\ Less(x, 0) \in [Numbers -> Nat]
        /\ \A c \in Numbers : Less(x, 0)[c] = x[c] - (IF c = 0 THEN 1 ELSE 0)
    BY <1>1, <1>6, LessIs
  <2>3. QED BY <1>1, <2>1, <2>2
<1>8. Balanced(g, Q, Less(x, 0), n - 1)
  BY <1>1, <1>2, <1>3, <1>4, <1>5, <1>7 DEF Balanced
<1>9. Shrinks(h, g)
  BY <1>2 DEF Shrinks, Exists, Same, Content
<1>10. \A o \in O : Exists(g, o)
  BY <1>2, KeptExist DEF Exists
<1>11. QED BY <1>8, <1>9, <1>10 DEF ReleasesOf

\* The heap with another content, and another number of values out of their pools.
Change(h, v, r, n) == [contents |-> [h.contents EXCEPT ![v] = r], live |-> n, twice |-> h.twice]

Changed(h, g, v, r, n) ==
  /\ g \in Heaps /\ g.live = n /\ g.twice = h.twice
  /\ \A c \in Numbers : g.contents[c] = IF c = v THEN r ELSE h.contents[c]

LEMMA ChangeIs ==
  ASSUME NEW h \in Heaps, NEW v \in Numbers, NEW r \in Contents, NEW n \in Int
  PROVE  Changed(h, Change(h, v, r, n), v, r, n)
<1> DEFINE g == Change(h, v, r, n)
           f == [h.contents EXCEPT ![v] = r]
<1>1. g = [contents |-> f, live |-> n, twice |-> h.twice]
  BY Zenon DEF Change
<1>2. f \in [Numbers -> Contents] /\ \A c \in Numbers : f[c] = IF c = v THEN r ELSE h.contents[c]
  BY HeapFields
<1>3. h.twice \in BOOLEAN
  BY HeapFields
<1> HIDE DEF f, g
<1>4. Changed(h, g, v, r, n)
  BY <1>1, <1>2, <1>3 DEF Heaps, Changed
<1>5. QED BY <1>4 DEF g

LEMMA RecordUpdates ==
  ASSUME NEW h, NEW c, NEW l, NEW t, h = [contents |-> c, live |-> l, twice |-> t], NEW m, NEW d
  PROVE  /\ [h EXCEPT !.live = m].contents = c
         /\ [[h EXCEPT !.live = m] EXCEPT !.contents = d] = [contents |-> d, live |-> m, twice |-> t]
         /\ [h EXCEPT !.contents = d] = [contents |-> d, live |-> l, twice |-> t]
<1>1. [h EXCEPT !.live = m] = [contents |-> c, live |-> m, twice |-> t]
  OBVIOUS
<1>2. [h EXCEPT !.contents = d] = [contents |-> d, live |-> l, twice |-> t]
  OBVIOUS
<1>3. [[contents |-> c, live |-> m, twice |-> t] EXCEPT !.contents = d]
        = [contents |-> d, live |-> m, twice |-> t]
  OBVIOUS
<1>4. [contents |-> c, live |-> m, twice |-> t].contents = c
  OBVIOUS
<1>5. QED BY <1>1, <1>2, <1>3, <1>4, Zenon

\* The forms in which statements write it.
LEMMA ChangesAre ==
  ASSUME NEW h \in Heaps, NEW v \in Numbers
  PROVE  /\ \A r : [h EXCEPT !.live = @ - 1, !.contents[v] = r] = Change(h, v, r, h.live - 1)
         /\ \A r : [h EXCEPT !.live = @ + 1, !.contents[v] = r] = Change(h, v, r, h.live + 1)
         /\ [h EXCEPT !.live = @ - 1, !.contents[v].uses = @ - 1]
              = Change(h, v, [h.contents[v] EXCEPT !.uses = @ - 1], h.live - 1)
         /\ \A e : [h EXCEPT !.contents[v].elements = e]
              = Change(h, v, [h.contents[v] EXCEPT !.elements = e], h.live)
<1>0. h = [contents |-> h.contents, live |-> h.live, twice |-> h.twice]
  BY HeapFields
<1>1. \A m, d : /\ [h EXCEPT !.live = m].contents = h.contents
                /\ [[h EXCEPT !.live = m] EXCEPT !.contents = d]
                     = [contents |-> d, live |-> m, twice |-> h.twice]
                /\ [h EXCEPT !.contents = d] = [contents |-> d, live |-> h.live, twice |-> h.twice]
  BY <1>0, RecordUpdates
<1>2. \A r : [h EXCEPT !.live = @ - 1, !.contents[v] = r] = Change(h, v, r, h.live - 1)
  <2> TAKE r
  <2> DEFINE d == [h.contents EXCEPT ![v] = r]
             m == h.live - 1
  <2>1. /\ [h EXCEPT !.live = m].contents = h.contents
        /\ [[h EXCEPT !.live = m] EXCEPT !.contents = d]
             = [contents |-> d, live |-> m, twice |-> h.twice]
    BY <1>1, Zenon
  <2>2. QED BY <2>1, Zenon DEF Change
<1>3. \A r : [h EXCEPT !.live = @ + 1, !.contents[v] = r] = Change(h, v, r, h.live + 1)
  <2> TAKE r
  <2> DEFINE d == [h.contents EXCEPT ![v] = r]
             m == h.live + 1
  <2>1. /\ [h EXCEPT !.live = m].contents = h.contents
        /\ [[h EXCEPT !.live = m] EXCEPT !.contents = d]
             = [contents |-> d, live |-> m, twice |-> h.twice]
    BY <1>1, Zenon
  <2>2. QED BY <2>1, Zenon DEF Change
<1>4. [h EXCEPT !.live = @ - 1, !.contents[v].uses = @ - 1]
        = Change(h, v, [h.contents[v] EXCEPT !.uses = @ - 1], h.live - 1)
  BY <1>1, ZenonT(60) DEF Change
<1>5. \A e : [h EXCEPT !.contents[v].elements = e]
               = Change(h, v, [h.contents[v] EXCEPT !.elements = e], h.live)
  BY <1>1, Zenon DEF Change
<1>6. QED BY <1>2, <1>3, <1>4, <1>5

LEMMA ReleaseOneOfMany ==
  ASSUME NEW h, NEW Q, NEW x, NEW n, NEW v \in 1..MaxContents, NEW O,
         Ready(h, Q, x, n, v, O), h.contents[v].uses # 1, NEW r \in Contents, r.uses = h.contents[v].uses - 1,
         r.kind = h.contents[v].kind, r.elements = h.contents[v].elements,
         NEW g, Changed(h, g, v, r, h.live - 1)
  PROVE  ReleasesOf(h, Q, x, n, v, O, g)
<1>. g \in Heaps /\ g.live = h.live - 1 /\ g.twice = h.twice
     /\ \A c \in Numbers : g.contents[c] = IF c = v THEN r ELSE h.contents[c]
  BY DEF Changed
<1>1. /\ Shape(h) /\ Q \subseteq Spots /\ x \in [Numbers -> Nat] /\ n \in Nat /\ h \in Heaps
      /\ h.live = Cardinality(Live(h, Q)) + n /\ x[v] >= 1 /\ n >= 1
      /\ \A c \in 1..MaxContents : h.contents[c].uses = Cardinality(Held(h, c, Q)) + x[c]
  BY ReadyIs
<1>0. v \in Numbers /\ v # 0
  BY SlotsAre
<1>6. \A c \in Numbers : Same(h, g, c) /\ g.contents[c].uses = h.contents[c].uses - (IF c = v THEN 1 ELSE 0)
  <2> TAKE c \in Numbers
  <2>1. h.contents[c].uses \in Int
    BY <1>1, HeapFields
  <2>2. CASE c = v
    BY <2>1, <2>2 DEF Same, Content
  <2>3. CASE c # v
    BY <2>1, <2>3 DEF Same, Content
  <2>4. QED BY <2>2, <2>3
<1>7. Live(g, Q) = Live(h, Q) /\ \A c : Held(g, c, Q) = Held(h, c, Q)
  <2>1. \A c \in Numbers : Content(g, c) = Content(h, c)
    BY <1>6 DEF Same
  <2>2. QED BY <2>1, SameLive
<1>8. g.live = Cardinality(Live(h, Q)) + (n - 1) /\ g.live \in Nat
  BY <1>1, CountsAre
<1>9. h.contents[v].uses \in Nat /\ h.contents[v].uses >= 2
  <2>1. /\ h.contents[v].uses = Cardinality(Held(h, v, Q)) + x[v] /\ x[v] \in Nat /\ x[v] >= 1
        /\ h.contents[v].uses \in Int
    BY <1>0, <1>1, HeapFields
  <2>2. Cardinality(Held(h, v, Q)) \in Nat
    BY CountsAre
  <2>3. QED BY <2>1, <2>2
<1>10. Shape(g)
  <2>1. g.contents[Frame].uses = 1 /\ Content(g, Frame) \in [1..Variables -> Numbers]
    BY <1>0, <1>1, SlotsAre DEF Shape, Content, Frame
  <2>2. ASSUME NEW c \in 1..MaxContents
        PROVE  /\ g.contents[c].uses \in Nat
               /\ g.contents[c].uses = 0 => g.contents[c] = Free
               /\ DOMAIN Content(g, c) \subseteq Keys
               /\ g.contents[c].kind = "array" => Content(g, c) \in Seq(Numbers)
    <3>1. CASE c = v
      <4>1. g.contents[c] = r /\ g.contents[c].uses \in Nat /\ g.contents[c].uses # 0
        BY <1>0, <1>9, <3>1
      <4>2. /\ DOMAIN Content(h, c) \subseteq Keys
            /\ h.contents[c].kind = "array" => Content(h, c) \in Seq(Numbers)
        BY <1>1 DEF Shape
      <4>3. QED BY <3>1, <4>1, <4>2 DEF Content
    <3>2. CASE c # v
      <4>1. g.contents[c] = h.contents[c]
        BY <3>2, SlotsAre
      <4>2. QED BY <1>1, <4>1 DEF Shape, Content
    <3>3. QED BY <3>1, <3>2
  <2>3. QED BY <1>8, <2>1, <2>2 DEF Shape
<1>11. Less(x, v) \in [Numbers -> Nat] /\ \A c \in Numbers : Less(x, v)[c] = x[c] - (IF c = v THEN 1 ELSE 0)
  BY <1>0, <1>1, LessIs
<1>12. \A c \in 1..MaxContents : g.contents[c].uses = Cardinality(Held(g, c, Q)) + Less(x, v)[c]
  <2> TAKE c \in 1..MaxContents
  <2>1. c \in Numbers /\ x[c] \in Nat /\ Cardinality(Held(h, c, Q)) \in Nat
    BY <1>1, SlotsAre, CountsAre
  <2>2. QED BY <1>1, <1>6, <1>7, <1>11, <2>1
<1>13. Balanced(g, Q, Less(x, v), n - 1)
  BY <1>1, <1>7, <1>8, <1>10, <1>11, <1>12 DEF Balanced
<1>14. Shrinks(h, g)
  <2>1. g.contents[Frame] = h.contents[Frame]
    BY <1>0, SlotsAre DEF Frame
  <2>2. \A c \in 1..MaxContents : Exists(g, c) => Exists(h, c)
    <3> TAKE c \in 1..MaxContents
    <3>1. c \in Numbers /\ h.contents[c].uses \in Nat
      BY <1>1, SlotsAre DEF Shape
    <3>2. QED BY <1>6, <3>1 DEF Exists
  <2>3. QED BY <1>6, <2>1, <2>2, SlotsAre DEF Shrinks
<1>16. ASSUME NEW o \in O PROVE Exists(g, o)
  <2>1. o \in Numbers /\ h.contents[o].uses \in Nat /\ h.contents[o].uses > 0
        /\ (o = v => h.contents[o].uses >= 2)
    BY KeptExist, SlotsAre DEF Exists, Ready
  <2>2. g.contents[o].uses = h.contents[o].uses - (IF o = v THEN 1 ELSE 0)
    BY <1>6, <2>1
  <2>3. QED BY <2>1, <2>2 DEF Exists
<1>17. QED BY <1>13, <1>14, <1>16 DEF ReleasesOf


\* The last handle: the elements of the content before the k-th one are released.
Before(h, v, k) == {Place(v, j) : j \in {i \in DOMAIN Content(h, v) : i <= k}}
Emptying(h, Q, x, n, v, O, k, f) ==
  /\ Balanced(f, Q \cup Before(h, v, k), x, n) /\ Shrinks(h, f)
  /\ \A o \in O \cup {v} : Exists(f, o)

\* What is known of the last handle.
LEMMA LastHandle ==
  ASSUME NEW h, NEW Q, NEW x, NEW n, NEW v \in 1..MaxContents, NEW O, Ready(h, Q, x, n, v, O),
         h.contents[v].uses = 1
  PROVE  /\ v \notin O /\ x[v] = 1 /\ Held(h, v, Q) = {} /\ \A k : Place(v, k) \notin Q
<1>1. v \notin O
  BY KeptExist
<1>2. h.contents[v].uses = Cardinality(Held(h, v, Q)) + x[v] /\ x[v] >= 1 /\ x[v] \in Nat
  BY SlotsAre DEF Ready, Balanced
<1>3. Cardinality(Held(h, v, Q)) \in Nat /\ IsFiniteSet(Held(h, v, Q))
  BY CountsAre
<1>4. Cardinality(Held(h, v, Q)) = 0 /\ x[v] = 1
  BY <1>2, <1>3
<1>5. \A k : Place(v, k) \notin Q
  BY <1>1, SpotsAre, SlotsAre DEF Ready, Frame
<1>6. QED BY <1>1, <1>3, <1>4, <1>5, FS_EmptySet

LEMMA EmptyStep ==
  ASSUME NEW h, NEW Q, NEW x, NEW n, NEW v \in 1..MaxContents, NEW O, Ready(h, Q, x, n, v, O),
         h.contents[v].uses = 1, NEW release, NEW m \in Int, Releases(release, m),
         Cardinality((1..MaxContents) \ (O \cup {v})) <= m,
         NEW k \in Slots, NEW f, Emptying(h, Q, x, n, v, O, k - 1, f), k \in DOMAIN Content(h, v)
  PROVE  Emptying(h, Q, x, n, v, O, k, release[Content(h, v)[k]][f])
<1> DEFINE p == Place(v, k)
           w == Content(h, v)[k]
           R == Q \cup Before(h, v, k)
           g == release[w][f]
<1>1. /\ Shape(h) /\ h \in Heaps /\ Q \subseteq Spots /\ x \in [Numbers -> Nat] /\ n \in Nat
      /\ n >= 1 /\ O \subseteq 1..MaxContents /\ v \in Numbers /\ v # 0 /\ x[v] = 1 /\ v \notin O
      /\ Kept(h, Q, Less(x, v), O) /\ \A q \in Q : q.content \in O \cup {Frame}
  <2>1. x[v] = 1 /\ v \notin O
    BY LastHandle, Zenon
  <2>2. v # 0
    OBVIOUS
  <2>3. QED BY <2>1, <2>2, ReadyIs
<1>2. /\ Balanced(f, Q \cup Before(h, v, k - 1), x, n) /\ Shape(f) /\ f \in Heaps
      /\ Shrinks(h, f)
      /\ \A o \in O \cup {v} : Exists(f, o)
  BY DEF Emptying, Balanced, Shape
<1>3. \A o \in O \cup {v} : Same(h, f, o)
  BY <1>1, <1>2 DEF Shrinks
<1>4. p \in Spots /\ p.content = v /\ p.at = k
  BY <1>1, SpotsAre
<1>5. p \notin Q \cup Before(h, v, k - 1)
  <2>1. p \notin Q
    BY LastHandle
  <2>2. ~(k <= k - 1)
    <3>1. k \in Nat
      BY SlotsAre DEF Slots
    <3>2. QED BY <3>1
  <2>3. QED BY <2>1, <2>2, SpotsAre DEF Before
<1>6. p \in Live(f, Q \cup Before(h, v, k - 1)) /\ ValueAt(f, p) = w
  BY <1>3, <1>4, <1>5 DEF Live, Same, ValueAt
<1>7. w \in Numbers
  BY <1>2, <1>6, LiveIs
<1>8. (Q \cup Before(h, v, k - 1)) \cup {p} = R
  <2>1. \A i \in DOMAIN Content(h, v) : i \in Nat
    BY <1>1, HeapFields, ElementsAre DEF Slots
  <2>2. \A i \in DOMAIN Content(h, v) : i <= k <=> i <= k - 1 \/ i = k
    BY <2>1 DEF Slots
  <2>3. Before(h, v, k) = Before(h, v, k - 1) \cup {p}
    BY <2>2 DEF Before
  <2>4. QED BY <2>3
<1>9. Balanced(f, R, More(x, w), n + 1)
  BY <1>2, <1>6, <1>8, HandOver
<1>10. Less(More(x, w), w) = x /\ More(x, w)[w] >= 1
  BY <1>1, <1>7, LessOfMore
<1> HIDE DEF R, p, w
<1>11. Kept(f, R, x, O \cup {v})
  <2> SUFFICES ASSUME NEW o \in O, ~(x[o] >= 1)
               PROVE  \E q \in Live(f, R) : q.content \in (O \cup {v}) \cup {Frame} /\ ValueAt(f, q) = o
    BY <1>1 DEF Kept
  <2>1. o \in Numbers /\ o \in 1..MaxContents
    BY <1>1, SlotsAre
  <2>2. Less(x, v)[o] <= x[o] /\ Less(x, v)[o] \in Int /\ x[o] \in Int
    <3>1. /\ Less(x, v) \in [Numbers -> Nat]
          /\ Less(x, v)[o] = x[o] - (IF o = v THEN 1 ELSE 0)
      BY <1>1, <2>1, LessIs
    <3>2. QED BY <1>1, <2>1, <3>1
  <2>3. ~(Less(x, v)[o] >= 1)
    BY <2>2
  <2>4. PICK q \in Live(h, Q) : q.content \in O \cup {Frame} /\ ValueAt(h, q) = o
    BY <1>1, <2>3 DEF Kept
  <2>5. q.content # v
    BY <1>1, <2>4 DEF Frame
  <2>6. Content(f, q.content) = Content(h, q.content)
    BY <1>2, <1>3, <2>4 DEF Same, Shrinks, Content
  <2>7. q \notin R
    BY <2>4, <2>5, SpotsAre DEF R, Live, Before
  <2>8. q \in Live(f, R) /\ ValueAt(f, q) = o
    BY <2>4, <2>6, <2>7 DEF Live, ValueAt
  <2>9. QED BY <2>4, <2>8
<1>12. \A q \in R : q.content \in (O \cup {v}) \cup {Frame}
  BY <1>1, SpotsAre DEF R, Before
<1>13. Ready(f, R, More(x, w), n + 1, w, O \cup {v})
  <2>1. n + 1 >= 1
    BY <1>1
  <2>2. O \cup {v} \subseteq 1..MaxContents
    BY <1>1
  <2>3. QED BY <1>7, <1>9, <1>10, <1>11, <1>12, <2>1, <2>2 DEF Ready
<1>14. ReleasesOf(f, R, More(x, w), n + 1, w, O \cup {v}, g)
  BY <1>13 DEF Releases
<1> HIDE DEF g
<1>15. /\ Balanced(g, R, x, n) /\ Shrinks(f, g)
       /\ \A o \in O \cup {v} : Exists(g, o)
  <2>1. (n + 1) - 1 = n
    BY <1>1
  <2>2. QED BY <1>10, <1>14, <2>1 DEF ReleasesOf
<1>16. g \in Heaps
  BY <1>15 DEF Balanced, Shape
<1>17. Shrinks(h, g)
  BY <1>1, <1>2, <1>15, <1>16, ShrinksAgain
<1>19. QED BY <1>15, <1>17 DEF Emptying, R, g, w

LEMMA EmptyAll ==
  ASSUME NEW h, NEW Q, NEW x, NEW n, NEW v \in 1..MaxContents, NEW O, Ready(h, Q, x, n, v, O),
         h.contents[v].uses = 1, NEW release, NEW m \in Int, Releases(release, m),
         Cardinality((1..MaxContents) \ (O \cup {v})) <= m
  PROVE  Emptying(h, Q, x, n, v, O, Len([k \in Slots |-> 0]), ReleaseEach(release, h, Content(h, v)))
<1> DEFINE e == Content(h, v)
           L == Len([k \in Slots |-> 0])
           steps == [k \in Slots |-> IF k \in DOMAIN e THEN release[e[k]] ELSE NoStep]
           G == [k \in 0..L |-> {f \in Heaps : Emptying(h, Q, x, n, v, O, k, f)}]
<1>1. L \in Nat /\ Slots = 1..L /\ Len(steps) = L
  <2>1. (IF Variables > MaxElements THEN Variables ELSE MaxElements) \in Nat
    BY SlotsAre
  <2>2. QED BY <2>1 DEF Slots
<1>2. /\ Shape(h) /\ h \in Heaps /\ Balanced(h, Q, x, n) /\ v \in Numbers /\ v # 0
  BY ReadyIs
<1>3. h \in G[0]
  <2>1. \A i \in DOMAIN e : ~(i <= 0)
    <3>1. \A i \in DOMAIN e : i \in Nat /\ i # 0
      BY <1>2, HeapFields, ElementsAre DEF Slots
    <3>2. QED BY <3>1
  <2>2. Q \cup Before(h, v, 0) = Q
    BY <2>1 DEF Before
  <2>3. Shrinks(h, h)
    BY ShrinksNot
  <2>4. \A o \in O \cup {v} : Exists(h, o)
    BY KeptExist DEF Exists
  <2>5. Emptying(h, Q, x, n, v, O, 0, h)
    BY <1>2, <2>2, <2>3, <2>4 DEF Emptying
  <2>6. 0 \in 0..L
    BY <1>1
  <2>7. QED BY <1>2, <2>5, <2>6
<1>4. ASSUME NEW k \in 1..L, NEW f \in G[k - 1]
      PROVE  steps[k][f] \in G[k]
  <2>1. k \in Slots /\ k \in 0..L /\ k - 1 \in 0..L
    BY <1>1
  <2>2. f \in Heaps /\ Emptying(h, Q, x, n, v, O, k - 1, f)
    BY <2>1
  <2>3. CASE k \in DOMAIN e
    <3>1. Emptying(h, Q, x, n, v, O, k, release[e[k]][f])
      BY <2>1, <2>2, <2>3, EmptyStep
    <3>2. release[e[k]][f] \in Heaps
      BY <3>1 DEF Emptying, Balanced, Shape
    <3>3. steps[k][f] = release[e[k]][f]
      BY <2>1, <2>3
    <3>4. QED BY <2>1, <3>1, <3>2, <3>3
  <2>4. CASE k \notin DOMAIN e
    <3>1. steps[k][f] = f
      BY <2>1, <2>2, <2>4 DEF NoStep
    <3>2. \A i \in DOMAIN e : i <= k <=> i <= k - 1
      <4>1. \A i \in DOMAIN e : i \in Nat /\ i # k
        BY <1>2, <2>4, HeapFields, ElementsAre DEF Slots
      <4>2. QED BY <1>1, <4>1
    <3>3. Before(h, v, k) = Before(h, v, k - 1)
      BY <3>2 DEF Before
    <3>4. Emptying(h, Q, x, n, v, O, k, f)
      BY <2>2, <3>3 DEF Emptying
    <3>5. QED BY <2>1, <2>2, <3>1, <3>4
  <2>5. QED BY <2>3, <2>4
<1>5. ReleaseEach(release, h, e) = Through(h, steps)
  BY DEF ReleaseEach
<1> HIDE DEF steps, G, L, e
<1>6. Through(h, steps) \in G[L]
  BY <1>1, <1>3, <1>4, ThroughGoes
<1>7. L \in 0..L
  BY <1>1
<1>8. Emptying(h, Q, x, n, v, O, L, Through(h, steps))
  BY <1>6, <1>7 DEF G
<1>9. QED BY <1>5, <1>8 DEF L, e

\* The content is gone then, and with it the value that held it.
LEMMA ReleaseLast ==
  ASSUME NEW h, NEW Q, NEW x, NEW n, NEW v \in 1..MaxContents, NEW O, Ready(h, Q, x, n, v, O),
         h.contents[v].uses = 1, NEW f, Emptying(h, Q, x, n, v, O, Len([k \in Slots |-> 0]), f),
         NEW g, Changed(f, g, v, Free, f.live - 1)
  PROVE  ReleasesOf(h, Q, x, n, v, O, g)
<1>2. x[v] = 1 /\ v \notin O /\ Held(h, v, Q) = {}
  BY LastHandle, Zenon
<1>. g \in Heaps /\ g.live = f.live - 1 /\ g.twice = f.twice
     /\ \A c \in Numbers : g.contents[c] = IF c = v THEN Free ELSE f.contents[c]
  BY DEF Changed
<1> DEFINE R == Q \cup Before(h, v, Len([k \in Slots |-> 0]))
<1>1. /\ Shape(h) /\ h \in Heaps /\ Q \subseteq Spots /\ x \in [Numbers -> Nat] /\ n \in Nat
      /\ n >= 1 /\ O \subseteq 1..MaxContents /\ v \in Numbers /\ v # 0
  BY ReadyIs
<1>3. /\ Balanced(f, R, x, n) /\ Shape(f) /\ f \in Heaps
      /\ Shrinks(h, f)
      /\ \A o \in O \cup {v} : Exists(f, o)
  BY DEF Emptying, Balanced, Shape
<1>4. \A p \in Spots : p \in R <=> p \in Q \/ (p.content = v /\ p.at \in DOMAIN Content(h, v))
  <2> TAKE p \in Spots
  <2>1. p.at \in Slots /\ p = Place(p.content, p.at)
    BY SpotsAre
  <2>2. \A i \in DOMAIN Content(h, v) : i <= Len([k \in Slots |-> 0])
    <3>1. DOMAIN Content(h, v) \subseteq Slots
      BY <1>1, HeapFields, ElementsAre
    <3>2. (IF Variables > MaxElements THEN Variables ELSE MaxElements) \in Nat
      BY SlotsAre
    <3>3. QED BY <3>1, <3>2 DEF Slots
  <2>3. Before(h, v, Len([k \in Slots |-> 0])) = {Place(v, j) : j \in DOMAIN Content(h, v)}
    BY <2>2 DEF Before
  <2>4. QED BY <2>1, <2>3, SpotsAre
<1> HIDE DEF R
<1>5. Same(h, f, v)
  BY <1>1, <1>3 DEF Shrinks
<1>6. DOMAIN Content(g, v) = {}
  BY <1>1, FreeIs DEF Content
<1>7. \A c \in Numbers : c # v => Content(g, c) = Content(f, c)
  BY DEF Content
<1>8. Live(g, Q) = Live(f, R) /\ \A c : Held(g, c, Q) = Held(f, c, R)
  <2>1. ASSUME NEW p \in Spots
        PROVE  /\ p \in Live(g, Q) <=> p \in Live(f, R)
               /\ p \in Live(g, Q) => ValueAt(g, p) = ValueAt(f, p)
    <3>1. p.content \in Numbers
      BY SpotsAre
    <3>2. CASE p.content = v
      BY <1>4, <1>5, <1>6, <3>2 DEF Live, Same
    <3>3. CASE p.content # v
      BY <1>4, <1>7, <3>1, <3>3 DEF Live, ValueAt
    <3>4. QED BY <3>2, <3>3
  <2>2. Live(g, Q) \subseteq Spots /\ Live(f, R) \subseteq Spots
    BY DEF Live
  <2>3. Live(g, Q) = Live(f, R)
    BY <2>1, <2>2
  <2>4. QED BY <2>1, <2>2, <2>3 DEF Held
<1>9. Less(x, v) \in [Numbers -> Nat] /\ \A c \in Numbers : Less(x, v)[c] = x[c] - (IF c = v THEN 1 ELSE 0)
  BY <1>1, <1>2, LessIs
<1>10. Held(g, v, Q) = {}
  <2>1. Held(f, v, R) \subseteq Held(h, v, R)
    BY <1>1, <1>3, ShrunkLive
  <2>2. Held(h, v, R) \subseteq Held(h, v, Q)
    BY <1>4 DEF Held, Live
  <2>3. QED BY <1>2, <1>8, <2>1, <2>2
<1>11. \A c \in 1..MaxContents : g.contents[c].uses = Cardinality(Held(g, c, Q)) + Less(x, v)[c]
  <2> TAKE c \in 1..MaxContents
  <2>1. c \in Numbers /\ f.contents[c].uses = Cardinality(Held(f, c, R)) + x[c]
        /\ x[c] \in Nat /\ Cardinality(Held(f, c, R)) \in Nat
    BY <1>1, <1>3, SlotsAre, CountsAre DEF Balanced
  <2>2. CASE c = v
    <3>1. g.contents[c].uses = 0
      BY <2>1, <2>2, FreeIs
    <3>2. Cardinality(Held(g, c, Q)) = 0
      BY <1>10, <2>2, FS_EmptySet
    <3>3. Less(x, v)[c] = 0
      BY <1>2, <1>9, <2>1, <2>2
    <3>4. QED BY <3>1, <3>2, <3>3
  <2>3. CASE c # v
    <3>1. g.contents[c] = f.contents[c] /\ Less(x, v)[c] = x[c]
      BY <1>9, <2>1, <2>3
    <3>2. QED BY <1>8, <2>1, <3>1
  <2>4. QED BY <2>2, <2>3
<1>12. g.live = Cardinality(Live(g, Q)) + (n - 1) /\ g.live \in Nat
  <2>1. f.live = Cardinality(Live(f, R)) + n /\ Cardinality(Live(f, R)) \in Nat
    BY <1>3, CountsAre DEF Balanced
  <2>2. QED BY <1>1, <1>8, <2>1
<1>13. Shape(g)
  <2>1. g.contents[Frame].uses = 1 /\ Content(g, Frame) \in [1..Variables -> Numbers]
    BY <1>1, <1>3, SlotsAre DEF Shape, Content, Frame
  <2>2. ASSUME NEW c \in 1..MaxContents
        PROVE  /\ g.contents[c].uses \in Nat
               /\ g.contents[c].uses = 0 => g.contents[c] = Free
               /\ DOMAIN Content(g, c) \subseteq Keys
               /\ g.contents[c].kind = "array" => Content(g, c) \in Seq(Numbers)
    <3>1. CASE c = v
      <4>1. g.contents[c] = Free
        BY <1>1, <3>1
      <4>2. QED BY <4>1, FreeIs DEF Content
    <3>2. CASE c # v
      <4>1. g.contents[c] = f.contents[c]
        BY <3>2, SlotsAre
      <4>2. QED BY <1>3, <4>1 DEF Shape, Content
    <3>3. QED BY <3>1, <3>2
  <2>3. QED BY <1>12, <2>1, <2>2 DEF Shape
<1>14. Balanced(g, Q, Less(x, v), n - 1)
  BY <1>1, <1>9, <1>11, <1>12, <1>13 DEF Balanced
<1>15. Shrinks(h, g)
  <2>1. g.contents[Frame] = h.contents[Frame] /\ g.twice = h.twice
    BY <1>1, <1>3, SlotsAre DEF Frame, Shrinks
  <2>2. ASSUME NEW c \in 1..MaxContents
        PROVE  /\ ~Exists(g, c) \/ Same(h, g, c)
               /\ Exists(g, c) => Exists(h, c)
    <3>1. CASE c = v
      <4>1. g.contents[c].uses = 0
        BY <1>1, <3>1, FreeIs
      <4>2. QED BY <4>1 DEF Exists
    <3>2. CASE c # v
      <4>1. g.contents[c] = f.contents[c]
        BY <3>2, SlotsAre
      <4>2. QED BY <1>3, <4>1 DEF Shrinks, Exists, Same, Content
    <3>3. QED BY <3>1, <3>2
  <2>3. QED BY <2>1, <2>2 DEF Shrinks
<1>17. ASSUME NEW o \in O PROVE Exists(g, o)
  <2>1. o # v /\ o \in Numbers
    BY <1>1, <1>2, SlotsAre
  <2>2. QED BY <1>3, <2>1 DEF Exists
<1>18. QED BY <1>14, <1>15, <1>17 DEF ReleasesOf

LEMMA OthersAre ==
  ASSUME NEW O
  PROVE  /\ Cardinality((1..MaxContents) \ O) \in Nat /\ Cardinality((1..MaxContents) \ O) <= MaxContents
         /\ \A v \in (1..MaxContents) \ O :
              Cardinality((1..MaxContents) \ (O \cup {v})) = Cardinality((1..MaxContents) \ O) - 1
<1> DEFINE A == 1..MaxContents
           B == A \ O
<1>1. IsFiniteSet(A) /\ Cardinality(A) = MaxContents
  <2>1. MaxContents \in Nat
    BY SlotsAre
  <2>2. QED BY <2>1, FS_Interval
<1> HIDE DEF A
<1>2. IsFiniteSet(B) /\ Cardinality(B) <= Cardinality(A)
  BY <1>1, FS_Subset
<1> HIDE DEF B
<1>3. \A v \in B : Cardinality(B \ {v}) = Cardinality(B) - 1
  BY <1>2, FS_RemoveElement
<1>4. \A v \in B : B \ {v} = A \ (O \cup {v})
  BY DEF B
<1>5. \A v \in B : Cardinality(A \ (O \cup {v})) = Cardinality(B) - 1
  BY <1>3, <1>4
<1>6. Cardinality(B) \in Nat
  BY <1>2, FS_CardinalityType
<1>7. QED BY <1>1, <1>2, <1>5, <1>6 DEF A, B

LEMMA ReleasesDeeper ==
  ASSUME NEW release, NEW m \in Nat, Releases(release, m - 1)
  PROVE  Releases(ReleasedFrom(release), m)
<1> SUFFICES ASSUME NEW h, NEW Q, NEW x, NEW n, NEW v, NEW O, Ready(h, Q, x, n, v, O),
                    Cardinality((1..MaxContents) \ O) <= m
             PROVE  ReleasesOf(h, Q, x, n, v, O, ReleasedFrom(release)[v][h])
  BY DEF Releases
<1>1. Shape(h) /\ h \in Heaps /\ v \in Numbers /\ O \subseteq 1..MaxContents /\ h.live \in Int
  BY ReadyIs, HeapFields
<1> DEFINE g == ReleaseBy(release, h, v)
<1>2. ReleasedFrom(release)[v][h] = g
  BY <1>1 DEF ReleasedFrom
<1>3. CASE v = 0
  <2>1. g = [h EXCEPT !.live = @ - 1]
    BY <1>3 DEF ReleaseBy, Scalar
  <2>2. QED BY <1>2, <1>3, <2>1, ReleaseScalar
<1>4. CASE v # 0 /\ h.contents[v].uses # 1
  <2> DEFINE r == [h.contents[v] EXCEPT !.uses = @ - 1]
  <2>1. v \in 1..MaxContents
    BY <1>1, <1>4, SlotsAre
  <2>2. g = Change(h, v, r, h.live - 1)
    <3>1. g = [h EXCEPT !.live = @ - 1, !.contents[v].uses = @ - 1]
      BY <1>4 DEF ReleaseBy, Scalar
    <3>2. QED BY <1>1, <3>1, ChangesAre
  <2>3. /\ r \in Contents /\ r.uses = h.contents[v].uses - 1
        /\ r.kind = h.contents[v].kind /\ r.elements = h.contents[v].elements
    BY <1>1, HeapFields DEF Contents
  <2> HIDE DEF r, g
  <2>4. Changed(h, g, v, r, h.live - 1)
    <3>1. h.live - 1 \in Int
      BY <1>1
    <3>2. QED BY <1>1, <2>2, <2>3, <3>1, ChangeIs
  <2>5. ReleasesOf(h, Q, x, n, v, O, g)
    BY <1>4, <2>1, <2>3, <2>4, ReleaseOneOfMany
  <2>6. QED BY <1>2, <2>5
<1>5. CASE v # 0 /\ h.contents[v].uses = 1
  <2> DEFINE f == ReleaseEach(release, h, Content(h, v))
  <2>1. v \in 1..MaxContents /\ v \in Numbers
    BY <1>1, <1>5, SlotsAre
  <2>2. v \notin O
    BY <1>5, <2>1, LastHandle
  <2>3. Cardinality((1..MaxContents) \ (O \cup {v})) <= m - 1
    <3>1. v \in (1..MaxContents) \ O
      BY <2>1, <2>2
    <3>2. Cardinality((1..MaxContents) \ (O \cup {v})) = Cardinality((1..MaxContents) \ O) - 1
      BY <3>1, OthersAre
    <3>3. Cardinality((1..MaxContents) \ O) \in Nat
      BY OthersAre
    <3>4. QED BY <3>2, <3>3
  <2>4. m - 1 \in Int
    OBVIOUS
  <2>5. Emptying(h, Q, x, n, v, O, Len([k \in Slots |-> 0]), f)
    BY <1>5, <2>1, <2>3, <2>4, EmptyAll
  <2>6. f \in Heaps /\ f.live \in Int
    BY <2>5, HeapFields DEF Emptying, Balanced, Shape
  <2>7. g = [f EXCEPT !.live = @ - 1, !.contents[v] = Free]
    BY <1>5 DEF ReleaseBy, Scalar
  <2> HIDE DEF f, g
  <2>8. g = Change(f, v, Free, f.live - 1)
    BY <2>1, <2>6, <2>7, ChangesAre
  <2>9. Changed(f, g, v, Free, f.live - 1)
    <3>1. f.live - 1 \in Int /\ Free \in Contents
      BY <2>6, FreeIs
    <3>2. QED BY <2>1, <2>6, <2>8, <3>1, ChangeIs
  <2>10. ReleasesOf(h, Q, x, n, v, O, g)
    BY <1>5, <2>1, <2>5, <2>9, ReleaseLast
  <2>11. QED BY <1>2, <2>10
<1>6. QED BY <1>3, <1>4, <1>5

LEMMA ReleasesAll ==
  ASSUME NEW m \in 0..MaxContents
  PROVE  Releases(Released[m], m)
<1> DEFINE S == {k \in Nat : k <= MaxContents => Releases(Released[k], k)}
           None == [w \in Numbers |-> NoStep]
<1>1. MaxContents \in Nat
  BY SlotsAre
<1>2. 0 \in S
  <2>1. Releases(None, 0 - 1)
    <3>1. \A O : ~(Cardinality((1..MaxContents) \ O) <= 0 - 1)
      BY OthersAre
    <3>2. QED BY <3>1 DEF Releases
  <2>2. Released[0] = ReleasedFrom(None)
    BY <1>1, ReleasedIs
  <2> HIDE DEF None
  <2>3. Releases(ReleasedFrom(None), 0)
    BY <2>1, ReleasesDeeper
  <2>4. QED BY <2>2, <2>3
<1>3. ASSUME NEW k \in Nat, k \in S PROVE k + 1 \in S
  <2> SUFFICES ASSUME k + 1 <= MaxContents PROVE Releases(Released[k + 1], k + 1)
    OBVIOUS
  <2>1. Releases(Released[k], (k + 1) - 1)
    BY <1>1, <1>3
  <2>2. Released[k + 1] = ReleasedFrom(Released[k])
    <3>1. k + 1 \in 0..MaxContents /\ k + 1 # 0 /\ (k + 1) - 1 = k
      BY <1>1
    <3>2. QED BY <3>1, ReleasedIs
  <2>3. QED BY <2>1, <2>2, ReleasesDeeper
<1> HIDE DEF S
<1>4. m \in Nat /\ m <= MaxContents
  BY <1>1
<1>5. m \in S
  BY <1>2, <1>3, <1>4, AllNumbers
<1>6. QED BY <1>4, <1>5 DEF S

\* Release keeps the balance: the handle that was on its way is gone.
LEMMA ReleaseIs ==
  ASSUME NEW h, NEW Q, NEW x, NEW n, NEW v, NEW O, Ready(h, Q, x, n, v, O)
  PROVE  ReleasesOf(h, Q, x, n, v, O, Release(h, v))
<1>1. MaxContents \in Nat /\ MaxContents \in 0..MaxContents
  BY SlotsAre
<1>2. Cardinality((1..MaxContents) \ O) <= MaxContents
  BY OthersAre
<1>3. Releases(Released[MaxContents], MaxContents)
  BY <1>1, ReleasesAll
<1>4. QED BY <1>2, <1>3 DEF Releases, Release

-----------------------------------------------------------------------------
(* Elements that get a value, or go *)

\* Of the contents of h, those that are there in g have their elements, d has e.
Wrote(h, g, d, e) ==
  \A c \in Numbers : Exists(g, c) => /\ Exists(h, c)
                                     /\ Content(g, c) = IF c = d THEN e ELSE Content(h, c)

Rewritten(h, g, d, e) ==
  /\ g \in Heaps /\ g.live = h.live /\ g.twice = h.twice
  /\ \A c \in Numbers : /\ Content(g, c) = IF c = d THEN e ELSE Content(h, c)
                        /\ g.contents[c].uses = h.contents[c].uses
                        /\ g.contents[c].kind = h.contents[c].kind
                        /\ c # d => g.contents[c] = h.contents[c]

LEMMA RewrittenIs ==
  ASSUME NEW h \in Heaps, NEW d \in Numbers, NEW e \in Elements
  PROVE  Rewritten(h, [h EXCEPT !.contents[d].elements = e], d, e)
<1> DEFINE w == [h.contents[d] EXCEPT !.elements = e]
           g == [h EXCEPT !.contents[d].elements = e]
<1>1. /\ w \in Contents /\ w.elements = e
      /\ w.uses = h.contents[d].uses /\ w.kind = h.contents[d].kind
  <2>1. h.contents[d] \in Contents
    BY HeapFields
  <2>2. QED BY <2>1 DEF Contents
<1>2. g = Change(h, d, w, h.live)
  BY ChangesAre, ZenonT(60)
<1> HIDE DEF w, g
<1>3. Changed(h, g, d, w, h.live)
  <2>1. h.live \in Int
    BY HeapFields
  <2>2. QED BY <1>1, <1>2, <2>1, ChangeIs
<1>4. /\ g \in Heaps /\ g.live = h.live /\ g.twice = h.twice
      /\ \A c \in Numbers : c # d => g.contents[c] = h.contents[c]
      /\ g.contents[d] = w
  BY <1>3 DEF Changed
<1>5. ASSUME NEW c \in Numbers
      PROVE  /\ Content(g, c) = IF c = d THEN e ELSE Content(h, c)
             /\ g.contents[c].uses = h.contents[c].uses
             /\ g.contents[c].kind = h.contents[c].kind
  <2>1. CASE c = d
    BY <1>1, <1>4, <2>1 DEF Content
  <2>2. CASE c # d
    BY <1>4, <2>2 DEF Content
  <2>3. QED BY <2>1, <2>2
<1>6. Rewritten(h, g, d, e)
  BY <1>4, <1>5 DEF Rewritten
<1>7. QED BY <1>6 DEF g

\* The elements a with v at one place.
Gets(a, e, at, v) ==
  /\ e \in Elements /\ DOMAIN e = DOMAIN a \cup {at} /\ e[at] = v
  /\ \A k \in DOMAIN a : k # at => e[k] = a[k]

LEMMA PutShape ==
  ASSUME NEW a \in Elements, NEW at \in Slots, NEW v \in Numbers
  PROVE  Gets(a, Put(a, at, v), at, v)
<1> DEFINE e == Put(a, at, v)
<1>1. DOMAIN e = DOMAIN a \cup {at} /\ \A k \in DOMAIN e : e[k] = IF k = at THEN v ELSE a[k]
  BY DEF Put
<1>2. DOMAIN e \subseteq Slots /\ \A k \in DOMAIN e : e[k] \in Numbers
  BY <1>1, ElementsAre
<1>3. e \in [DOMAIN e -> Numbers]
  BY <1>2 DEF Put
<1> HIDE DEF e
<1>4. Gets(a, e, at, v)
  BY <1>1, <1>2, <1>3, ElementsAre DEF Gets
<1>5. QED BY <1>4 DEF e

\* An element e may be there in the frame and in a content.
Fits(r, p, e) ==
  \/ p.content = Frame /\ p.at \in 1..Variables
  \/ /\ p.content # Frame /\ p.at \in Keys /\ Exists(r, p.content)
     /\ r.contents[p.content].kind = "array" => e \in Seq(Numbers)

\* A place that does not count gets a value that is on its way.
LEMMA PutIs ==
  ASSUME NEW r, NEW Q, NEW x, NEW n, Balanced(r, Q, x, n), NEW v \in Numbers, x[v] >= 1, n >= 1,
         NEW p \in Spots, p \notin Live(r, Q),
         NEW e, Gets(Content(r, p.content), e, p.at, v), Fits(r, p, e),
         NEW g, Rewritten(r, g, p.content, e)
  PROVE  /\ Balanced(g, Q \ {p}, Less(x, v), n - 1) /\ g.twice = r.twice
         /\ \A c \in Numbers : Exists(g, c) <=> Exists(r, c)
         /\ Wrote(r, g, p.content, e)
<1>. \/ p.content = Frame /\ p.at \in 1..Variables
     \/ /\ p.content # Frame /\ p.at \in Keys /\ Exists(r, p.content)
        /\ r.contents[p.content].kind = "array" => e \in Seq(Numbers)
  BY DEF Fits
<1> DEFINE d == p.content
<1>1. /\ Shape(r) /\ r \in Heaps /\ Q \subseteq Spots /\ x \in [Numbers -> Nat] /\ n \in Nat /\ r.live \in Int
      /\ d \in Numbers /\ p.at \in Slots /\ Frame \in Numbers
  BY SpotsAre, HeapFields, SlotsAre DEF Balanced, Shape
<1>2. /\ e \in Elements /\ DOMAIN e = DOMAIN Content(r, d) \cup {p.at} /\ e[p.at] = v
      /\ \A k \in DOMAIN Content(r, d) : k # p.at => e[k] = Content(r, d)[k]
  BY DEF Gets
<1>6. /\ g \in Heaps /\ g.live = r.live /\ g.twice = r.twice
      /\ \A c \in Numbers : c # d => g.contents[c] = r.contents[c]
  BY DEF Rewritten
<1>7. \A c \in Numbers : /\ Content(g, c) = IF c = d THEN e ELSE Content(r, c)
                         /\ g.contents[c].uses = r.contents[c].uses
                         /\ g.contents[c].kind = r.contents[c].kind
  BY DEF Rewritten
<1> DEFINE R == Q \ {p}
<1>8. \A q \in Spots : q # p => /\ q \in Live(g, R) <=> q \in Live(r, Q)
                                /\ q \in Live(g, R) => ValueAt(g, q) = ValueAt(r, q)
  <2> SUFFICES ASSUME NEW q \in Spots, q # p
               PROVE  /\ q \in Live(g, R) <=> q \in Live(r, Q)
                      /\ q \in Live(g, R) => ValueAt(g, q) = ValueAt(r, q)
    OBVIOUS
  <2>1. q.content \in Numbers /\ q \in R <=> q \in Q
    BY SpotsAre
  <2>2. CASE q.content = d
    <3>1. q.at # p.at
      BY <2>2, SpotsAre
    <3>2. Content(g, q.content) = e /\ Content(r, q.content) = Content(r, d)
      BY <1>7, <2>2, SpotsAre
    <3>3. q.at \in DOMAIN Content(g, q.content) <=> q.at \in DOMAIN Content(r, q.content)
      BY <1>2, <3>1, <3>2
    <3>4. q.at \in DOMAIN Content(r, q.content) => Content(g, q.content)[q.at] = Content(r, q.content)[q.at]
      BY <1>2, <3>1, <3>2
    <3>5. QED BY <3>3, <3>4 DEF Live, ValueAt
  <2>3. CASE q.content # d
    <3>1. Content(g, q.content) = Content(r, q.content)
      BY <1>7, <2>3, SpotsAre
    <3>2. QED BY <3>1 DEF Live, ValueAt
  <2>4. QED BY <2>2, <2>3
<1>9. p \in Live(g, R) /\ ValueAt(g, p) = v
  BY <1>1, <1>2, <1>7 DEF Live, ValueAt
<1>10. Live(g, R) = Live(r, Q) \cup {p} /\ \A c : Held(g, c, R) = Held(r, c, Q) \cup (IF c = v THEN {p} ELSE {})
  <2>1. Live(g, R) \subseteq Spots /\ Live(r, Q) \subseteq Spots
    BY DEF Live
  <2>2. Live(g, R) = Live(r, Q) \cup {p}
    BY <1>8, <1>9, <2>1
  <2>3. \A c : Held(g, c, R) = Held(r, c, Q) \cup (IF c = v THEN {p} ELSE {})
    BY <1>8, <1>9, <2>1, <2>2 DEF Held
  <2>4. QED BY <2>2, <2>3
<1>11. Cardinality(Live(g, R)) = Cardinality(Live(r, Q)) + 1
  BY <1>10, CountsAre, FS_AddElement
<1>12. \A c : Cardinality(Held(g, c, R)) = Cardinality(Held(r, c, Q)) + (IF c = v THEN 1 ELSE 0)
  <2> TAKE c
  <2>1. p \notin Held(r, c, Q) /\ IsFiniteSet(Held(r, c, Q)) /\ Cardinality(Held(r, c, Q)) \in Nat
    <3>1. p \notin Held(r, c, Q)
      BY DEF Held
    <3>2. QED BY <3>1, CountsAre
  <2>2. Cardinality(Held(r, c, Q) \cup {p}) = Cardinality(Held(r, c, Q)) + 1
    BY <2>1, FS_AddElement
  <2>3. CASE c = v
    BY <1>10, <2>2, <2>3
  <2>4. CASE c # v
    <3>1. Held(g, c, R) = Held(r, c, Q)
      BY <1>10, <2>4
    <3>2. QED BY <2>1, <2>4, <3>1
  <2>5. QED BY <2>3, <2>4
<1>13. Less(x, v) \in [Numbers -> Nat] /\ \A c \in Numbers : Less(x, v)[c] = x[c] - (IF c = v THEN 1 ELSE 0)
  BY <1>1, LessIs
<1> HIDE DEF R
<1>14. \A c \in 1..MaxContents : g.contents[c].uses = Cardinality(Held(g, c, R)) + Less(x, v)[c]
  <2> TAKE c \in 1..MaxContents
  <2>1. c \in Numbers /\ r.contents[c].uses = Cardinality(Held(r, c, Q)) + x[c]
        /\ x[c] \in Nat /\ Cardinality(Held(r, c, Q)) \in Nat
    BY <1>1, SlotsAre, CountsAre DEF Balanced
  <2>2. g.contents[c].uses = r.contents[c].uses
    BY <1>7, <2>1
  <2>3. QED BY <1>12, <1>13, <2>1, <2>2
<1>15. g.live = Cardinality(Live(g, R)) + (n - 1)
  <2>1. r.live = Cardinality(Live(r, Q)) + n /\ Cardinality(Live(r, Q)) \in Nat
    BY CountsAre DEF Balanced
  <2>2. QED BY <1>1, <1>6, <1>11, <2>1
<1>16. Shape(g)
  <2>1. g.contents[Frame].uses = 1 /\ Content(g, Frame) \in [1..Variables -> Numbers]
    <3>1. g.contents[Frame].uses = 1
      BY <1>1, <1>7 DEF Shape
    <3>2. CASE d # Frame
      BY <1>1, <1>7, <3>2 DEF Shape
    <3>3. CASE d = Frame
      <4>1. DOMAIN e = 1..Variables
        BY <1>1, <1>2, <3>3 DEF Shape
      <4>2. e \in [1..Variables -> Numbers]
        BY <1>2, <4>1 DEF Elements
      <4>3. Content(g, Frame) = e
        BY <1>1, <1>7, <3>3
      <4>4. QED BY <3>1, <4>2, <4>3
    <3>4. QED BY <3>1, <3>2, <3>3
  <2>2. ASSUME NEW c \in 1..MaxContents
        PROVE  /\ g.contents[c].uses \in Nat
               /\ g.contents[c].uses = 0 => g.contents[c] = Free
               /\ DOMAIN Content(g, c) \subseteq Keys
               /\ g.contents[c].kind = "array" => Content(g, c) \in Seq(Numbers)
    <3>1. c \in Numbers /\ c # 0
      BY SlotsAre
    <3>2. CASE c = d
      <4>1. /\ DOMAIN Content(r, d) \subseteq Keys /\ r.contents[d].uses \in Nat
        BY <1>1, <3>2 DEF Shape
      <4>2. /\ p.at \in Keys /\ r.contents[d].uses > 0
            /\ r.contents[d].kind = "array" => e \in Seq(Numbers)
        BY <3>1, <3>2 DEF Frame, Exists
      <4>3. Content(g, c) = e /\ g.contents[c].uses = r.contents[d].uses /\ g.contents[c].kind = r.contents[d].kind
        BY <1>7, <3>1, <3>2
      <4>4. QED BY <1>2, <4>1, <4>2, <4>3
    <3>3. CASE c # d
      <4>1. g.contents[c] = r.contents[c]
        BY <1>6, <3>1, <3>3
      <4>2. QED BY <1>1, <4>1 DEF Shape, Content
    <3>4. QED BY <3>2, <3>3
  <2>3. g.live \in Nat
    BY <1>1, <1>6 DEF Shape
  <2>4. QED BY <1>6, <2>1, <2>2, <2>3 DEF Shape
<1>17. Balanced(g, R, Less(x, v), n - 1)
  <2>1. R \subseteq Spots /\ n - 1 \in Nat
    BY <1>1 DEF R
  <2>2. QED BY <1>13, <1>14, <1>15, <1>16, <2>1 DEF Balanced
<1>18. \A c \in Numbers : Exists(g, c) <=> Exists(r, c)
  BY <1>7 DEF Exists
<1>19. Wrote(r, g, p.content, e)
  BY <1>7, <1>18 DEF Wrote
<1>20. QED BY <1>6, <1>17, <1>18, <1>19 DEF R

\* The value of a place is released, with what it is needed for.
ReleasedAt(h, p, x, n, O, r) ==
  /\ Balanced(r, {p}, x, n) /\ r.twice = h.twice
  /\ \A o \in O \cup {Frame} : Exists(r, o)
  /\ \A c \in Numbers : Exists(r, c) => /\ Exists(h, c) /\ Content(r, c) = Content(h, c)
                                        /\ r.contents[c].kind = h.contents[c].kind

LEMMA ReleaseAt ==
  ASSUME NEW h, NEW x, NEW n, Balanced(h, {}, x, n),
         NEW p \in Live(h, {}), NEW O, O \subseteq 1..MaxContents, Kept(h, {p}, x, O),
         p.content \in O \cup {Frame}
  PROVE  ReleasedAt(h, p, x, n, O, Release(h, ValueAt(h, p)))
<1> DEFINE r == Release(h, ValueAt(h, p))
<1> DEFINE old == ValueAt(h, p)
<1>1. /\ Shape(h) /\ h \in Heaps /\ x \in [Numbers -> Nat] /\ n \in Nat
      /\ p \in Spots /\ p.content \in Numbers /\ old \in Numbers
      /\ Frame \in Numbers /\ O \subseteq Numbers
  BY LiveIs, SlotsAre DEF Balanced, Shape
<1>2. Balanced(h, {p}, More(x, old), n + 1)
  <2>1. {} \cup {p} = {p}
    OBVIOUS
  <2>2. QED BY <2>1, HandOver
<1>3. Less(More(x, old), old) = x /\ More(x, old)[old] >= 1
  BY <1>1, LessOfMore
<1>4. Ready(h, {p}, More(x, old), n + 1, old, O)
  <2>1. n + 1 >= 1
    BY <1>1
  <2>2. QED BY <1>1, <1>2, <1>3, <2>1 DEF Ready
<1>5. ReleasesOf(h, {p}, More(x, old), n + 1, old, O, r)
  BY <1>4, ReleaseIs
<1> HIDE DEF old, r
<1>7. /\ Balanced(r, {p}, x, n) /\ Shrinks(h, r) /\ \A o \in O : Exists(r, o)
  <2>1. (n + 1) - 1 = n
    BY <1>1
  <2>2. QED BY <1>3, <1>5, <2>1 DEF ReleasesOf
<1>8. Shape(r) /\ r \in Heaps
  BY <1>7 DEF Balanced, Shape
<1>9. Exists(r, Frame) /\ Exists(h, Frame)
  BY <1>1, <1>8 DEF Shape, Exists
<1>10. \A c \in Numbers : Exists(r, c) => /\ Exists(h, c) /\ Content(r, c) = Content(h, c)
                                          /\ r.contents[c].kind = h.contents[c].kind
  BY <1>1, <1>7, <1>9, SlotsAre DEF Shrinks, Same, Content, Frame
<1>11. ReleasedAt(h, p, x, n, O, r)
  BY <1>1, <1>7, <1>9, <1>10 DEF Shrinks, ReleasedAt
<1>12. QED BY <1>11 DEF r, old

\* SetValue, at a place of a content that stays.
LEMMA SetValueIs ==
  ASSUME NEW h, NEW x, NEW n, Balanced(h, {}, x, n), NEW v \in Numbers, x[v] >= 1, n >= 1,
         NEW p \in Live(h, {}), NEW O, O \subseteq 1..MaxContents, Kept(h, {p}, x, O),
         p.content \in O \cup {Frame}
  PROVE  /\ Balanced(SetValue(h, p, v), {}, Less(x, v), n - 1) /\ SetValue(h, p, v).twice = h.twice
         /\ \A o \in O \cup {Frame} : Exists(SetValue(h, p, v), o)
         /\ Wrote(h, SetValue(h, p, v), p.content, Put(Content(h, p.content), p.at, v))
<1> DEFINE old == ValueAt(h, p)
           r == Release(h, old)
           e == Put(Content(r, p.content), p.at, v)
           g == SetValue(h, p, v)
<1>1. /\ Shape(h) /\ h \in Heaps /\ x \in [Numbers -> Nat] /\ n \in Nat
      /\ p \in Spots /\ p.content \in Numbers /\ p.at \in DOMAIN Content(h, p.content) /\ old \in Numbers
      /\ Frame \in Numbers /\ O \subseteq Numbers
  BY LiveIs, SlotsAre DEF Balanced, Shape
<1>5. ReleasedAt(h, p, x, n, O, r)
  BY ReleaseAt
<1>6. g = [r EXCEPT !.contents[p.content].elements = e]
  BY DEF SetValue, Content
<1> HIDE DEF r, g
<1>7. /\ Balanced(r, {p}, x, n) /\ r.twice = h.twice /\ \A o \in O : Exists(r, o)
      /\ Exists(r, Frame)
      /\ \A c \in Numbers : Exists(r, c) => Exists(h, c) /\ Content(r, c) = Content(h, c)
  BY <1>5 DEF ReleasedAt
<1>8. Shape(r) /\ r \in Heaps
  BY <1>7 DEF Balanced, Shape
<1>11. Content(r, p.content) = Content(h, p.content) /\ Exists(r, p.content)
  BY <1>1, <1>7
<1>12. Fits(r, p, e)
  <2>1. CASE p.content = Frame
    BY <1>1, <2>1 DEF Shape, Fits
  <2>2. CASE p.content # Frame
    <3>1. p.content \in 1..MaxContents
      BY <1>1, <2>2, SlotsAre DEF Frame
    <3>2. /\ DOMAIN Content(r, p.content) \subseteq Keys
          /\ r.contents[p.content].kind = "array" => Content(r, p.content) \in Seq(Numbers)
      BY <1>8, <3>1 DEF Shape
    <3>3. ASSUME Content(r, p.content) \in Seq(Numbers) PROVE e \in Seq(Numbers)
      <4> DEFINE s == Content(r, p.content)
      <4>1. PICK m \in Nat : s \in [1..m -> Numbers]
        BY <3>3
      <4>2. e \in [1..m -> Numbers]
        BY <1>1, <1>11, <4>1 DEF Put
      <4>3. QED BY <4>2
    <3>4. QED BY <1>1, <1>11, <2>2, <3>2, <3>3 DEF Fits
  <2>3. QED BY <2>1, <2>2
<1>13. p \notin Live(r, {p})
  BY DEF Live
<1> HIDE DEF e
<1>19. Gets(Content(r, p.content), e, p.at, v) /\ Rewritten(r, g, p.content, e)
  <2>1. Content(r, p.content) \in Elements /\ p.at \in Slots
    BY <1>1, <1>8, SpotsAre, HeapFields
  <2>2. Gets(Content(r, p.content), e, p.at, v)
    BY <2>1, PutShape DEF e
  <2>3. e \in Elements
    BY <2>2 DEF Gets
  <2>4. QED BY <1>1, <1>6, <1>8, <2>2, <2>3, RewrittenIs
<1>14. /\ Balanced(g, {p} \ {p}, Less(x, v), n - 1) /\ g.twice = r.twice
       /\ \A c \in Numbers : Exists(g, c) <=> Exists(r, c)
       /\ Wrote(r, g, p.content, e)
  BY <1>1, <1>7, <1>12, <1>13, <1>19, PutIs
<1>15. Balanced(g, {}, Less(x, v), n - 1)
  <2>1. {p} \ {p} = {}
    OBVIOUS
  <2>2. QED BY <1>14, <2>1
<1>16. g.twice = h.twice
  BY <1>7, <1>14
<1>17. \A o \in O \cup {Frame} : Exists(g, o)
  BY <1>1, <1>7, <1>14
<1>18. Wrote(h, g, p.content, Put(Content(h, p.content), p.at, v))
  <2>1. e = Put(Content(h, p.content), p.at, v)
    BY <1>11 DEF e
  <2>2. QED BY <1>7, <1>11, <1>14, <2>1 DEF Wrote
<1>20. QED BY <1>15, <1>16, <1>17, <1>18 DEF g

\* The elements a without one of them.
Loses(a, e, at) ==
  e \in Elements /\ DOMAIN e = DOMAIN a \ {at} /\ \A k \in DOMAIN e : e[k] = a[k]

LEMMA WithoutShape ==
  ASSUME NEW a \in Elements, NEW at
  PROVE  Loses(a, Without(a, at), at)
<1> DEFINE e == Without(a, at)
<1>1. DOMAIN e = DOMAIN a \ {at} /\ \A k \in DOMAIN e : e[k] = a[k]
  BY DEF Without
<1>2. DOMAIN e \subseteq Slots /\ \A k \in DOMAIN e : e[k] \in Numbers
  BY <1>1, ElementsAre
<1>3. e \in [DOMAIN e -> Numbers]
  BY <1>2 DEF Without
<1> HIDE DEF e
<1>4. Loses(a, e, at)
  BY <1>1, <1>2, <1>3, ElementsAre DEF Loses
<1>5. QED BY <1>4 DEF e

\* A place goes that does not count.
LEMMA WithoutIs ==
  ASSUME NEW r, NEW Q, NEW x, NEW n, Balanced(r, Q, x, n), NEW p \in Q, p.content # Frame,
         NEW e, Loses(Content(r, p.content), e, p.at), Exists(r, p.content),
         r.contents[p.content].kind = "array" => e \in Seq(Numbers),
         NEW g, Rewritten(r, g, p.content, e)
  PROVE  /\ Balanced(g, Q \ {p}, x, n) /\ g.twice = r.twice
         /\ \A c \in Numbers : Exists(g, c) <=> Exists(r, c)
         /\ Wrote(r, g, p.content, e)
<1> DEFINE d == p.content
           R == Q \ {p}
<1>1. /\ Shape(r) /\ r \in Heaps /\ Q \subseteq Spots /\ x \in [Numbers -> Nat] /\ n \in Nat /\ r.live \in Int
      /\ p \in Spots /\ d \in Numbers /\ Frame \in Numbers /\ d # Frame
  BY SpotsAre, HeapFields, SlotsAre DEF Balanced, Shape
<1>2. /\ e \in Elements /\ DOMAIN e = DOMAIN Content(r, d) \ {p.at}
      /\ \A k \in DOMAIN e : e[k] = Content(r, d)[k]
  BY DEF Loses
<1>3. /\ g \in Heaps /\ g.live = r.live /\ g.twice = r.twice
      /\ \A c \in Numbers : c # d => g.contents[c] = r.contents[c]
  BY DEF Rewritten
<1>4. \A c \in Numbers : /\ Content(g, c) = IF c = d THEN e ELSE Content(r, c)
                         /\ g.contents[c].uses = r.contents[c].uses
                         /\ g.contents[c].kind = r.contents[c].kind
  BY DEF Rewritten
<1>5. \A q \in Spots : /\ q \in Live(g, R) <=> q \in Live(r, Q)
                       /\ q \in Live(g, R) => ValueAt(g, q) = ValueAt(r, q)
  <2> TAKE q \in Spots
  <2>1. q.content \in Numbers
    BY SpotsAre
  <2>2. CASE q = p
    BY <1>2, <1>4, <2>1, <2>2 DEF Live
  <2>3. CASE q # p /\ q.content = d
    <3>1. q.at # p.at
      BY <1>1, <2>3, SpotsAre
    <3>2. Content(g, q.content) = e /\ Content(r, q.content) = Content(r, d)
      BY <1>4, <2>1, <2>3
    <3>3. q \in R <=> q \in Q
      BY <2>3
    <3>4. QED BY <1>2, <3>1, <3>2, <3>3 DEF Live, ValueAt
  <2>4. CASE q # p /\ q.content # d
    <3>1. Content(g, q.content) = Content(r, q.content)
      BY <1>4, <2>1, <2>4
    <3>2. q \in R <=> q \in Q
      BY <2>4
    <3>3. QED BY <3>1, <3>2 DEF Live, ValueAt
  <2>5. QED BY <2>2, <2>3, <2>4
<1>6. Live(g, R) = Live(r, Q) /\ \A c : Held(g, c, R) = Held(r, c, Q)
  <2>1. Live(g, R) \subseteq Spots /\ Live(r, Q) \subseteq Spots
    BY DEF Live
  <2>2. Live(g, R) = Live(r, Q)
    BY <1>5, <2>1
  <2>3. QED BY <1>5, <2>1, <2>2 DEF Held
<1> HIDE DEF R
<1>7. \A c \in 1..MaxContents : g.contents[c].uses = Cardinality(Held(g, c, R)) + x[c]
  <2> TAKE c \in 1..MaxContents
  <2>1. c \in Numbers /\ r.contents[c].uses = Cardinality(Held(r, c, Q)) + x[c]
    BY SlotsAre DEF Balanced
  <2>2. QED BY <1>4, <1>6, <2>1
<1>8. g.live = Cardinality(Live(g, R)) + n
  BY <1>3, <1>6 DEF Balanced
<1>9. Shape(g)
  <2>1. g.contents[Frame].uses = 1 /\ Content(g, Frame) \in [1..Variables -> Numbers]
    BY <1>1, <1>4 DEF Shape
  <2>2. ASSUME NEW c \in 1..MaxContents
        PROVE  /\ g.contents[c].uses \in Nat
               /\ g.contents[c].uses = 0 => g.contents[c] = Free
               /\ DOMAIN Content(g, c) \subseteq Keys
               /\ g.contents[c].kind = "array" => Content(g, c) \in Seq(Numbers)
    <3>1. c \in Numbers
      BY SlotsAre
    <3>2. CASE c = d
      <4>1. /\ DOMAIN Content(r, d) \subseteq Keys /\ r.contents[d].uses \in Nat
        BY <1>1, <3>2 DEF Shape
      <4>2. /\ r.contents[d].uses > 0
            /\ r.contents[d].kind = "array" => e \in Seq(Numbers)
        BY DEF Exists
      <4>3. Content(g, c) = e /\ g.contents[c].uses = r.contents[d].uses /\ g.contents[c].kind = r.contents[d].kind
        BY <1>4, <3>1, <3>2
      <4>4. QED BY <1>2, <4>1, <4>2, <4>3
    <3>3. CASE c # d
      <4>1. g.contents[c] = r.contents[c]
        BY <1>3, <3>1, <3>3
      <4>2. QED BY <1>1, <4>1 DEF Shape, Content
    <3>4. QED BY <3>2, <3>3
  <2>3. g.live \in Nat
    BY <1>1, <1>3 DEF Shape
  <2>4. QED BY <1>3, <2>1, <2>2, <2>3 DEF Shape
<1>10. Balanced(g, R, x, n)
  <2>1. R \subseteq Spots
    BY <1>1 DEF R
  <2>2. QED BY <1>1, <1>7, <1>8, <1>9, <2>1 DEF Balanced
<1>11. \A c \in Numbers : Exists(g, c) <=> Exists(r, c)
  BY <1>4 DEF Exists
<1>12. Wrote(r, g, p.content, e)
  BY <1>4, <1>11 DEF Wrote
<1>13. QED BY <1>3, <1>10, <1>11, <1>12 DEF R

\* Drop: an element goes and its value is released; of an array it is the last one.
LEMMA DropIs ==
  ASSUME NEW h, NEW x, NEW n, Balanced(h, {}, x, n),
         NEW p \in Live(h, {}), NEW O, O \subseteq 1..MaxContents, Kept(h, {p}, x, O), p.content \in O,
         h.contents[p.content].kind = "array" => p.at = Len(Content(h, p.content))
  PROVE  /\ Balanced(Drop(h, p), {}, x, n) /\ Drop(h, p).twice = h.twice
         /\ \A o \in O \cup {Frame} : Exists(Drop(h, p), o)
         /\ Wrote(h, Drop(h, p), p.content, Without(Content(h, p.content), p.at))
<1> DEFINE r == Release(h, ValueAt(h, p))
           e == Without(Content(r, p.content), p.at)
           g == Drop(h, p)
<1>1. /\ Balanced(r, {p}, x, n) /\ r.twice = h.twice
      /\ \A o \in O \cup {Frame} : Exists(r, o)
      /\ \A c \in Numbers : Exists(r, c) => /\ Exists(h, c) /\ Content(r, c) = Content(h, c)
                                            /\ r.contents[c].kind = h.contents[c].kind
  <2>1. ReleasedAt(h, p, x, n, O, r)
    BY ReleaseAt
  <2> HIDE DEF r
  <2>2. QED BY <2>1 DEF ReleasedAt
<1>2. g = [r EXCEPT !.contents[p.content].elements = e]
  BY DEF Drop, Content
<1> HIDE DEF r, g
<1>3. /\ Shape(r) /\ r \in Heaps /\ p.content \in Numbers /\ p.content # Frame /\ p \in {p}
      /\ p.content \in 1..MaxContents /\ p.at \in DOMAIN Content(h, p.content)
      /\ Frame \in Numbers /\ O \subseteq Numbers
  <2>1. Shape(r) /\ r \in Heaps
    BY <1>1 DEF Balanced, Shape
  <2>2. p.at \in DOMAIN Content(h, p.content)
    BY DEF Live
  <2>3. p.content \in Numbers /\ p.content # Frame /\ Frame \in Numbers /\ O \subseteq Numbers
    <3>1. p.content \in 1..MaxContents
      OBVIOUS
    <3>2. p.content # 0 /\ p.content \in Numbers
      BY <3>1, SlotsAre
    <3>3. O \subseteq Numbers /\ Frame \in Numbers
      BY SlotsAre
    <3>4. QED BY <3>2, <3>3 DEF Frame
  <2>4. p.content \in 1..MaxContents
    OBVIOUS
  <2>5. QED BY <2>1, <2>2, <2>3, <2>4
<1>4. /\ Content(r, p.content) = Content(h, p.content) /\ Exists(r, p.content)
      /\ r.contents[p.content].kind = h.contents[p.content].kind
  BY <1>1, <1>3
<1>5. Loses(Content(r, p.content), e, p.at)
  BY <1>3, HeapFields, WithoutShape
<1>6. r.contents[p.content].kind = "array" => e \in Seq(Numbers)
  <2> SUFFICES ASSUME r.contents[p.content].kind = "array" PROVE e \in Seq(Numbers)
    OBVIOUS
  <2> DEFINE s == Content(r, p.content)
  <2>1. s \in Seq(Numbers) /\ p.at = Len(s) /\ p.at \in DOMAIN s
    BY <1>3, <1>4 DEF Shape
  <2>2. PICK m \in Nat : s \in [1..m -> Numbers]
    BY <2>1
  <2>3. m = Len(s) /\ m >= 1
    BY <2>1, <2>2
  <2>4. (1..m) \ {m} = 1..(m - 1)
    BY <2>3
  <2>5. e \in [1..(m - 1) -> Numbers]
    BY <2>1, <2>2, <2>3, <2>4 DEF Without
  <2>6. m - 1 \in Nat
    BY <2>3
  <2>7. QED BY <2>5, <2>6
<1>7. Rewritten(r, g, p.content, e)
  <2>1. e \in Elements
    BY <1>5 DEF Loses
  <2>2. QED BY <1>2, <1>3, <2>1, RewrittenIs
<1>8. e = Without(Content(h, p.content), p.at)
  BY <1>4
<1> HIDE DEF e
<1>9. /\ Balanced(g, {p} \ {p}, x, n) /\ g.twice = r.twice
      /\ \A c \in Numbers : Exists(g, c) <=> Exists(r, c)
      /\ Wrote(r, g, p.content, e)
  BY <1>1, <1>3, <1>4, <1>5, <1>6, <1>7, WithoutIs
<1>10. Balanced(g, {}, x, n)
  <2>1. {p} \ {p} = {}
    OBVIOUS
  <2>2. QED BY <1>9, <2>1
<1>11. \A o \in O \cup {Frame} : Exists(g, o)
  BY <1>1, <1>3, <1>9
<1>12. Wrote(h, g, p.content, Without(Content(h, p.content), p.at))
  BY <1>1, <1>8, <1>9 DEF Wrote
<1>13. QED BY <1>1, <1>9, <1>10, <1>11, <1>12 DEF g

-----------------------------------------------------------------------------
(* Operands and where they are stored *)

\* What is there stays, with its elements; there may be more.
Extends(h, g) ==
  /\ g.twice = h.twice
  /\ \A c \in Numbers : Exists(h, c) => /\ Exists(g, c) /\ Content(g, c) = Content(h, c)
                                        /\ g.contents[c].kind = h.contents[c].kind

\* Nothing comes, what stays has its elements.
Leaves(h, g) ==
  \A c \in Numbers : Exists(g, c) => /\ Exists(h, c) /\ Content(g, c) = Content(h, c)
                                      /\ g.contents[c].kind = h.contents[c].kind

LEMMA FrameExists ==
  ASSUME NEW h, Shape(h)
  PROVE  Exists(h, Frame)
BY DEF Shape, Exists

\* A place that counts is in a content that is there, and so is what it holds.
LEMMA PlaceExists ==
  ASSUME NEW h, NEW Q, NEW x, NEW n, Balanced(h, Q, x, n), NEW p \in Live(h, Q)
  PROVE  /\ p.content \in Numbers /\ Exists(h, p.content)
         /\ ValueAt(h, p) \in Numbers /\ (ValueAt(h, p) = 0 \/ Exists(h, ValueAt(h, p)))
<1>1. /\ Shape(h) /\ h \in Heaps /\ x \in [Numbers -> Nat]
      /\ p \in Spots /\ p.content \in Numbers /\ p.at \in DOMAIN Content(h, p.content)
      /\ ValueAt(h, p) \in Numbers
  BY LiveIs DEF Balanced, Shape
<1>2. Exists(h, p.content)
  <2>1. CASE p.content = 0
    BY <1>1, <2>1, FrameExists DEF Frame
  <2>2. CASE p.content # 0
    <3>1. p.content \in 1..MaxContents
      BY <1>1, <2>2, SlotsAre
    <3>2. h.contents[p.content] # Free
      BY <1>1, FreeIs DEF Content
    <3>3. h.contents[p.content].uses \in Nat /\ h.contents[p.content].uses # 0
      BY <1>1, <3>1, <3>2 DEF Shape
    <3>4. QED BY <3>3 DEF Exists
  <2>3. QED BY <2>1, <2>2
<1>3. ASSUME ValueAt(h, p) # 0 PROVE Exists(h, ValueAt(h, p))
  <2> DEFINE v == ValueAt(h, p)
  <2>1. v \in 1..MaxContents
    BY <1>1, <1>3, SlotsAre
  <2>2. p \in Held(h, v, Q)
    BY DEF Held
  <2> HIDE DEF v
  <2>3. Held(h, v, Q) # {} /\ IsFiniteSet(Held(h, v, Q)) /\ Cardinality(Held(h, v, Q)) \in Nat
    BY <2>2, CountsAre
  <2>4. Cardinality(Held(h, v, Q)) # 0
    BY <2>3, FS_EmptySet
  <2>5. h.contents[v].uses = Cardinality(Held(h, v, Q)) + x[v] /\ x[v] \in Nat
    BY <1>1, <2>1, SlotsAre DEF Balanced
  <2>6. h.contents[v].uses > 0
    BY <2>3, <2>4, <2>5
  <2>7. QED BY <2>6 DEF Exists, v
<1>4. QED BY <1>1, <1>2, <1>3

LEMMA WayExists ==
  ASSUME NEW h, NEW Q, NEW x, NEW n, Balanced(h, Q, x, n), NEW v \in Numbers, x[v] >= 1
  PROVE  v = 0 \/ Exists(h, v)
<1> SUFFICES ASSUME v # 0 PROVE Exists(h, v)
  OBVIOUS
<1>1. v \in 1..MaxContents
  BY SlotsAre
<1>2. h.contents[v].uses = Cardinality(Held(h, v, Q)) + x[v] /\ x[v] \in Nat /\ Cardinality(Held(h, v, Q)) \in Nat
  BY <1>1, CountsAre DEF Balanced
<1>3. QED BY <1>2 DEF Exists

\* Copies, of what is there.
LEMMA CopyIs ==
  ASSUME NEW h, NEW Q, NEW x, NEW n, Balanced(h, Q, x, n), NEW v \in Numbers, v = 0 \/ Exists(h, v)
  PROVE  /\ Balanced(Copy(h, v), Q, More(x, v), n + 1)
         /\ Extends(h, Copy(h, v)) /\ Leaves(h, Copy(h, v))
BY CopyBalanced DEF Extends, Leaves, Same

LEMMA ExtendsAgain ==
  \A h, g, f : Extends(h, g) /\ Extends(g, f) => Extends(h, f)
BY DEF Extends

LEMMA LeavesAgain ==
  \A h, g, f : Leaves(h, g) /\ Leaves(g, f) => Leaves(h, f)
BY DEF Leaves

LEMMA ExtendedPlaces ==
  ASSUME NEW h, NEW Q, NEW x, NEW n, Balanced(h, Q, x, n), NEW g, Extends(h, g), NEW p \in Live(h, Q)
  PROVE  p \in Live(g, Q) /\ ValueAt(g, p) = ValueAt(h, p)
<1>1. p.content \in Numbers /\ Exists(h, p.content)
  BY PlaceExists
<1>2. Content(g, p.content) = Content(h, p.content)
  BY <1>1 DEF Extends
<1>3. QED BY <1>2 DEF Live, ValueAt

\* A place that stays when its value goes: the contents on the way to it are not held
\* by itself alone.
Anchored(h, p) ==
  /\ p \in Live(h, {})
  /\ \E O \in SUBSET (1..MaxContents) :
       /\ p.content \in O \cup {Frame}
       /\ \A o \in O : \E q \in Live(h, {}) : q # p /\ q.content \in O \cup {Frame} /\ ValueAt(h, q) = o

LEMMA AnchoredAgain ==
  ASSUME NEW h, NEW x, NEW n, Balanced(h, {}, x, n), NEW g, Extends(h, g), NEW p, Anchored(h, p)
  PROVE  Anchored(g, p)
<1>1. PICK O \in SUBSET (1..MaxContents) :
       /\ p.content \in O \cup {Frame}
       /\ \A o \in O : \E q \in Live(h, {}) : q # p /\ q.content \in O \cup {Frame} /\ ValueAt(h, q) = o
  BY DEF Anchored
<1>2. \A q \in Live(h, {}) : q \in Live(g, {}) /\ ValueAt(g, q) = ValueAt(h, q)
  BY ExtendedPlaces
<1>3. \A o \in O : \E q \in Live(g, {}) : q # p /\ q.content \in O \cup {Frame} /\ ValueAt(g, q) = o
  BY <1>1, <1>2
<1>4. QED BY <1>1, <1>2, <1>3 DEF Anchored

LEMMA AnchoredKept ==
  ASSUME NEW h, NEW x, NEW p, Anchored(h, p)
  PROVE  \E O \in SUBSET (1..MaxContents) : p.content \in O \cup {Frame} /\ Kept(h, {p}, x, O)
<1>1. PICK O \in SUBSET (1..MaxContents) :
       /\ p.content \in O \cup {Frame}
       /\ \A o \in O : \E q \in Live(h, {}) : q # p /\ q.content \in O \cup {Frame} /\ ValueAt(h, q) = o
  BY DEF Anchored
<1>2. \A q \in Live(h, {}) : q # p => q \in Live(h, {p})
  BY DEF Live
<1>3. Kept(h, {p}, x, O)
  BY <1>1, <1>2 DEF Kept
<1>4. QED BY <1>1, <1>3

LEMMA SetAnchored ==
  ASSUME NEW h, NEW x, NEW n, Balanced(h, {}, x, n), NEW v \in Numbers, x[v] >= 1, n >= 1,
         NEW p, Anchored(h, p)
  PROVE  /\ Balanced(SetValue(h, p, v), {}, Less(x, v), n - 1) /\ SetValue(h, p, v).twice = h.twice
         /\ Wrote(h, SetValue(h, p, v), p.content, Put(Content(h, p.content), p.at, v))
<1>1. p \in Live(h, {})
  BY DEF Anchored
<1>2. PICK O \in SUBSET (1..MaxContents) : p.content \in O \cup {Frame} /\ Kept(h, {p}, x, O)
  BY AnchoredKept
<1>3. QED BY <1>1, <1>2, SetValueIs

\* A temporary is released, and the contents that are kept otherwise stay.
LEMMA ReleaseTemporaryIs ==
  ASSUME NEW h, NEW x, NEW n, Balanced(h, {}, x, n), NEW v \in Numbers, x[v] >= 1, n >= 1,
         NEW O \in SUBSET (1..MaxContents), Kept(h, {}, Less(x, v), O)
  PROVE  /\ Balanced(Release(h, v), {}, Less(x, v), n - 1) /\ Release(h, v).twice = h.twice
         /\ Leaves(h, Release(h, v)) /\ \A o \in O \cup {Frame} : Exists(Release(h, v), o)
<1> DEFINE g == Release(h, v)
<1>1. Ready(h, {}, x, n, v, O)
  BY DEF Ready
<1>2. ReleasesOf(h, {}, x, n, v, O, g)
  BY <1>1, ReleaseIs
<1> HIDE DEF g
<1>3. Balanced(g, {}, Less(x, v), n - 1) /\ Shrinks(h, g) /\ \A o \in O : Exists(g, o)
  BY <1>2 DEF ReleasesOf
<1>4. Exists(g, Frame) /\ Exists(h, Frame)
  BY <1>3, FrameExists DEF Balanced
<1>5. Leaves(h, g)
  BY <1>3, <1>4, SlotsAre DEF Shrinks, Leaves, Same, Content, Frame
<1>6. QED BY <1>3, <1>4, <1>5 DEF Shrinks, g

LEMMA NobodyIs == Nobody \in [Numbers -> Nat] /\ \A c \in Numbers : Nobody[c] = 0
BY DEF Nobody

\* OP_ASSIGNMENT of a temporary.
LEMMA AssignTemporary ==
  ASSUME NEW h, NEW v \in Numbers, Balanced(h, {}, More(Nobody, v), 1), NEW to, Anchored(h, to),
         NEW g, g = OP_ASSIGNMENT(Temporary(h, v), to)
  PROVE  /\ Balanced(g, {}, Nobody, 0) /\ g.twice = h.twice
         /\ Wrote(h, g, to.content, Put(Content(h, to.content), to.at, v))
<1> DEFINE x == More(Nobody, v)
           h1 == Copy(h, v)
           h2 == SetValue(h1, to, v)
           e == Put(Content(h, to.content), to.at, v)
<1>1. to # Nowhere /\ to.content \in Numbers /\ Exists(h, to.content)
  <2>1. to \in Live(h, {})
    BY DEF Anchored
  <2>2. to.content \in Numbers /\ Exists(h, to.content)
    BY <2>1, PlaceExists
  <2>3. to.at \in Slots
    BY <2>1, SpotsAre DEF Live
  <2>4. to.at # 0
    BY <2>3 DEF Slots
  <2>5. QED BY <2>2, <2>4, SpotsAre DEF Nowhere
<1>2. g = Release(h2, v)
  BY <1>1 DEF OP_ASSIGNMENT, Temporary, Operand, ReleaseTemporary, IsTemporary, Replace
<1>3. x \in [Numbers -> Nat] /\ x[v] >= 1 /\ Less(x, v) = Nobody
  BY NobodyIs, MoreIs, LessOfMore
<1> HIDE DEF x
<1>4. v = 0 \/ Exists(h, v)
  BY <1>3, WayExists DEF x
<1>5. Balanced(h1, {}, More(x, v), 2) /\ Extends(h, h1) /\ Leaves(h, h1)
  <2>1. 1 + 1 = 2
    OBVIOUS
  <2>2. QED BY <1>4, <2>1, CopyIs DEF x
<1> HIDE DEF h1
<1>6. Anchored(h1, to)
  BY <1>5, AnchoredAgain
<1>7. More(x, v)[v] >= 1 /\ Less(More(x, v), v) = x
  BY <1>3, LessOfMore
<1>8. /\ Balanced(h2, {}, x, 1) /\ h2.twice = h1.twice
      /\ Wrote(h1, h2, to.content, Put(Content(h1, to.content), to.at, v))
  <2>1. 2 - 1 = 1 /\ 2 >= 1
    OBVIOUS
  <2>2. QED BY <1>5, <1>6, <1>7, <2>1, SetAnchored
<1>9. h2.twice = h.twice /\ Wrote(h, h2, to.content, e)
  <2>1. Content(h1, to.content) = Content(h, to.content)
    BY <1>1, <1>5 DEF Extends
  <2>2. QED BY <1>5, <1>8, <2>1 DEF Wrote, Extends, Leaves
<1> HIDE DEF h2, e
<1>10. Balanced(g, {}, Nobody, 0) /\ g.twice = h2.twice /\ Leaves(h2, g)
  <2>1. 1 - 1 = 0 /\ 1 >= 1
    OBVIOUS
  <2>2. {} \in SUBSET (1..MaxContents) /\ Kept(h2, {}, Less(x, v), {})
    BY DEF Kept
  <2>3. QED BY <1>2, <1>3, <1>8, <2>1, <2>2, ReleaseTemporaryIs
<1>11. Wrote(h, g, to.content, e)
  BY <1>9, <1>10 DEF Wrote, Leaves
<1>12. QED BY <1>9, <1>10, <1>11 DEF e

\* Contents that stay when the value of p goes.
Supported(h, p, O) ==
  \A o \in O : \E q \in Live(h, {}) : q # p /\ q.content \in O \cup {Frame} /\ ValueAt(h, q) = o

LEMMA SupportedKept ==
  ASSUME NEW h, NEW x, NEW n, Balanced(h, {}, x, n), NEW g, Extends(h, g), NEW p, NEW O, Supported(h, p, O),
         NEW y
  PROVE  Kept(g, {p}, y, O)
<1>1. \A q \in Live(h, {}) : q # p => q \in Live(g, {p}) /\ ValueAt(g, q) = ValueAt(h, q)
  BY ExtendedPlaces DEF Live
<1>2. QED BY <1>1 DEF Supported, Kept

LEMMA SupportedTogether ==
  ASSUME NEW h, NEW p, NEW O, NEW U, Supported(h, p, O), Supported(h, p, U)
  PROVE  Supported(h, p, O \cup U)
BY DEF Supported

LEMMA InsideIs ==
  ASSUME NEW h \in Heaps, NEW v \in Numbers, v # 0
  PROVE  /\ v \in Inside(h, v) /\ Inside(h, v) \subseteq 1..MaxContents
         /\ \A d \in Inside(h, v) : References(h, d) \subseteq Inside(h, v)
<1>1. v \in Inside(h, v)
  BY DEF Inside, Scalar
<1>2. \A d \in Numbers : References(h, d) \subseteq 1..MaxContents
  BY HeapFields, ElementsAre, SlotsAre DEF References, Scalar
<1>3. Inside(h, v) \subseteq 1..MaxContents
  <2>1. 1..MaxContents \in SUBSET Numbers /\ v \in 1..MaxContents
    BY SlotsAre
  <2>2. \A d \in 1..MaxContents : References(h, d) \subseteq 1..MaxContents
    BY <1>2, <2>1
  <2>3. QED BY <2>1, <2>2 DEF Inside
<1>4. ASSUME NEW d \in Inside(h, v), NEW c \in References(h, d) PROVE c \in Inside(h, v)
  <2>1. d \in Numbers /\ c \in Numbers
    BY <1>2, SlotsAre DEF Inside
  <2>2. ASSUME NEW S \in SUBSET Numbers, v \in S, \A e \in S : References(h, e) \subseteq S
        PROVE  c \in S
    <3>1. d \in S
      BY <2>2 DEF Inside
    <3>2. QED BY <2>2, <3>1
  <2>3. QED BY <2>1, <2>2 DEF Inside, Scalar
<1>5. QED BY <1>1, <1>3, <1>4

\* Between statements, every content is held by a place.
LEMMA HeldBySome ==
  ASSUME NEW h, Balanced(h, {}, Nobody, 0), NEW c \in 1..MaxContents, Exists(h, c)
  PROVE  /\ \E q \in Live(h, {}) : ValueAt(h, q) = c
         /\ h.contents[c].uses # 1 => \A p : \E q \in Live(h, {}) : q # p /\ ValueAt(h, q) = c
<1> DEFINE H == Held(h, c, {})
<1>1. /\ IsFiniteSet(H) /\ Cardinality(H) \in Nat /\ h.contents[c].uses = Cardinality(H)
      /\ h.contents[c].uses > 0
  <2>1. h.contents[c].uses = Cardinality(H) + Nobody[c] /\ Nobody[c] = 0 /\ Cardinality(H) \in Nat /\ IsFiniteSet(H)
    BY CountsAre, SlotsAre, NobodyIs DEF Balanced
  <2>2. h.contents[c].uses = Cardinality(H)
    BY <2>1
  <2>3. QED BY <2>1, <2>2 DEF Exists
<1>2. \A q \in H : q \in Live(h, {}) /\ ValueAt(h, q) = c
  BY DEF Held
<1> HIDE DEF H
<1>3. H # {}
  BY <1>1, FS_EmptySet
<1>4. ASSUME h.contents[c].uses # 1, NEW p PROVE H \ {p} # {}
  <2>1. IsFiniteSet(H \ {p}) /\ Cardinality(H \ {p}) >= Cardinality(H) - 1
    <3>1. IsFiniteSet(H \ {p})
          /\ Cardinality(H \ {p}) = IF p \in H THEN Cardinality(H) - 1 ELSE Cardinality(H)
      BY <1>1, FS_RemoveElement
    <3>2. QED BY <1>1, <3>1
  <2>2. Cardinality(H \ {p}) # 0
    BY <1>1, <1>4, <2>1
  <2>3. QED BY <2>1, <2>2, FS_EmptySet
<1>5. QED BY <1>2, <1>3, <1>4

\* What the operand of an assignment is an element of stays, unless the place that is
\* overwritten owns it.
LEMMA OperandStays ==
  ASSUME NEW h, Balanced(h, {}, Nobody, 0), NEW p \in Live(h, {}), NEW to \in Live(h, {}), NEW operand,
         operand.place = p, ~OverwritesOwner(h, to, operand)
  PROVE  \E O \in SUBSET (1..MaxContents) : p.content \in O \cup {Frame} /\ Supported(h, to, O)
<1> DEFINE old == ValueAt(h, to)
           All == {c \in 1..MaxContents : Exists(h, c)}
<1>1. /\ h \in Heaps /\ old \in Numbers /\ p.content \in Numbers /\ Exists(h, p.content)
      /\ old = 0 \/ Exists(h, old)
  BY PlaceExists DEF Balanced, Shape
<1>2. p.content \in All \cup {Frame}
  BY <1>1, SlotsAre DEF Frame
<1>3. \A q \in Live(h, {}) : q.content \in All \cup {Frame}
  <2> TAKE q \in Live(h, {})
  <2>1. q.content \in Numbers /\ Exists(h, q.content)
    BY PlaceExists
  <2>2. QED BY <2>1, SlotsAre DEF Frame
<1>4. \A o \in All : o # old => \E q \in Live(h, {}) : q # to /\ ValueAt(h, q) = o
  <2> TAKE o \in All
  <2>1. \E q \in Live(h, {}) : ValueAt(h, q) = o
    BY HeldBySome
  <2>2. QED BY <2>1
<1>5. CASE old = 0 \/ h.contents[old].uses # 1
  <2>1. ASSUME NEW o \in All PROVE \E q \in Live(h, {}) : q # to /\ ValueAt(h, q) = o
    <3>1. CASE o # old
      BY <1>4, <3>1
    <3>2. CASE o = old
      <4>1. o \in 1..MaxContents /\ Exists(h, o) /\ o # 0
        OBVIOUS
      <4>2. h.contents[o].uses # 1
        BY <1>5, <3>2, <4>1
      <4>3. QED BY <4>1, <4>2, HeldBySome
    <3>3. QED BY <3>1, <3>2
  <2>2. Supported(h, to, All)
    BY <1>3, <2>1 DEF Supported
  <2>3. QED BY <1>2, <2>2
<1>6. CASE old # 0 /\ h.contents[old].uses = 1
  <2> DEFINE I == Inside(h, old)
  <2>1. p.content \notin I
    BY <1>6 DEF OverwritesOwner, Scalar
  <2>2. old \in I /\ \A d \in I : References(h, d) \subseteq I
    BY <1>1, <1>6, InsideIs
  <2> HIDE DEF I
  <2>3. ASSUME NEW o \in All \ I
        PROVE  \E q \in Live(h, {}) : q # to /\ q.content \in (All \ I) \cup {Frame} /\ ValueAt(h, q) = o
    <3>1. PICK q \in Live(h, {}) : q # to /\ ValueAt(h, q) = o
      BY <1>4, <2>2
    <3>2. q.content \notin I
      <4>1. o # 0 /\ q.at \in DOMAIN Content(h, q.content)
        BY DEF Live
      <4>2. o \in References(h, q.content)
        BY <3>1, <4>1 DEF References, ValueAt, Scalar
      <4>3. QED BY <2>2, <4>2
    <3>3. QED BY <1>3, <3>1, <3>2
  <2>4. Supported(h, to, All \ I)
    BY <2>3 DEF Supported
  <2>5. p.content \in (All \ I) \cup {Frame} /\ All \ I \in SUBSET (1..MaxContents)
    BY <1>2, <2>1
  <2>6. QED BY <2>4, <2>5
<1>7. QED BY <1>5, <1>6

\* A value that goes twice leaves the rest as it is.
LEMMA TwiceIs ==
  ASSUME NEW h, NEW Q, NEW x, NEW n, Balanced(h, Q, x, n),
         NEW g \in Heaps, g.contents = h.contents, g.live = h.live
  PROVE  Balanced(g, Q, x, n)
<1>1. Live(g, Q) = Live(h, Q) /\ \A c : Held(g, c, Q) = Held(h, c, Q)
  <2>1. \A c \in Numbers : Content(g, c) = Content(h, c)
    BY DEF Content
  <2>2. QED BY <2>1, SameLive
<1>2. Shape(g)
  BY DEF Balanced, Shape, Content
<1>3. QED BY <1>1, <1>2 DEF Balanced

\* OP_ASSIGNMENT of a variable or an element.
LEMMA AssignPlace ==
  ASSUME NEW h, Balanced(h, {}, Nobody, 0), NEW p \in Live(h, {}), NEW to, Anchored(h, to),
         NEW operand, operand = Operand(h, p, ValueAt(h, p)), NEW g, g = OP_ASSIGNMENT(operand, to)
  PROVE  /\ Balanced(g, {}, Nobody, 0)
         /\ ~OverwritesOwner(h, to, operand) => g.twice = h.twice
         /\ Wrote(h, g, to.content, Put(Content(h, to.content), to.at, ValueAt(h, p)))
<1> DEFINE v == ValueAt(h, p)
           e == Put(Content(h, to.content), to.at, v)
           h1 == Copy(h, v)
           h2 == SetValue(h1, to, v)
           x == More(Nobody, v)
<1>1. /\ h \in Heaps /\ v \in Numbers /\ (v = 0 \/ Exists(h, v)) /\ p.content \in Numbers
      /\ to \in Live(h, {}) /\ to.content \in Numbers /\ Exists(h, to.content)
  BY PlaceExists DEF Anchored, Balanced, Shape
<1>2. p # Nowhere
  <2>1. p.at \in Slots
    BY SpotsAre DEF Live
  <2>2. p.at # 0
    BY <2>1 DEF Slots
  <2>3. QED BY <2>2, SpotsAre DEF Nowhere
<1>3. operand.h = h /\ operand.place = p /\ operand.value = v
  BY DEF Operand
<1>4. CASE p = to
  <2>1. g = h
    BY <1>3, <1>4 DEF OP_ASSIGNMENT
  <2>2. e = Content(h, to.content)
    <3>1. to.at \in DOMAIN Content(h, to.content) /\ v = Content(h, to.content)[to.at]
      BY <1>1, <1>4 DEF Live, ValueAt
    <3>2. PICK D : Content(h, to.content) \in [D -> Numbers]
      BY <1>1, HeapFields DEF Elements
    <3>3. QED BY <3>1, <3>2 DEF Put
  <2> HIDE DEF e
  <2>3. Wrote(h, g, to.content, e)
    BY <2>1, <2>2 DEF Wrote
  <2>4. QED BY <2>1, <2>3 DEF e
<1>5. CASE p # to
  <2>1. g = IF Exists(h2, p.content) THEN h2 ELSE [h2 EXCEPT !.twice = TRUE]
    BY <1>2, <1>3, <1>5 DEF OP_ASSIGNMENT, ReleaseTemporary, IsTemporary, Replace
  <2>2. x \in [Numbers -> Nat] /\ x[v] >= 1 /\ Less(x, v) = Nobody
    BY <1>1, NobodyIs, MoreIs, LessOfMore
  <2> HIDE DEF x, v
  <2>3. Balanced(h1, {}, x, 1) /\ Extends(h, h1) /\ Leaves(h, h1)
    <3>1. 0 + 1 = 1
      OBVIOUS
    <3>2. QED BY <1>1, <3>1, CopyIs DEF x
  <2> HIDE DEF h1
  <2>4. to \in Live(h1, {})
    BY <1>1, <2>3, ExtendedPlaces
  <2>5. PICK A \in SUBSET (1..MaxContents) : to.content \in A \cup {Frame} /\ Supported(h, to, A)
    BY DEF Anchored, Supported
  <2>6. ASSUME NEW O \in SUBSET (1..MaxContents), Supported(h, to, O)
        PROVE  /\ Balanced(h2, {}, Nobody, 0) /\ h2.twice = h1.twice
               /\ \A o \in O \cup {Frame} : Exists(h2, o)
               /\ Wrote(h1, h2, to.content, Put(Content(h1, to.content), to.at, v))
    <3> DEFINE U == O \cup A
    <3>1. Kept(h1, {to}, x, U)
      BY <2>3, <2>5, <2>6, SupportedTogether, SupportedKept
    <3>2. U \subseteq 1..MaxContents /\ to.content \in U \cup {Frame} /\ O \subseteq U
      BY <2>5
    <3> HIDE DEF U
    <3>3. 1 - 1 = 0 /\ 1 >= 1
      OBVIOUS
    <3>4. /\ Balanced(h2, {}, Less(x, v), 1 - 1) /\ h2.twice = h1.twice
          /\ \A o \in U \cup {Frame} : Exists(h2, o)
          /\ Wrote(h1, h2, to.content, Put(Content(h1, to.content), to.at, v))
      BY <1>1, <2>2, <2>3, <2>4, <3>1, <3>2, <3>3, SetValueIs
    <3>5. QED BY <2>2, <3>2, <3>3, <3>4
  <2>7. /\ Balanced(h2, {}, Nobody, 0) /\ h2.twice = h1.twice
        /\ Wrote(h1, h2, to.content, Put(Content(h1, to.content), to.at, v))
    BY <2>5, <2>6
  <2>8. Wrote(h, h2, to.content, e)
    <3>1. Content(h1, to.content) = Content(h, to.content)
      BY <1>1, <2>3 DEF Extends
    <3>2. QED BY <2>3, <2>7, <3>1 DEF Wrote, Leaves
  <2>9. ASSUME ~OverwritesOwner(h, to, operand) PROVE Exists(h2, p.content)
    <3>1. PICK O \in SUBSET (1..MaxContents) : p.content \in O \cup {Frame} /\ Supported(h, to, O)
      BY <1>1, <1>3, <2>9, OperandStays
    <3>2. QED BY <2>6, <3>1
  <2> HIDE DEF h2, e
  <2>10. Balanced(g, {}, Nobody, 0) /\ g.contents = h2.contents
    <3>1. h2 \in Heaps
      BY <2>7 DEF Balanced, Shape
    <3>2. g \in Heaps /\ g.contents = h2.contents /\ g.live = h2.live
      BY <2>1, <3>1 DEF Heaps
    <3>3. QED BY <2>7, <3>2, TwiceIs
  <2>11. Wrote(h, g, to.content, e)
    BY <2>8, <2>10 DEF Wrote, Exists, Content
  <2>12. ~OverwritesOwner(h, to, operand) => g.twice = h.twice
    BY <2>1, <2>3, <2>7, <2>9 DEF Extends
  <2>13. QED BY <2>10, <2>11, <2>12 DEF e, v
<1>6. QED BY <1>4, <1>5

\* SetValue, said in one word for what it needs and one for what it does.
MaySet(h, x, n, p, v, O) ==
  /\ Balanced(h, {}, x, n) /\ v \in Numbers /\ x[v] >= 1 /\ n >= 1
  /\ p \in Live(h, {}) /\ O \subseteq 1..MaxContents /\ Kept(h, {p}, x, O)
  /\ p.content \in O \cup {Frame}
HasSet(h, x, n, p, v, O, g) ==
  /\ Balanced(g, {}, Less(x, v), n - 1) /\ g.twice = h.twice
  /\ \A o \in O \cup {Frame} : Exists(g, o)
  /\ Wrote(h, g, p.content, Put(Content(h, p.content), p.at, v))

LEMMA Sets ==
  ASSUME NEW h, NEW x, NEW n, NEW p, NEW v, NEW O, MaySet(h, x, n, p, v, O),
         NEW g, g = SetValue(h, p, v)
  PROVE  HasSet(h, x, n, p, v, O, g)
BY SetValueIs DEF MaySet, HasSet

\* OP_ASSIGNMENT_SWAP: the second place stays when the first one gets its value, as the
\* values of both are on their way.
LEMMA SwapIs ==
  ASSUME NEW h, Balanced(h, {}, Nobody, 0), NEW a, Anchored(h, a), NEW b, Anchored(h, b),
         NEW l, l = ValueAt(h, a), NEW r, r = ValueAt(h, b),
         NEW g, g = OP_ASSIGNMENT_SWAP(h, a, b)
  PROVE  /\ Balanced(g, {}, Nobody, 0) /\ g.twice = h.twice
         /\ \E f : /\ Wrote(h, f, a.content, Put(Content(h, a.content), a.at, r))
                   /\ Wrote(f, g, b.content, Put(Content(f, b.content), b.at, l))
<1> DEFINE h1 == Copy(h, l)
           h2 == Copy(h1, r)
           f == SetValue(h2, a, r)
           x == More(Nobody, l)
           y == More(x, r)
<1>1. /\ l \in Numbers /\ (l = 0 \/ Exists(h, l)) /\ r \in Numbers /\ (r = 0 \/ Exists(h, r))
      /\ a \in Live(h, {}) /\ b \in Live(h, {}) /\ h \in Heaps
      /\ a.content \in Numbers /\ b.content \in Numbers /\ Exists(h, a.content) /\ Exists(h, b.content)
  <2>1. a \in Live(h, {}) /\ b \in Live(h, {}) /\ h \in Heaps
    BY DEF Anchored, Balanced, Shape
  <2>2. QED BY <2>1, PlaceExists
<1>2. g = SetValue(f, b, l)
  BY DEF OP_ASSIGNMENT_SWAP
<1>3. x \in [Numbers -> Nat] /\ x[l] >= 1 /\ Less(x, l) = Nobody
  BY <1>1, NobodyIs, MoreIs, LessOfMore
<1> HIDE DEF x
<1>4. y \in [Numbers -> Nat] /\ y[r] >= 1 /\ Less(y, r) = x /\ y[l] >= 1
  <2>1. y \in [Numbers -> Nat] /\ \A c \in Numbers : y[c] = x[c] + (IF c = r THEN 1 ELSE 0)
    BY <1>1, <1>3, MoreIs
  <2>2. y[r] >= 1 /\ Less(y, r) = x
    BY <1>1, <1>3, LessOfMore
  <2> HIDE DEF y
  <2>3. y[l] >= 1
    BY <1>1, <1>3, <2>1
  <2>4. QED BY <2>1, <2>2, <2>3
<1>5. Balanced(h1, {}, x, 1) /\ Extends(h, h1) /\ Leaves(h, h1)
  <2>1. 0 + 1 = 1
    OBVIOUS
  <2>2. QED BY <1>1, <2>1, CopyIs DEF x
<1> HIDE DEF h1
<1>6. Balanced(h2, {}, y, 2) /\ Extends(h, h2) /\ Leaves(h, h2)
  <2>1. 1 + 1 = 2
    OBVIOUS
  <2>2. r = 0 \/ Exists(h1, r)
    BY <1>1, <1>5 DEF Extends
  <2>3. Balanced(h2, {}, y, 2) /\ Extends(h1, h2) /\ Leaves(h1, h2)
    BY <1>1, <1>5, <2>1, <2>2, CopyIs
  <2>4. QED BY <1>5, <2>3, ExtendsAgain, LeavesAgain
<1>0. f = SetValue(h2, a, r)
  OBVIOUS
<1> HIDE DEF h2, y, f
<1>7. PICK A \in SUBSET (1..MaxContents) : a.content \in A \cup {Frame} /\ Supported(h, a, A)
  BY DEF Anchored, Supported
<1>8. PICK B \in SUBSET (1..MaxContents) : b.content \in B \cup {Frame} /\ Supported(h, b, B)
  BY DEF Anchored, Supported
<1>9. \A q \in Live(h, {}) : /\ q \in Live(h2, {}) /\ ValueAt(h2, q) = ValueAt(h, q)
                             /\ q # a => q \in Live(h2, {a})
  BY <1>6, ExtendedPlaces DEF Live
<1>10. Kept(h2, {a}, y, A \cup B)
  <2>1. ASSUME NEW o \in A
        PROVE  \E q \in Live(h2, {a}) : q.content \in (A \cup B) \cup {Frame} /\ ValueAt(h2, q) = o
    BY <1>7, <1>9 DEF Supported
  <2>2. ASSUME NEW o \in B, ~(y[o] >= 1)
        PROVE  \E q \in Live(h2, {a}) : q.content \in (A \cup B) \cup {Frame} /\ ValueAt(h2, q) = o
    <3>1. PICK q \in Live(h, {}) : q # b /\ q.content \in B \cup {Frame} /\ ValueAt(h, q) = o
      BY <1>8 DEF Supported
    <3>2. q # a
      BY <1>4, <2>2, <3>1
    <3>3. QED BY <1>9, <3>1, <3>2
  <2>3. QED BY <2>1, <2>2 DEF Kept
<1>11. /\ Balanced(f, {}, x, 1) /\ f.twice = h.twice
       /\ \A o \in (A \cup B) \cup {Frame} : Exists(f, o)
       /\ Wrote(h2, f, a.content, Put(Content(h2, a.content), a.at, r))
  <2>1. 2 >= 1 /\ 2 - 1 = 1
    OBVIOUS
  <2> DEFINE U == A \cup B
  <2>2. U \subseteq 1..MaxContents /\ a.content \in U \cup {Frame} /\ Kept(h2, {a}, y, U)
    BY <1>7, <1>10
  <2>5. a \in Live(h2, {})
    BY <1>1, <1>9
  <2>6. ASSUME NEW O, O = U
        PROVE  /\ Balanced(f, {}, Less(y, r), 2 - 1) /\ f.twice = h2.twice
               /\ \A o \in O \cup {Frame} : Exists(f, o)
               /\ Wrote(h2, f, a.content, Put(Content(h2, a.content), a.at, r))
    <3>1. O \subseteq 1..MaxContents /\ a.content \in O \cup {Frame} /\ Kept(h2, {a}, y, O)
      BY <2>2, <2>6
    <3> HIDE DEF U
    <3>2. MaySet(h2, y, 2, a, r, O)
      BY <1>1, <1>4, <1>6, <2>1, <2>5, <3>1 DEF MaySet
    <3>3. HasSet(h2, y, 2, a, r, O, f)
      BY <1>0, <3>2, Sets
    <3>4. QED BY <3>3 DEF HasSet
  <2>3. /\ Balanced(f, {}, Less(y, r), 2 - 1) /\ f.twice = h2.twice
        /\ \A o \in (A \cup B) \cup {Frame} : Exists(f, o)
        /\ Wrote(h2, f, a.content, Put(Content(h2, a.content), a.at, r))
    BY <2>6
  <2>4. QED BY <1>4, <1>6, <2>1, <2>3 DEF Extends
<1>12. ASSUME NEW q \in Live(h, {}), q.content \in B \cup {Frame}, q # a
       PROVE  q \in Live(f, {}) /\ ValueAt(f, q) = ValueAt(h, q)
  <2>1. q \in Spots /\ q.content \in Numbers /\ Exists(f, q.content) /\ q.at \in DOMAIN Content(h, q.content)
    BY <1>11, <1>12, SpotsAre DEF Live
  <2>2. Content(h2, q.content) = Content(h, q.content)
    <3>1. Exists(h, q.content)
      BY PlaceExists
    <3>2. QED BY <1>6, <2>1, <3>1 DEF Extends
  <2>3. CASE q.content # a.content
    <3>1. Content(f, q.content) = Content(h, q.content)
      BY <1>11, <2>1, <2>2, <2>3 DEF Wrote
    <3>2. QED BY <2>1, <3>1 DEF Live, ValueAt
  <2>4. CASE q.content = a.content
    <3>1. q.at # a.at
      BY <1>1, <1>12, <2>1, <2>4, SpotsAre DEF Live
    <3>2. Content(f, q.content) = Put(Content(h, q.content), a.at, r)
      BY <1>11, <2>1, <2>2, <2>4 DEF Wrote
    <3>3. q.at \in DOMAIN Content(f, q.content) /\ Content(f, q.content)[q.at] = Content(h, q.content)[q.at]
      BY <2>1, <3>1, <3>2 DEF Put
    <3>4. QED BY <2>1, <3>3 DEF Live, ValueAt
  <2>5. QED BY <2>3, <2>4
<1>13. b \in Live(f, {})
  <2>1. CASE b # a
    BY <1>1, <1>8, <1>12, <2>1
  <2>2. CASE b = a
    <3>1. Exists(f, b.content)
      BY <1>8, <1>11
    <3>2. Content(f, b.content) = Put(Content(h2, b.content), b.at, r)
      BY <1>1, <1>11, <2>2, <3>1 DEF Wrote
    <3>3. b.at \in DOMAIN Content(f, b.content)
      BY <3>2 DEF Put
    <3>4. QED BY <1>1, <3>3 DEF Live
  <2>3. QED BY <2>1, <2>2
<1>14. Kept(f, {b}, x, B)
  <2> SUFFICES ASSUME NEW o \in B, ~(x[o] >= 1)
               PROVE  \E q \in Live(f, {b}) : q.content \in B \cup {Frame} /\ ValueAt(f, q) = o
    BY DEF Kept
  <2>1. PICK q \in Live(h, {}) : q # b /\ q.content \in B \cup {Frame} /\ ValueAt(h, q) = o
    BY <1>8 DEF Supported
  <2>2. q # a
    BY <1>3, <2>1
  <2>3. q \in Live(f, {b}) /\ ValueAt(f, q) = o
    BY <1>12, <2>1, <2>2 DEF Live
  <2>4. QED BY <2>1, <2>3
<1>15. /\ Balanced(g, {}, Nobody, 0) /\ g.twice = f.twice
       /\ Wrote(f, g, b.content, Put(Content(f, b.content), b.at, l))
  <2>1. 1 >= 1 /\ 1 - 1 = 0
    OBVIOUS
  <2>2. MaySet(f, x, 1, b, l, B)
    BY <1>1, <1>3, <1>8, <1>11, <1>13, <1>14, <2>1 DEF MaySet
  <2>3. HasSet(f, x, 1, b, l, B, g)
    BY <1>2, <2>2, Sets
  <2>4. /\ Balanced(g, {}, Less(x, l), 1 - 1) /\ g.twice = f.twice
        /\ Wrote(f, g, b.content, Put(Content(f, b.content), b.at, l))
    BY <2>3 DEF HasSet
  <2>5. QED BY <1>3, <2>1, <2>4
<1>16. Wrote(h, f, a.content, Put(Content(h, a.content), a.at, r))
  <2>1. Content(h2, a.content) = Content(h, a.content)
    BY <1>1, <1>6 DEF Extends
  <2>2. QED BY <1>6, <1>11, <2>1 DEF Wrote, Leaves
<1>17. QED BY <1>11, <1>15, <1>16

\* Places on paths.
LEMMA AnchoredInFrame ==
  ASSUME NEW h, Shape(h), NEW k \in 1..Variables
  PROVE  Anchored(h, Place(Frame, k))
<1>1. Place(Frame, k) \in Live(h, {}) /\ Place(Frame, k).content = Frame
  BY SlotsAre, SpotsAre DEF Shape, Live
<1>2. {} \in SUBSET (1..MaxContents)
  OBVIOUS
<1>3. QED BY <1>1, <1>2 DEF Anchored

LEMMA AnchoredInVariable ==
  ASSUME NEW h, NEW x, NEW n, Balanced(h, {}, x, n), NEW q \in Live(h, {}), q.content = Frame,
         NEW c, c = ValueAt(h, q), c # 0, NEW p \in Live(h, {}), p.content = c
  PROVE  Anchored(h, p)
<1>1. c \in 1..MaxContents
  BY PlaceExists, SlotsAre
<1>2. q # p /\ q.content \in {c} \cup {Frame} /\ {c} \in SUBSET (1..MaxContents)
  BY <1>1 DEF Frame
<1>3. QED BY <1>2 DEF Anchored

LEMMA AnchoredInElement ==
  ASSUME NEW h, NEW x, NEW n, Balanced(h, {}, x, n), NEW q \in Live(h, {}), q.content = Frame,
         NEW c, c = ValueAt(h, q), c # 0, NEW s \in Live(h, {}), s.content = c,
         NEW d, d = ValueAt(h, s), d # 0, NEW p \in Live(h, {}), p.content = d
  PROVE  Anchored(h, p)
<1>1. CASE d = c
  BY <1>1, AnchoredInVariable
<1>2. CASE d # c
  <2>1. c \in 1..MaxContents /\ d \in 1..MaxContents
    BY PlaceExists, SlotsAre
  <2>2. q # p /\ q.content \in {c, d} \cup {Frame} /\ s # p /\ s.content \in {c, d} \cup {Frame}
        /\ {c, d} \in SUBSET (1..MaxContents) /\ p.content \in {c, d}
    BY <1>2, <2>1 DEF Frame
  <2>3. QED BY <2>2 DEF Anchored
<1>3. QED BY <1>1, <1>2

LEMMA LiveAt ==
  ASSUME NEW h \in Heaps, NEW c \in Numbers, NEW k \in DOMAIN Content(h, c)
  PROVE  /\ Place(c, k) \in Live(h, {}) /\ Place(c, k).content = c /\ Place(c, k).at = k
         /\ ValueAt(h, Place(c, k)) = Content(h, c)[k] /\ ValueAt(h, Place(c, k)) \in Numbers
<1>1. k \in Slots /\ Content(h, c)[k] \in Numbers
  BY HeapFields, ElementsAre
<1>2. QED BY <1>1, SpotsAre DEF Live, ValueAt

\* What a path leads through.
LEMMA PathIs ==
  ASSUME NEW h, NEW path \in PathsOf(h)
  PROVE  LET p1 == Place(Frame, path[1])
             p2 == Place(ValueAt(h, p1), path[2])
             p3 == Place(ValueAt(h, p2), path[3])
         IN /\ path[1] \in 1..Variables
            /\ \/ Len(path) = 1 /\ Lookup(h, path) = p1
               \/ /\ Len(path) = 2 /\ Lookup(h, path) = p2
                  /\ ValueAt(h, p1) # 0 /\ path[2] \in DOMAIN Content(h, ValueAt(h, p1))
               \/ /\ Len(path) = 3 /\ Lookup(h, path) = p3
                  /\ ValueAt(h, p1) # 0 /\ path[2] \in DOMAIN Content(h, ValueAt(h, p1))
                  /\ ValueAt(h, p2) # 0 /\ path[3] \in DOMAIN Content(h, ValueAt(h, p2))
<1> DEFINE p1 == Place(Frame, path[1])
           p2 == Place(ValueAt(h, p1), path[2])
           p3 == Place(ValueAt(h, p2), path[3])
<1>1. PICK n \in 1..3 : path \in [1..n -> Slots]
  BY DEF PathsOf, Paths
<1>2. Len(path) = n /\ IsPath(h, path) /\ path \in Seq(Slots)
  BY <1>1 DEF PathsOf
<1>3. \A m \in 1..n : /\ SubSeq(path, 1, m) \in Seq(Slots) /\ Len(SubSeq(path, 1, m)) = m
                      /\ \A i \in 1..m : SubSeq(path, 1, m)[i] = path[i]
  BY <1>1, <1>2
<1>4. path[1] \in 1..Variables /\ (n = 1 => Lookup(h, path) = p1)
      /\ (n = 2 => Lookup(h, path) = p2) /\ (n = 3 => Lookup(h, path) = p3)
  BY <1>2 DEF IsPath, Lookup
<1>5. ASSUME n >= 2
      PROVE  ValueAt(h, p1) # 0 /\ path[2] \in DOMAIN Content(h, ValueAt(h, p1))
  <2>1. 2 \in 2..Len(path) /\ 2 - 1 = 1 /\ 1 \in 1..n /\ 1 \in 1..1
    BY <1>2, <1>5
  <2>2. Lookup(h, SubSeq(path, 1, 1)) = p1
    BY <1>3, <2>1 DEF Lookup
  <2>3. QED BY <1>2, <2>1, <2>2 DEF IsPath, Scalar
<1>6. ASSUME n = 3
      PROVE  ValueAt(h, p2) # 0 /\ path[3] \in DOMAIN Content(h, ValueAt(h, p2))
  <2>1. 3 \in 2..Len(path) /\ 3 - 1 = 2 /\ 2 \in 1..n /\ 2 \in 1..2 /\ 1 \in 1..2
    BY <1>2, <1>6
  <2>2. Lookup(h, SubSeq(path, 1, 2)) = p2
    <3>1. Len(SubSeq(path, 1, 2)) = 2 /\ SubSeq(path, 1, 2)[1] = path[1] /\ SubSeq(path, 1, 2)[2] = path[2]
      BY <1>3, <2>1
    <3>2. QED BY <3>1 DEF Lookup
  <2>3. QED BY <1>2, <2>1, <2>2 DEF IsPath, Scalar
<1>7. QED BY <1>1, <1>2, <1>4, <1>5, <1>6

LEMMA PathAnchored ==
  ASSUME NEW h, NEW x, NEW n, Balanced(h, {}, x, n), NEW path \in PathsOf(h)
  PROVE  Anchored(h, Lookup(h, path))
<1> DEFINE p1 == Place(Frame, path[1])
           p2 == Place(ValueAt(h, p1), path[2])
           p3 == Place(ValueAt(h, p2), path[3])
<1>1. Shape(h) /\ h \in Heaps
  BY DEF Balanced, Shape
<1>2. /\ path[1] \in 1..Variables
      /\ \/ Len(path) = 1 /\ Lookup(h, path) = p1
         \/ /\ Len(path) = 2 /\ Lookup(h, path) = p2
            /\ ValueAt(h, p1) # 0 /\ path[2] \in DOMAIN Content(h, ValueAt(h, p1))
         \/ /\ Len(path) = 3 /\ Lookup(h, path) = p3
            /\ ValueAt(h, p1) # 0 /\ path[2] \in DOMAIN Content(h, ValueAt(h, p1))
            /\ ValueAt(h, p2) # 0 /\ path[3] \in DOMAIN Content(h, ValueAt(h, p2))
  BY PathIs
<1>3. Anchored(h, p1) /\ p1 \in Live(h, {}) /\ p1.content = Frame /\ ValueAt(h, p1) \in Numbers
  <2>1. Anchored(h, p1)
    BY <1>1, <1>2, AnchoredInFrame
  <2>2. p1 \in Live(h, {}) /\ p1.content = Frame
    BY <2>1, SpotsAre DEF Anchored
  <2>3. QED BY <2>1, <2>2, PlaceExists
<1> HIDE DEF p1
<1>4. ASSUME ValueAt(h, p1) # 0, path[2] \in DOMAIN Content(h, ValueAt(h, p1))
      PROVE  /\ Anchored(h, p2) /\ p2 \in Live(h, {}) /\ p2.content = ValueAt(h, p1)
             /\ ValueAt(h, p2) \in Numbers
  <2>1. p2 \in Live(h, {}) /\ p2.content = ValueAt(h, p1) /\ ValueAt(h, p2) \in Numbers
    BY <1>1, <1>3, <1>4, LiveAt
  <2>2. QED BY <1>3, <1>4, <2>1, AnchoredInVariable
<1> HIDE DEF p2
<1>5. ASSUME ValueAt(h, p1) # 0, path[2] \in DOMAIN Content(h, ValueAt(h, p1)),
             ValueAt(h, p2) # 0, path[3] \in DOMAIN Content(h, ValueAt(h, p2))
      PROVE  Anchored(h, p3)
  <2>1. p3 \in Live(h, {}) /\ p3.content = ValueAt(h, p2)
    BY <1>1, <1>4, <1>5, LiveAt
  <2>2. QED BY <1>3, <1>4, <1>5, <2>1, AnchoredInElement
<1>6. QED BY <1>2, <1>3, <1>4, <1>5

\* An element of the content at a path.
LEMMA ElementAnchored ==
  ASSUME NEW h, NEW x, NEW n, Balanced(h, {}, x, n), NEW path \in PathsOf(h), Len(path) <= 2,
         NEW c, c = ValueAt(h, Lookup(h, path)), c # 0, NEW k \in DOMAIN Content(h, c)
  PROVE  Anchored(h, Place(c, k))
<1> DEFINE p1 == Place(Frame, path[1])
           p2 == Place(ValueAt(h, p1), path[2])
           p == Place(c, k)
<1>1. Shape(h) /\ h \in Heaps
  BY DEF Balanced, Shape
<1>2. /\ path[1] \in 1..Variables
      /\ \/ Lookup(h, path) = p1
         \/ /\ Lookup(h, path) = p2
            /\ ValueAt(h, p1) # 0 /\ path[2] \in DOMAIN Content(h, ValueAt(h, p1))
  BY PathIs
<1>3. p1 \in Live(h, {}) /\ p1.content = Frame /\ ValueAt(h, p1) \in Numbers
  <2>1. Anchored(h, p1)
    BY <1>1, <1>2, AnchoredInFrame
  <2>2. p1 \in Live(h, {}) /\ p1.content = Frame
    BY <2>1, SpotsAre DEF Anchored
  <2>3. QED BY <2>2, PlaceExists
<1>4. c \in Numbers
  <2>1. Lookup(h, path) \in Live(h, {})
    BY PathAnchored DEF Anchored
  <2>2. QED BY <2>1, PlaceExists
<1>5. p \in Live(h, {}) /\ p.content = c
  BY <1>1, <1>4, LiveAt
<1> HIDE DEF p1, p
<1>6. CASE Lookup(h, path) = p1
  <2>1. c = ValueAt(h, p1)
    BY <1>6
  <2>2. Anchored(h, p)
    BY <1>3, <1>5, <2>1, AnchoredInVariable
  <2>3. QED BY <2>2 DEF p
<1>7. CASE /\ Lookup(h, path) = p2
           /\ ValueAt(h, p1) # 0 /\ path[2] \in DOMAIN Content(h, ValueAt(h, p1))
  <2>1. p2 \in Live(h, {}) /\ p2.content = ValueAt(h, p1) /\ c = ValueAt(h, p2)
    BY <1>1, <1>3, <1>7, LiveAt
  <2>2. Anchored(h, p)
    BY <1>3, <1>5, <1>7, <2>1, AnchoredInElement
  <2>3. QED BY <2>2 DEF p
<1>8. QED BY <1>2, <1>6, <1>7

-----------------------------------------------------------------------------
(* New contents *)

\* Handles that the elements of a content will be.
CountOf(e) == [c \in Numbers |-> Cardinality({k \in DOMAIN e : e[k] = c})]

LEMMA CountOfIs ==
  ASSUME NEW e, IsFiniteSet(DOMAIN e)
  PROVE  /\ CountOf(e) \in [Numbers -> Nat] /\ Cardinality(DOMAIN e) \in Nat
         /\ \A c \in Numbers : CountOf(e)[c] = Cardinality({k \in DOMAIN e : e[k] = c})
<1>1. \A c : {k \in DOMAIN e : e[k] = c} \subseteq DOMAIN e
  OBVIOUS
<1>2. \A S \in SUBSET (DOMAIN e) : Cardinality(S) \in Nat
  BY FS_Subset, FS_CardinalityType
<1>3. \A c : Cardinality({k \in DOMAIN e : e[k] = c}) \in Nat
  BY <1>1, <1>2
<1>4. QED BY <1>2, <1>3 DEF CountOf

\* A new content is not there yet.
LEMMA NewIs ==
  ASSUME NEW h, FreeContents(h) # {}
  PROVE  NewContent(h) \in 1..MaxContents /\ ~Exists(h, NewContent(h))
<1>1. FreeContents(h) \subseteq Nat
  BY SlotsAre DEF FreeContents
<1>2. \E c \in FreeContents(h) : \A d \in FreeContents(h) : c <= d
  BY <1>1, LeastNumber
<1>3. NewContent(h) \in FreeContents(h)
  BY <1>2 DEF NewContent
<1>4. QED BY <1>3 DEF FreeContents

LEMMA NewSame ==
  ASSUME NEW h, NEW g, \A c \in Numbers : Exists(g, c) <=> Exists(h, c)
  PROVE  NewContent(g) = NewContent(h) /\ FreeContents(g) = FreeContents(h)
<1>1. FreeContents(g) = FreeContents(h)
  BY SlotsAre DEF FreeContents
<1>2. NewContent(g) = NewContent(h)
  BY <1>1 DEF NewContent
<1>3. QED BY <1>1, <1>2

PlacesOf(c, K) == {Place(c, k) : k \in K}

LEMMA PlacesCount ==
  ASSUME NEW c, NEW K, IsFiniteSet(K)
  PROVE  IsFiniteSet(PlacesOf(c, K)) /\ Cardinality(PlacesOf(c, K)) = Cardinality(K)
<1> DEFINE f == [k \in K |-> Place(c, k)]
<1>1. f \in Bijection(K, PlacesOf(c, K))
  <2>1. f \in [K -> PlacesOf(c, K)] /\ \A k \in K : f[k] = Place(c, k)
    BY DEF PlacesOf
  <2>2. \A t \in PlacesOf(c, K) : \E k \in K : f[k] = t
    BY <2>1 DEF PlacesOf
  <2>3. \A j, k \in K : f[j] = f[k] => j = k
    BY <2>1, SpotsAre
  <2> HIDE DEF f
  <2>4. QED BY <2>1, <2>2, <2>3 DEF Bijection, Injection, Surjection, IsInjective
<1>2. ExistsBijection(K, PlacesOf(c, K))
  BY <1>1 DEF ExistsBijection
<1>3. QED BY <1>2, FS_Bijection

LEMMA ApartCount ==
  ASSUME NEW S, IsFiniteSet(S), NEW T, IsFiniteSet(T), S \cap T = {}
  PROVE  Cardinality(S \cup T) = Cardinality(S) + Cardinality(T)
<1>1. Cardinality(S \cup T) = Cardinality(S) + Cardinality(T) - Cardinality({})
  BY FS_Union
<1>2. Cardinality({}) = 0 /\ Cardinality(S) \in Nat /\ Cardinality(T) \in Nat
  BY FS_EmptySet, FS_CardinalityType
<1>3. QED BY <1>1, <1>2

\* What a heap is after c has been constructed with the elements e.
Created(h, g, c, e) ==
  /\ g.twice = h.twice /\ ~Exists(h, c)
  /\ \A d \in Numbers : Exists(g, d) <=> Exists(h, d) \/ d = c
  /\ \A d \in Numbers : Content(g, d) = IF d = c THEN e ELSE Content(h, d)
  /\ \A d \in Numbers : d # c => g.contents[d].kind = h.contents[d].kind

\* Construct: the elements are owned by the content, the handle on it is on its way.
LEMMA ConstructIs ==
  ASSUME NEW h, NEW e \in Elements, Balanced(h, {}, CountOf(e), Cardinality(DOMAIN e)),
         DOMAIN e \subseteq Keys, NEW kind \in {"array", "object"}, kind = "array" => e \in Seq(Numbers),
         FreeContents(h) # {}, NEW c, c = NewContent(h), NEW g, g = Construct(h, kind, e)
  PROVE  Balanced(g, {}, More(Nobody, c), 1) /\ Created(h, g, c, e) /\ c \in 1..MaxContents
<1> DEFINE r == [kind |-> kind, elements |-> e, uses |-> 1]
           K == DOMAIN e
<1>1. c \in 1..MaxContents /\ c \in Numbers /\ c # 0 /\ ~Exists(h, c) /\ IsFiniteSet(K)
      /\ K \subseteq Slots
  <2>1. c \in 1..MaxContents /\ ~Exists(h, c)
    BY NewIs
  <2>2. IsFiniteSet(K) /\ K \subseteq Slots
    <3>1. K \subseteq Slots
      BY ElementsAre
    <3>2. QED BY <3>1, SlotsAre, FS_Subset
  <2>3. QED BY <2>1, <2>2, SlotsAre
<1>2. /\ Shape(h) /\ h \in Heaps /\ h.live \in Nat
      /\ h.live = Cardinality(Live(h, {})) + Cardinality(K)
      /\ \A d \in 1..MaxContents : h.contents[d].uses = Cardinality(Held(h, d, {})) + CountOf(e)[d]
  BY DEF Balanced, Shape
<1>3. h.contents[c].uses = 0 /\ h.contents[c] = Free /\ DOMAIN Content(h, c) = {}
  <2>1. h.contents[c].uses \in Nat /\ (h.contents[c].uses = 0 => h.contents[c] = Free)
    BY <1>1, <1>2 DEF Shape
  <2>2. h.contents[c].uses = 0
    BY <1>1, <2>1 DEF Exists
  <2>3. QED BY <2>1, <2>2, FreeIs DEF Content
<1>4. r \in Contents /\ r.elements = e /\ r.uses = 1 /\ r.kind = kind
  BY DEF Contents
<1>5. g = Change(h, c, r, h.live + 1)
  <2>1. g = [h EXCEPT !.live = @ + 1, !.contents[c] = r]
    BY DEF Construct
  <2> HIDE DEF r
  <2>2. \A q : [h EXCEPT !.live = @ + 1, !.contents[c] = q] = Change(h, c, q, h.live + 1)
    BY <1>1, <1>2, ChangesAre
  <2>3. QED BY <2>1, <2>2, Zenon
<1> HIDE DEF r
<1>6. Changed(h, g, c, r, h.live + 1)
  <2>1. h.live + 1 \in Int
    BY <1>2
  <2>2. QED BY <1>1, <1>2, <1>4, <1>5, <2>1, ChangeIs
<1>7. /\ g \in Heaps /\ g.live = h.live + 1 /\ g.twice = h.twice
      /\ \A d \in Numbers : d # c => g.contents[d] = h.contents[d]
      /\ g.contents[c] = r
  BY <1>1, <1>6 DEF Changed
<1>8. \A d \in Numbers : Content(g, d) = IF d = c THEN e ELSE Content(h, d)
  BY <1>4, <1>7 DEF Content
<1>9. Created(h, g, c, e)
  <2>1. \A d \in Numbers : Exists(g, d) <=> Exists(h, d) \/ d = c
    BY <1>1, <1>4, <1>7 DEF Exists
  <2>2. QED BY <1>1, <1>7, <1>8, <2>1 DEF Created
<1>10. \A p \in Spots : /\ p.content = c => /\ p \notin Live(h, {})
                                            /\ p \in Live(g, {}) <=> p.at \in K
                                            /\ p.at \in K => ValueAt(g, p) = e[p.at]
                        /\ p.content # c => /\ p \in Live(g, {}) <=> p \in Live(h, {})
                                            /\ ValueAt(g, p) = ValueAt(h, p)
  <2> TAKE p \in Spots
  <2>1. p.content \in Numbers
    BY SpotsAre
  <2>2. CASE p.content = c
    <3>1. Content(g, p.content) = e /\ p.at \notin DOMAIN Content(h, p.content)
      BY <1>1, <1>3, <1>8, <2>2
    <3>2. QED BY <2>2, <3>1 DEF Live, ValueAt
  <2>3. CASE p.content # c
    <3>1. Content(g, p.content) = Content(h, p.content)
      BY <1>8, <2>1, <2>3
    <3>2. QED BY <2>3, <3>1 DEF Live, ValueAt
  <2>4. QED BY <2>2, <2>3
<1>11. ASSUME NEW T, T \subseteq K
       PROVE  /\ IsFiniteSet(PlacesOf(c, T)) /\ Cardinality(PlacesOf(c, T)) = Cardinality(T)
              /\ \A p : p \in PlacesOf(c, T) <=> p \in Spots /\ p.content = c /\ p.at \in T
  <2>1. IsFiniteSet(T)
    BY <1>1, <1>11, FS_Subset
  <2>2. \A p : p \in PlacesOf(c, T) <=> p \in Spots /\ p.content = c /\ p.at \in T
    BY <1>1, <1>11, SpotsAre DEF PlacesOf
  <2>3. QED BY <2>1, <2>2, PlacesCount
<1>12. Cardinality(Live(g, {})) = Cardinality(Live(h, {})) + Cardinality(K)
  <2>1. Live(g, {}) \subseteq Spots /\ Live(h, {}) \subseteq Spots
    BY DEF Live
  <2>2. Live(g, {}) = Live(h, {}) \cup PlacesOf(c, K) /\ Live(h, {}) \cap PlacesOf(c, K) = {}
    BY <1>10, <1>11, <2>1
  <2>3. IsFiniteSet(Live(h, {})) /\ IsFiniteSet(PlacesOf(c, K)) /\ Cardinality(PlacesOf(c, K)) = Cardinality(K)
    BY <1>11, CountsAre
  <2> HIDE DEF K
  <2>4. QED BY <2>2, <2>3, ApartCount
<1>13. ASSUME NEW d \in Numbers
       PROVE  Cardinality(Held(g, d, {})) = Cardinality(Held(h, d, {})) + CountOf(e)[d]
  <2> DEFINE T == {k \in K : e[k] = d}
  <2>1. Held(g, d, {}) \subseteq Spots /\ Held(h, d, {}) \subseteq Spots
    BY DEF Live, Held
  <2>2. IsFiniteSet(Held(h, d, {})) /\ IsFiniteSet(PlacesOf(c, T)) /\ Cardinality(PlacesOf(c, T)) = Cardinality(T)
    BY <1>11, CountsAre
  <2>3. Held(g, d, {}) = Held(h, d, {}) \cup PlacesOf(c, T) /\ Held(h, d, {}) \cap PlacesOf(c, T) = {}
    <3>1. \A p : p \in PlacesOf(c, T) <=> p \in Spots /\ p.content = c /\ p.at \in T
      BY <1>11
    <3>2. \A p \in Spots : p \in Held(g, d, {}) <=> p \in Held(h, d, {}) \/ p \in PlacesOf(c, T)
      BY <1>10, <3>1 DEF Held
    <3>3. \A p \in Spots : ~(p \in Held(h, d, {}) /\ p \in PlacesOf(c, T))
      BY <1>10, <3>1 DEF Held
    <3>4. PlacesOf(c, T) \subseteq Spots
      BY <3>1
    <3>5. QED BY <2>1, <3>2, <3>3, <3>4
  <2>4. CountOf(e)[d] = Cardinality(T)
    BY DEF CountOf
  <2> HIDE DEF T
  <2>5. QED BY <2>2, <2>3, <2>4, ApartCount
<1>14. /\ CountOf(e) \in [Numbers -> Nat] /\ Cardinality(K) \in Nat
       /\ More(Nobody, c) \in [Numbers -> Nat]
       /\ \A d \in Numbers : More(Nobody, c)[d] = IF d = c THEN 1 ELSE 0
  <2>1. More(Nobody, c) \in [Numbers -> Nat]
        /\ \A d \in Numbers : More(Nobody, c)[d] = Nobody[d] + (IF d = c THEN 1 ELSE 0)
    BY <1>1, NobodyIs, MoreIs
  <2>2. \A d \in Numbers : Nobody[d] = 0
    BY NobodyIs
  <2>3. QED BY <1>1, <2>1, <2>2, CountOfIs
<1>15. \A d \in 1..MaxContents : g.contents[d].uses = Cardinality(Held(g, d, {})) + More(Nobody, c)[d]
  <2> TAKE d \in 1..MaxContents
  <2>1. d \in Numbers /\ CountOf(e)[d] \in Nat /\ Cardinality(Held(h, d, {})) \in Nat
    BY <1>14, SlotsAre, CountsAre
  <2>2. h.contents[d].uses = Cardinality(Held(g, d, {}))
    BY <1>2, <1>13, <2>1
  <2>3. CASE d = c
    BY <1>3, <1>4, <1>7, <1>14, <2>1, <2>2, <2>3
  <2>4. CASE d # c
    <3>1. h.contents[d].uses \in Nat
      BY <1>2 DEF Shape
    <3>2. QED BY <1>7, <1>14, <2>1, <2>2, <2>4, <3>1
  <2>5. QED BY <2>3, <2>4
<1>16. g.live = Cardinality(Live(g, {})) + 1
  BY <1>2, <1>7, <1>12, <1>14, CountsAre
<1>17. Shape(g)
  <2>1. g.contents[Frame].uses = 1 /\ Content(g, Frame) \in [1..Variables -> Numbers]
    BY <1>1, <1>2, <1>7, SlotsAre DEF Shape, Content, Frame
  <2>2. ASSUME NEW d \in 1..MaxContents
        PROVE  /\ g.contents[d].uses \in Nat
               /\ g.contents[d].uses = 0 => g.contents[d] = Free
               /\ DOMAIN Content(g, d) \subseteq Keys
               /\ g.contents[d].kind = "array" => Content(g, d) \in Seq(Numbers)
    <3>1. CASE d = c
      BY <1>4, <1>7, <3>1 DEF Content
    <3>2. CASE d # c
      <4>1. g.contents[d] = h.contents[d]
        BY <1>7, <3>2, SlotsAre
      <4>2. QED BY <1>2, <4>1 DEF Shape, Content
    <3>3. QED BY <3>1, <3>2
  <2>3. QED BY <1>2, <1>7, <2>1, <2>2 DEF Shape
<1>18. Balanced(g, {}, More(Nobody, c), 1)
  BY <1>14, <1>15, <1>16, <1>17 DEF Balanced
<1>19. QED BY <1>1, <1>9, <1>18

\* Copies of values, one after the other.
First(e, k) == [j \in 1..k |-> e[j]]

LEMMA CountMore ==
  ASSUME NEW n \in Nat, NEW e \in [1..n -> Numbers], NEW k \in 1..n
  PROVE  CountOf(First(e, k)) = More(CountOf(First(e, k - 1)), e[k])
<1> DEFINE a == First(e, k - 1)
           b == First(e, k)
<1>1. /\ DOMAIN a = 1..(k - 1) /\ DOMAIN b = 1..k
      /\ \A j \in 1..(k - 1) : a[j] = e[j] /\ b[j] = e[j]
      /\ b[k] = e[k] /\ e[k] \in Numbers /\ k - 1 \in Nat /\ k \in Nat
      /\ 1..k = 1..(k - 1) \cup {k} /\ k \notin 1..(k - 1)
  BY DEF First
<1> HIDE DEF a, b
<1>2. IsFiniteSet(1..(k - 1)) /\ IsFiniteSet(1..k)
  BY <1>1, FS_Interval
<1>3. /\ CountOf(a) \in [Numbers -> Nat]
      /\ \A c \in Numbers : CountOf(a)[c] = Cardinality({j \in DOMAIN a : a[j] = c})
      /\ CountOf(b) \in [Numbers -> Nat]
      /\ \A c \in Numbers : CountOf(b)[c] = Cardinality({j \in DOMAIN b : b[j] = c})
  <2>1. IsFiniteSet(DOMAIN a) /\ IsFiniteSet(DOMAIN b)
    BY <1>1, <1>2
  <2>2. CountOf(a) \in [Numbers -> Nat] /\ CountOf(b) \in [Numbers -> Nat]
    BY <2>1, CountOfIs
  <2>3. QED BY <2>2 DEF CountOf
<1>4. ASSUME NEW c \in Numbers
      PROVE  CountOf(b)[c] = CountOf(a)[c] + (IF c = e[k] THEN 1 ELSE 0)
  <2> DEFINE S == {j \in DOMAIN a : a[j] = c}
             T == {j \in DOMAIN b : b[j] = c}
  <2>1. IsFiniteSet(S) /\ k \notin S /\ Cardinality(S) \in Nat
    <3>1. S \subseteq 1..(k - 1) /\ k \notin S
      BY <1>1
    <3>2. QED BY <1>2, <3>1, FS_Subset, FS_CardinalityType
  <2>2. T = S \cup (IF c = e[k] THEN {k} ELSE {})
    BY <1>1
  <2>3. CountOf(b)[c] = Cardinality(T) /\ CountOf(a)[c] = Cardinality(S)
    BY <1>3
  <2> HIDE DEF S, T
  <2>4. CASE c = e[k]
    <3>1. Cardinality(S \cup {k}) = Cardinality(S) + 1
      BY <2>1, FS_AddElement
    <3>2. QED BY <2>2, <2>3, <2>4, <3>1
  <2>5. CASE c # e[k]
    BY <2>1, <2>2, <2>3, <2>5
  <2>6. QED BY <2>4, <2>5
<1>5. More(CountOf(a), e[k]) \in [Numbers -> Nat]
      /\ \A c \in Numbers : More(CountOf(a), e[k])[c] = CountOf(a)[c] + (IF c = e[k] THEN 1 ELSE 0)
  BY <1>1, <1>3, MoreIs
<1>6. CountOf(b) = More(CountOf(a), e[k])
  <2> DEFINE m == More(CountOf(a), e[k])
             l == CountOf(b)
  <2>1. m \in [Numbers -> Nat] /\ l \in [Numbers -> Nat]
    BY <1>3, <1>5
  <2>2. \A c \in Numbers : l[c] = m[c]
    BY <1>4, <1>5
  <2> HIDE DEF m, l
  <2>3. m = l
    BY <2>1, <2>2
  <2>4. QED BY <2>3 DEF m, l
<1>7. QED BY <1>6 DEF a, b

LEMMA CountNone ==
  ASSUME NEW e, DOMAIN e = {}
  PROVE  CountOf(e) = Nobody
<1>1. \A c : {k \in DOMAIN e : e[k] = c} = {}
  OBVIOUS
<1>2. \A c : Cardinality({k \in DOMAIN e : e[k] = c}) = 0
  BY <1>1, FS_EmptySet
<1>3. QED BY <1>2 DEF CountOf, Nobody

LEMMA CopiesIs ==
  ASSUME NEW h, Balanced(h, {}, Nobody, 0), NEW n \in Nat, NEW e \in [1..n -> Numbers],
         \A k \in 1..n : e[k] = 0 \/ Exists(h, e[k]),
         NEW steps, Len(steps) = n,
         \A k \in 1..n : \A g \in Heaps : Extends(h, g) => steps[k][g] = Copy(g, e[k]),
         NEW f, f = Through(h, steps)
  PROVE  Balanced(f, {}, CountOf(e), Cardinality(DOMAIN e)) /\ Extends(h, f) /\ Leaves(h, f)
<1> DEFINE G == [k \in 0..n |-> {g \in Heaps : /\ Balanced(g, {}, CountOf(First(e, k)), k)
                                               /\ Extends(h, g) /\ Leaves(h, g)}]
<1>1. h \in G[0]
  <2>1. DOMAIN First(e, 0) = {}
    BY DEF First
  <2>2. CountOf(First(e, 0)) = Nobody
    BY <2>1, CountNone
  <2>3. h \in Heaps
    BY DEF Balanced, Shape
  <2>4. Extends(h, h) /\ Leaves(h, h)
    BY DEF Extends, Leaves
  <2>5. Balanced(h, {}, CountOf(First(e, 0)), 0)
    BY <2>2
  <2>6. 0 \in 0..n
    OBVIOUS
  <2>7. QED BY <2>3, <2>4, <2>5, <2>6
<1>2. ASSUME NEW k \in 1..n, NEW g \in G[k - 1]
      PROVE  steps[k][g] \in G[k]
  <2> DEFINE x == CountOf(First(e, k - 1))
             y == CountOf(First(e, k))
  <2>1. k - 1 \in 0..n /\ k \in 0..n /\ (k - 1) + 1 = k
    OBVIOUS
  <2>2. g \in Heaps /\ Balanced(g, {}, x, k - 1) /\ Extends(h, g) /\ Leaves(h, g)
    BY <1>2, <2>1
  <2>3. y = More(x, e[k])
    BY CountMore
  <2>4. steps[k][g] = Copy(g, e[k])
    BY <2>2
  <2> HIDE DEF x
  <2>5. e[k] \in Numbers /\ (e[k] = 0 \/ Exists(g, e[k]))
    BY <2>2 DEF Extends
  <2> DEFINE r == Copy(g, e[k])
  <2>6. Balanced(r, {}, More(x, e[k]), (k - 1) + 1) /\ Extends(g, r) /\ Leaves(g, r)
    BY <2>2, <2>5, CopyIs
  <2> HIDE DEF r, y
  <2>7. Balanced(r, {}, y, k) /\ Extends(h, r) /\ Leaves(h, r)
    BY <2>1, <2>2, <2>3, <2>6, ExtendsAgain, LeavesAgain
  <2>8. r \in Heaps
    BY <2>7 DEF Balanced, Shape
  <2>9. r \in G[k]
    BY <2>1, <2>7, <2>8 DEF y
  <2>10. QED BY <2>4, <2>9 DEF r
<1>3. f \in G[n]
  <2> HIDE DEF G
  <2>1. QED BY <1>1, <1>2, ThroughGoes
<1>4. First(e, n) = e
  BY DEF First
<1>5. n \in 0..n /\ DOMAIN e = 1..n
  OBVIOUS
<1>6. Cardinality(1..n) = n
  <2>1. Cardinality(1..n) = IF 1 > n THEN 0 ELSE n - 1 + 1
    BY FS_Interval
  <2>2. QED BY <2>1
<1>7. Balanced(f, {}, CountOf(First(e, n)), n) /\ Extends(h, f) /\ Leaves(h, f)
  BY <1>3, <1>5
<1>8. QED BY <1>4, <1>5, <1>6, <1>7

-----------------------------------------------------------------------------
(* Lists *)

\* The operands of lists and methods: variables, and scalars that are written there.
Sources(h) == {path \in PathsOf(h) : Len(path) = 1} \cup {<<>>}

LEMMA VariableIs ==
  ASSUME NEW h, NEW path \in PathsOf(h), Len(path) = 1
  PROVE  /\ path[1] \in 1..Variables /\ Lookup(h, path) = Place(Frame, path[1])
         /\ \A g : Lookup(g, path) = Place(Frame, path[1])
         /\ path # <<>>
<1>1. path[1] \in 1..Variables /\ \A g : Lookup(g, path) = Place(Frame, path[1])
  BY DEF PathsOf, IsPath, Lookup
<1>2. Len(<<>>) = 0
  OBVIOUS
<1>3. QED BY <1>1, <1>2

\* What a source gives, whatever has been copied before.
LEMMA SourceIs ==
  ASSUME NEW h, NEW x, NEW n, Balanced(h, {}, x, n), NEW source \in Sources(h)
  PROVE  /\ ValueOf(h, source) \in Numbers
         /\ ValueOf(h, source) = 0 \/ Exists(h, ValueOf(h, source))
         /\ \A g \in Heaps : Extends(h, g) => /\ Listed(ElementOf(g, source)) = Copy(g, ValueOf(h, source))
                                              /\ ValueOf(g, source) = ValueOf(h, source)
<1>1. CASE source = <<>>
  <2>1. \A g : ValueOf(g, source) = 0 /\ Listed(ElementOf(g, source)) = [g EXCEPT !.live = @ + 1]
    BY <1>1 DEF ValueOf, Scalar, ElementOf, Listed, Temporary, Operand, IsTemporary
  <2>2. \A g : Copy(g, 0) = [g EXCEPT !.live = @ + 1]
    BY DEF Copy, Scalar
  <2>3. 0 \in Numbers
    BY SlotsAre
  <2>4. QED BY <2>1, <2>2, <2>3
<1>2. CASE source # <<>>
  <2> DEFINE p == Place(Frame, source[1])
  <2>1. source \in PathsOf(h) /\ Len(source) = 1
    BY <1>2 DEF Sources
  <2>2. source[1] \in 1..Variables /\ \A g : Lookup(g, source) = p
    BY <2>1, VariableIs
  <2>3. p # Nowhere
    BY <2>2, SpotsAre DEF Nowhere
  <2>4. Anchored(h, p)
    BY <2>2, AnchoredInFrame DEF Balanced
  <2>5. p \in Live(h, {}) /\ p.content = Frame
    BY <2>4, SpotsAre DEF Anchored
  <2>6. \A g : ValueOf(g, source) = ValueAt(g, p)
               /\ Listed(ElementOf(g, source)) = Copy(g, ValueAt(g, p))
    BY <1>2, <2>2, <2>3 DEF ValueOf, ElementOf, OperandAt, Listed, Operand, IsTemporary
  <2> HIDE DEF p
  <2>7. ValueAt(h, p) \in Numbers /\ (ValueAt(h, p) = 0 \/ Exists(h, ValueAt(h, p)))
    BY <2>5, PlaceExists
  <2>8. \A g : Extends(h, g) => ValueAt(g, p) = ValueAt(h, p)
    BY <2>5, ExtendedPlaces
  <2>9. QED BY <2>6, <2>7, <2>8
<1>3. QED BY <1>1, <1>2

\* What a heap is when c is new, with the elements e.
Made(h, g, c, e) ==
  /\ g.twice = h.twice /\ ~Exists(h, c) /\ Content(g, c) = e
  /\ \A d \in Numbers : /\ Exists(g, d) <=> Exists(h, d) \/ d = c
                        /\ Exists(h, d) => /\ Content(g, d) = Content(h, d)
                                           /\ g.contents[d].kind = h.contents[d].kind

\* A content made of the copies of a list.
LEMMA MadeIs ==
  ASSUME NEW h, Balanced(h, {}, Nobody, 0), FreeContents(h) # {}, NEW f,
         NEW e \in Elements, Balanced(f, {}, CountOf(e), Cardinality(DOMAIN e)),
         Extends(h, f), Leaves(h, f), DOMAIN e \subseteq Keys,
         NEW kind \in {"array", "object"}, kind = "array" => e \in Seq(Numbers),
         NEW c, c = NewContent(h), NEW g, g = Construct(f, kind, e)
  PROVE  Balanced(g, {}, More(Nobody, c), 1) /\ Made(h, g, c, e) /\ c \in 1..MaxContents
<1>1. \A d \in Numbers : Exists(f, d) <=> Exists(h, d)
  BY DEF Extends, Leaves
<1>2. c = NewContent(f) /\ FreeContents(f) # {}
  BY <1>1, NewSame
<1>3. Balanced(g, {}, More(Nobody, c), 1) /\ Created(f, g, c, e) /\ c \in 1..MaxContents
  BY <1>2, ConstructIs
<1>4. c \in Numbers
  BY <1>3, SlotsAre
<1>5. ~Exists(h, c) /\ Content(g, c) = e /\ g.twice = h.twice
  BY <1>1, <1>3, <1>4 DEF Created, Extends
<1>6. ASSUME NEW d \in Numbers
      PROVE  /\ Exists(g, d) <=> Exists(h, d) \/ d = c
             /\ Exists(h, d) => /\ Content(g, d) = Content(h, d)
                                /\ g.contents[d].kind = h.contents[d].kind
  BY <1>1, <1>3, <1>5 DEF Created, Extends
<1>7. QED BY <1>3, <1>5, <1>6 DEF Made

\* EvaluateList: every value of the list is on its way.
LEMMA EvaluateListIs ==
  ASSUME NEW h, Balanced(h, {}, Nobody, 0), NEW n \in Nat, NEW list \in [1..n -> Sources(h)],
         NEW e, e = [k \in DOMAIN list |-> ValueOf(h, list[k])], NEW f, f = EvaluateList(h, list)
  PROVE  /\ e \in [1..n -> Numbers]
         /\ Balanced(f, {}, CountOf(e), Cardinality(DOMAIN e)) /\ Extends(h, f) /\ Leaves(h, f)
<1> DEFINE steps == [k \in DOMAIN list |-> [g \in Heaps |-> Listed(ElementOf(g, list[k]))]]
<1>1. /\ \A k \in 1..n : list[k] \in Sources(h)
      /\ DOMAIN list = 1..n
  OBVIOUS
<1>2. \A k \in 1..n : /\ ValueOf(h, list[k]) \in Numbers
                      /\ ValueOf(h, list[k]) = 0 \/ Exists(h, ValueOf(h, list[k]))
                      /\ \A g \in Heaps : Extends(h, g) =>
                           Listed(ElementOf(g, list[k])) = Copy(g, ValueOf(h, list[k]))
  BY <1>1, SourceIs
<1>3. e \in [1..n -> Numbers] /\ \A k \in 1..n : e[k] = ValueOf(h, list[k])
  BY <1>1, <1>2
<1>4. Len(steps) = n
  BY <1>1
<1>5. \A k \in 1..n : \A g \in Heaps : steps[k][g] = Listed(ElementOf(g, list[k]))
  BY <1>1
<1>6. f = Through(h, steps)
  BY DEF EvaluateList
<1> HIDE DEF steps
<1>7. \A k \in 1..n : \A g \in Heaps : Extends(h, g) => steps[k][g] = Copy(g, e[k])
  BY <1>2, <1>3, <1>5
<1>8. \A k \in 1..n : e[k] = 0 \/ Exists(h, e[k])
  BY <1>2, <1>3
<1>9. QED BY <1>3, <1>4, <1>6, <1>7, <1>8, CopiesIs

\* An operand is a temporary with a new content, of values that were there.
Brings(h, operand, c, e) ==
  /\ operand = Temporary(operand.h, c) /\ operand.value = c /\ c \in 1..MaxContents
  /\ Balanced(operand.h, {}, More(Nobody, c), 1) /\ Made(h, operand.h, c, e)
  /\ \A k \in DOMAIN e : e[k] = 0 \/ Exists(h, e[k])

\* Every key once.
Distinct(keys) == \A j, k \in DOMAIN keys : keys[j] = keys[k] => j = k

\* A list literal.
LEMMA ArrayIs ==
  ASSUME NEW h, Balanced(h, {}, Nobody, 0), FreeContents(h) # {},
         NEW n \in 0..MaxElements, NEW list \in [1..n -> Sources(h)],
         NEW e, e = [k \in DOMAIN list |-> ValueOf(h, list[k])]
  PROVE  Brings(h, Array(h, list), NewContent(h), e)
<1> DEFINE c == NewContent(h)
           operand == Array(h, list)
           f == EvaluateList(h, list)
           g == Construct(f, "array", e)
<1>1. operand = Temporary(g, c) /\ operand.h = g /\ operand.value = c
  BY DEF Array, Temporary, Operand
<1>2. n \in Nat /\ 1..n \subseteq Keys /\ 1..n \subseteq Slots
  <2>1. n \in Nat /\ 1..n \subseteq Keys
    BY SlotsAre DEF Keys
  <2>2. QED BY <2>1, SlotsAre
<1>3. /\ e \in [1..n -> Numbers]
      /\ Balanced(f, {}, CountOf(e), Cardinality(DOMAIN e)) /\ Extends(h, f) /\ Leaves(h, f)
  BY <1>2, EvaluateListIs
<1> HIDE DEF f
<1>4. e \in Seq(Numbers) /\ DOMAIN e = 1..n /\ e \in Elements
  <2>1. e \in Seq(Numbers) /\ DOMAIN e = 1..n
    BY <1>2, <1>3
  <2>2. QED BY <1>2, <1>3, <2>1, ElementsAre
<1>5. DOMAIN e \subseteq Keys
  BY <1>2, <1>4
<1> HIDE DEF g, operand, c
<1>6. g = Construct(f, "array", e)
  BY DEF g
<1>7. Balanced(g, {}, More(Nobody, c), 1) /\ Made(h, g, c, e) /\ c \in 1..MaxContents
  BY <1>3, <1>4, <1>5, <1>6, MadeIs DEF c
<1>8. \A k \in DOMAIN e : e[k] = 0 \/ Exists(h, e[k])
  <2>1. \A k \in 1..n : list[k] \in Sources(h) /\ e[k] = ValueOf(h, list[k])
    OBVIOUS
  <2>2. QED BY <1>4, <2>1, SourceIs
<1>9. Brings(h, operand, c, e)
  BY <1>1, <1>7, <1>8 DEF Brings
<1>10. QED BY <1>9 DEF operand, c

\* Elements under other keys, every key once.
Renames(n, e, keys, a) ==
  /\ n \in Nat /\ e \in [1..n -> Numbers] /\ DOMAIN keys = 1..n
  /\ \A j, k \in 1..n : keys[j] = keys[k] => j = k
  /\ DOMAIN a = {keys[k] : k \in 1..n} /\ \A k \in 1..n : a[keys[k]] = e[k]

LEMMA Renamed ==
  ASSUME NEW n, NEW e, NEW keys, NEW a, Renames(n, e, keys, a)
  PROVE  CountOf(a) = CountOf(e) /\ Cardinality(DOMAIN a) = Cardinality(DOMAIN e)
<1>. n \in Nat /\ e \in [1..n -> Numbers] /\ DOMAIN keys = 1..n
     /\ (\A j, k \in 1..n : keys[j] = keys[k] => j = k)
     /\ DOMAIN a = {keys[k] : k \in 1..n} /\ \A k \in 1..n : a[keys[k]] = e[k]
  BY DEF Renames
<1>1. ASSUME NEW S, S \subseteq 1..n
      PROVE  Cardinality({keys[k] : k \in S}) = Cardinality(S)
  <2> DEFINE T == {keys[k] : k \in S}
             f == [k \in S |-> keys[k]]
  <2>1. IsFiniteSet(S)
    <3>1. IsFiniteSet(1..n)
      BY FS_Interval
    <3>2. QED BY <1>1, <3>1, FS_Subset
  <2>2. f \in [S -> T] /\ \A k \in S : f[k] = keys[k]
    OBVIOUS
  <2>3. \A t \in T : \E k \in S : f[k] = t
    BY <2>2
  <2>4. \A j, k \in S : f[j] = f[k] => j = k
    BY <1>1, <2>2
  <2> HIDE DEF f, T
  <2>5. f \in Bijection(S, T)
    BY <2>2, <2>3, <2>4 DEF Bijection, Injection, Surjection, IsInjective
  <2>6. ExistsBijection(S, T)
    BY <2>5 DEF ExistsBijection
  <2>7. Cardinality(T) = Cardinality(S)
    BY <2>1, <2>6, FS_Bijection
  <2>8. QED BY <2>7 DEF T
<1>2. Cardinality(DOMAIN a) = Cardinality(DOMAIN e)
  <2>1. Cardinality({keys[k] : k \in 1..n}) = Cardinality(1..n)
    BY <1>1
  <2>2. QED BY <2>1
<1>3. ASSUME NEW c \in Numbers
      PROVE  Cardinality({key \in DOMAIN a : a[key] = c}) = Cardinality({k \in DOMAIN e : e[k] = c})
  <2> DEFINE S == {k \in DOMAIN e : e[k] = c}
  <2>1. {key \in DOMAIN a : a[key] = c} = {keys[k] : k \in S}
    OBVIOUS
  <2>2. S \subseteq 1..n
    OBVIOUS
  <2>3. Cardinality({keys[k] : k \in S}) = Cardinality(S)
    BY <1>1, <2>2
  <2>4. QED BY <2>1, <2>3
<1>4. CountOf(a) = CountOf(e)
  BY <1>3 DEF CountOf
<1>5. QED BY <1>2, <1>4

LEMMA LastWithIs ==
  ASSUME NEW keys, \A j, k \in DOMAIN keys : keys[j] = keys[k] => j = k, NEW k \in DOMAIN keys, k \in Nat
  PROVE  LastWith(keys, keys[k]) = k
<1>1. k <= k
  OBVIOUS
<1>2. QED BY <1>1 DEF LastWith

\* An object literal without a key given twice.
LEMMA ObjectIs ==
  ASSUME NEW h, Balanced(h, {}, Nobody, 0), FreeContents(h) # {},
         NEW n \in Nat, NEW list \in [1..n -> Sources(h)], NEW keys \in [1..n -> Keys],
         Distinct(keys)
  PROVE  \E a : Brings(h, Object(h, keys, list), NewContent(h), a)
<1> DEFINE c == NewContent(h)
           operand == Object(h, keys, list)
           e == [k \in DOMAIN list |-> ValueOf(h, list[k])]
           f == EvaluateList(h, list)
           a == [key \in {keys[k] : k \in DOMAIN keys} |-> ValueOf(h, list[LastWith(keys, key)])]
           g == Construct(f, "object", a)
<1>1. operand = Temporary(g, c) /\ operand.h = g /\ operand.value = c
  BY DEF Object, Temporary, Operand
<1>2. /\ e \in [1..n -> Numbers] /\ DOMAIN e = 1..n
      /\ Balanced(f, {}, CountOf(e), Cardinality(DOMAIN e)) /\ Extends(h, f) /\ Leaves(h, f)
  BY EvaluateListIs
<1> HIDE DEF f
<1>3. /\ DOMAIN keys = 1..n /\ DOMAIN a = {keys[k] : k \in 1..n}
      /\ \A k \in 1..n : a[keys[k]] = e[k]
  <2>1. DOMAIN keys = 1..n /\ DOMAIN list = 1..n
    OBVIOUS
  <2>2. \A k \in 1..n : LastWith(keys, keys[k]) = k
    BY <2>1, LastWithIs DEF Distinct
  <2>3. \A k \in 1..n : e[k] = ValueOf(h, list[k])
    BY <2>1
  <2>4. QED BY <2>1, <2>2, <2>3
<1>4. \A k \in 1..n : e[k] = 0 \/ Exists(h, e[k])
  <2>1. \A k \in 1..n : list[k] \in Sources(h) /\ e[k] = ValueOf(h, list[k])
    OBVIOUS
  <2>2. QED BY <2>1, SourceIs
<1>5. a \in Elements /\ DOMAIN a \subseteq Keys
  <2>0. a = [key \in DOMAIN a |-> a[key]]
    OBVIOUS
  <2> HIDE DEF e, a
  <2>1. DOMAIN a \subseteq Keys /\ \A key \in DOMAIN a : a[key] \in Numbers
    BY <1>2, <1>3
  <2>2. a \in [DOMAIN a -> Numbers]
    BY <2>0, <2>1
  <2>3. DOMAIN a \subseteq Slots
    BY <2>1, SlotsAre
  <2>4. QED BY <2>1, <2>2, <2>3, ElementsAre
<1> HIDE DEF e, a
<1>6. CountOf(a) = CountOf(e) /\ Cardinality(DOMAIN a) = Cardinality(DOMAIN e)
  <2>1. Renames(n, e, keys, a)
    BY <1>2, <1>3 DEF Renames, Distinct
  <2>2. QED BY <2>1, Renamed
<1>7. Balanced(f, {}, CountOf(a), Cardinality(DOMAIN a))
  BY <1>2, <1>6
<1> HIDE DEF g, operand, c
<1>8. g = Construct(f, "object", a)
  BY DEF g
<1>9. Balanced(g, {}, More(Nobody, c), 1) /\ Made(h, g, c, a) /\ c \in 1..MaxContents
  BY <1>2, <1>5, <1>7, <1>8, MadeIs DEF c
<1>10. \A k \in DOMAIN a : a[k] = 0 \/ Exists(h, a[k])
  BY <1>3, <1>4
<1>11. Brings(h, operand, c, a)
  BY <1>1, <1>9, <1>10 DEF Brings
<1>12. QED BY <1>11 DEF operand, c

-----------------------------------------------------------------------------
(* Statements *)

\* An operand that is a temporary is stored in a place of the heap before it.
LEMMA CreateIs ==
  ASSUME NEW h, Balanced(h, {}, Nobody, 0), NEW to, Anchored(h, to),
         NEW f, NEW c \in Numbers, NEW e, Balanced(f, {}, More(Nobody, c), 1), Made(h, f, c, e),
         NEW g, g = OP_ASSIGNMENT(Temporary(f, c), to)
  PROVE  /\ Balanced(g, {}, Nobody, 0) /\ g.twice = h.twice
         /\ Wrote(f, g, to.content, Put(Content(f, to.content), to.at, c))
<1>1. Extends(h, f)
  BY DEF Made, Extends
<1>2. Anchored(f, to)
  BY <1>1, AnchoredAgain
<1>3. f.twice = h.twice
  BY DEF Made
<1>4. QED BY <1>2, <1>3, AssignTemporary

LEMMA MoreLess ==
  ASSUME NEW x \in [Numbers -> Nat], NEW c \in Numbers, NEW v \in Numbers
  PROVE  /\ More(More(x, c), v) \in [Numbers -> Nat] /\ More(More(x, c), v)[c] >= 1
         /\ Less(More(More(x, c), v), c) = More(x, v)
<1> DEFINE y == More(x, c)
           z == More(y, v)
           w == More(x, v)
           l == Less(z, c)
<1>1. y \in [Numbers -> Nat] /\ \A d \in Numbers : y[d] = x[d] + (IF d = c THEN 1 ELSE 0)
  BY MoreIs
<1>2. w \in [Numbers -> Nat] /\ \A d \in Numbers : w[d] = x[d] + (IF d = v THEN 1 ELSE 0)
  BY MoreIs
<1> HIDE DEF y, w
<1>3. z \in [Numbers -> Nat] /\ \A d \in Numbers : z[d] = y[d] + (IF d = v THEN 1 ELSE 0)
  BY <1>1, MoreIs
<1> HIDE DEF z
<1>4. z[c] >= 1
  BY <1>1, <1>3
<1>5. l \in [Numbers -> Nat] /\ \A d \in Numbers : l[d] = z[d] - (IF d = c THEN 1 ELSE 0)
  BY <1>3, <1>4, LessIs
<1> HIDE DEF l
<1>6. \A d \in Numbers : l[d] = w[d]
  <2> TAKE d \in Numbers
  <2>1. x[d] \in Nat /\ y[d] = x[d] + (IF d = c THEN 1 ELSE 0) /\ z[d] = y[d] + (IF d = v THEN 1 ELSE 0)
        /\ w[d] = x[d] + (IF d = v THEN 1 ELSE 0) /\ l[d] = z[d] - (IF d = c THEN 1 ELSE 0)
    BY <1>1, <1>2, <1>3, <1>5
  <2>2. QED BY <2>1
<1>7. l = w
  BY <1>2, <1>5, <1>6
<1>8. QED BY <1>3, <1>4, <1>7 DEF l, w, z, y

\* All contents stay while variables and elements have their handles.
LEMMA AllKept ==
  ASSUME NEW h, Balanced(h, {}, Nobody, 0), NEW g, Extends(h, g), NEW x
  PROVE  Kept(g, {}, x, {o \in 1..MaxContents : Exists(h, o)})
<1> DEFINE O == {o \in 1..MaxContents : Exists(h, o)}
<1> SUFFICES ASSUME NEW o \in O PROVE \E p \in Live(g, {}) : p.content \in O \cup {Frame} /\ ValueAt(g, p) = o
  BY DEF Kept
<1>1. PICK p \in Live(h, {}) : ValueAt(h, p) = o
  BY HeldBySome
<1>2. p.content \in O \cup {Frame}
  <2>1. p.content \in Numbers /\ Exists(h, p.content)
    BY PlaceExists
  <2>2. QED BY <2>1, SlotsAre DEF Frame
<1>3. p \in Live(g, {}) /\ ValueAt(g, p) = o
  BY <1>1, ExtendedPlaces
<1>4. QED BY <1>2, <1>3

\* Subscript: the element of a new content is copied before the content goes.
LEMMA SubscriptIs ==
  ASSUME NEW h, Balanced(h, {}, Nobody, 0), NEW f, NEW c \in Numbers, NEW e,
         Balanced(f, {}, More(Nobody, c), 1), Made(h, f, c, e), NEW at \in DOMAIN e,
         \A k \in DOMAIN e : e[k] = 0 \/ Exists(h, e[k]),
         NEW g, g = Release(Copy(f, e[at]), c)
  PROVE  /\ Subscript(f, c, at) = Temporary(g, e[at]) /\ e[at] \in Numbers
         /\ Balanced(g, {}, More(Nobody, e[at]), 1) /\ Extends(h, g) /\ Leaves(h, g)
<1> DEFINE v == e[at]
           f1 == Copy(f, v)
           x == More(Nobody, c)
           O == {o \in 1..MaxContents : Exists(h, o)}
<1>1. Content(f, c) = e /\ Extends(h, f)
  BY DEF Made, Extends
<1>2. Subscript(f, c, at) = Temporary(g, v)
  BY <1>1 DEF Subscript
<1>3. v \in Numbers /\ (v = 0 \/ Exists(f, v))
  <2>1. f \in Heaps
    BY DEF Balanced, Shape
  <2>2. /\ Place(c, at) \in Live(f, {}) /\ ValueAt(f, Place(c, at)) = v
    BY <1>1, <2>1, LiveAt
  <2>3. QED BY <2>2, PlaceExists
<1> HIDE DEF v
<1>4. Nobody \in [Numbers -> Nat] /\ x \in [Numbers -> Nat]
  BY NobodyIs, MoreIs
<1>5. Balanced(f1, {}, More(x, v), 2) /\ Extends(f, f1) /\ Leaves(f, f1)
  <2>1. 1 + 1 = 2
    OBVIOUS
  <2>2. QED BY <1>3, <2>1, CopyIs
<1>6. More(x, v)[c] >= 1 /\ Less(More(x, v), c) = More(Nobody, v)
  BY <1>3, <1>4, MoreLess
<1>7. g = Release(f1, c)
  BY DEF v
<1> HIDE DEF x, f1
<1>8. Kept(f1, {}, More(Nobody, v), O)
  BY <1>1, <1>5, ExtendsAgain, AllKept
<1>9. /\ Balanced(g, {}, More(Nobody, v), 1) /\ g.twice = f1.twice
      /\ Leaves(f1, g) /\ \A o \in O \cup {Frame} : Exists(g, o)
  <2>1. 2 >= 1 /\ 2 - 1 = 1 /\ O \in SUBSET (1..MaxContents)
    OBVIOUS
  <2> HIDE DEF O
  <2>2. QED BY <1>5, <1>6, <1>7, <1>8, <2>1, ReleaseTemporaryIs
<1>10. Extends(h, g)
  <2>1. g.twice = h.twice
    BY <1>1, <1>5, <1>9 DEF Extends
  <2>2. ASSUME NEW d \in Numbers, Exists(h, d)
        PROVE  /\ Exists(g, d) /\ Content(g, d) = Content(h, d)
               /\ g.contents[d].kind = h.contents[d].kind
    <3>1. d \in O \cup {Frame}
      BY <2>2, SlotsAre DEF Frame
    <3>2. Exists(g, d)
      BY <1>9, <3>1
    <3>3. QED BY <1>1, <1>5, <1>9, <2>2, <3>2 DEF Extends, Leaves
  <2>3. QED BY <2>1, <2>2 DEF Extends
<1>11. Leaves(f, g)
  BY <1>5, <1>9, LeavesAgain
<1>12. c \in 1..MaxContents /\ c # 0 /\ ~Exists(h, c)
  <2>1. Exists(h, Frame) /\ ~Exists(h, c)
    BY FrameExists DEF Balanced, Made
  <2>2. QED BY <2>1, SlotsAre DEF Frame
<1>13. ASSUME NEW p \in Live(g, {}) PROVE ValueAt(g, p) # c
  <2>1. p.content \in Numbers /\ Exists(g, p.content)
    BY <1>9, PlaceExists
  <2>2. Exists(f, p.content) /\ Content(f, p.content) = Content(g, p.content)
    BY <1>11, <2>1 DEF Leaves
  <2>3. CASE p.content = c
    <3>1. p.at \in DOMAIN e /\ ValueAt(g, p) = e[p.at]
      BY <1>1, <2>2, <2>3 DEF Live, ValueAt
    <3>2. QED BY <1>12, <3>1
  <2>4. CASE p.content # c
    <3>1. Exists(h, p.content) /\ Content(h, p.content) = Content(f, p.content)
      BY <2>1, <2>2, <2>4 DEF Made
    <3>2. p \in Live(h, {}) /\ ValueAt(h, p) = ValueAt(g, p)
      BY <2>2, <3>1 DEF Live, ValueAt
    <3>3. ValueAt(h, p) = 0 \/ Exists(h, ValueAt(h, p))
      BY <3>2, PlaceExists
    <3>4. QED BY <1>12, <3>2, <3>3
  <2>5. QED BY <2>3, <2>4
<1>14. ~Exists(g, c)
  <2>1. Held(g, c, {}) = {}
    BY <1>13 DEF Held
  <2>2. Cardinality(Held(g, c, {})) = 0
    BY <2>1, FS_EmptySet
  <2>3. v # c
    BY <1>12 DEF v
  <2>4. More(Nobody, v)[c] = 0
    <3>1. More(Nobody, v)[c] = Nobody[c] + (IF c = v THEN 1 ELSE 0)
      BY <1>3, <1>4, MoreIs
    <3>2. Nobody[c] = 0
      BY NobodyIs
    <3>3. QED BY <2>3, <3>1, <3>2
  <2>5. g.contents[c].uses = Cardinality(Held(g, c, {})) + More(Nobody, v)[c]
    BY <1>9, <1>12 DEF Balanced
  <2>6. QED BY <2>2, <2>4, <2>5 DEF Exists
<1>15. Leaves(h, g)
  <2> SUFFICES ASSUME NEW d \in Numbers, Exists(g, d)
               PROVE  /\ Exists(h, d) /\ Content(g, d) = Content(h, d)
                      /\ g.contents[d].kind = h.contents[d].kind
    BY DEF Leaves
  <2>1. d # c /\ Exists(f, d) /\ Content(g, d) = Content(f, d) /\ g.contents[d].kind = f.contents[d].kind
    BY <1>11, <1>14 DEF Leaves
  <2>2. QED BY <2>1 DEF Made
<1>16. QED BY <1>2, <1>3, <1>9, <1>10, <1>15 DEF v

\* Given: the argument of a method is copied, and copied again when it is stored.
LEMMA GivenIs ==
  ASSUME NEW h, Balanced(h, {}, Nobody, 0), NEW source \in Sources(h), NEW v, v = ValueOf(h, source),
         NEW g, g = Copy(Listed(ElementOf(h, source)), v)
  PROVE  /\ v \in Numbers /\ (v = 0 \/ Exists(h, v))
         /\ Balanced(g, {}, More(More(Nobody, v), v), 2) /\ Extends(h, g) /\ Leaves(h, g)
<1> DEFINE f == Copy(h, v)
<1>1. v \in Numbers /\ (v = 0 \/ Exists(h, v)) /\ h \in Heaps /\ Extends(h, h)
  <2>1. h \in Heaps /\ Extends(h, h)
    BY DEF Balanced, Shape, Extends
  <2>2. QED BY <2>1, SourceIs
<1>2. g = Copy(f, v)
  BY <1>1, SourceIs
<1>3. Balanced(f, {}, More(Nobody, v), 1) /\ Extends(h, f) /\ Leaves(h, f)
  <2>1. 0 + 1 = 1
    OBVIOUS
  <2>2. QED BY <1>1, <2>1, CopyIs
<1> HIDE DEF f
<1>4. v = 0 \/ Exists(f, v)
  BY <1>1, <1>3 DEF Extends
<1>5. Balanced(g, {}, More(More(Nobody, v), v), 2) /\ Extends(f, g) /\ Leaves(f, g)
  <2>1. 1 + 1 = 2
    OBVIOUS
  <2>2. QED BY <1>1, <1>2, <1>3, <1>4, <2>1, CopyIs
<1>6. QED BY <1>1, <1>3, <1>5, ExtendsAgain, LeavesAgain

\* The copy that the method got goes.
LEMMA GivenGoes ==
  ASSUME NEW h, NEW v \in Numbers, Balanced(h, {}, More(Nobody, v), 1), NEW g, g = Release(h, v)
  PROVE  Balanced(g, {}, Nobody, 0) /\ g.twice = h.twice /\ Leaves(h, g)
<1>1. More(Nobody, v)[v] >= 1 /\ Less(More(Nobody, v), v) = Nobody
  BY NobodyIs, LessOfMore
<1>2. 1 - 1 = 0 /\ 1 >= 1 /\ {} \in SUBSET (1..MaxContents)
  OBVIOUS
<1>3. Kept(h, {}, Less(More(Nobody, v), v), {})
  BY DEF Kept
<1>4. QED BY <1>1, <1>2, <1>3, ReleaseTemporaryIs

\* PutIs, said in one word for what it needs and one for what it does.
MayPut(r, x, n, p, v, e, g) ==
  /\ Balanced(r, {}, x, n) /\ v \in Numbers /\ x[v] >= 1 /\ n >= 1
  /\ p \in Spots /\ p \notin Live(r, {}) /\ Gets(Content(r, p.content), e, p.at, v)
  /\ Fits(r, p, e)
  /\ Rewritten(r, g, p.content, e)
HasPut(r, x, n, p, v, e, g) ==
  Balanced(g, {}, Less(x, v), n - 1) /\ g.twice = r.twice /\ Wrote(r, g, p.content, e)

LEMMA Puts ==
  ASSUME NEW r, NEW x, NEW n, NEW p, NEW v, NEW e, NEW g, MayPut(r, x, n, p, v, e, g)
  PROVE  HasPut(r, x, n, p, v, e, g)
<1>1. ASSUME NEW Q, Q = {}
      PROVE  Balanced(g, Q \ {p}, Less(x, v), n - 1) /\ g.twice = r.twice /\ Wrote(r, g, p.content, e)
  <2>1. /\ Balanced(r, Q, x, n) /\ v \in Numbers /\ x[v] >= 1 /\ n >= 1
        /\ p \in Spots /\ p \notin Live(r, Q)
    BY <1>1 DEF MayPut
  <2>2. Gets(Content(r, p.content), e, p.at, v) /\ Fits(r, p, e) /\ Rewritten(r, g, p.content, e)
    BY DEF MayPut
  <2> HIDE <1>1
  <2>3. QED BY <2>1, <2>2, PutIs
<1>2. {} \ {p} = {}
  OBVIOUS
<1>3. QED BY <1>1, <1>2 DEF HasPut

\* A method stores its argument at a key that is new.
LEMMA StoreNewIs ==
  ASSUME NEW h, Balanced(h, {}, Nobody, 0), NEW source \in Sources(h), NEW v, v = ValueOf(h, source),
         NEW c \in 1..MaxContents, Exists(h, c), NEW key \in Keys, key \notin DOMAIN Content(h, c),
         NEW e, e = Put(Content(h, c), key, v),
         h.contents[c].kind = "array" => e \in Seq(Numbers),
         NEW f, f = Copy(Listed(ElementOf(h, source)), v),
         NEW g, g = Release([f EXCEPT !.contents[c].elements = e], v)
  PROVE  Balanced(g, {}, Nobody, 0) /\ g.twice = h.twice /\ Wrote(h, g, c, e)
<1> DEFINE r == [f EXCEPT !.contents[c].elements = e]
           p == Place(c, key)
           x == More(More(Nobody, v), v)
<1>1. /\ v \in Numbers /\ Balanced(f, {}, x, 2) /\ Extends(h, f) /\ Leaves(h, f)
  BY GivenIs
<1>2. f \in Heaps /\ c \in Numbers /\ c # Frame /\ key \in Slots
  BY <1>1, SlotsAre DEF Balanced, Shape, Frame
<1>3. Exists(f, c) /\ Content(f, c) = Content(h, c) /\ f.contents[c].kind = h.contents[c].kind
  BY <1>1, <1>2 DEF Extends
<1>4. Gets(Content(f, c), e, key, v)
  <2>1. Content(f, c) \in Elements
    BY <1>2, HeapFields
  <2>2. QED BY <1>1, <1>2, <1>3, <2>1, PutShape
<1>5. Rewritten(f, r, c, e)
  <2>1. e \in Elements
    BY <1>4 DEF Gets
  <2> HIDE DEF r
  <2>2. r = [f EXCEPT !.contents[c].elements = e]
    BY DEF r
  <2>3. QED BY <1>2, <2>1, <2>2, RewrittenIs
<1>6. x[v] >= 1 /\ Less(x, v) = More(Nobody, v) /\ 2 - 1 = 1 /\ 2 >= 1
  <2>1. Nobody \in [Numbers -> Nat]
    BY NobodyIs
  <2>2. QED BY <1>1, <2>1, MoreLess
<1>7. p \in Spots /\ p \notin Live(f, {}) /\ p.content = c /\ p.at = key
  BY <1>2, <1>3, SpotsAre DEF Live
<1> HIDE DEF r, p, x
<1>8. g = Release(r, v)
  BY DEF r
<1>9. HasPut(f, x, 2, p, v, e, r)
  <2>1. Fits(f, p, e)
    BY <1>2, <1>3, <1>7 DEF Fits
  <2>2. MayPut(f, x, 2, p, v, e, r)
    BY <1>1, <1>4, <1>5, <1>6, <1>7, <2>1 DEF MayPut
  <2>3. QED BY <2>2, Puts
<1>10. Balanced(r, {}, More(Nobody, v), 1) /\ r.twice = f.twice /\ Wrote(f, r, p.content, e)
  BY <1>6, <1>9 DEF HasPut
<1>11. Balanced(g, {}, Nobody, 0) /\ g.twice = r.twice /\ Leaves(r, g)
  BY <1>1, <1>8, <1>10, GivenGoes
<1>12. g.twice = h.twice
  BY <1>1, <1>10, <1>11 DEF Extends
<1>13. Wrote(h, g, c, e)
  BY <1>1, <1>7, <1>10, <1>11 DEF Wrote, Leaves
<1>14. QED BY <1>11, <1>12, <1>13

\* A method stores its argument at a key that has a value.
LEMMA StoreAtIs ==
  ASSUME NEW h, Balanced(h, {}, Nobody, 0), NEW source \in Sources(h), NEW v, v = ValueOf(h, source),
         NEW to, Anchored(h, to), NEW f, f = Copy(Listed(ElementOf(h, source)), v),
         NEW g, g = Release(SetValue(f, to, v), v)
  PROVE  /\ Balanced(g, {}, Nobody, 0) /\ g.twice = h.twice
         /\ Wrote(h, g, to.content, Put(Content(h, to.content), to.at, v))
<1> DEFINE r == SetValue(f, to, v)
           x == More(More(Nobody, v), v)
<1>1. /\ v \in Numbers /\ Balanced(f, {}, x, 2) /\ Extends(h, f) /\ Leaves(h, f)
  BY GivenIs
<1>2. x[v] >= 1 /\ Less(x, v) = More(Nobody, v) /\ 2 - 1 = 1 /\ 2 >= 1
  <2>1. Nobody \in [Numbers -> Nat]
    BY NobodyIs
  <2>2. QED BY <1>1, <2>1, MoreLess
<1> HIDE DEF x
<1>3. Anchored(f, to)
  BY <1>1, AnchoredAgain
<1>4. /\ Balanced(r, {}, Less(x, v), 2 - 1) /\ r.twice = f.twice
      /\ Wrote(f, r, to.content, Put(Content(f, to.content), to.at, v))
  BY <1>1, <1>2, <1>3, SetAnchored
<1> HIDE DEF r
<1>5. g = Release(r, v) /\ Balanced(r, {}, More(Nobody, v), 1)
  BY <1>2, <1>4 DEF r
<1>6. Balanced(g, {}, Nobody, 0) /\ g.twice = r.twice /\ Leaves(r, g)
  BY <1>1, <1>5, GivenGoes
<1>7. Content(f, to.content) = Content(h, to.content)
  <2>1. to \in Live(h, {})
    BY DEF Anchored
  <2>2. to.content \in Numbers /\ Exists(h, to.content)
    BY <2>1, PlaceExists
  <2>3. QED BY <1>1, <2>2 DEF Extends
<1>8. Wrote(h, g, to.content, Put(Content(h, to.content), to.at, v))
  BY <1>1, <1>4, <1>6, <1>7 DEF Wrote, Leaves
<1>9. QED BY <1>1, <1>4, <1>6, <1>8 DEF Extends

\* The content at a path.
LEMMA BoundIs ==
  ASSUME NEW h, NEW x, NEW n, Balanced(h, {}, x, n), NEW path \in PathsOf(h),
         NEW c, c = ValueAt(h, Lookup(h, path)), c # 0
  PROVE  c \in 1..MaxContents /\ c \in Numbers /\ Exists(h, c)
<1>1. Lookup(h, path) \in Live(h, {})
  BY PathAnchored DEF Anchored
<1>2. c \in Numbers /\ Exists(h, c)
  BY <1>1, PlaceExists
<1>3. QED BY <1>2, SlotsAre

\* pop: the method holds the content, its last element goes after its value is copied.
LEMMA PopIs ==
  ASSUME NEW h, Balanced(h, {}, Nobody, 0), NEW c \in 1..MaxContents, Exists(h, c),
         h.contents[c].kind = "array", Content(h, c) # <<>>,
         NEW from, from = Place(c, Len(Content(h, c))), NEW v, v = ValueAt(h, from),
         NEW to, \E k \in 1..Variables : to = Place(Frame, k),
         NEW f, f = Drop(Copy(Copy(h, c), v), from),
         NEW g, g = OP_ASSIGNMENT(Temporary(Release(f, c), v), to)
  PROVE  /\ Balanced(g, {}, Nobody, 0) /\ g.twice = h.twice
         /\ Wrote(h, f, c, Without(Content(h, c), from.at))
         /\ Wrote(f, g, Frame, Put(Content(f, Frame), to.at, v))
<1> DEFINE h1 == Copy(h, c)
           h2 == Copy(h1, v)
           r == Release(f, c)
           x == More(Nobody, c)
           y == More(x, v)
<1>1. c \in Numbers /\ c # 0 /\ c # Frame /\ h \in Heaps
  BY SlotsAre DEF Balanced, Shape, Frame
<1>2. from \in Live(h, {}) /\ from.content = c /\ from.at = Len(Content(h, c)) /\ v \in Numbers
      /\ (v = 0 \/ Exists(h, v))
  <2>1. Content(h, c) \in Seq(Numbers)
    BY DEF Balanced, Shape
  <2>2. Len(Content(h, c)) \in DOMAIN Content(h, c)
    BY <2>1
  <2>3. from \in Live(h, {}) /\ from.content = c /\ from.at = Len(Content(h, c))
    BY <1>1, <2>2, LiveAt
  <2>4. QED BY <2>3, PlaceExists
<1>3. Balanced(h1, {}, x, 1) /\ Extends(h, h1) /\ Leaves(h, h1)
  <2>1. 0 + 1 = 1
    OBVIOUS
  <2>2. QED BY <1>1, <2>1, CopyIs
<1>4. y \in [Numbers -> Nat] /\ y[c] >= 1 /\ Less(y, c) = More(Nobody, v)
  BY <1>1, <1>2, NobodyIs, MoreLess
<1> HIDE DEF h1, x
<1>5. Balanced(h2, {}, y, 2) /\ Extends(h, h2) /\ Leaves(h, h2)
  <2>1. 1 + 1 = 2
    OBVIOUS
  <2>2. v = 0 \/ Exists(h1, v)
    BY <1>2, <1>3 DEF Extends
  <2>3. Balanced(h2, {}, y, 2) /\ Extends(h1, h2) /\ Leaves(h1, h2)
    BY <1>2, <1>3, <2>1, <2>2, CopyIs
  <2>4. QED BY <1>3, <2>3, ExtendsAgain, LeavesAgain
<1>6. f = Drop(h2, from)
  BY DEF h1
<1> HIDE DEF h2, y
<1>7. Content(h2, c) = Content(h, c) /\ h2.contents[c].kind = "array" /\ from \in Live(h2, {})
  BY <1>1, <1>2, <1>5, ExtendedPlaces DEF Extends
<1>8. /\ Balanced(f, {}, y, 2) /\ f.twice = h2.twice
      /\ Wrote(h2, f, c, Without(Content(h, c), from.at))
  <2>1. {c} \subseteq 1..MaxContents /\ Kept(h2, {from}, y, {c}) /\ from.content \in {c}
    BY <1>2, <1>4 DEF Kept
  <2> DEFINE O == {c}
  <2>2. O \subseteq 1..MaxContents /\ Kept(h2, {from}, y, O) /\ from.content \in O
    BY <2>1
  <2> HIDE DEF O
  <2>3. h2.contents[from.content].kind = "array" => from.at = Len(Content(h2, from.content))
    BY <1>2, <1>7
  <2>4. /\ Balanced(Drop(h2, from), {}, y, 2) /\ Drop(h2, from).twice = h2.twice
        /\ Wrote(h2, Drop(h2, from), from.content, Without(Content(h2, from.content), from.at))
    BY <1>5, <1>7, <2>2, <2>3, DropIs
  <2>5. QED BY <1>2, <1>6, <1>7, <2>4
<1>9. /\ Balanced(r, {}, More(Nobody, v), 1) /\ r.twice = f.twice /\ Leaves(f, r)
  <2>1. 2 >= 1 /\ 2 - 1 = 1 /\ {} \in SUBSET (1..MaxContents)
    OBVIOUS
  <2>2. Kept(f, {}, Less(y, c), {})
    BY DEF Kept
  <2>3. QED BY <1>1, <1>4, <1>8, <2>1, <2>2, ReleaseTemporaryIs
<1> HIDE DEF r
<1>10. PICK k \in 1..Variables : to = Place(Frame, k)
  OBVIOUS
<1>11. Anchored(r, to) /\ to.content = Frame
  BY <1>9, <1>10, AnchoredInFrame, SpotsAre DEF Balanced
<1>12. g = OP_ASSIGNMENT(Temporary(r, v), to)
  BY DEF r
<1>13. /\ Balanced(g, {}, Nobody, 0) /\ g.twice = r.twice
       /\ Wrote(r, g, to.content, Put(Content(r, to.content), to.at, v))
  BY <1>2, <1>9, <1>11, <1>12, AssignTemporary
<1>14. Content(r, Frame) = Content(f, Frame)
  <2>1. Exists(r, Frame) /\ Frame \in Numbers
    BY <1>9, FrameExists, SlotsAre DEF Balanced
  <2>2. QED BY <1>9, <2>1 DEF Leaves
<1>15. Wrote(f, g, Frame, Put(Content(f, Frame), to.at, v))
  BY <1>9, <1>11, <1>13, <1>14 DEF Wrote, Leaves
<1>16. Wrote(h, f, c, Without(Content(h, c), from.at))
  BY <1>5, <1>8 DEF Wrote, Leaves
<1>17. g.twice = h.twice
  BY <1>5, <1>8, <1>9, <1>13 DEF Extends
<1>18. QED BY <1>13, <1>15, <1>16, <1>17

\* An element is dropped.
LEMMA RemoveIs ==
  ASSUME NEW h, Balanced(h, {}, Nobody, 0), NEW from, Anchored(h, from), from.content \in 1..MaxContents,
         h.contents[from.content].kind = "object", NEW g, g = Drop(h, from)
  PROVE  /\ Balanced(g, {}, Nobody, 0) /\ g.twice = h.twice
         /\ Wrote(h, g, from.content, Without(Content(h, from.content), from.at))
<1>1. PICK O \in SUBSET (1..MaxContents) : from.content \in O \cup {Frame} /\ Kept(h, {from}, Nobody, O)
  BY AnchoredKept
<1>2. from.content \in O /\ from \in Live(h, {})
  BY <1>1, SlotsAre DEF Anchored, Frame
<1>3. h.contents[from.content].kind = "array" => from.at = Len(Content(h, from.content))
  OBVIOUS
<1>4. QED BY <1>1, <1>2, <1>3, DropIs

\* The copies of all elements of a content in a new array, which a variable gets.
LEMMA RestIs ==
  ASSUME NEW h, Balanced(h, {}, Nobody, 0), FreeContents(h) # {},
         NEW b \in 1..MaxContents, h.contents[b].kind = "array", NEW e, e = Content(h, b),
         NEW f, f = Through(h, [k \in DOMAIN e |-> [g \in Heaps |-> Copy(g, e[k])]]),
         NEW to, \E k \in 1..Variables : to = Place(Frame, k), NEW c, c = NewContent(h),
         NEW r, r = Construct(f, "array", e), NEW g, g = SetValue(r, to, c)
  PROVE  /\ Balanced(g, {}, Nobody, 0) /\ g.twice = h.twice /\ Shape(r) /\ Made(h, r, c, e) /\ c \in 1..MaxContents
         /\ Wrote(r, g, Frame, Put(Content(r, Frame), to.at, c))
<1> DEFINE steps == [k \in DOMAIN e |-> [d \in Heaps |-> Copy(d, e[k])]]
<1>1. /\ e \in Seq(Numbers) /\ DOMAIN e \subseteq Keys /\ e \in Elements /\ h \in Heaps /\ b \in Numbers
  <2>1. e \in Seq(Numbers) /\ DOMAIN e \subseteq Keys /\ h \in Heaps
    BY DEF Balanced, Shape
  <2>2. b \in Numbers
    BY SlotsAre
  <2>3. QED BY <2>1, <2>2, HeapFields
<1>2. PICK n \in Nat : e \in [1..n -> Numbers]
  BY <1>1
<1>3. DOMAIN e = 1..n /\ Len(steps) = n /\ \A k \in 1..n : \A d \in Heaps : steps[k][d] = Copy(d, e[k])
  BY <1>2
<1>4. \A k \in 1..n : e[k] = 0 \/ Exists(h, e[k])
  <2> TAKE k \in 1..n
  <2>1. Place(b, k) \in Live(h, {}) /\ ValueAt(h, Place(b, k)) = e[k]
    BY <1>1, <1>3, LiveAt
  <2>2. QED BY <2>1, PlaceExists
<1>5. f = Through(h, steps)
  OBVIOUS
<1> HIDE DEF steps
<1>6. Balanced(f, {}, CountOf(e), Cardinality(DOMAIN e)) /\ Extends(h, f) /\ Leaves(h, f)
  <2>1. \A k \in 1..n : \A d \in Heaps : Extends(h, d) => steps[k][d] = Copy(d, e[k])
    BY <1>3
  <2>2. QED BY <1>2, <1>3, <1>4, <1>5, <2>1, CopiesIs
<1>7. Balanced(r, {}, More(Nobody, c), 1) /\ Made(h, r, c, e) /\ c \in 1..MaxContents
  BY <1>1, <1>6, MadeIs
<1>8. PICK k \in 1..Variables : to = Place(Frame, k)
  OBVIOUS
<1>9. Anchored(r, to) /\ to.content = Frame
  BY <1>7, <1>8, AnchoredInFrame, SpotsAre DEF Balanced
<1>10. c \in Numbers /\ More(Nobody, c)[c] >= 1 /\ Less(More(Nobody, c), c) = Nobody
       /\ 1 - 1 = 0 /\ 1 >= 1
  <2>1. c \in Numbers /\ Nobody \in [Numbers -> Nat] /\ 1 - 1 = 0 /\ 1 >= 1
    BY <1>7, SlotsAre, NobodyIs
  <2>2. QED BY <2>1, LessOfMore
<1>11. /\ Balanced(g, {}, Less(More(Nobody, c), c), 1 - 1) /\ g.twice = r.twice
       /\ Wrote(r, g, to.content, Put(Content(r, to.content), to.at, c))
  BY <1>7, <1>9, <1>10, SetAnchored
<1>12. g.twice = h.twice
  BY <1>7, <1>11 DEF Made
<1>13. QED BY <1>7, <1>9, <1>10, <1>11, <1>12 DEF Balanced

\* The variables that a return has come to.
Came(k) == {Place(Frame, j) : j \in 1..(IF k < Variables THEN k ELSE Variables)}

LEMMA CameIs ==
  ASSUME NEW k \in Nat
  PROVE  /\ Came(k) \subseteq Spots /\ \A q \in Came(k) : q.content = Frame
         /\ k + 1 <= Variables => /\ Came(k + 1) = Came(k) \cup {Place(Frame, k + 1)}
                                  /\ Place(Frame, k + 1) \notin Came(k)
         /\ ~(k + 1 <= Variables) => Came(k + 1) = Came(k)
         /\ k >= Variables => Came(k) = PlacesOf(Frame, 1..Variables)
<1>0. Variables \in Nat /\ 1..Variables \subseteq Slots /\ Frame \in Numbers
  BY SlotsAre
<1>1. Came(k) \subseteq Spots /\ \A q \in Came(k) : q.content = Frame
  <2>1. \A j \in 1..(IF k < Variables THEN k ELSE Variables) : j \in 1..Variables
    BY <1>0
  <2>2. QED BY <1>0, <2>1, SpotsAre DEF Came
<1>2. ASSUME k + 1 <= Variables
      PROVE  /\ Came(k + 1) = Came(k) \cup {Place(Frame, k + 1)}
             /\ Place(Frame, k + 1) \notin Came(k)
  <2>1. /\ 1..(IF k + 1 < Variables THEN k + 1 ELSE Variables) = 1..(k + 1)
        /\ 1..(IF k < Variables THEN k ELSE Variables) = 1..k
        /\ 1..(k + 1) = 1..k \cup {k + 1} /\ k + 1 \notin 1..k
    BY <1>0, <1>2
  <2>2. Came(k) = {Place(Frame, j) : j \in 1..k} /\ Came(k + 1) = {Place(Frame, j) : j \in 1..k \cup {k + 1}}
    BY <2>1 DEF Came
  <2>3. QED BY <2>1, <2>2, SpotsAre
<1>3. ASSUME ~(k + 1 <= Variables) PROVE Came(k + 1) = Came(k)
  BY <1>0, <1>3 DEF Came
<1>4. ASSUME k >= Variables PROVE Came(k) = PlacesOf(Frame, 1..Variables)
  BY <1>0, <1>4 DEF Came, PlacesOf
<1>5. QED BY <1>1, <1>2, <1>3, <1>4

\* All variables are released, and their places do not count any more.
LEMMA ReleaseFrame ==
  ASSUME NEW h, Balanced(h, {}, Nobody, 0),
         NEW f, f = ReleaseEach(Released[MaxContents], h, Content(h, Frame))
  PROVE  Balanced(f, PlacesOf(Frame, 1..Variables), Nobody, 0) /\ Shrinks(h, f)
<1> DEFINE e == Content(h, Frame)
           steps == [k \in Slots |-> IF k \in DOMAIN e THEN Released[MaxContents][e[k]] ELSE NoStep]
           m == IF Variables > MaxElements THEN Variables ELSE MaxElements
           G == [k \in 0..m |-> {g \in Heaps : Balanced(g, Came(k), Nobody, 0) /\ Shrinks(h, g)}]
<1>1. m \in Nat /\ Slots = 1..m /\ m >= Variables /\ Variables \in Nat
  BY SlotsAre DEF Slots
<1>2. Len(steps) = m
  BY <1>1
<1>3. f = Through(h, steps)
  BY DEF ReleaseEach
<1>4. e \in [1..Variables -> Numbers] /\ h \in Heaps
  BY DEF Balanced, Shape
<1>5. /\ \A k \in 1..Variables : steps[k] = Released[MaxContents][e[k]]
      /\ \A k \in 1..m : k \notin 1..Variables => steps[k] = NoStep
  BY <1>1, <1>4
<1> HIDE DEF steps, m
<1>6. h \in G[0]
  <2>1. Came(0) = {}
    BY SlotsAre DEF Came
  <2>2. 0 \in 0..m
    BY <1>1
  <2>3. Balanced(h, Came(0), Nobody, 0)
    BY <2>1
  <2>4. QED BY <1>4, <2>2, <2>3, ShrinksNot
<1>7. ASSUME NEW k \in 1..m, NEW g, Balanced(g, Came(k - 1), Nobody, 0), Shrinks(h, g)
      PROVE  Balanced(steps[k][g], Came(k), Nobody, 0) /\ Shrinks(h, steps[k][g])
  <2>1. k - 1 \in 0..m /\ k \in 0..m /\ (k - 1) + 1 = k /\ k - 1 \in Nat /\ k \in Nat
    BY <1>1
  <2>2. g \in Heaps /\ Balanced(g, Came(k - 1), Nobody, 0) /\ Shrinks(h, g)
    BY <1>7 DEF Balanced, Shape
  <2>3. /\ Came(k - 1) \subseteq Spots /\ \A q \in Came(k - 1) : q.content = Frame
        /\ k <= Variables => /\ Came(k) = Came(k - 1) \cup {Place(Frame, k)}
                             /\ Place(Frame, k) \notin Came(k - 1)
        /\ ~(k <= Variables) => Came(k) = Came(k - 1)
        /\ \A q \in Came(k) : q.content = Frame
    BY <2>1, CameIs
  <2>4. CASE k <= Variables
    <3> DEFINE p == Place(Frame, k)
               v == ValueAt(g, p)
               r == steps[k][g]
    <3>1. k \in 1..Variables /\ k \in Slots /\ Frame \in Numbers
      BY <1>1, <2>4, SlotsAre
    <3>2. Content(g, Frame) = e
      BY <2>2 DEF Shrinks, Content
    <3>0. p.content = Frame /\ p.at = k /\ p \in Spots
      BY <3>1, SpotsAre
    <3>15. p \notin Came(k - 1)
      BY <2>3, <2>4
    <3> HIDE DEF p
    <3>3. v = e[k] /\ v \in Numbers
      BY <1>4, <3>0, <3>1, <3>2 DEF ValueAt
    <3>4. p \in Live(g, Came(k - 1))
      BY <1>4, <3>0, <3>15, <3>1, <3>2 DEF Live
    <3>5. r = Release(g, v)
      BY <1>5, <3>1, <3>3 DEF Release
    <3> HIDE DEF r
    <3>6. Balanced(g, Came(k - 1) \cup {p}, More(Nobody, v), 0 + 1)
      BY <2>2, <3>4, HandOver
    <3>7. Balanced(g, Came(k), More(Nobody, v), 1)
      <4>1. 0 + 1 = 1 /\ Came(k) = Came(k - 1) \cup {p}
        BY <2>3, <2>4 DEF p
      <4>2. QED BY <3>6, <4>1
    <3> HIDE DEF v
    <3>8. More(Nobody, v)[v] >= 1 /\ Less(More(Nobody, v), v) = Nobody
      BY <3>3, NobodyIs, LessOfMore
    <3>9. Ready(g, Came(k), More(Nobody, v), 1, v, {})
      BY <2>3, <3>3, <3>7, <3>8 DEF Ready, Kept
    <3>10. ReleasesOf(g, Came(k), More(Nobody, v), 1, v, {}, r)
      BY <3>5, <3>9, ReleaseIs
    <3>11. Balanced(r, Came(k), Nobody, 0) /\ Shrinks(g, r)
      <4>1. 1 - 1 = 0
        OBVIOUS
      <4>2. QED BY <3>8, <3>10, <4>1 DEF ReleasesOf
    <3>12. r \in Heaps
      BY <3>11 DEF Balanced, Shape
    <3>13. Shrinks(h, r)
      BY <1>4, <2>2, <3>11, <3>12, ShrinksAgain
    <3>14. QED BY <3>11, <3>13 DEF r
  <2>5. CASE ~(k <= Variables)
    <3>0. steps[k] = NoStep
      BY <1>1, <1>5, <2>5
    <3>1. steps[k][g] = g
      BY <2>2, <3>0 DEF NoStep
    <3>2. Balanced(g, Came(k), Nobody, 0)
      BY <2>2, <2>3, <2>5
    <3>3. QED BY <2>2, <3>1, <3>2
  <2>6. QED BY <2>4, <2>5
<1>8. f \in G[m]
  <2>1. ASSUME NEW k \in 1..m, NEW g \in G[k - 1]
        PROVE  steps[k][g] \in G[k]
    <3>1. k - 1 \in 0..m /\ k \in 0..m
      BY <1>1
    <3>2. Balanced(g, Came(k - 1), Nobody, 0) /\ Shrinks(h, g)
      BY <2>1, <3>1
    <3>3. Balanced(steps[k][g], Came(k), Nobody, 0) /\ Shrinks(h, steps[k][g])
      BY <1>7, <3>2
    <3>4. steps[k][g] \in Heaps
      BY <3>3 DEF Balanced, Shape
    <3>5. QED BY <3>1, <3>3, <3>4
  <2> HIDE DEF G
  <2>2. QED BY <1>1, <1>2, <1>3, <1>6, <2>1, ThroughGoes
<1>9. Came(m) = PlacesOf(Frame, 1..Variables)
  BY <1>1, CameIs
<1>10. m \in 0..m
  BY <1>1
<1>11. QED BY <1>8, <1>9, <1>10

\* The form in which a return writes it.
LEMMA FrameUpdates ==
  ASSUME NEW f \in Heaps
  PROVE  \A q, l : [f EXCEPT !.contents[Frame] = q, !.live = @ + l] = Change(f, Frame, q, f.live + l)
<1> TAKE q, l
<1>1. PICK c, n, t : f = [contents |-> c, live |-> n, twice |-> t]
  BY HeapFields
<1> DEFINE d == [c EXCEPT ![Frame] = q]
<1>2. f.contents = c /\ f.live = n /\ f.twice = t
  BY <1>1
<1>3. [f EXCEPT !.contents = d] = [contents |-> d, live |-> n, twice |-> t]
  <2> HIDE DEF d
  <2>1. QED BY <1>1
<1>4. [f EXCEPT !.contents = d].live = n
  <2> HIDE DEF d
  <2>1. QED BY <1>1
<1>5. [[contents |-> d, live |-> n, twice |-> t] EXCEPT !.live = n + l]
        = [contents |-> d, live |-> n + l, twice |-> t]
  <2> HIDE DEF d
  <2>1. QED OBVIOUS
<1>6. [f EXCEPT !.contents[Frame] = q, !.live = @ + l]
        = [[f EXCEPT !.contents = d] EXCEPT !.live = n + l]
  BY <1>2, <1>4, Zenon
<1>7. QED BY <1>2, <1>3, <1>5, <1>6, Zenon DEF Change

\* The next call has variables of its own, and what the old ones led to is gone.
LEMMA ReturnIs ==
  ASSUME NEW h, Balanced(h, {}, Nobody, 0),
         NEW f, f = ReleaseEach(Released[MaxContents], h, Content(h, Frame)),
         NEW e, e = [x \in 1..Variables |-> Scalar],
         NEW g, g = [f EXCEPT !.contents[Frame] = [h.contents[Frame] EXCEPT !.elements = e],
                              !.live = @ + Variables]
  PROVE  Balanced(g, {}, Nobody, 0) /\ g.twice = h.twice /\ Wrote(h, g, Frame, e)
<1> DEFINE r == [h.contents[Frame] EXCEPT !.elements = e]
           Q == PlacesOf(Frame, 1..Variables)
           n == f.live + Variables
<1>1. Balanced(f, Q, Nobody, 0) /\ Shrinks(h, f)
  BY ReleaseFrame
<1>2. /\ f \in Heaps /\ Shape(f) /\ h \in Heaps /\ h.contents[Frame].uses = 1
      /\ f.live = Cardinality(Live(f, Q)) + 0
      /\ \A c \in 1..MaxContents : f.contents[c].uses = Cardinality(Held(f, c, Q)) + Nobody[c]
  BY <1>1 DEF Balanced, Shape
<1>3. /\ Frame \in Numbers /\ Variables \in Nat /\ 1..Variables \subseteq Slots
      /\ \A c \in 1..MaxContents : c \in Numbers /\ c # Frame
  BY SlotsAre DEF Frame
<1>4. e \in [1..Variables -> Numbers] /\ e \in Elements /\ \A k \in 1..Variables : e[k] = 0
  <2>1. e \in [1..Variables -> Numbers] /\ \A k \in 1..Variables : e[k] = 0
    BY SlotsAre DEF Scalar
  <2>2. QED BY <1>3, <2>1, ElementsAre
<1>5. r \in Contents /\ r.elements = e /\ r.uses = 1
  <2>1. h.contents[Frame] \in Contents
    BY <1>2, <1>3, HeapFields
  <2>2. QED BY <1>2, <1>4, <2>1 DEF Contents
<1>6. g = Change(f, Frame, r, n)
  <2>1. f \in Heaps
    BY <1>2
  <2>2. \A q, l : [f EXCEPT !.contents[Frame] = q, !.live = @ + l] = Change(f, Frame, q, f.live + l)
    BY <2>1, FrameUpdates, Zenon
  <2>3. QED BY <2>2, ZenonT(60)
<1> HIDE DEF r, n
<1>7. Changed(f, g, Frame, r, n)
  <2>1. n \in Int
    BY <1>2, <1>3, HeapFields DEF n
  <2>2. QED BY <1>2, <1>3, <1>5, <1>6, <2>1, ChangeIs
<1>8. /\ g \in Heaps /\ g.live = n /\ g.twice = f.twice /\ g.contents[Frame] = r
      /\ \A c \in Numbers : c # Frame => g.contents[c] = f.contents[c]
  BY <1>3, <1>7 DEF Changed
<1>9. Content(g, Frame) = e /\ \A c \in Numbers : c # Frame => Content(g, c) = Content(f, c)
  BY <1>5, <1>8 DEF Content
<1>10. Content(f, Frame) \in [1..Variables -> Numbers]
  BY <1>2 DEF Shape
<1>11. \A p : p \in Q <=> p \in Spots /\ p.content = Frame /\ p.at \in 1..Variables
  BY <1>3, SpotsAre DEF PlacesOf
<1> HIDE DEF Q
<1>12. \A p \in Spots : /\ p.content = Frame => /\ p \notin Live(f, Q)
                                                /\ p \in Live(g, {}) <=> p \in Q
                                                /\ p \in Q => ValueAt(g, p) = 0
                        /\ p.content # Frame => /\ p \in Live(g, {}) <=> p \in Live(f, Q)
                                                /\ ValueAt(g, p) = ValueAt(f, p)
  <2> TAKE p \in Spots
  <2>1. p.content \in Numbers
    BY SpotsAre
  <2>2. CASE p.content = Frame
    <3>1. DOMAIN Content(g, p.content) = 1..Variables /\ DOMAIN Content(f, p.content) = 1..Variables
      BY <1>4, <1>9, <1>10, <2>2
    <3>2. p \in Q => ValueAt(g, p) = 0
      BY <1>4, <1>9, <1>11, <2>2 DEF ValueAt
    <3>3. QED BY <1>11, <2>2, <3>1, <3>2 DEF Live
  <2>3. CASE p.content # Frame
    <3>1. Content(g, p.content) = Content(f, p.content) /\ p \notin Q
      BY <1>9, <1>11, <2>1, <2>3
    <3>2. QED BY <2>3, <3>1 DEF Live, ValueAt
  <2>4. QED BY <2>2, <2>3
<1>13. Live(g, {}) = Live(f, Q) \cup Q /\ Live(f, Q) \cap Q = {}
  <2>1. Live(g, {}) \subseteq Spots /\ Live(f, Q) \subseteq Spots /\ Q \subseteq Spots
    BY <1>11 DEF Live
  <2>2. \A p \in Spots : p \in Q => p.content = Frame
    BY <1>11
  <2>3. QED BY <1>12, <2>1, <2>2
<1>14. ASSUME NEW c \in 1..MaxContents PROVE Held(g, c, {}) = Held(f, c, Q)
  <2>1. Held(g, c, {}) \subseteq Spots /\ Held(f, c, Q) \subseteq Spots
    BY DEF Live, Held
  <2>2. c # 0
    BY SlotsAre
  <2>3. \A p \in Spots : p \in Held(g, c, {}) <=> p \in Held(f, c, Q)
    BY <1>12, <2>2 DEF Held
  <2>4. QED BY <2>1, <2>3
<1>15. g.live = Cardinality(Live(g, {})) + 0
  <2>1. IsFiniteSet(1..Variables) /\ Cardinality(1..Variables) = Variables
    BY <1>3, FS_Interval
  <2>2. IsFiniteSet(Q) /\ Cardinality(Q) = Variables
    BY <2>1, PlacesCount DEF Q
  <2>3. IsFiniteSet(Live(f, Q)) /\ Cardinality(Live(f, Q)) \in Nat
    BY CountsAre
  <2>4. Cardinality(Live(g, {})) = Cardinality(Live(f, Q)) + Variables
    BY <1>13, <2>2, <2>3, ApartCount
  <2>5. QED BY <1>2, <1>3, <1>8, <2>3, <2>4 DEF n
<1>16. Shape(g)
  <2>1. g.contents[Frame].uses = 1 /\ Content(g, Frame) \in [1..Variables -> Numbers]
    BY <1>4, <1>5, <1>8, <1>9
  <2>2. ASSUME NEW c \in 1..MaxContents
        PROVE  /\ g.contents[c].uses \in Nat
               /\ g.contents[c].uses = 0 => g.contents[c] = Free
               /\ DOMAIN Content(g, c) \subseteq Keys
               /\ g.contents[c].kind = "array" => Content(g, c) \in Seq(Numbers)
    <3>1. g.contents[c] = f.contents[c]
      BY <1>3, <1>8
    <3>2. QED BY <1>2, <3>1 DEF Shape, Content
  <2>3. g.live \in Nat
    BY <1>15, CountsAre
  <2>4. QED BY <1>8, <2>1, <2>2, <2>3 DEF Shape
<1>17. \A c \in 1..MaxContents : g.contents[c].uses = Cardinality(Held(g, c, {})) + Nobody[c]
  BY <1>2, <1>3, <1>8, <1>14
<1>18. Balanced(g, {}, Nobody, 0)
  BY <1>15, <1>16, <1>17, NobodyIs DEF Balanced
<1>19. Wrote(h, g, Frame, e)
  <2> SUFFICES ASSUME NEW c \in Numbers, Exists(g, c)
               PROVE  Exists(h, c) /\ Content(g, c) = IF c = Frame THEN e ELSE Content(h, c)
    BY DEF Wrote
  <2>1. CASE c = Frame
    BY <1>2, <1>9, <2>1 DEF Exists
  <2>2. CASE c # Frame
    <3>1. c \in 1..MaxContents /\ g.contents[c] = f.contents[c]
      BY <1>8, <2>2, SlotsAre DEF Frame
    <3>2. Exists(f, c) /\ Content(g, c) = Content(f, c)
      BY <1>9, <2>2, <3>1 DEF Exists
    <3>3. QED BY <1>1, <2>2, <3>1, <3>2 DEF Shrinks, Same
  <2>3. QED BY <2>1, <2>2
<1>20. g.twice = h.twice
  BY <1>1, <1>8 DEF Shrinks
<1>21. QED BY <1>18, <1>19, <1>20

-----------------------------------------------------------------------------
(* What statements do, in the words of their operations *)

Writes(h, g, p, v) == Wrote(h, g, p.content, Put(Content(h, p.content), p.at, v))
Erases(h, g, p) == Wrote(h, g, p.content, Without(Content(h, p.content), p.at))

\* The values of new contents are there already.
Known(h, e) == \A k \in DOMAIN e : e[k] = 0 \/ Exists(h, e[k])

\* Nothing is stored inside of itself, unless scripts have this habit.
Ends(h, to, v) == "cycle" \notin Habits => ~Closes(h, to, v)

PutDone(h, g, o) ==
  /\ o.name = "put" /\ o = Operation("put", o.to, Nowhere, o.value, <<>>)
  /\ o.to.content \in Numbers /\ Exists(h, o.to.content)
  /\ o.value \in Numbers /\ (o.value = 0 \/ Exists(h, o.value))
  /\ Writes(h, g, o.to, o.value) /\ Ends(h, o.to, o.value)
NewDone(h, g, o) ==
  /\ o.name = "new" /\ o = Operation("new", o.to, Nowhere, o.value, o.elements)
  /\ o.to.content \in Numbers /\ Exists(h, o.to.content)
  /\ o.value \in 1..MaxContents /\ Known(h, o.elements)
  /\ \E f : /\ Shape(f) /\ Made(h, f, o.value, o.elements)
            /\ Writes(f, g, o.to, o.value) /\ Ends(f, o.to, o.value)
SwapDone(h, g, o) ==
  /\ o.name = "swap" /\ o = Operation("swap", o.to, o.from, Scalar, <<>>)
  /\ o.to \in Live(h, {}) /\ o.from \in Live(h, {})
  /\ Ends(h, o.to, ValueAt(h, o.from)) /\ Ends(h, o.from, ValueAt(h, o.to))
  /\ \E f : Writes(h, f, o.to, ValueAt(h, o.from)) /\ Writes(f, g, o.from, ValueAt(h, o.to))
TakeDone(h, g, o) ==
  /\ o.name = "take" /\ o = Operation("take", o.to, o.from, Scalar, <<>>)
  /\ o.from \in Live(h, {}) /\ o.from.content # Frame /\ o.to.content = Frame
  /\ \E f : Erases(h, f, o.from) /\ Writes(f, g, o.to, ValueAt(h, o.from))
RemoveDone(h, g, o) ==
  /\ o.name = "remove" /\ o = Operation("remove", Nowhere, o.from, Scalar, <<>>)
  /\ o.from \in Live(h, {}) /\ o.from.content # Frame
  /\ Erases(h, g, o.from)
ReturnDone(h, g, o) ==
  /\ o.name = "return" /\ o = Operation("return", Nowhere, Nowhere, Scalar, <<>>)
  /\ Wrote(h, g, Frame, [x \in 1..Variables |-> Scalar])

Done(h, g, o) ==
  \/ PutDone(h, g, o) \/ NewDone(h, g, o) \/ SwapDone(h, g, o)
  \/ TakeDone(h, g, o) \/ RemoveDone(h, g, o) \/ ReturnDone(h, g, o)

\* Between statements no handle is on its way.
Sound == Balanced(State, {}, Nobody, 0)
Stays == Sound' /\ twice' = twice /\ Done(State, State', op')

LEMMA BecomesIs ==
  ASSUME NEW g, Balanced(g, {}, Nobody, 0), NEW o, Becomes(g, o)
  PROVE  Sound' /\ State' = g /\ op' = o /\ twice' = g.twice
<1>1. g = [contents |-> g.contents, live |-> g.live, twice |-> g.twice]
  BY HeapFields DEF Balanced, Shape
<1>2. State' = g /\ op' = o /\ twice' = g.twice
  BY <1>1 DEF Becomes, State
<1>3. QED BY <1>2 DEF Sound

LEMMA OperationIs ==
  ASSUME NEW n, NEW t, NEW f, NEW v, NEW e, NEW o, o = Operation(n, t, f, v, e)
  PROVE  o.name = n /\ o.to = t /\ o.from = f /\ o.value = v /\ o.elements = e
BY DEF Operation

\* A place on a path.
LEMMA TargetIs ==
  ASSUME Sound, NEW target \in PathsOf(State), NEW to, to = Lookup(State, target)
  PROVE  /\ Anchored(State, to) /\ to \in Live(State, {})
         /\ to.content \in Numbers /\ Exists(State, to.content)
         /\ ValueAt(State, to) \in Numbers /\ (ValueAt(State, to) = 0 \/ Exists(State, ValueAt(State, to)))
<1>1. Anchored(State, to)
  BY PathAnchored DEF Sound
<1>2. to \in Live(State, {})
  BY <1>1 DEF Anchored
<1>3. QED BY <1>1, <1>2, PlaceExists DEF Sound

LEMMA ScalarEnds ==
  ASSUME NEW h, NEW to
  PROVE  Ends(h, to, 0)
BY DEF Ends, Closes, Inside, Scalar

LEMMA FrameEnds ==
  ASSUME NEW h, NEW to, to.content = Frame, NEW v
  PROVE  Ends(h, to, v)
BY DEF Ends, Closes

\* Whether it does only depends on the elements.
LEMMA EndsAgain ==
  ASSUME NEW h, NEW g, \A c \in Numbers : Content(g, c) = Content(h, c), NEW to, NEW v, Ends(g, to, v)
  PROVE  Ends(h, to, v)
<1>1. \A c \in Numbers : References(g, c) = References(h, c)
  BY DEF References
<1>2. Inside(g, v) = Inside(h, v)
  BY <1>1 DEF Inside
<1>3. QED BY <1>2 DEF Ends, Closes

LEMMA SameContents ==
  ASSUME NEW h, Shape(h), NEW g, Shape(g), Extends(h, g), Leaves(h, g)
  PROVE  \A c \in Numbers : Content(g, c) = Content(h, c)
<1> TAKE c \in Numbers
<1>1. CASE Exists(h, c)
  BY <1>1 DEF Extends
<1>2. CASE ~Exists(h, c)
  <2>1. ~Exists(g, c) /\ c \in 1..MaxContents
    BY <1>2, FrameExists, SlotsAre DEF Leaves, Frame
  <2>2. h.contents[c] = Free /\ g.contents[c] = Free
    BY <1>2, <2>1 DEF Shape, Exists
  <2>3. QED BY <2>2 DEF Content
<1>3. QED BY <1>1, <1>2

LEMMA AssignStep ==
  ASSUME Sound, NEW target \in PathsOf(State), NEW source \in PathsOf(State) \cup {<<>>},
         Assign(target, source)
  PROVE  /\ Sound' /\ Done(State, State', op')
         /\ "overwriteOwner" \notin Habits => twice' = twice
<1> DEFINE to == Lookup(State, target)
           operand == ElementOf(State, source)
           v == operand.value
           g == OP_ASSIGNMENT(operand, to)
           o == Operation("put", to, Nowhere, v, <<>>)
<1>1. /\ OverwritesOwner(State, to, operand) => "overwriteOwner" \in Habits
      /\ Becomes(g, o) /\ Ends(operand.h, to, v)
  BY DEF Assign, Store, Ends
<1>2. /\ Anchored(State, to) /\ to.content \in Numbers /\ Exists(State, to.content)
  BY TargetIs
<1> HIDE DEF to
<1>3. /\ Balanced(g, {}, Nobody, 0) /\ Writes(State, g, to, v)
      /\ ~OverwritesOwner(State, to, operand) => g.twice = State.twice
      /\ v \in Numbers /\ (v = 0 \/ Exists(State, v)) /\ Ends(State, to, v)
  <2>1. CASE source = <<>>
    <3> DEFINE h == [State EXCEPT !.live = @ + 1]
    <3>1. operand = Temporary(h, 0) /\ v = 0 /\ 0 \in Numbers
      BY <2>1, SlotsAre DEF ElementOf, Scalar, Temporary, Operand
    <3>2. h = Copy(State, 0)
      BY DEF Copy, Scalar
    <3> HIDE DEF h, operand
    <3>3. Balanced(h, {}, More(Nobody, 0), 1) /\ Extends(State, h) /\ Leaves(State, h)
      <4>1. 0 + 1 = 1
        OBVIOUS
      <4>2. QED BY <3>1, <3>2, <4>1, CopyIs DEF Sound
    <3>4. Anchored(h, to)
      BY <1>2, <3>3, AnchoredAgain DEF Sound
    <3>5. /\ Balanced(g, {}, Nobody, 0) /\ g.twice = h.twice
          /\ Wrote(h, g, to.content, Put(Content(h, to.content), to.at, 0))
      BY <3>1, <3>3, <3>4, AssignTemporary
    <3>6. Content(h, to.content) = Content(State, to.content) /\ h.twice = State.twice
      BY <1>2, <3>3 DEF Extends
    <3>7. Writes(State, g, to, 0)
      BY <3>3, <3>5, <3>6 DEF Writes, Wrote, Leaves
    <3>8. Ends(State, to, 0)
      BY ScalarEnds
    <3>9. QED BY <3>1, <3>5, <3>6, <3>7, <3>8
  <2>2. CASE source # <<>>
    <3> DEFINE p == Lookup(State, source)
    <3>1. source \in PathsOf(State)
      BY <2>2
    <3>2. operand = Operand(State, p, ValueAt(State, p)) /\ v = ValueAt(State, p) /\ operand.h = State
      BY <2>2 DEF ElementOf, OperandAt, Operand
    <3>3. p \in Live(State, {}) /\ v \in Numbers /\ (v = 0 \/ Exists(State, v))
      BY <3>1, <3>2, TargetIs
    <3> HIDE DEF p, operand
    <3>4. /\ Balanced(g, {}, Nobody, 0)
          /\ ~OverwritesOwner(State, to, operand) => g.twice = State.twice
          /\ Wrote(State, g, to.content, Put(Content(State, to.content), to.at, ValueAt(State, p)))
      BY <1>2, <3>2, <3>3, AssignPlace DEF Sound
    <3>5. QED BY <1>1, <3>2, <3>3, <3>4 DEF Writes
  <2>3. QED BY <2>1, <2>2
<1> HIDE DEF operand, g, v
<1>4. Sound' /\ State' = g /\ op' = o /\ twice' = g.twice
  BY <1>1, <1>3, BecomesIs
<1>5. PutDone(State, g, o)
  <2>1. o.name = "put" /\ o.to = to /\ o.value = v
    BY OperationIs
  <2> HIDE DEF o
  <2>2. o = Operation("put", o.to, Nowhere, o.value, <<>>)
    BY <2>1 DEF o
  <2>3. QED BY <1>2, <1>3, <2>1, <2>2 DEF PutDone
<1>6. State.twice = twice
  BY DEF State
<1>7. QED BY <1>1, <1>3, <1>4, <1>5, <1>6 DEF Done

\* What a literal creates is stored.
LEMMA CreatesStep ==
  ASSUME Sound, NEW target \in PathsOf(State), NEW operand, NEW c, NEW e,
         Brings(State, operand, c, e), Creates(target, operand)
  PROVE  Stays
<1> DEFINE to == Lookup(State, target)
           f == operand.h
           g == OP_ASSIGNMENT(operand, to)
           o == Operation("new", to, Nowhere, c, e)
<1>0. operand = Temporary(f, c) /\ operand.value = c /\ Known(State, e)
  BY DEF Brings, Known
<1>1. Content(f, c) = e
  BY DEF Brings, Made
<1>2. Becomes(g, o) /\ Ends(f, to, c)
  BY <1>0, <1>1 DEF Creates, Store, Ends
<1>3. Anchored(State, to) /\ to.content \in Numbers /\ Exists(State, to.content)
  BY TargetIs
<1> HIDE DEF to
<1>4. g = OP_ASSIGNMENT(Temporary(f, c), to)
  BY <1>0
<1> HIDE DEF f, g
<1>5. Balanced(f, {}, More(Nobody, c), 1) /\ Made(State, f, c, e) /\ c \in 1..MaxContents /\ c \in Numbers
  BY SlotsAre DEF f, Brings
<1>6. /\ Balanced(g, {}, Nobody, 0) /\ g.twice = State.twice
      /\ Wrote(f, g, to.content, Put(Content(f, to.content), to.at, c))
  BY <1>3, <1>4, <1>5, CreateIs DEF Sound
<1>7. Sound' /\ State' = g /\ op' = o /\ twice' = g.twice
  BY <1>2, <1>6, BecomesIs
<1>8. NewDone(State, g, o)
  <2>1. o.name = "new" /\ o.to = to /\ o.value = c /\ o.elements = e
    BY OperationIs
  <2> HIDE DEF o
  <2>2. o = Operation("new", o.to, Nowhere, o.value, o.elements)
    BY <2>1 DEF o
  <2>3. Writes(f, g, to, c)
    BY <1>6 DEF Writes
  <2>4. QED BY <1>0, <1>2, <1>3, <1>5, <2>1, <2>2, <2>3 DEF NewDone, Balanced
<1>9. State.twice = twice
  BY DEF State
<1>10. QED BY <1>6, <1>7, <1>8, <1>9 DEF Stays, Done

\* A statement that puts a value somewhere.
LEMMA PutStep ==
  ASSUME Sound, NEW to, to.content \in Numbers, Exists(State, to.content),
         NEW v \in Numbers, v = 0 \/ Exists(State, v),
         Ends(State, to, v), NEW g, Balanced(g, {}, Nobody, 0), g.twice = State.twice, Writes(State, g, to, v),
         Becomes(g, Operation("put", to, Nowhere, v, <<>>))
  PROVE  Stays
<1> DEFINE o == Operation("put", to, Nowhere, v, <<>>)
<1>1. Sound' /\ State' = g /\ op' = o /\ twice' = g.twice
  BY BecomesIs
<1>2. PutDone(State, g, o)
  <2>1. o.name = "put" /\ o.to = to /\ o.value = v
    BY OperationIs
  <2> HIDE DEF o
  <2>2. o = Operation("put", o.to, Nowhere, o.value, <<>>)
    BY <2>1 DEF o
  <2>3. QED BY <2>1, <2>2 DEF PutDone
<1>3. State.twice = twice
  BY DEF State
<1>4. QED BY <1>1, <1>2, <1>3 DEF Stays, Done

LEMMA AssignArrayStep ==
  ASSUME Sound, NEW target \in PathsOf(State), NEW n \in 0..MaxElements, NEW list \in [1..n -> Sources(State)],
         AssignArray(target, list)
  PROVE  Stays
<1>1. FreeContents(State) # {} /\ Creates(target, Array(State, list))
  BY DEF AssignArray
<1>2. PICK e : Brings(State, Array(State, list), NewContent(State), e)
  BY <1>1, ArrayIs DEF Sound
<1>3. QED BY <1>1, <1>2, CreatesStep

LEMMA AssignObjectStep ==
  ASSUME Sound, "duplicateKey" \notin Habits, NEW target \in PathsOf(State),
         NEW n \in 0..MaxElements, NEW list \in [1..n -> Sources(State)], NEW keys \in [1..n -> Keys],
         AssignObject(target, keys, list)
  PROVE  Stays
<1>1. FreeContents(State) # {} /\ Creates(target, Object(State, keys, list)) /\ Distinct(keys)
  BY DEF AssignObject, Distinct
<1>2. n \in Nat
  BY SlotsAre
<1>3. PICK a : Brings(State, Object(State, keys, list), NewContent(State), a)
  BY <1>1, <1>2, ObjectIs DEF Sound
<1>4. QED BY <1>1, <1>3, CreatesStep

LEMMA AssignElementStep ==
  ASSUME Sound, NEW target \in PathsOf(State), NEW source \in Sources(State), AssignElement(target, source)
  PROVE  Stays
<1> DEFINE list == <<source>>
           e == [k \in DOMAIN list |-> ValueOf(State, list[k])]
           c == NewContent(State)
           array == Array(State, list)
           f == array.h
           v == ValueOf(State, source)
           h == Release(Copy(f, e[1]), c)
           to == Lookup(State, target)
           g == OP_ASSIGNMENT(Temporary(h, v), to)
<1>1. FreeContents(State) # {} /\ list \in [1..1 -> Sources(State)] /\ 1 \in 0..MaxElements
  <2>1. DOMAIN list = 1..1 /\ list[1] = source
    OBVIOUS
  <2>2. list \in [1..1 -> Sources(State)]
    OBVIOUS
  <2>3. QED BY <2>2, SlotsAre DEF AssignElement
<1>2. /\ array.value = c /\ c \in 1..MaxContents
      /\ Balanced(f, {}, More(Nobody, c), 1) /\ Made(State, f, c, e)
  <2>1. PICK n : n = 1
    OBVIOUS
  <2>2. n \in 0..MaxElements /\ list \in [1..n -> Sources(State)] /\ Balanced(State, {}, Nobody, 0)
    BY <1>1, <2>1 DEF Sound
  <2>3. e = [k \in DOMAIN list |-> ValueOf(State, list[k])]
    OBVIOUS
  <2> HIDE DEF e, list
  <2>4. Brings(State, Array(State, list), NewContent(State), e)
    BY <1>1, <2>2, <2>3, ArrayIs
  <2>5. QED BY <2>4 DEF Brings
<1>3. DOMAIN e = {1} /\ e[1] = v
  OBVIOUS
<1>4. v \in Numbers /\ (v = 0 \/ Exists(State, v))
  BY SourceIs DEF Sound
<1> HIDE DEF e, v
<1>5. /\ Subscript(f, c, 1) = Temporary(h, v)
      /\ Balanced(h, {}, More(Nobody, v), 1) /\ Extends(State, h) /\ Leaves(State, h)
  <2>1. c \in Numbers /\ 1 \in DOMAIN e /\ \A k \in DOMAIN e : e[k] = 0 \/ Exists(State, e[k])
    BY <1>2, <1>3, <1>4, SlotsAre
  <2> HIDE DEF f, c
  <2>2. QED BY <1>2, <1>3, <2>1, SubscriptIs DEF Sound
<1>6. Becomes(g, Operation("put", to, Nowhere, v, <<>>)) /\ Ends(h, to, v)
  <2>1. Store(target, Subscript(f, c, 1), Operation("put", to, Nowhere, Subscript(f, c, 1).value, <<>>))
    BY <1>2 DEF AssignElement
  <2>2. Subscript(f, c, 1).value = v
    BY <1>5 DEF Temporary, Operand
  <2>3. Subscript(f, c, 1).h = h
    BY <1>5 DEF Temporary, Operand
  <2> HIDE DEF f, c, h
  <2>4. QED BY <1>5, <2>1, <2>2, <2>3 DEF Store, Ends
<1> HIDE DEF f, c, h
<1>7. /\ Anchored(State, to) /\ to.content \in Numbers /\ Exists(State, to.content)
  BY TargetIs
<1> HIDE DEF to
<1>8. /\ Balanced(g, {}, Nobody, 0) /\ g.twice = h.twice
      /\ Wrote(h, g, to.content, Put(Content(h, to.content), to.at, v))
  <2>1. Anchored(h, to)
    BY <1>5, <1>7, AnchoredAgain DEF Sound
  <2>2. QED BY <1>4, <1>5, <2>1, AssignTemporary
<1> HIDE DEF g
<1>9. g.twice = State.twice /\ Content(h, to.content) = Content(State, to.content)
  BY <1>5, <1>7, <1>8 DEF Extends
<1>10. Writes(State, g, to, v)
  BY <1>5, <1>8, <1>9 DEF Writes, Wrote, Leaves
<1>11. Ends(State, to, v)
  <2>1. Shape(State) /\ Shape(h)
    BY <1>5 DEF Sound, Balanced
  <2>2. \A d \in Numbers : Content(h, d) = Content(State, d)
    BY <1>5, <2>1, SameContents
  <2>3. QED BY <1>6, <2>2, EndsAgain
<1>12. QED BY <1>4, <1>6, <1>7, <1>8, <1>9, <1>10, <1>11, PutStep

LEMMA SwapStep ==
  ASSUME Sound, NEW target \in PathsOf(State), NEW other \in PathsOf(State), Swap(target, other)
  PROVE  Stays
<1> DEFINE a == Lookup(State, target)
           b == Lookup(State, other)
           l == ValueAt(State, a)
           r == ValueAt(State, b)
           g == OP_ASSIGNMENT_SWAP(State, a, b)
           o == Operation("swap", a, b, Scalar, <<>>)
<1>1. Becomes(g, o) /\ Ends(State, a, r) /\ Ends(State, b, l)
  BY DEF Swap, Ends
<1>2. /\ Anchored(State, a) /\ a \in Live(State, {}) /\ Anchored(State, b) /\ b \in Live(State, {})
  BY TargetIs
<1> HIDE DEF a, b
<1>3. /\ Balanced(g, {}, Nobody, 0) /\ g.twice = State.twice
      /\ \E f : /\ Wrote(State, f, a.content, Put(Content(State, a.content), a.at, r))
                /\ Wrote(f, g, b.content, Put(Content(f, b.content), b.at, l))
  BY <1>2, SwapIs DEF Sound
<1> HIDE DEF g
<1>4. Sound' /\ State' = g /\ op' = o /\ twice' = g.twice
  BY <1>1, <1>3, BecomesIs
<1>5. SwapDone(State, g, o)
  <2>1. o.name = "swap" /\ o.to = a /\ o.from = b
    BY OperationIs
  <2> HIDE DEF o
  <2>2. o = Operation("swap", o.to, o.from, Scalar, <<>>)
    BY <2>1 DEF o
  <2>3. QED BY <1>1, <1>2, <1>3, <2>1, <2>2 DEF SwapDone, Writes
<1>6. State.twice = twice
  BY DEF State
<1>7. QED BY <1>3, <1>4, <1>5, <1>6 DEF Stays, Done

LEMMA StoreNewStep ==
  ASSUME Sound, NEW path \in PathsOf(State), NEW source \in Sources(State), NEW key \in Keys,
         NEW c, c = ContentAt(path), c # 0, key \notin DOMAIN Content(State, c),
         State.contents[c].kind = "array" => key = Len(Content(State, c)) + 1,
         StoreNew(path, key, source)
  PROVE  Stays
<1> DEFINE v == ValueOf(State, source)
           f == Copy(Listed(ElementOf(State, source)), v)
           to == Place(c, key)
           e == Put(Content(State, c), key, v)
           q == Put(f.contents[c].elements, key, v)
           g == Release([f EXCEPT !.contents[c].elements = e], v)
<1>1. c \in 1..MaxContents /\ c \in Numbers /\ Exists(State, c)
  BY BoundIs DEF Sound, ContentAt
<1>2. /\ v \in Numbers /\ (v = 0 \/ Exists(State, v))
      /\ Extends(State, f)
  BY GivenIs DEF Sound
<1> HIDE DEF v, f
<1>3. to.content = c /\ to.at = key
  BY SpotsAre
<1>4. Becomes(g, Operation("put", to, Nowhere, v, <<>>))
  <2>1. q = e
    BY <1>1, <1>2 DEF Extends, Content
  <2>2. Becomes(Release([f EXCEPT !.contents[to.content].elements = Put(@, key, v)], v),
                Operation("put", to, Nowhere, v, <<>>))
    BY DEF StoreNew, Given, v, f
  <2>3. Becomes(Release([f EXCEPT !.contents[c].elements = q], v), Operation("put", to, Nowhere, v, <<>>))
    BY <1>3, <2>2
  <2> HIDE DEF q, e, to
  <2>4. QED BY <2>1, <2>3
<1>5. State.contents[c].kind = "array" => e \in Seq(Numbers)
  <2> HAVE State.contents[c].kind = "array"
  <2> DEFINE s == Content(State, c)
  <2>1. s \in Seq(Numbers) /\ key = Len(s) + 1
    BY <1>1 DEF Sound, Balanced, Shape
  <2> HIDE DEF s
  <2>2. DOMAIN s = 1..Len(s) /\ Len(s) \in Nat /\ DOMAIN s \cup {key} = 1..(Len(s) + 1)
    BY <2>1
  <2>3. Put(s, key, v) \in [1..(Len(s) + 1) -> Numbers]
    BY <1>2, <2>1, <2>2 DEF Put
  <2>4. QED BY <2>2, <2>3 DEF s
<1> HIDE DEF e
<1>6. Balanced(g, {}, Nobody, 0) /\ g.twice = State.twice /\ Wrote(State, g, c, e)
  <2>1. e = Put(Content(State, c), key, v)
    BY DEF e
  <2>2. QED BY <1>1, <1>5, <2>1, StoreNewIs DEF Sound, v, f
<1> HIDE DEF g, to
<1>7. Writes(State, g, to, v)
  BY <1>3, <1>6 DEF Writes, e
<1>8. Ends(State, to, v)
  BY DEF StoreNew, Ends, v, to
<1>9. QED BY <1>1, <1>2, <1>3, <1>4, <1>6, <1>7, <1>8, PutStep

LEMMA PushStep ==
  ASSUME Sound, NEW path \in PathsOf(State), NEW source \in Sources(State), Push(path, source)
  PROVE  Stays
<1> DEFINE c == ContentAt(path)
           s == Content(State, c)
           key == Len(contents[c].elements) + 1
<1>1. /\ c # 0 /\ contents[c].kind = "array" /\ Len(contents[c].elements) < MaxElements
      /\ StoreNew(path, key, source)
  BY DEF Push, Bound, ContentAt, Scalar
<1>2. c \in 1..MaxContents
  BY <1>1, BoundIs DEF Sound, ContentAt
<1>3. State.contents = contents
  BY DEF State
<1> HIDE DEF c
<1>4. s \in Seq(Numbers) /\ s = contents[c].elements
  BY <1>1, <1>2, <1>3 DEF Sound, Balanced, Shape, Content
<1>5. key \in Keys /\ key \notin DOMAIN s /\ key = Len(s) + 1
  BY <1>1, <1>4, SlotsAre DEF Keys
<1> HIDE DEF key, s
<1>6. key \notin DOMAIN Content(State, c) /\ key = Len(Content(State, c)) + 1 /\ c = ContentAt(path)
  BY <1>5 DEF s, c
<1>7. QED BY <1>1, <1>5, <1>6, StoreNewStep

LEMMA ObjectSetStep ==
  ASSUME Sound, NEW path \in PathsOf(State), Len(path) <= 2, NEW source \in Sources(State), NEW key \in Keys,
         ObjectSet(path, key, source)
  PROVE  Stays
<1> DEFINE c == ContentAt(path)
           to == Place(c, key)
           v == ValueOf(State, source)
           f == Copy(Listed(ElementOf(State, source)), v)
           g == Release(SetValue(f, to, v), v)
<1>1. c # 0 /\ contents[c].kind = "object" /\ State.contents = contents
  BY DEF ObjectSet, Bound, ContentAt, State, Scalar
<1>2. c \in 1..MaxContents /\ c \in Numbers /\ Exists(State, c)
  BY <1>1, BoundIs DEF Sound, ContentAt
<1>3. to.content = c /\ to.at = key
  BY SpotsAre
<1>4. CASE key \notin DOMAIN Content(State, c)
  <2>1. StoreNew(path, key, source)
    BY <1>1, <1>3, <1>4 DEF ObjectSet, Content
  <2>2. State.contents[c].kind # "array" /\ c = ContentAt(path)
    BY <1>1
  <2> HIDE DEF c
  <2>3. QED BY <1>1, <1>4, <2>1, <2>2, StoreNewStep
<1>5. CASE key \in DOMAIN Content(State, c)
  <2>1. Becomes(g, Operation("put", to, Nowhere, v, <<>>)) /\ Ends(State, to, v)
    <3>1. key \in DOMAIN contents[to.content].elements
      BY <1>1, <1>3, <1>5 DEF Content
    <3>2. QED BY <3>1 DEF ObjectSet, Given, Ends
  <2>2. Anchored(State, to)
    BY <1>1, <1>5, ElementAnchored DEF Sound, ContentAt
  <2>3. v \in Numbers /\ (v = 0 \/ Exists(State, v))
    BY GivenIs DEF Sound
  <2> HIDE DEF c, to
  <2>4. /\ Balanced(g, {}, Nobody, 0) /\ g.twice = State.twice
        /\ Wrote(State, g, to.content, Put(Content(State, to.content), to.at, v))
    BY <2>2, StoreAtIs DEF Sound
  <2> HIDE DEF g, v
  <2>5. Writes(State, g, to, v) /\ to.content \in Numbers /\ Exists(State, to.content)
    BY <1>2, <1>3, <2>4 DEF Writes
  <2>6. QED BY <2>1, <2>3, <2>4, <2>5, PutStep
<1>6. QED BY <1>4, <1>5

LEMMA PopStep ==
  ASSUME Sound, NEW target \in PathsOf(State), Len(target) = 1, NEW path \in PathsOf(State), Pop(target, path)
  PROVE  Stays
<1> DEFINE c == ContentAt(path)
           from == Place(c, Len(Content(State, c)))
           v == ValueAt(State, from)
           to == Lookup(State, target)
           f == Drop(Copy(Copy(State, c), v), from)
           g == OP_ASSIGNMENT(Temporary(Release(f, c), v), to)
           o == Operation("take", to, from, Scalar, <<>>)
<1>1. State.contents = contents
  BY DEF State
<1>2. /\ c # 0 /\ State.contents[c].kind = "array" /\ Content(State, c) # <<>>
      /\ Becomes(g, o)
  BY <1>1 DEF Pop, Bound, ContentAt, Scalar, Content
<1>3. c \in 1..MaxContents /\ c \in Numbers /\ Exists(State, c)
  BY <1>2, BoundIs DEF Sound, ContentAt
<1>4. \E k \in 1..Variables : to = Place(Frame, k)
  BY VariableIs
<1>5. to.content = Frame /\ from.content = c
  BY <1>4, SpotsAre
<1>6. from \in Live(State, {})
  <2> DEFINE s == Content(State, c)
  <2>1. s \in Seq(Numbers) /\ s # <<>> /\ State \in Heaps
    BY <1>2, <1>3 DEF Sound, Balanced, Shape
  <2> HIDE DEF s
  <2>2. Len(s) \in DOMAIN s
    BY <2>1
  <2>3. Len(Content(State, c)) \in DOMAIN Content(State, c)
    BY <2>2 DEF s
  <2> HIDE DEF c
  <2>4. QED BY <1>3, <2>1, <2>3, LiveAt
<1> HIDE DEF c, to
<1>7. /\ Balanced(g, {}, Nobody, 0) /\ g.twice = State.twice
      /\ Wrote(State, f, c, Without(Content(State, c), from.at))
      /\ Wrote(f, g, Frame, Put(Content(f, Frame), to.at, v))
  BY <1>2, <1>3, <1>4, PopIs DEF Sound
<1> HIDE DEF from, v, f, g
<1>8. Sound' /\ State' = g /\ op' = o /\ twice' = g.twice
  BY <1>2, <1>7, BecomesIs
<1>9. TakeDone(State, g, o)
  <2>1. o.name = "take" /\ o.to = to /\ o.from = from
    BY OperationIs
  <2> HIDE DEF o
  <2>2. o = Operation("take", o.to, o.from, Scalar, <<>>)
    BY <2>1 DEF o
  <2>3. Erases(State, f, from) /\ Writes(f, g, to, ValueAt(State, from))
    BY <1>5, <1>7 DEF Erases, Writes, v
  <2>4. c # Frame
    BY <1>2 DEF Frame
  <2>5. QED BY <1>5, <1>6, <2>1, <2>2, <2>3, <2>4 DEF TakeDone
<1>10. State.twice = twice
  BY DEF State
<1>11. QED BY <1>7, <1>8, <1>9, <1>10 DEF Stays, Done

LEMMA ObjectRemoveStep ==
  ASSUME Sound, NEW path \in PathsOf(State), Len(path) <= 2, NEW key \in Keys, ObjectRemove(path, key)
  PROVE  Stays
<1> DEFINE c == ContentAt(path)
           from == Place(c, key)
           g == Drop(State, from)
           o == Operation("remove", Nowhere, from, Scalar, <<>>)
<1>1. State.contents = contents
  BY DEF State
<1>2. /\ c # 0 /\ State.contents[c].kind = "object" /\ key \in DOMAIN Content(State, c)
      /\ Becomes(g, o)
  BY <1>1 DEF ObjectRemove, Bound, ContentAt, Scalar, Content
<1>3. c \in 1..MaxContents /\ from.content = c
  BY <1>2, BoundIs, SpotsAre DEF Sound, ContentAt
<1>4. Anchored(State, from) /\ from \in Live(State, {})
  <2>1. Anchored(State, from)
    BY <1>2, ElementAnchored DEF Sound, ContentAt
  <2>2. QED BY <2>1 DEF Anchored
<1> HIDE DEF c, from
<1>5. /\ Balanced(g, {}, Nobody, 0) /\ g.twice = State.twice
      /\ Wrote(State, g, from.content, Without(Content(State, from.content), from.at))
  BY <1>2, <1>3, <1>4, RemoveIs DEF Sound
<1> HIDE DEF g
<1>6. Sound' /\ State' = g /\ op' = o /\ twice' = g.twice
  BY <1>2, <1>5, BecomesIs
<1>7. RemoveDone(State, g, o)
  <2>1. o.name = "remove" /\ o.from = from
    BY OperationIs
  <2> HIDE DEF o
  <2>2. o = Operation("remove", Nowhere, o.from, Scalar, <<>>)
    BY <2>1 DEF o
  <2>3. Erases(State, g, from) /\ from.content # Frame
    BY <1>2, <1>3, <1>5 DEF Erases, Frame
  <2>4. QED BY <1>4, <2>1, <2>2, <2>3 DEF RemoveDone
<1>8. State.twice = twice
  BY DEF State
<1>9. QED BY <1>5, <1>6, <1>7, <1>8 DEF Stays, Done

LEMMA RestStep ==
  ASSUME Sound, NEW target \in PathsOf(State), Len(target) = 1, NEW path \in PathsOf(State), Rest(target, path)
  PROVE  Stays
<1> DEFINE b == ContentAt(path)
           e == Content(State, b)
           f == Through(State, [k \in DOMAIN e |-> [h \in Heaps |-> Copy(h, e[k])]])
           to == Lookup(State, target)
           c == NewContent(State)
           r == Construct(f, "array", e)
           g == SetValue(r, to, c)
           o == Operation("new", to, Nowhere, c, e)
<1>1. State.contents = contents
  BY DEF State
<1>2. /\ b # 0 /\ State.contents[b].kind = "array" /\ FreeContents(State) # {}
      /\ Becomes(g, o)
  BY <1>1 DEF Rest, Bound, ContentAt, Scalar, Content
<1>3. b \in 1..MaxContents /\ b \in Numbers
  BY <1>2, BoundIs DEF Sound, ContentAt
<1>4. \E k \in 1..Variables : to = Place(Frame, k)
  BY VariableIs
<1>5. to.content = Frame /\ Frame \in Numbers /\ Exists(State, Frame)
  BY <1>4, SpotsAre, SlotsAre, FrameExists DEF Sound, Balanced
<1> HIDE DEF b, to, c
<1>6. /\ Balanced(g, {}, Nobody, 0) /\ g.twice = State.twice /\ Shape(r) /\ Made(State, r, c, e) /\ c \in 1..MaxContents
      /\ Wrote(r, g, Frame, Put(Content(r, Frame), to.at, c))
  BY <1>2, <1>3, <1>4, RestIs DEF Sound, c
<1>7. Known(State, e)
  <2> SUFFICES ASSUME NEW k \in DOMAIN e PROVE e[k] = 0 \/ Exists(State, e[k])
    BY DEF Known
  <2>1. State \in Heaps
    BY DEF Sound, Balanced, Shape
  <2>2. Place(b, k) \in Live(State, {}) /\ ValueAt(State, Place(b, k)) = e[k]
    BY <1>3, <2>1, LiveAt
  <2>3. QED BY <2>2, PlaceExists DEF Sound
<1> HIDE DEF e, f, g, r
<1>8. Sound' /\ State' = g /\ op' = o /\ twice' = g.twice
  BY <1>2, <1>6, BecomesIs
<1>9. NewDone(State, g, o)
  <2>1. o.name = "new" /\ o.to = to /\ o.value = c /\ o.elements = e
    BY OperationIs
  <2> HIDE DEF o
  <2>2. o = Operation("new", o.to, Nowhere, o.value, o.elements)
    BY <2>1 DEF o
  <2>3. Writes(r, g, to, c)
    BY <1>5, <1>6 DEF Writes
  <2>4. Ends(r, to, c)
    BY <1>5, FrameEnds
  <2>5. QED BY <1>5, <1>6, <1>7, <2>1, <2>2, <2>3, <2>4 DEF NewDone
<1>10. State.twice = twice
  BY DEF State
<1>11. QED BY <1>6, <1>8, <1>9, <1>10 DEF Stays, Done

LEMMA ReturnStep ==
  ASSUME Sound, Return
  PROVE  Stays
<1> DEFINE f == ReleaseEach(Released[MaxContents], State, Content(State, Frame))
           e == [x \in 1..Variables |-> Scalar]
           g == [f EXCEPT !.contents[Frame] = [State.contents[Frame] EXCEPT !.elements = e],
                          !.live = @ + Variables]
           o == Operation("return", Nowhere, Nowhere, Scalar, <<>>)
<1>1. State.contents = contents
  BY DEF State
<1>2. Becomes(g, o)
  BY <1>1 DEF Return, Content
<1>3. Balanced(g, {}, Nobody, 0) /\ g.twice = State.twice /\ Wrote(State, g, Frame, e)
  <2> HIDE DEF f, e
  <2>1. f = ReleaseEach(Released[MaxContents], State, Content(State, Frame))
    BY DEF f
  <2>2. e = [x \in 1..Variables |-> Scalar]
    BY DEF e
  <2>3. g = [f EXCEPT !.contents[Frame] = [State.contents[Frame] EXCEPT !.elements = e],
                      !.live = @ + Variables]
    OBVIOUS
  <2> HIDE DEF g
  <2>4. QED BY <2>1, <2>2, <2>3, ReturnIs DEF Sound
<1> HIDE DEF g
<1>4. Sound' /\ State' = g /\ op' = o /\ twice' = g.twice
  BY <1>2, <1>3, BecomesIs
<1>5. ReturnDone(State, g, o)
  <2>1. o.name = "return"
    BY OperationIs
  <2>2. QED BY <1>3, <2>1 DEF ReturnDone
<1>6. State.twice = twice
  BY DEF State
<1>7. QED BY <1>3, <1>4, <1>5, <1>6 DEF Stays, Done

-----------------------------------------------------------------------------
(* Sound heaps *)

LEMMA StatementStep ==
  ASSUME Sound, "duplicateKey" \notin Habits, Next
  PROVE  /\ Sound' /\ Done(State, State', op')
         /\ "overwriteOwner" \notin Habits => twice' = twice
<1> DEFINE paths == PathsOf(State)
           Goal == /\ Sound' /\ Done(State, State', op')
                   /\ "overwriteOwner" \notin Habits => twice' = twice
<1>1. Stays => Goal
  BY DEF Stays
<1>2. ASSUME NEW target \in paths, NEW source \in paths \cup {<<>>}, Assign(target, source) PROVE Goal
  BY <1>2, AssignStep
<1>3. \A source \in Sources(State) : source \in paths \cup {<<>>}
  BY DEF Sources
<1> HIDE DEF Goal
<1>4. ASSUME \E target, source \in paths : Assign(target, source) PROVE Goal
  BY <1>2, <1>4
<1>5. ASSUME \E target, other \in {path \in paths : Len(path) <= 2} : Swap(target, other) PROVE Goal
  BY <1>1, <1>5, SwapStep
<1>6. ASSUME NEW target \in paths,
             \/ \E source \in Sources(State) : Assign(target, source) \/ AssignElement(target, source)
             \/ \E list \in UNION {[1..n -> Sources(State)] : n \in 0..MaxElements} :
                  AssignArray(target, list) \/ \E keys \in [DOMAIN list -> Keys] : AssignObject(target, keys, list)
      PROVE Goal
  <2>1. ASSUME NEW source \in Sources(State), Assign(target, source) PROVE Goal
    BY <1>2, <1>3, <2>1
  <2>2. ASSUME NEW source \in Sources(State), AssignElement(target, source) PROVE Goal
    BY <1>1, <2>2, AssignElementStep
  <2>3. ASSUME NEW n \in 0..MaxElements, NEW list \in [1..n -> Sources(State)], AssignArray(target, list)
        PROVE Goal
    BY <1>1, <2>3, AssignArrayStep
  <2>4. ASSUME NEW n \in 0..MaxElements, NEW list \in [1..n -> Sources(State)],
               NEW keys \in [DOMAIN list -> Keys], AssignObject(target, keys, list)
        PROVE Goal
    <3>1. keys \in [1..n -> Keys]
      OBVIOUS
    <3>2. QED BY <1>1, <2>4, <3>1, AssignObjectStep
  <2>5. QED BY <1>6, <2>1, <2>2, <2>3, <2>4
<1>7. ASSUME NEW path \in paths, Len(path) <= 2, NEW source \in Sources(State),
             Push(path, source) \/ \E key \in Keys : ObjectSet(path, key, source)
      PROVE Goal
  BY <1>1, <1>7, PushStep, ObjectSetStep
<1>8. ASSUME NEW target \in paths, Len(target) = 1, NEW path \in paths, Pop(target, path) \/ Rest(target, path)
      PROVE Goal
  BY <1>1, <1>8, PopStep, RestStep
<1>9. ASSUME NEW path \in paths, Len(path) <= 2, NEW key \in Keys, ObjectRemove(path, key) PROVE Goal
  BY <1>1, <1>9, ObjectRemoveStep
<1>10. ASSUME Return PROVE Goal
  BY <1>1, <1>10, ReturnStep
<1>11. Goal
  <2> DEFINE variables == {path \in paths : Len(path) = 1}
             short == {path \in paths : Len(path) <= 2}
             sources == variables \cup {<<>>}
             lists == UNION {[1..n -> sources] : n \in 0..MaxElements}
  <2>1. \/ \E target, source \in paths : Assign(target, source)
        \/ \E target, other \in short : Swap(target, other)
        \/ \E target \in short :
             \/ \E source \in sources : Assign(target, source) \/ AssignElement(target, source)
             \/ \E list \in lists :
                  AssignArray(target, list) \/ \E keys \in [DOMAIN list -> Keys] : AssignObject(target, keys, list)
        \/ \E path \in short, source \in sources :
             Push(path, source) \/ \E key \in Keys : ObjectSet(path, key, source)
        \/ \E target \in variables, path \in short : Pop(target, path) \/ Rest(target, path)
        \/ \E path \in short, key \in Keys : ObjectRemove(path, key)
        \/ Return
    BY DEF Next
  <2>2. sources = Sources(State)
    BY DEF Sources
  <2>3. CASE \E target \in short :
               \/ \E source \in sources : Assign(target, source) \/ AssignElement(target, source)
               \/ \E list \in lists :
                    AssignArray(target, list)
                    \/ \E keys \in [DOMAIN list -> Keys] : AssignObject(target, keys, list)
    BY <1>6, <2>2, <2>3
  <2>4. CASE \E path \in short, source \in sources :
               Push(path, source) \/ \E key \in Keys : ObjectSet(path, key, source)
    BY <1>7, <2>2, <2>4
  <2>5. CASE \E target \in variables, path \in short : Pop(target, path) \/ Rest(target, path)
    BY <1>8, <2>5
  <2>6. CASE \E path \in short, key \in Keys : ObjectRemove(path, key)
    BY <1>9, <2>6
  <2>7. (\E target, other \in short : Swap(target, other)) => Goal
    BY <1>5
  <2> HIDE DEF paths, variables, short, sources, lists
  <2>8. QED BY <1>4, <1>10, <2>1, <2>3, <2>4, <2>5, <2>6, <2>7
<1>12. QED BY <1>11 DEF Goal

LEMMA InitSound ==
  ASSUME Init
  PROVE  Sound /\ ~twice
<1> DEFINE e == [x \in 1..Variables |-> Scalar]
<1>1. /\ Variables \in Nat /\ 1..Variables \subseteq Slots /\ Frame \in Numbers
      /\ \A c \in 1..MaxContents : c \in Numbers /\ c # Frame
  BY SlotsAre DEF Frame
<1>2. e \in [1..Variables -> Numbers] /\ e \in Elements /\ \A k \in 1..Variables : e[k] = 0
  <2>1. e \in [1..Variables -> Numbers] /\ \A k \in 1..Variables : e[k] = 0
    BY SlotsAre DEF Scalar
  <2>2. QED BY <1>1, <2>1, ElementsAre
<1> DEFINE r == [kind |-> "frame", elements |-> e, uses |-> 1]
<1>3. /\ State.contents = [c \in Numbers |-> IF c = Frame THEN r ELSE Free]
      /\ State.live = Variables /\ State.twice = FALSE /\ ~twice
      /\ State = [contents |-> contents, live |-> live, twice |-> twice]
  BY DEF Init, State, Numbers
<1>4. r \in Contents /\ r.elements = e /\ r.uses = 1
  BY <1>2 DEF Contents
<1> HIDE DEF e, r
<1>5. /\ State.contents[Frame] = r
      /\ \A c \in Numbers : c # Frame => State.contents[c] = Free
      /\ State.contents \in [Numbers -> Contents]
  BY <1>1, <1>3, <1>4, FreeIs
<1>6. State \in Heaps
  <2>1. State = [contents |-> State.contents, live |-> State.live, twice |-> State.twice]
    BY DEF State
  <2>2. State.contents \in [Numbers -> Contents] /\ State.live \in Int
    BY <1>1, <1>3, <1>5
  <2>3. State.twice \in BOOLEAN
    BY <1>3, Zenon
  <2>4. QED BY <2>1, <2>2, <2>3 DEF Heaps
<1>7. Content(State, Frame) = e /\ \A c \in Numbers : c # Frame => DOMAIN Content(State, c) = {}
  BY <1>4, <1>5, FreeIs DEF Content
<1>8. Live(State, {}) = PlacesOf(Frame, 1..Variables)
  BY <1>1, <1>2, <1>7, SpotsAre DEF Live, PlacesOf
<1>9. Cardinality(Live(State, {})) = Variables
  BY <1>1, <1>8, PlacesCount, FS_Interval
<1>10. ASSUME NEW c \in 1..MaxContents PROVE Held(State, c, {}) = {}
  <2>1. \A p \in Live(State, {}) : ValueAt(State, p) = 0
    BY <1>1, <1>2, <1>7, <1>8, SpotsAre DEF PlacesOf, ValueAt
  <2>2. QED BY <2>1 DEF Held
<1>11. Shape(State)
  BY <1>1, <1>2, <1>3, <1>4, <1>5, <1>6, <1>7, FreeIs DEF Shape
<1>12. ASSUME NEW c \in 1..MaxContents
       PROVE  State.contents[c].uses = Cardinality(Held(State, c, {})) + Nobody[c]
  BY <1>1, <1>5, <1>10, FreeIs, NobodyIs, FS_EmptySet
<1>13. QED BY <1>1, <1>3, <1>9, <1>11, <1>12, NobodyIs DEF Sound, Balanced

LEMMA SoundImplies ==
  ASSUME Sound
  PROVE  HeapIsSound
<1>1. /\ Shape(State) /\ State \in Heaps /\ State.contents = contents /\ State.live = live /\ State.twice = twice
  BY DEF Sound, Balanced, Shape, State
<1>2. Numbers \ {Frame} = 1..MaxContents
  BY SlotsAre DEF Frame
<1>3. TypeOK
  <2>1. contents \in [Numbers -> Contents] /\ twice \in BOOLEAN
    BY <1>1, HeapFields
  <2>2. QED BY <1>1, <1>2, <2>1 DEF TypeOK, Shape, Content
<1>4. \A c : Handles(c) = Held(State, c, {})
  <2> TAKE c
  <2>1. \A p : p.at \in DOMAIN contents[p.content].elements <=> p.at \in DOMAIN Content(State, p.content)
    BY <1>1 DEF Content
  <2>2. QED BY <2>1 DEF Handles, Held, Live, Spots
<1>5. UNION {Handles(c) : c \in Numbers} = Live(State, {})
  <2>1. \A p \in Live(State, {}) : ValueAt(State, p) \in Numbers
    BY <1>1, LiveIs
  <2>2. QED BY <1>4, <2>1 DEF Held
<1>6. UsesAreExact
  <2>1. /\ \A c \in 1..MaxContents : contents[c].uses = Cardinality(Handles(c)) + Nobody[c]
        /\ live = Cardinality(UNION {Handles(c) : c \in Numbers}) + 0
    BY <1>1, <1>4, <1>5 DEF Sound, Balanced
  <2>2. /\ Cardinality(UNION {Handles(c) : c \in Numbers}) \in Nat
        /\ \A c \in 1..MaxContents : Cardinality(Handles(c)) \in Nat /\ Nobody[c] = 0
    BY <1>2, <1>4, <1>5, CountsAre, NobodyIs
  <2>3. QED BY <2>1, <2>2 DEF UsesAreExact
<1>7. QED BY <1>3, <1>6 DEF HeapIsSound

\* Between any two statements the handles of a content, and the values out of their
\* pools, are those of variables and elements, whatever the script has done with
\* cycles, and whatever an assignment has overwritten; but every key of an object
\* literal is given once (types/array.cpp, types/object.cpp, and the operators).
THEOREM HandlesAreCounted ==
  ASSUME "duplicateKey" \notin Habits
  PROVE  Spec => []HeapIsSound
<1>1. Init => Sound
  BY InitSound
<1>2. Sound /\ [Next]_vars => Sound'
  <2> SUFFICES ASSUME Sound, [Next]_vars PROVE Sound'
    OBVIOUS
  <2>1. CASE Next
    BY <2>1, StatementStep
  <2>2. CASE UNCHANGED vars
    BY <2>2 DEF vars, Sound, State, Balanced, Shape, Held, Live, ValueAt, Content
  <2>3. QED BY <2>1, <2>2
<1>3. Sound => HeapIsSound
  BY SoundImplies
<1>4. QED BY <1>1, <1>2, <1>3, PTL DEF Spec

\* No value is given back to its pool twice, unless the place that is assigned to owns
\* what the right operand is an element of (x = x[i]).
THEOREM FreedOnce ==
  ASSUME "duplicateKey" \notin Habits, "overwriteOwner" \notin Habits
  PROVE  Spec => []NeverFreedTwice
<1> DEFINE Inv == Sound /\ ~twice
<1>1. Init => Inv
  BY InitSound
<1>2. Inv /\ [Next]_vars => Inv'
  <2> SUFFICES ASSUME Inv, [Next]_vars PROVE Inv'
    OBVIOUS
  <2>1. CASE Next
    BY <2>1, StatementStep
  <2>2. CASE UNCHANGED vars
    BY <2>2 DEF vars, Sound, State, Balanced, Shape, Held, Live, ValueAt, Content
  <2>3. QED BY <2>1, <2>2
<1>3. Inv => NeverFreedTwice
  BY DEF NeverFreedTwice
<1>4. QED BY <1>1, <1>2, <1>3, PTL DEF Spec

-----------------------------------------------------------------------------
(* No content inside of itself *)

\* Of any contents, one is not referred to by the others nor by itself.
Acyclic(h) ==
  \A U \in SUBSET (1..MaxContents) : U # {} => \E c \in U : \A d \in U : c \notin References(h, d)

\* What v leads to, and a is not in it.
Avoids(h, v, a) ==
  \E S \in SUBSET Numbers : v \in S /\ a \notin S /\ \A d \in S : References(h, d) \subseteq S

\* An element in a that becomes v closes no cycle.
MayRefer(h, a, v) == a = Frame \/ v = 0 \/ Avoids(h, v, a)

LEMMA EndsMayRefer ==
  ASSUME "cycle" \notin Habits, NEW h, NEW to, to.content \in Numbers, NEW v, Ends(h, to, v)
  PROVE  MayRefer(h, to.content, v)
BY DEF Ends, Closes, Inside, MayRefer, Avoids, Scalar

\* g has the references of h, and may have one to v in a.
Refers(h, g, a, v) ==
  \A d \in 1..MaxContents :
    \A c \in References(g, d) : c \in References(h, d) \/ (d = a /\ c = v)

LEMMA ReferenceIs ==
  ASSUME NEW h, NEW d
  PROVE  /\ \A k \in DOMAIN Content(h, d) : Content(h, d)[k] # 0 => Content(h, d)[k] \in References(h, d)
         /\ \A c \in References(h, d) : c # 0 /\ \E k \in DOMAIN Content(h, d) : Content(h, d)[k] = c
BY DEF References, Scalar

LEMMA StaysAcyclic ==
  ASSUME NEW h, Acyclic(h), NEW a, NEW v, MayRefer(h, a, v), NEW g, Refers(h, g, a, v)
  PROVE  Acyclic(g)
<1> SUFFICES ASSUME NEW U \in SUBSET (1..MaxContents), U # {},
                    \A c \in U : \E d \in U : c \in References(g, d)
             PROVE  FALSE
  BY DEF Acyclic
<1>1. ASSUME NEW W \in SUBSET (1..MaxContents), W # {},
             \A c \in W : \E d \in W : c \in References(h, d)
      PROVE  FALSE
  BY <1>1 DEF Acyclic
<1>2. \A d \in U : \A c \in References(g, d) : c \in References(h, d) \/ (d = a /\ c = v)
  BY DEF Refers
<1>3. CASE ~(a \in U /\ v \in U)
  <2>1. \A c \in U : \E d \in U : c \in References(h, d)
    BY <1>2, <1>3
  <2>2. QED BY <1>1, <2>1
<1>4. CASE a \in U /\ v \in U
  <2>1. a # Frame /\ v # 0
    <3>1. a \in 1..MaxContents /\ v \in 1..MaxContents
      BY <1>4
    <3>2. QED BY <3>1 DEF Frame
  <2>2. PICK S \in SUBSET Numbers : v \in S /\ a \notin S /\ \A d \in S : References(h, d) \subseteq S
    BY <2>1 DEF MayRefer, Avoids
  <2> DEFINE W == U \ S
  <2>3. W \in SUBSET (1..MaxContents) /\ W # {}
    BY <1>4, <2>2
  <2>4. ASSUME NEW c \in W PROVE \E d \in W : c \in References(h, d)
    <3>1. PICK d \in U : c \in References(g, d)
      OBVIOUS
    <3>2. c # v
      BY <2>2
    <3>3. c \in References(h, d)
      BY <1>2, <3>1, <3>2
    <3>4. d \notin S
      BY <2>2, <3>3
    <3>5. QED BY <3>3, <3>4
  <2>5. QED BY <1>1, <2>3, <2>4
<1>5. QED BY <1>3, <1>4

\* A content that is gone refers to nothing.
LEMMA GoneIs ==
  ASSUME NEW g, Shape(g), NEW d \in 1..MaxContents, ~Exists(g, d)
  PROVE  References(g, d) = {}
<1>1. Content(g, d) = Free.elements
  BY DEF Shape, Exists, Content
<1>2. DOMAIN Content(g, d) = {}
  BY <1>1, FreeIs
<1>3. QED BY <1>2, ReferenceIs

\* What statements write refers to nothing new but the value they put.
LEMMA WritesRefers ==
  ASSUME NEW h, NEW g, Shape(g), NEW to, NEW v, Writes(h, g, to, v)
  PROVE  Refers(h, g, to.content, v)
<1> SUFFICES ASSUME NEW d \in 1..MaxContents, NEW c \in References(g, d)
             PROVE  c \in References(h, d) \/ (d = to.content /\ c = v)
  BY DEF Refers
<1>1. d \in Numbers /\ Exists(g, d)
  BY GoneIs, SlotsAre
<1>2. PICK k \in DOMAIN Content(g, d) : Content(g, d)[k] = c
  BY ReferenceIs
<1>3. c # 0
  BY ReferenceIs
<1>4. CASE d # to.content
  <2>1. Content(g, d) = Content(h, d)
    BY <1>1, <1>4 DEF Writes, Wrote
  <2>2. QED BY <1>2, <1>3, <2>1, ReferenceIs
<1>5. CASE d = to.content
  <2>1. Content(g, d) = Put(Content(h, d), to.at, v)
    BY <1>1, <1>5 DEF Writes, Wrote
  <2>2. c = v \/ (k \in DOMAIN Content(h, d) /\ Content(h, d)[k] = c)
    BY <1>2, <2>1 DEF Put
  <2>3. QED BY <1>3, <1>5, <2>2, ReferenceIs
<1>6. QED BY <1>4, <1>5

LEMMA ErasesRefers ==
  ASSUME NEW h, NEW g, Shape(g), NEW p, Erases(h, g, p)
  PROVE  Refers(h, g, Frame, 0)
<1> SUFFICES ASSUME NEW d \in 1..MaxContents, NEW c \in References(g, d)
             PROVE  c \in References(h, d)
  BY DEF Refers
<1>1. d \in Numbers /\ Exists(g, d)
  BY GoneIs, SlotsAre
<1>2. PICK k \in DOMAIN Content(g, d) : Content(g, d)[k] = c
  BY ReferenceIs
<1>3. c # 0
  BY ReferenceIs
<1>4. k \in DOMAIN Content(h, d) /\ Content(h, d)[k] = c
  <2>1. Content(g, d) = Content(h, d) \/ Content(g, d) = Without(Content(h, d), p.at)
    BY <1>1 DEF Erases, Wrote
  <2>2. QED BY <1>2, <2>1 DEF Without
<1>5. QED BY <1>3, <1>4, ReferenceIs

LEMMA FrameRefers ==
  ASSUME NEW h, NEW g, Shape(g), NEW e, Wrote(h, g, Frame, e)
  PROVE  Refers(h, g, Frame, 0)
<1> SUFFICES ASSUME NEW d \in 1..MaxContents, NEW c \in References(g, d)
             PROVE  c \in References(h, d)
  BY DEF Refers
<1>1. d \in Numbers /\ Exists(g, d) /\ d # Frame
  BY GoneIs, SlotsAre DEF Frame
<1>2. Content(g, d) = Content(h, d)
  BY <1>1 DEF Wrote
<1>3. QED BY <1>2 DEF References

\* A new content refers to others, and none of them to it.
LEMMA MadeAcyclic ==
  ASSUME NEW h, Balanced(h, {}, Nobody, 0), Acyclic(h),
         NEW f, Shape(f), NEW c \in 1..MaxContents, NEW e, Made(h, f, c, e), Known(h, e)
  PROVE  Acyclic(f)
<1>1. ASSUME NEW d \in 1..MaxContents, NEW r \in References(f, d) PROVE r # c /\ (d # c => r \in References(h, d))
  <2>1. PICK k \in DOMAIN Content(f, d) : Content(f, d)[k] = r
    BY ReferenceIs
  <2>2. d \in Numbers /\ Exists(f, d) /\ r # 0
    BY GoneIs, ReferenceIs, SlotsAre
  <2>3. CASE d = c
    <3>1. k \in DOMAIN e /\ e[k] = r
      BY <2>1, <2>3 DEF Made
    <3>2. Exists(h, r)
      BY <2>2, <3>1 DEF Known
    <3>3. QED BY <2>3, <3>2 DEF Made
  <2>4. CASE d # c
    <3>1. Exists(h, d) /\ Content(f, d) = Content(h, d)
      BY <2>2, <2>4 DEF Made
    <3>2. h \in Heaps
      BY DEF Balanced, Shape
    <3>3. Place(d, k) \in Live(h, {}) /\ ValueAt(h, Place(d, k)) = r
      BY <2>1, <2>2, <3>1, <3>2, LiveAt
    <3>4. Exists(h, r)
      BY <2>2, <3>3, PlaceExists
    <3>5. r \in References(h, d)
      BY <2>1, <2>2, <3>1, ReferenceIs
    <3>6. QED BY <3>4, <3>5 DEF Made
  <2>5. QED BY <2>3, <2>4
<1> SUFFICES ASSUME NEW U \in SUBSET (1..MaxContents), U # {},
                    \A r \in U : \E d \in U : r \in References(f, d)
             PROVE  FALSE
  BY DEF Acyclic
<1>2. c \notin U
  BY <1>1
<1>3. \A r \in U : \E d \in U : r \in References(h, d)
  BY <1>1, <1>2
<1>4. QED BY <1>3 DEF Acyclic

\* A content does not lead to what refers to it.
LEMMA NotInside ==
  ASSUME NEW h \in Heaps, Acyclic(h), NEW a \in Numbers, NEW v \in 1..MaxContents, v \in References(h, a)
  PROVE  a \notin Inside(h, v)
<1> SUFFICES ASSUME a \in Inside(h, v) PROVE FALSE
  OBVIOUS
<1> DEFINE R == Inside(h, v)
<1>1. v \in Numbers /\ v # 0
  BY SlotsAre
<1>2. v \in R /\ R \subseteq 1..MaxContents /\ \A d \in R : References(h, d) \subseteq R
  BY <1>1, InsideIs
<1>3. \A S \in SUBSET Numbers : v \in S /\ (\A d \in S : References(h, d) \subseteq S) => R \subseteq S
  BY DEF Inside
<1> HIDE DEF R
<1>4. ASSUME NEW c \in R PROVE \E d \in R : c \in References(h, d)
  <2>1. CASE c = v
    BY <2>1 DEF R
  <2>2. CASE c # v
    <3> SUFFICES ASSUME \A d \in R : c \notin References(h, d) PROVE FALSE
      OBVIOUS
    <3> DEFINE S == R \ {c}
    <3>1. S \in SUBSET Numbers /\ v \in S
      BY <1>2, <2>2, SlotsAre
    <3>2. \A d \in S : References(h, d) \subseteq S
      BY <1>2
    <3>3. R \subseteq S
      BY <1>3, <3>1, <3>2
    <3>4. QED BY <3>3
  <2>3. QED BY <2>1, <2>2
<1>5. QED BY <1>2, <1>4 DEF Acyclic

\* A swap closes no cycle if neither of its values does: a value does not lead to
\* the place it is taken from.
LEMMA SwapAcyclic ==
  ASSUME NEW h, Balanced(h, {}, Nobody, 0), Acyclic(h), NEW a \in Live(h, {}), NEW b \in Live(h, {}),
         NEW l, l = ValueAt(h, a), NEW r, r = ValueAt(h, b),
         MayRefer(h, a.content, r), MayRefer(h, b.content, l),
         NEW f, Writes(h, f, a, r), NEW g, Shape(g), Writes(f, g, b, l)
  PROVE  Acyclic(g)
<1> DEFINE x == [d \in Numbers |-> IF d = a.content THEN Put(Content(h, d), a.at, r) ELSE Content(h, d)]
           q == [contents |-> [d \in Numbers |-> [elements |-> x[d]]]]
<1>1. \A d \in Numbers : Content(q, d) = IF d = a.content THEN Put(Content(h, d), a.at, r) ELSE Content(h, d)
  BY DEF Content
<1> HIDE DEF q, x
<1>2. h \in Heaps /\ Shape(h)
  BY DEF Balanced, Shape
<1>3. /\ b.content \in Numbers /\ b.at \in DOMAIN Content(h, b.content) /\ r = Content(h, b.content)[b.at]
      /\ r \in Numbers
  BY <1>2, LiveIs DEF ValueAt
<1>4. Refers(h, q, a.content, r)
  <2> SUFFICES ASSUME NEW d \in 1..MaxContents, NEW c \in References(q, d)
               PROVE  c \in References(h, d) \/ (d = a.content /\ c = r)
    BY DEF Refers
  <2>1. d \in Numbers
    BY SlotsAre
  <2>2. c # 0 /\ \E k \in DOMAIN Content(q, d) : Content(q, d)[k] = c
    BY ReferenceIs
  <2>3. PICK k \in DOMAIN Content(q, d) : Content(q, d)[k] = c
    BY <2>2
  <2>4. (k \in DOMAIN Content(h, d) /\ Content(h, d)[k] = c) \/ (d = a.content /\ c = r)
    <3>1. CASE d = a.content
      <4>1. Content(q, d) = Put(Content(h, d), a.at, r)
        BY <1>1, <2>1, <3>1
      <4>2. QED BY <2>3, <3>1, <4>1 DEF Put
    <3>2. CASE d # a.content
      BY <1>1, <2>1, <2>3, <3>2
    <3>3. QED BY <3>1, <3>2
  <2>5. QED BY <2>2, <2>4, ReferenceIs
<1>5. Refers(q, g, b.content, l)
  <2> SUFFICES ASSUME NEW d \in 1..MaxContents, NEW c \in References(g, d)
               PROVE  c \in References(q, d) \/ (d = b.content /\ c = l)
    BY DEF Refers
  <2>1. d \in Numbers /\ Exists(g, d)
    BY GoneIs, SlotsAre
  <2>2. c # 0 /\ \E k \in DOMAIN Content(g, d) : Content(g, d)[k] = c
    BY ReferenceIs
  <2>3. PICK k \in DOMAIN Content(g, d) : Content(g, d)[k] = c
    BY <2>2
  <2>4. /\ Exists(f, d)
        /\ Content(g, d) = IF d = b.content THEN Put(Content(f, d), b.at, l) ELSE Content(f, d)
    BY <2>1 DEF Writes, Wrote
  <2>5. Content(f, d) = Content(q, d)
    BY <1>1, <2>1, <2>4 DEF Writes, Wrote
  <2>6. (k \in DOMAIN Content(q, d) /\ Content(q, d)[k] = c) \/ (d = b.content /\ c = l)
    BY <2>3, <2>4, <2>5 DEF Put
  <2>7. QED BY <2>2, <2>6, ReferenceIs
<1>6. Acyclic(q)
  BY <1>4, StaysAcyclic
<1>7. MayRefer(q, b.content, l)
  <2>1. CASE b.content = Frame \/ l = 0
    BY <2>1 DEF MayRefer
  <2>2. CASE b.content # Frame /\ l # 0
    <3>1. PICK S1 \in SUBSET Numbers : l \in S1 /\ b.content \notin S1 /\ \A d \in S1 : References(h, d) \subseteq S1
      BY <2>2 DEF MayRefer, Avoids
    <3>2. \A d : 0 \notin References(h, d) /\ 0 \notin References(q, d)
      BY ReferenceIs
    <3>3. \A d \in 1..MaxContents : \A c \in References(q, d) : c \in References(h, d) \/ (d = a.content /\ c = r)
      BY <1>4 DEF Refers
    <3>4. CASE a.content = Frame \/ r = 0
      <4> DEFINE S == S1 \ {0}
      <4>1. S \in SUBSET Numbers /\ l \in S /\ b.content \notin S /\ S \subseteq 1..MaxContents
        BY <2>2, <3>1, SlotsAre
      <4>2. \A d \in S : d # Frame
        BY DEF Frame
      <4>3. \A d \in S : References(q, d) \subseteq S
        BY <3>1, <3>2, <3>3, <3>4, <4>1, <4>2
      <4>4. QED BY <4>1, <4>3 DEF MayRefer, Avoids
    <3>5. CASE a.content # Frame /\ r # 0
      <4> DEFINE S2 == Inside(h, r)
                 S == (S1 \ {0}) \cup S2
      <4>1. r \in 1..MaxContents
        BY <1>3, <3>5, SlotsAre
      <4>2. r \in S2 /\ S2 \subseteq 1..MaxContents /\ \A d \in S2 : References(h, d) \subseteq S2
        BY <1>2, <1>3, <3>5, InsideIs
      <4>3. r \in References(h, b.content)
        BY <1>3, <3>5, ReferenceIs
      <4>4. b.content \notin S2
        BY <1>2, <1>3, <4>1, <4>3, NotInside
      <4> HIDE DEF S2
      <4>5. S \in SUBSET Numbers /\ l \in S /\ b.content \notin S /\ S \subseteq 1..MaxContents
        BY <2>2, <3>1, <4>2, <4>4, SlotsAre
      <4>6. \A d \in S : References(h, d) \subseteq S
        BY <3>1, <3>2, <4>2
      <4>7. r \in S
        BY <4>2
      <4> HIDE DEF S
      <4>8. \A d \in S : References(q, d) \subseteq S
        BY <3>3, <4>5, <4>6, <4>7
      <4>9. QED BY <4>5, <4>8 DEF MayRefer, Avoids
    <3>6. QED BY <3>4, <3>5
  <2>3. QED BY <2>1, <2>2
<1>8. QED BY <1>5, <1>6, <1>7, StaysAcyclic

LEMMA DoneAcyclic ==
  ASSUME "cycle" \notin Habits, NEW h, Balanced(h, {}, Nobody, 0), Acyclic(h),
         NEW g, Balanced(g, {}, Nobody, 0), NEW o, Done(h, g, o)
  PROVE  Acyclic(g)
<1>1. Shape(h) /\ Shape(g)
  BY DEF Balanced
<1>2. CASE PutDone(h, g, o)
  <2>1. o.to.content \in Numbers /\ Writes(h, g, o.to, o.value) /\ Ends(h, o.to, o.value)
    BY <1>2 DEF PutDone
  <2>2. MayRefer(h, o.to.content, o.value) /\ Refers(h, g, o.to.content, o.value)
    BY <1>1, <2>1, EndsMayRefer, WritesRefers
  <2>3. QED BY <2>2, StaysAcyclic
<1>3. CASE NewDone(h, g, o)
  <2>1. PICK f : /\ Shape(f) /\ Made(h, f, o.value, o.elements)
                 /\ Writes(f, g, o.to, o.value) /\ Ends(f, o.to, o.value)
    BY <1>3 DEF NewDone
  <2>2. o.to.content \in Numbers /\ o.value \in 1..MaxContents /\ Known(h, o.elements)
    BY <1>3 DEF NewDone
  <2>3. Acyclic(f)
    BY <2>1, <2>2, MadeAcyclic
  <2>4. MayRefer(f, o.to.content, o.value) /\ Refers(f, g, o.to.content, o.value)
    BY <1>1, <2>1, <2>2, EndsMayRefer, WritesRefers
  <2>5. QED BY <2>3, <2>4, StaysAcyclic
<1>4. CASE SwapDone(h, g, o)
  <2>1. /\ o.to \in Live(h, {}) /\ o.from \in Live(h, {})
        /\ Ends(h, o.to, ValueAt(h, o.from)) /\ Ends(h, o.from, ValueAt(h, o.to))
        /\ \E f : Writes(h, f, o.to, ValueAt(h, o.from)) /\ Writes(f, g, o.from, ValueAt(h, o.to))
    BY <1>4 DEF SwapDone
  <2>2. o.to.content \in Numbers /\ o.from.content \in Numbers
    BY <2>1, PlaceExists
  <2>3. MayRefer(h, o.to.content, ValueAt(h, o.from)) /\ MayRefer(h, o.from.content, ValueAt(h, o.to))
    BY <2>1, <2>2, EndsMayRefer
  <2>4. PICK f : Writes(h, f, o.to, ValueAt(h, o.from)) /\ Writes(f, g, o.from, ValueAt(h, o.to))
    BY <2>1
  <2>5. QED BY <1>1, <2>1, <2>3, <2>4, SwapAcyclic
<1>5. MayRefer(h, Frame, 0)
  BY DEF MayRefer
<1>6. CASE TakeDone(h, g, o)
  <2>1. PICK f : Erases(h, f, o.from) /\ Writes(f, g, o.to, ValueAt(h, o.from))
    BY <1>6 DEF TakeDone
  <2>2. o.to.content = Frame
    BY <1>6 DEF TakeDone
  <2>3. Refers(h, g, Frame, 0)
    <3> SUFFICES ASSUME NEW d \in 1..MaxContents, NEW c \in References(g, d)
                 PROVE  c \in References(h, d)
      BY DEF Refers
    <3>1. d \in Numbers /\ Exists(g, d) /\ d # Frame
      BY <1>1, GoneIs, SlotsAre DEF Frame
    <3>2. c # 0 /\ \E k \in DOMAIN Content(g, d) : Content(g, d)[k] = c
      BY ReferenceIs
    <3>3. PICK k \in DOMAIN Content(g, d) : Content(g, d)[k] = c
      BY <3>2
    <3>4. Exists(f, d) /\ Content(g, d) = Content(f, d)
      BY <2>1, <2>2, <3>1 DEF Writes, Wrote
    <3>5. Content(f, d) = Content(h, d) \/ Content(f, d) = Without(Content(h, d), o.from.at)
      BY <2>1, <3>1, <3>4 DEF Erases, Wrote
    <3>6. k \in DOMAIN Content(h, d) /\ Content(h, d)[k] = c
      BY <3>3, <3>4, <3>5 DEF Without
    <3>7. QED BY <3>2, <3>6, ReferenceIs
  <2>4. QED BY <1>5, <2>3, StaysAcyclic
<1>7. CASE RemoveDone(h, g, o)
  <2>1. Refers(h, g, Frame, 0)
    BY <1>1, <1>7, ErasesRefers DEF RemoveDone
  <2>2. QED BY <1>5, <2>1, StaysAcyclic
<1>8. CASE ReturnDone(h, g, o)
  <2>1. Refers(h, g, Frame, 0)
    BY <1>1, <1>8, FrameRefers DEF ReturnDone
  <2>2. QED BY <1>5, <2>1, StaysAcyclic
<1>9. QED BY <1>2, <1>3, <1>4, <1>6, <1>7, <1>8 DEF Done

-----------------------------------------------------------------------------
(* Collected heaps *)

Existing(h) == {c \in Numbers : Exists(h, c)}
Shown(h) == [c \in Existing(h) |-> Content(h, c)]

\* q has what exists in g, with its elements.
Covers(q, g) == \A c \in Existing(g) : c \in DOMAIN q /\ q[c] = Content(g, c)

\* Without cycles, what has handles is what the frame leads to.
LEMMA CollectedIs ==
  ASSUME NEW g, Balanced(g, {}, Nobody, 0), Acyclic(g), NEW q, Covers(q, g)
  PROVE  Shown(g) = Collected!Collected(q)
<1> DEFINE D == Existing(g)
           R == Collected!Reachable(q)
<1>1. D \subseteq DOMAIN q /\ \A c \in D : q[c] = Content(g, c)
  BY DEF Covers
<1>2. Frame \in D /\ g \in Heaps
  BY FrameExists, SlotsAre DEF Existing, Balanced, Shape
<1>3. \A c \in D : Collected!References(q, c) = References(g, c)
  BY <1>1 DEF Collected!References, References, Collected!Scalar, Scalar
<1>4. R = {c \in DOMAIN q : \A S \in SUBSET DOMAIN q :
             Frame \in S /\ (\A d \in S : Collected!References(q, d) \subseteq S) => c \in S}
  BY DEF Collected!Reachable, Collected!Frame, Frame
<1> HIDE DEF R
<1>5. R \subseteq D
  <2>1. ASSUME NEW d \in D, NEW c \in References(g, d) PROVE c \in D
    <3>1. c # 0 /\ \E k \in DOMAIN Content(g, d) : Content(g, d)[k] = c
      BY ReferenceIs
    <3>2. PICK k \in DOMAIN Content(g, d) : Content(g, d)[k] = c
      BY <3>1
    <3>3. Place(d, k) \in Live(g, {}) /\ ValueAt(g, Place(d, k)) = c
      BY <1>2, <3>2, LiveAt DEF Existing
    <3>4. c \in Numbers /\ Exists(g, c)
      BY <3>1, <3>3, PlaceExists
    <3>5. QED BY <3>4 DEF Existing
  <2> HIDE DEF D
  <2>2. \A d \in D : Collected!References(q, d) \subseteq D
    BY <1>3, <2>1
  <2>3. QED BY <1>1, <1>2, <1>4, <2>2
<1>6. D \subseteq R
  <2> SUFFICES ASSUME NEW c \in D, NEW S \in SUBSET DOMAIN q, Frame \in S,
                      \A d \in S : Collected!References(q, d) \subseteq S
               PROVE  c \in S
    BY <1>1, <1>4
  <2> DEFINE U == D \ S
  <2>1. U \in SUBSET (1..MaxContents)
    BY SlotsAre DEF Existing, Frame
  <2>2. ASSUME NEW v \in U PROVE \E d \in U : v \in References(g, d)
    <3>1. v \in 1..MaxContents /\ Exists(g, v) /\ v # 0
      BY <2>1 DEF Existing
    <3>2. PICK p \in Live(g, {}) : ValueAt(g, p) = v
      BY <3>1, HeldBySome
    <3>3. p.content \in D
      BY <3>2, PlaceExists DEF Existing
    <3>4. p.at \in DOMAIN Content(g, p.content) /\ Content(g, p.content)[p.at] = v
      BY <3>2 DEF Live, ValueAt
    <3>5. v \in References(g, p.content)
      BY <3>1, <3>4, ReferenceIs
    <3>6. p.content \notin S
      BY <1>3, <3>3, <3>5
    <3>7. QED BY <3>3, <3>5, <3>6
  <2>3. U = {}
    BY <2>1, <2>2 DEF Acyclic
  <2>4. QED BY <2>3
<1>7. R = D
  BY <1>5, <1>6
<1>8. Collected!Collected(q) = [c \in D |-> q[c]]
  BY <1>7 DEF Collected!Collected, R
<1>9. QED BY <1>1, <1>8 DEF Shown

LEMMA CoversShown ==
  ASSUME NEW h
  PROVE  Covers(Shown(h), h) /\ DOMAIN Shown(h) = Existing(h)
BY DEF Covers, Shown

LEMMA CoversWrites ==
  ASSUME NEW q, NEW f, Covers(q, f), NEW g, NEW p, NEW v, Writes(f, g, p, v)
  PROVE  Covers(Collected!With(q, p, v), g)
<1>1. Collected!With(q, p, v) = [d \in DOMAIN q |-> IF d = p.content THEN Put(q[d], p.at, v) ELSE q[d]]
  BY DEF Collected!With, Put
<1> SUFFICES ASSUME NEW c \in Existing(g)
             PROVE  c \in DOMAIN q /\ Content(g, c) = IF c = p.content THEN Put(q[c], p.at, v) ELSE q[c]
  BY <1>1 DEF Covers
<1>2. c \in Existing(f) /\ Content(g, c) = IF c = p.content THEN Put(Content(f, p.content), p.at, v) ELSE Content(f, c)
  BY DEF Existing, Writes, Wrote
<1>3. QED BY <1>2 DEF Covers

LEMMA CoversErases ==
  ASSUME NEW q, NEW f, Covers(q, f), NEW g, NEW p, Erases(f, g, p)
  PROVE  Covers(Collected!Without(q, p), g)
<1>1. Collected!Without(q, p) = [d \in DOMAIN q |-> IF d = p.content THEN Without(q[d], p.at) ELSE q[d]]
  BY DEF Collected!Without, Without
<1> SUFFICES ASSUME NEW c \in Existing(g)
             PROVE  c \in DOMAIN q /\ Content(g, c) = IF c = p.content THEN Without(q[c], p.at) ELSE q[c]
  BY <1>1 DEF Covers
<1>2. c \in Existing(f) /\ Content(g, c) = IF c = p.content THEN Without(Content(f, p.content), p.at) ELSE Content(f, c)
  BY DEF Existing, Erases, Wrote
<1>3. QED BY <1>2 DEF Covers

LEMMA CoversMade ==
  ASSUME NEW q, NEW h, Covers(q, h), NEW f, NEW v, NEW e, Made(h, f, v, e)
  PROVE  Covers(Collected!Grown(q, v, e), f)
<1> SUFFICES ASSUME NEW c \in Existing(f)
             PROVE  c \in DOMAIN q \cup {v} /\ Content(f, c) = IF c = v THEN e ELSE q[c]
  BY DEF Covers, Collected!Grown
<1>1. CASE c = v
  BY <1>1 DEF Made
<1>2. CASE c # v
  <2>1. c \in Existing(h) /\ Content(f, c) = Content(h, c)
    BY <1>2 DEF Existing, Made
  <2>2. QED BY <1>2, <2>1 DEF Covers
<1>3. QED BY <1>1, <1>2

LEMMA ShownValue ==
  ASSUME NEW h, Balanced(h, {}, Nobody, 0), NEW p \in Live(h, {})
  PROVE  Collected!ValueAt(Shown(h), p) = ValueAt(h, p)
<1>1. p.content \in Existing(h)
  BY PlaceExists DEF Existing
<1>2. QED BY <1>1 DEF Collected!ValueAt, ValueAt, Shown

LEMMA EffectsAre ==
  ASSUME NEW q, NEW o
  PROVE  /\ o.name = "put" => Collected!Effect(q, o) = Collected!With(q, o.to, o.value)
         /\ o.name = "new" =>
              Collected!Effect(q, o) = Collected!With(Collected!Grown(q, o.value, o.elements), o.to, o.value)
         /\ o.name = "swap" =>
              Collected!Effect(q, o)
                = Collected!With(Collected!With(q, o.to, Collected!ValueAt(q, o.from)),
                                 o.from, Collected!ValueAt(q, o.to))
         /\ o.name = "take" =>
              Collected!Effect(q, o)
                = Collected!With(Collected!Without(q, o.from), o.to, Collected!ValueAt(q, o.from))
         /\ o.name = "remove" => Collected!Effect(q, o) = Collected!Without(q, o.from)
         /\ o.name = "return" =>
              Collected!Effect(q, o)
                = [q EXCEPT ![Collected!Frame] = [x \in DOMAIN @ |-> Collected!Scalar]]
BY DEF Collected!Effect

\* A statement has the effect its operation says.
LEMMA EffectIs ==
  ASSUME NEW h, Balanced(h, {}, Nobody, 0), NEW g, Balanced(g, {}, Nobody, 0), NEW o, Done(h, g, o)
  PROVE  Covers(Collected!Effect(Shown(h), o), g) /\ Collected!Fresh(Shown(h), o)
<1> DEFINE q == Shown(h)
<1>1. Covers(q, h)
  BY CoversShown
<1>2. o.name # "new" => Collected!Fresh(q, o)
  BY DEF Collected!Fresh
<1> HIDE DEF q
<1>3. CASE PutDone(h, g, o)
  <2>1. o.name = "put" /\ Writes(h, g, o.to, o.value)
    BY <1>3 DEF PutDone
  <2>2. Covers(Collected!With(q, o.to, o.value), g)
    BY <1>1, <2>1, CoversWrites
  <2>3. QED BY <1>2, <2>1, <2>2, EffectsAre DEF q
<1>4. CASE NewDone(h, g, o)
  <2>1. PICK f : Made(h, f, o.value, o.elements) /\ Writes(f, g, o.to, o.value)
    BY <1>4 DEF NewDone
  <2>2. o.name = "new"
    BY <1>4 DEF NewDone
  <2>3. Covers(Collected!Grown(q, o.value, o.elements), f)
    BY <1>1, <2>1, CoversMade
  <2>4. Covers(Collected!With(Collected!Grown(q, o.value, o.elements), o.to, o.value), g)
    BY <2>1, <2>3, CoversWrites
  <2>5. Collected!Fresh(q, o)
    <3>1. o.value \notin Existing(h)
      BY <2>1 DEF Made, Existing
    <3>2. QED BY <3>1, CoversShown DEF Collected!Fresh, q
  <2>6. QED BY <2>2, <2>4, <2>5, EffectsAre DEF q
<1>5. CASE SwapDone(h, g, o)
  <2>1. /\ o.name = "swap" /\ o.to \in Live(h, {}) /\ o.from \in Live(h, {})
        /\ \E f : Writes(h, f, o.to, ValueAt(h, o.from)) /\ Writes(f, g, o.from, ValueAt(h, o.to))
    BY <1>5 DEF SwapDone
  <2>2. PICK f : Writes(h, f, o.to, ValueAt(h, o.from)) /\ Writes(f, g, o.from, ValueAt(h, o.to))
    BY <2>1
  <2>3. /\ Collected!ValueAt(q, o.from) = ValueAt(h, o.from)
        /\ Collected!ValueAt(q, o.to) = ValueAt(h, o.to)
    BY <2>1, ShownValue DEF q
  <2>4. Covers(Collected!With(q, o.to, ValueAt(h, o.from)), f)
    BY <1>1, <2>2, CoversWrites
  <2>5. Covers(Collected!With(Collected!With(q, o.to, ValueAt(h, o.from)), o.from, ValueAt(h, o.to)), g)
    BY <2>2, <2>4, CoversWrites
  <2>6. Collected!Effect(q, o)
          = Collected!With(Collected!With(q, o.to, ValueAt(h, o.from)), o.from, ValueAt(h, o.to))
    BY <2>1, <2>3, EffectsAre
  <2>7. QED BY <1>2, <2>1, <2>5, <2>6 DEF q
<1>6. CASE TakeDone(h, g, o)
  <2>1. o.name = "take" /\ o.from \in Live(h, {})
    BY <1>6 DEF TakeDone
  <2>2. PICK f : Erases(h, f, o.from) /\ Writes(f, g, o.to, ValueAt(h, o.from))
    BY <1>6 DEF TakeDone
  <2>3. Collected!ValueAt(q, o.from) = ValueAt(h, o.from)
    BY <2>1, ShownValue DEF q
  <2>4. Covers(Collected!Without(q, o.from), f)
    BY <1>1, <2>2, CoversErases
  <2>5. Covers(Collected!With(Collected!Without(q, o.from), o.to, ValueAt(h, o.from)), g)
    BY <2>2, <2>4, CoversWrites
  <2>6. Collected!Effect(q, o) = Collected!With(Collected!Without(q, o.from), o.to, ValueAt(h, o.from))
    BY <2>1, <2>3, EffectsAre
  <2>7. QED BY <1>2, <2>1, <2>5, <2>6 DEF q
<1>7. CASE RemoveDone(h, g, o)
  <2>1. o.name = "remove" /\ Erases(h, g, o.from)
    BY <1>7 DEF RemoveDone
  <2>2. Covers(Collected!Without(q, o.from), g)
    BY <1>1, <2>1, CoversErases
  <2>3. QED BY <1>2, <2>1, <2>2, EffectsAre DEF q
<1>8. CASE ReturnDone(h, g, o)
  <2>1. o.name = "return" /\ Wrote(h, g, Frame, [x \in 1..Variables |-> Scalar])
    BY <1>8 DEF ReturnDone
  <2>2. Frame \in Existing(h) /\ DOMAIN Content(h, Frame) = 1..Variables
    BY FrameExists, SlotsAre DEF Balanced, Shape, Existing
  <2>3. q[Frame] = Content(h, Frame) /\ Frame \in DOMAIN q
    BY <1>1, <2>2 DEF Covers
  <2>4. Collected!Effect(q, o)
          = [d \in DOMAIN q |-> IF d = Frame THEN [x \in 1..Variables |-> Scalar] ELSE q[d]]
    <3>1. Collected!Effect(q, o)
            = [q EXCEPT ![Collected!Frame] = [x \in DOMAIN @ |-> Collected!Scalar]]
      BY <2>1, EffectsAre
    <3>2. Collected!Frame = Frame /\ Collected!Scalar = Scalar
      BY DEF Collected!Frame, Frame, Collected!Scalar, Scalar
    <3>3. [x \in DOMAIN q[Frame] |-> Scalar] = [x \in 1..Variables |-> Scalar]
      BY <2>2, <2>3
    <3> DEFINE e == [x \in 1..Variables |-> Scalar]
    <3> HIDE DEF e
    <3>4. Collected!Effect(q, o) = [q EXCEPT ![Frame] = e]
      BY <3>1, <3>2, <3>3 DEF e
    <3>5. Collected!Effect(q, o) = [d \in DOMAIN q |-> IF d = Frame THEN e ELSE q[d]]
      BY <3>4
    <3>6. QED BY <3>5 DEF e
  <2> DEFINE e == [x \in 1..Variables |-> Scalar]
  <2> HIDE DEF e
  <2>5. \A c \in Existing(g) : c \in Existing(h) /\ Content(g, c) = IF c = Frame THEN e ELSE Content(h, c)
    BY <2>1 DEF Existing, Wrote, e
  <2>6. Collected!Effect(q, o) = [d \in DOMAIN q |-> IF d = Frame THEN e ELSE q[d]]
    BY <2>4 DEF e
  <2>7. Covers(Collected!Effect(q, o), g)
    BY <1>1, <2>5, <2>6 DEF Covers
  <2>8. QED BY <1>2, <2>1, <2>7 DEF q
<1>9. QED BY <1>3, <1>4, <1>5, <1>6, <1>7, <1>8 DEF Done

\* Handles are counted so that scripts cannot tell it from collecting what no variable
\* leads to: each statement changes the elements it names, contents that are still led
\* to are there with their elements, and the others are gone (types/array.cpp,
\* types/object.cpp).  A content that is inside of itself would stay for ever.
THEOREM CountingCollects ==
  ASSUME "cycle" \notin Habits, "duplicateKey" \notin Habits
  PROVE  Spec => ImplementsCollectedHeap
<1> DEFINE Inv == Sound /\ Acyclic(State)
           shown == [c \in {c \in Numbers : Exists(State, c)} |-> contents[c].elements]
<1>1. shown = Shown(State)
  BY DEF Shown, Existing, State, Content
<1>2. Init => Inv /\ Collected!Init
  <2> SUFFICES ASSUME Init PROVE Inv /\ Collected!Init
    OBVIOUS
  <2>1. Sound /\ Balanced(State, {}, Nobody, 0) /\ Shape(State)
    BY InitSound DEF Sound, Balanced
  <2>2. contents[Frame].elements = [x \in 1..Variables |-> Scalar] /\ contents[Frame].uses = 1
    BY SlotsAre DEF Init, Numbers
  <2>3. ASSUME NEW c \in 1..MaxContents PROVE ~Exists(State, c)
    <3>1. c \in Numbers /\ c # Frame
      BY SlotsAre DEF Frame
    <3>2. contents[c] = Free
      BY <3>1 DEF Init, Numbers
    <3>3. QED BY <3>2, FreeIs DEF Exists, State
  <2>4. Acyclic(State)
    BY <2>1, <2>3, GoneIs DEF Acyclic
  <2>5. Exists(State, Frame) /\ Existing(State) = {Frame}
    BY <2>1, <2>3, FrameExists, SlotsAre DEF Existing, Frame
  <2>6. shown = [c \in {Frame} |-> [x \in 1..Variables |-> Scalar]]
    BY <2>2, <2>5 DEF Existing
  <2>7. shown = [c \in {Frame} |-> [x \in DOMAIN shown[Frame] |-> Scalar]]
    <3> DEFINE e == [x \in 1..Variables |-> Scalar]
    <3>1. DOMAIN e = 1..Variables
      OBVIOUS
    <3> HIDE DEF e
    <3>2. shown = [c \in {Frame} |-> e]
      BY <2>6 DEF e
    <3>3. shown[Frame] = e
      BY <3>2
    <3>4. [x \in DOMAIN shown[Frame] |-> Scalar] = e
      BY <3>1, <3>3 DEF e
    <3>5. QED BY <3>2, <3>4
  <2>8. op = Collected!NoOperation
    BY DEF Init, Operation, Nowhere, Place, Scalar, Frame, Collected!NoOperation, Collected!Operation,
           Collected!Nowhere, Collected!Scalar
  <2>9. Collected!Init
    BY <2>7, <2>8 DEF Collected!Init, Collected!Frame, Collected!Scalar, Frame, Scalar
  <2>10. QED BY <2>1, <2>4, <2>9
<1>3. Inv /\ [Next]_vars => Inv' /\ [Collected!Next]_<<shown, op>>
  <2> SUFFICES ASSUME Inv, [Next]_vars PROVE Inv' /\ [Collected!Next]_<<shown, op>>
    OBVIOUS
  <2>1. CASE Next
    <3>1. Sound' /\ Done(State, State', op') /\ Balanced(State, {}, Nobody, 0) /\ Balanced(State', {}, Nobody, 0)
      BY <2>1, StatementStep DEF Sound
    <3>2. Acyclic(State')
      BY <3>1, DoneAcyclic
    <3>3. /\ Covers(Collected!Effect(Shown(State), op'), State')
          /\ Collected!Fresh(Shown(State), op')
      BY <3>1, EffectIs
    <3>4. Shown(State') = Collected!Collected(Collected!Effect(Shown(State), op'))
      BY <3>1, <3>2, <3>3, CollectedIs
    <3>5. shown' = Shown(State')
      BY DEF Shown, Existing, State, Content
    <3>6. Collected!Next
      BY <1>1, <3>3, <3>4, <3>5 DEF Collected!Next
    <3>7. QED BY <3>1, <3>2, <3>6
  <2>2. CASE UNCHANGED vars
    <3>1. State' = State /\ op' = op /\ contents' = contents
      BY <2>2 DEF vars, State
    <3>2. Sound' /\ Acyclic(State)'
      BY <3>1 DEF Sound
    <3>3. shown' = shown
      BY <3>1 DEF Exists
    <3>4. QED BY <3>1, <3>2, <3>3
  <2>3. QED BY <2>1, <2>2
<1>4. QED BY <1>2, <1>3, PTL DEF Spec, ImplementsCollectedHeap, Collected!Spec
=============================================================================
