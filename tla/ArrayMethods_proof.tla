-------------------------- MODULE ArrayMethods_proof --------------------------
(***************************************************************************)
(* Proofs about ArrayMethods for arrays of every length and contents, any  *)
(* number of assignments of callbacks, and callbacks that answer anything, *)
(* contradictions included, or throw where the methods can bear it.        *)
(***************************************************************************)
EXTENDS ArrayMethods, SequenceTheorems, FiniteSetTheorems, WellFoundedInduction, TLAPS

Ranges == Int \X Int

Decisions ==
  {NoResult} \cup {Scalar(kind, v) : kind \in {"element", "index", "boolean"},
                                     v \in Contents \cup Nat \cup BOOLEAN}

Tasks ==
  [method : Callbacks, values : Seq(Contents), position : Nat \ {0}, decided : Decisions,
   assignments : Nat, stack : Seq(Ranges), low : Int, high : Int, i : Int]

\* What the properties look at in a result.
Sound(r) == Size(r) \in Nat /\ (r.kind = "array" => r.values \in Seq(Contents))

\* The methods that build something of values.
Builders == {"transform", "filter", "accumulate", "sort"}

\* Values a method that runs has taken from the pools, over an array of n elements.
Built(t, n) ==
  IF t.method = "none" THEN 0
  ELSE IF t.method = "accumulate" THEN (IF n = 0 THEN 0 ELSE 1)
  ELSE Len(t.values)

\* A range lies within the copies, wherever the answers have put the pivot.
Within(range, n) == range[1] >= 1 /\ range[2] <= n

\* While a range is partitioned, the lower part grows behind the position.
Partitions(t) ==
  /\ \A k \in 1 .. Len(t.stack) : Within(t.stack[k], Len(t.values))
  /\ t.low < t.high =>
       /\ t.low >= 1 /\ t.high <= Len(t.values)
       /\ t.low - 1 <= t.i /\ t.i < t.position /\ t.position <= t.high

IInv ==
  /\ array \in Seq(Contents) /\ Len(array) <= MaxLength
  /\ task \in Tasks \cup {Idle}
  /\ Running => result = NoResult
  /\ Running /\ task.method = "sort" => Partitions(task)
  /\ Running /\ task.method \notin Builders => task.values = <<>>
  /\ Sound(result)
  /\ live = Len(array) + Built(task, Len(array)) + Size(result)
  /\ fault = FALSE

-----------------------------------------------------------------------------
(* Tasks and results.                                                       *)

LEMMA Sizes_ ==
  /\ Size(NoResult) = 0 /\ Size(Undefined) = 1 /\ Size(Error) = 1 /\ Size(Exception) = 1
  /\ Size([kind |-> "handle"]) = 1
  /\ \A kind \in {"element", "index", "boolean"} : \A v : Size(Scalar(kind, v)) = 1
  /\ \A values : Size(NewArray(values)) = 1 + Len(values)
BY DEF Size, NoResult, Undefined, Error, Exception, Scalar, NewArray

LEMMA SoundResults ==
  /\ Sound(NoResult) /\ Sound(Undefined) /\ Sound(Error) /\ Sound(Exception)
  /\ Sound([kind |-> "handle"])
  /\ \A kind \in {"element", "index", "boolean"} : \A v : Sound(Scalar(kind, v))
  /\ \A values \in Seq(Contents) : Sound(NewArray(values))
<1>1. /\ NoResult.kind = "none" /\ Undefined.kind = "undefined" /\ Error.kind = "error"
      /\ Exception.kind = "exception" /\ [kind |-> "handle"].kind = "handle"
  BY DEF NoResult, Undefined, Error, Exception
<1>2. \A kind \in {"element", "index", "boolean"} : \A v : Scalar(kind, v).kind = kind
  BY DEF Scalar
<1>3. ASSUME NEW values \in Seq(Contents) PROVE Sound(NewArray(values))
  <2>1. NewArray(values).values = values /\ Len(values) \in Nat
    BY DEF NewArray
  <2>2. QED BY <2>1, Sizes_ DEF Sound
<1>4. QED BY <1>1, <1>2, <1>3, Sizes_ DEF Sound

LEMMA SoundDecisions ==
  ASSUME NEW d \in Decisions
  PROVE  Sound(d)
BY SoundResults DEF Decisions

LEMMA TaskIsATask ==
  ASSUME NEW method \in Callbacks
  PROVE  /\ Task(method) \in Tasks /\ Task(method).method = method
         /\ Task(method).values = <<>>
<1>1. <<>> \in Seq(Contents) /\ <<>> \in Seq(Ranges) /\ NoResult \in Decisions
  BY DEF Decisions
<1>2. QED BY <1>1 DEF Task, Tasks

\* A task by its fields, and what an assignment to one of them leaves.
TaskOf(m, v, p, d, a, s, l, h, k) ==
  [method |-> m, values |-> v, position |-> p, decided |-> d, assignments |-> a,
   stack |-> s, low |-> l, high |-> h, i |-> k]

LEMMA TaskWith ==
  ASSUME NEW t \in Tasks
  PROVE
    /\ \A x : [t EXCEPT !.values = x] =
         TaskOf(t.method, x, t.position, t.decided, t.assignments,
                t.stack, t.low, t.high, t.i)
    /\ \A x : [t EXCEPT !.position = x] =
         TaskOf(t.method, t.values, x, t.decided, t.assignments,
                t.stack, t.low, t.high, t.i)
    /\ \A x : [t EXCEPT !.decided = x] =
         TaskOf(t.method, t.values, t.position, x, t.assignments,
                t.stack, t.low, t.high, t.i)
    /\ \A x : [t EXCEPT !.assignments = x] =
         TaskOf(t.method, t.values, t.position, t.decided, x,
                t.stack, t.low, t.high, t.i)
    /\ \A x : [t EXCEPT !.stack = x] =
         TaskOf(t.method, t.values, t.position, t.decided, t.assignments,
                x, t.low, t.high, t.i)
    /\ \A x : [t EXCEPT !.low = x] =
         TaskOf(t.method, t.values, t.position, t.decided, t.assignments,
                t.stack, x, t.high, t.i)
    /\ \A x : [t EXCEPT !.high = x] =
         TaskOf(t.method, t.values, t.position, t.decided, t.assignments,
                t.stack, t.low, x, t.i)
    /\ \A x : [t EXCEPT !.i = x] =
         TaskOf(t.method, t.values, t.position, t.decided, t.assignments,
                t.stack, t.low, t.high, x)
BY SMTT(60) DEF Tasks, TaskOf

LEMMA RunningIsATask ==
  ASSUME IInv
  PROVE  /\ Idle.method = "none" /\ "none" \notin Callbacks
         /\ Running <=> task \in Tasks
         /\ ~Running <=> task = Idle
<1>1. Idle.method = "none" /\ "none" \notin Callbacks
  BY DEF Idle, Callbacks, Predicates
<1>2. \A t \in Tasks : t.method \in Callbacks
  BY DEF Tasks
<1>3. Idle \notin Tasks
  BY <1>1, <1>2
<1>4. QED BY <1>1, <1>3 DEF IInv, Running

LEMMA LastOf ==
  ASSUME NEW S, NEW s \in Seq(S), s # <<>>
  PROVE  /\ Len(s) \in Nat \ {0} /\ Last(s) \in S
         /\ Front(s) \in Seq(S) /\ Len(Front(s)) = Len(s) - 1
         /\ \A k \in 1 .. Len(s) - 1 : Front(s)[k] = s[k]
<1> DEFINE n == Len(s) - 1
<1>1. Len(s) \in Nat \ {0}
  BY EmptySeq
<1>2. Last(s) \in S
  BY <1>1 DEF Last
<1>3. n \in Nat /\ \A k \in 1 .. n : s[k] \in S
  BY <1>1
<1> HIDE DEF n
<1>4. /\ SubSeq(s, 1, n) \in Seq(S)
      /\ Len(SubSeq(s, 1, n)) = IF 1 <= n THEN n - 1 + 1 ELSE 0
      /\ \A k \in 1 .. n - 1 + 1 : SubSeq(s, 1, n)[k] = s[1 + k - 1]
  BY <1>3, SubSeqProperties
<1>5. Front(s) = SubSeq(s, 1, n)
  BY DEF Front, n
<1>6. ASSUME NEW k \in 1 .. n PROVE Front(s)[k] = s[k]
  <2>1. k \in 1 .. n - 1 + 1 /\ 1 + k - 1 = k
    BY <1>3
  <2>2. QED BY <1>4, <1>5, <2>1
<1>7. Len(Front(s)) = n
  BY <1>3, <1>4, <1>5
<1>8. QED BY <1>1, <1>2, <1>4, <1>5, <1>6, <1>7 DEF n

\* A callback leaves an array of the same length.
LEMMA AfterIsAnArray ==
  ASSUME IInv, Habits = {}, NEW after \in AfterCallback
  PROVE  after \in Seq(Contents) /\ Len(after) = Len(array)
<1>1. array \in Seq(Contents) /\ Values \subseteq Contents
  BY DEF IInv, Contents
<1>2. ASSUME NEW k \in DOMAIN array, NEW v \in Values
      PROVE  [array EXCEPT ![k] = v] \in Seq(Contents) /\ Len([array EXCEPT ![k] = v]) = Len(array)
  BY <1>1
<1>3. \/ after = array
      \/ \E k \in DOMAIN array, v \in Values : after = [array EXCEPT ![k] = v]
  BY DEF AfterCallback
<1>4. QED BY <1>1, <1>2, <1>3

LEMMA UIntsAreInRange ==
  /\ UInts \in Nat /\ MaxLength \in Nat /\ UInts > MaxLength + 2
  /\ \A n \in 0 .. UInts - 1 : UInt(n) = n
  /\ UInt(-1) = UInts - 1
  /\ \A n \in Int : UInt(n) \in 0 .. UInts - 1
<1>1. UInts \in Nat /\ MaxLength \in Nat /\ UInts > MaxLength + 2
  BY WidthAssumption, ArrayMethodsAssumption
<1>2. \A n \in 0 .. UInts - 1 : UInt(n) = n
  BY <1>1, SMTT(30) DEF UInt
<1>3. UInt(-1) = UInts - 1
  BY <1>1, SMTT(30) DEF UInt
<1>4. \A n \in Int : UInt(n) \in 0 .. UInts - 1
  BY <1>1, SMTT(30) DEF UInt
<1>5. QED BY <1>1, <1>2, <1>3, <1>4

-----------------------------------------------------------------------------
(* The actions.                                                             *)

LEMMA InitIInv ==
  ASSUME Init
  PROVE  IInv
<1>1. PICK n \in 0 .. MaxLength : array \in [1 .. n -> Values]
  BY DEF Init
<1>2. n \in Nat /\ array \in Seq(Values) /\ Len(array) = n
  BY <1>1, ArrayMethodsAssumption
<1>3. array \in Seq(Contents) /\ Len(array) <= MaxLength
  <2>1. \A k \in 1 .. n : array[k] \in Contents
    BY <1>1 DEF Contents
  <2>2. array \in [1 .. n -> Contents]
    BY <1>1, <2>1
  <2>3. QED BY <1>2, <2>2
<1>4. task = Idle /\ result = NoResult /\ live = Len(array) /\ fault = FALSE
  BY DEF Init
<1>5. Built(Idle, Len(array)) = 0
  BY DEF Built, Idle
<1>6. QED BY <1>2, <1>3, <1>4, <1>5, Sizes_, SoundResults DEF IInv, Running

\* A method that returns leaves nothing but its result.
LEMMA ReturnKeepsIInv ==
  ASSUME IInv, Running, NEW r, Sound(r), NEW released \in Int, Return(r, released),
         released = Built(task, Len(array)),
         array' \in Seq(Contents), Len(array') = Len(array), fault' = FALSE
  PROVE  IInv'
<1>1. task' = Idle /\ result' = r /\ live' = live - released + Size(r)
  BY DEF Return
<1>2. Built(Idle, Len(array)) = 0 /\ Built(Idle, Len(array')) = 0
  BY DEF Built, Idle
<1>3. ~Running'
  BY <1>1 DEF Running
<1>4. Size(result) = 0 /\ Size(r) \in Nat /\ Len(array) \in Nat
  BY Sizes_ DEF IInv, Sound
<1>5. live' = Len(array') + Built(task', Len(array')) + Size(result')
  BY <1>1, <1>2, <1>4 DEF IInv
<1>6. Sound(result')
  BY <1>1
<1>7. task' \in Tasks \cup {Idle}
  BY <1>1
<1>8. Len(array') <= MaxLength
  BY DEF IInv
<1>9. QED BY <1>3, <1>5, <1>6, <1>7, <1>8 DEF IInv, Sound

LEMMA BeginStep ==
  ASSUME IInv, NEW method \in Callbacks, Begin(method)
  PROVE  IInv'
<1>1. ~Running /\ result = NoResult /\ task = Idle
  BY DEF Begin, Ready, Running
<1>2. UNCHANGED <<array, result, fault>>
  BY DEF Begin
<1>3. live = Len(array) /\ Len(array) \in Nat
  BY <1>1, Sizes_ DEF IInv, Built, Idle
<1>4. CASE method = "sort"
  <2>1. task' = SortTask /\ live' = live + Len(array)
    BY <1>4 DEF Begin
  <2> DEFINE t == Task("sort")
             w == TaskOf("sort", array, 1, NoResult, 0, <<<<1, Len(array)>>>>, 0, 0, 0)
  <2>2. t \in Tasks /\ t = TaskOf("sort", <<>>, 1, NoResult, 0, <<>>, 0, 0, 0)
    BY <1>4, TaskIsATask DEF Task, TaskOf
  <2> HIDE DEF t
  <2>3. [t EXCEPT !.values = array] = TaskOf("sort", array, 1, NoResult, 0, <<>>, 0, 0, 0)
    BY <2>2, TaskWith DEF TaskOf
  <2>4. <<<<1, Len(array)>>>> \in Seq(Ranges) /\ <<>> \in Seq(Ranges) /\ array \in Seq(Contents)
    BY <1>3 DEF Ranges, IInv
  <2>5. NoResult \in Decisions
    BY DEF Decisions
  <2> DEFINE u == TaskOf("sort", array, 1, NoResult, 0, <<>>, 0, 0, 0)
  <2>6. /\ u \in Tasks /\ u.method = "sort" /\ u.values = array /\ u.position = 1
        /\ u.decided = NoResult /\ u.assignments = 0 /\ u.low = 0 /\ u.high = 0 /\ u.i = 0
    BY <1>4, <2>4, <2>5 DEF TaskOf, Tasks
  <2>7. /\ w \in Tasks /\ w.method = "sort" /\ w.values = array /\ w.low = 0 /\ w.high = 0
        /\ w.stack = <<<<1, Len(array)>>>>
    BY <1>4, <2>4, <2>5 DEF TaskOf, Tasks
  <2>8. [[t EXCEPT !.values = array] EXCEPT !.stack = <<<<1, Len(array)>>>>] = w
    <3>1. [t EXCEPT !.values = array] = u
      BY <2>3
    <3> HIDE DEF u
    <3>2. [u EXCEPT !.stack = <<<<1, Len(array)>>>>] = w
      BY <2>6, TaskWith
    <3>3. QED BY <3>1, <3>2
  <2>9. task' = w
    BY <2>1, <2>8 DEF SortTask, t
  <2> HIDE DEF w
  <2>10. Partitions(w)
    BY <1>3, <2>7 DEF Partitions, Within
  <2>11. Built(w, Len(array)) = Len(array)
    BY <2>7 DEF Built
  <2>12. Built(task', Len(array')) = Len(array) /\ Partitions(task') /\ task' \in Tasks
    <3>1. array' = array
      BY <1>2
    <3>2. QED BY <3>1, <2>7, <2>9, <2>10, <2>11, Zenon
  <2>13. task'.method = "sort"
    BY <2>7, <2>9
  <2>14. live' = Len(array') + Built(task', Len(array')) + Size(result')
    BY <1>1, <1>2, <1>3, <2>1, <2>12, Sizes_
  <2>15. QED BY <1>1, <1>2, <2>12, <2>13, <2>14 DEF IInv, Sound, Builders
<1>5. CASE method # "sort"
  <2>1. task' = Task(method) /\ task'.method = method /\ task'.values = <<>> /\ task' \in Tasks
    BY <1>5, TaskIsATask DEF Begin
  <2>2. array = <<>> <=> Len(array) = 0
    BY EmptySeq DEF IInv
  <2>3. live' = IF method = "accumulate" /\ Len(array) # 0 THEN live + 1 ELSE live
    BY <1>5, <2>2 DEF Begin
  <2>4. method # "none"
    BY RunningIsATask
  <2>5. live' = Len(array') + Built(task', Len(array')) + Size(result')
    BY <1>1, <1>2, <1>3, <2>1, <2>3, <2>4, Sizes_ DEF Built
  <2>6. QED BY <1>1, <1>2, <1>5, <2>1, <2>5 DEF IInv, Sound
<1>6. QED BY <1>4, <1>5

\* The loop goes on to its next element.
LEMMA AfterwardsIsATask ==
  ASSUME task \in Tasks, NEW after
  PROVE  LET n == [Afterwards(after) EXCEPT !.position = @ + 1]
         IN /\ n \in Tasks
            /\ n.method = task.method /\ n.values = task.values /\ n.decided = task.decided
            /\ n.position = task.position + 1
            /\ n.stack = task.stack /\ n.low = task.low /\ n.high = task.high /\ n.i = task.i
<1> DEFINE a == task.assignments + (IF after = array THEN 0 ELSE 1)
           t == Afterwards(after)
           n == [t EXCEPT !.position = t.position + 1]
<1>1. a \in Nat
  BY DEF Tasks
<1>2. t = [task EXCEPT !.assignments = a]
  BY DEF Afterwards
<1> HIDE DEF a, t
<1>3. t = TaskOf(task.method, task.values, task.position, task.decided, a,
                 task.stack, task.low, task.high, task.i)
  BY <1>2, TaskWith
<1>4. /\ t \in Tasks
      /\ t.method = task.method /\ t.values = task.values /\ t.decided = task.decided
      /\ t.position = task.position
      /\ t.stack = task.stack /\ t.low = task.low /\ t.high = task.high /\ t.i = task.i
  BY <1>1, <1>3 DEF TaskOf, Tasks
<1>5. n = TaskOf(t.method, t.values, t.position + 1, t.decided, t.assignments,
                 t.stack, t.low, t.high, t.i)
  BY <1>4, TaskWith
<1> HIDE DEF n
<1>6. t.position + 1 \in Nat \ {0}
  BY <1>4 DEF Tasks
<1>7. /\ n \in Tasks
      /\ n.method = task.method /\ n.values = task.values /\ n.decided = task.decided
      /\ n.position = task.position + 1
      /\ n.stack = task.stack /\ n.low = task.low /\ n.high = task.high /\ n.i = task.i
  BY <1>4, <1>5, <1>6 DEF TaskOf, Tasks
<1>8. QED BY <1>7 DEF n, t

\* What a step of a loop that goes on has to show.
LEMMA GoingOnKeepsIInv ==
  ASSUME IInv, Running, task.method # "sort",
         task' \in Tasks, task'.method = task.method,
         UNCHANGED <<result, fault>>, array' \in Seq(Contents), Len(array') = Len(array),
         task.method \notin Builders => task'.values = <<>>,
         live' - live = Built(task', Len(array)) - Built(task, Len(array)), live' \in Int
  PROVE  IInv'
<1>1. task \in Tasks /\ result = NoResult /\ Len(array) \in Nat
  <2>1. task \in Tasks
    BY RunningIsATask
  <2>2. array \in Seq(Contents) /\ result = NoResult
    BY DEF IInv
  <2>3. QED BY <2>1, <2>2
<1>2. Built(task, Len(array)) \in Nat /\ Built(task', Len(array)) \in Nat
  <2>1. Len(task.values) \in Nat /\ Len(task'.values) \in Nat
    <3>1. \A t \in Tasks : Len(t.values) \in Nat
      BY DEF Tasks
    <3>2. QED BY <1>1, <3>1, Zenon
  <2>2. QED BY <2>1 DEF Built
<1>3. live' = Len(array') + Built(task', Len(array')) + Size(result')
  <2>1. live = Len(array) + Built(task, Len(array)) + 0
    BY <1>1, Sizes_ DEF IInv
  <2>2. Built(task', Len(array')) = Built(task', Len(array)) /\ Size(result') = 0
    BY <1>1, Sizes_
  <2>3. QED BY <1>1, <1>2, <2>1, <2>2
<1>4. result' = NoResult
  BY <1>1
<1>5. QED BY <1>1, <1>3, <1>4, SoundResults DEF IInv

LEMMA AnsweredStep ==
  ASSUME IInv, Habits = {}, Running, task.method # "sort", NEW answer \in Answers,
         NEW after \in AfterCallback, Element \in 1 .. Len(array),
         Answered(answer, after), array' = after, UNCHANGED <<result, fault>>
  PROVE  IInv' /\ task'.method = task.method
<1> DEFINE n == [Afterwards(after) EXCEPT !.position = @ + 1]
           e == KeptElement(after)
<1>1. task \in Tasks /\ live \in Int
  <2>1. task \in Tasks
    BY RunningIsATask
  <2>2. Built(task, Len(array)) \in Nat /\ Len(array) \in Nat /\ Size(result) \in Nat
    BY <2>1 DEF Built, Tasks, IInv, Sound
  <2>3. QED BY <2>1, <2>2 DEF IInv
<1>2. after \in Seq(Contents) /\ Len(after) = Len(array) /\ e \in Contents
  <2>1. after \in Seq(Contents) /\ Len(after) = Len(array)
    BY AfterIsAnArray
  <2>2. QED BY <2>1 DEF KeptElement
<1>3. /\ n \in Tasks
      /\ n.method = task.method /\ n.values = task.values
  BY <1>1, AfterwardsIsATask
<1>4. task.values \in Seq(Contents) /\ Len(task.values) \in Nat /\ task.method \in Callbacks
  BY <1>1 DEF Tasks
<1>5. task.method \in Predicates => answer \in BOOLEAN
  BY DEF Answers
<1>6. task.method \notin Predicates => answer \in Contents
  BY DEF Answers, Contents
<1>7. /\ \A x \in Seq(Contents) : /\ [n EXCEPT !.values = x] \in Tasks
                                 /\ [n EXCEPT !.values = x].values = x
                                 /\ [n EXCEPT !.values = x].method = n.method
      /\ \A x \in Decisions : /\ [n EXCEPT !.decided = x] \in Tasks
                             /\ [n EXCEPT !.decided = x].values = n.values
                             /\ [n EXCEPT !.decided = x].method = n.method
  <2> HIDE DEF n
  <2>1. ASSUME NEW x \in Seq(Contents)
        PROVE  /\ [n EXCEPT !.values = x] \in Tasks
               /\ [n EXCEPT !.values = x].values = x
               /\ [n EXCEPT !.values = x].method = n.method
    BY <1>3 DEF Tasks
  <2>2. ASSUME NEW x \in Decisions
        PROVE  /\ [n EXCEPT !.decided = x] \in Tasks
               /\ [n EXCEPT !.decided = x].values = n.values
               /\ [n EXCEPT !.decided = x].method = n.method
    BY <1>3 DEF Tasks
  <2>3. QED BY <2>1, <2>2
<1>8. CASE task.method = "transform"
  <2>1. answer \in Contents
    BY <1>6, <1>8 DEF Predicates
  <2>2. task' = [n EXCEPT !.values = Append(n.values, answer)] /\ live' = live + 1
    BY <1>8 DEF Answered
  <2> HIDE DEF n
  <2>3. Append(n.values, answer) \in Seq(Contents)
        /\ Len(Append(n.values, answer)) = Len(task.values) + 1
    BY <1>3, <1>4, <2>1
  <2>4. task' \in Tasks /\ task'.method = task.method /\ Len(task'.values) = Len(task.values) + 1
    BY <1>3, <1>7, <2>2, <2>3
  <2>5. live' - live = Built(task', Len(array)) - Built(task, Len(array))
    <3>1. task'.method = "transform"
      BY <1>8, <2>4
    <3>2. Built(task', Len(array)) = Len(task'.values) /\ Built(task, Len(array)) = Len(task.values)
      BY <1>8, <3>1 DEF Built
    <3>3. QED BY <1>1, <1>4, <2>2, <2>4, <3>2
  <2>6. QED BY <1>1, <1>2, <1>8, <2>2, <2>4, <2>5, GoingOnKeepsIInv DEF Builders
<1>9. CASE task.method = "filter"
  <2>1. /\ task' = IF answer THEN [n EXCEPT !.values = Append(n.values, e)] ELSE n
        /\ live' = IF answer THEN live + 1 ELSE live
    BY <1>9 DEF Answered
  <2> HIDE DEF n, e
  <2>2. Append(n.values, e) \in Seq(Contents)
        /\ Len(Append(n.values, e)) = Len(task.values) + 1
    BY <1>2, <1>3, <1>4
  <2>3. /\ task' \in Tasks /\ task'.method = task.method
        /\ Len(task'.values) = Len(task.values) + (IF answer THEN 1 ELSE 0)
        /\ live' = live + (IF answer THEN 1 ELSE 0)
    <3>1. CASE answer
      BY <3>1, <1>3, <1>7, <2>1, <2>2
    <3>2. CASE ~answer
      BY <3>2, <1>1, <1>3, <1>4, <2>1
    <3>3. QED BY <3>1, <3>2
  <2>4. live' - live = Built(task', Len(array)) - Built(task, Len(array)) /\ live' \in Int
    BY <1>1, <1>4, <1>9, <2>3 DEF Built
  <2>5. QED BY <1>1, <1>2, <1>9, <2>3, <2>4, GoingOnKeepsIInv DEF Builders
<1>10. CASE task.method = "accumulate"
  <2>1. answer \in Contents
    BY <1>6, <1>10 DEF Predicates
  <2>2. task' = [n EXCEPT !.values = <<answer>>] /\ live' = live
    BY <1>10 DEF Answered
  <2> HIDE DEF n
  <2>3. task' \in Tasks /\ task'.method = task.method
    <3>1. <<answer>> \in Seq(Contents)
      BY <2>1
    <3>2. QED BY <1>3, <1>7, <2>2, <3>1, Zenon
  <2>4. live' - live = Built(task', Len(array)) - Built(task, Len(array))
    BY <1>1, <1>10, <2>2, <2>3 DEF Built, IInv
  <2>5. QED BY <1>1, <1>2, <1>10, <2>2, <2>3, <2>4, GoingOnKeepsIInv DEF Builders
<1>11. CASE task.method \notin {"transform", "filter", "accumulate"}
  <2>1. task.method \notin Builders /\ task.values = <<>>
    BY <1>11 DEF Builders, IInv
  <2>2. task' \in Tasks /\ task'.method = task.method /\ task'.values = task.values /\ live' = live
    <3>1. \/ task' = n
          \/ task.method \in {"find", "find_last"} /\ task' = [n EXCEPT !.decided = Scalar("element", e)]
          \/ task.method \in {"find_index", "find_last_index"}
             /\ task' = [n EXCEPT !.decided = Scalar("index", Element)]
          \/ task.method \in {"all", "any"} /\ task' = [n EXCEPT !.decided = Scalar("boolean", answer)]
      BY <1>11 DEF Answered
    <3>2. live' = live
      BY <1>11 DEF Answered
    <3>3. /\ Scalar("element", e) \in Decisions
          /\ Scalar("index", Element) \in Decisions
          /\ task.method \in {"all", "any"} => Scalar("boolean", answer) \in Decisions
      <4>1. e \in Contents \cup Nat \cup BOOLEAN /\ Element \in Contents \cup Nat \cup BOOLEAN
        BY <1>2
      <4>2. task.method \in {"all", "any"} => answer \in Contents \cup Nat \cup BOOLEAN
        BY <1>5 DEF Predicates
      <4>3. QED BY <4>1, <4>2 DEF Decisions
    <3> HIDE DEF n, e
    <3>4. QED BY <1>3, <1>7, <3>1, <3>2, <3>3
  <2>3. live' - live = Built(task', Len(array)) - Built(task, Len(array))
    BY <1>1, <1>4, <2>2 DEF Built
  <2>4. task.values = <<>> => task'.values = <<>>
    BY <2>2
  <2>5. QED BY <1>1, <1>2, <2>1, <2>2, <2>3, GoingOnKeepsIInv
<1>12. QED BY <1>8, <1>9, <1>10, <1>11

LEMMA AnswerStep ==
  ASSUME IInv, Habits = {}, NEW answer, NEW after, NEW isBoolean, Answer(answer, after, isBoolean)
  PROVE  IInv' /\ task'.method = task.method
<1>1. CallIsDue /\ task.method # "sort" /\ answer \in Answers /\ after \in AfterCallback
      /\ isBoolean /\ array' = after /\ fault' = (Len(after) # Len(array))
  BY DEF Answer
<1>2. Running /\ task.position <= Len(array)
  BY <1>1 DEF CallIsDue
<1>3. after \in Seq(Contents) /\ Len(after) = Len(array) /\ Len(array) \in Nat
  BY <1>1, AfterIsAnArray
<1>4. task.position \in Nat \ {0}
  BY <1>2, RunningIsATask DEF Tasks
<1>5. Element \in 1 .. Len(array)
  BY <1>2, <1>3, <1>4 DEF Element
<1>6. fault' = FALSE /\ fault = FALSE
  BY <1>1, <1>3 DEF IInv
<1>7. Answered(answer, after) /\ UNCHANGED result
  BY <1>1, <1>6 DEF Answer
<1>8. UNCHANGED <<result, fault>>
  BY <1>6, <1>7
<1>9. QED BY <1>1, <1>2, <1>5, <1>7, <1>8, AnsweredStep

LEMMA ThrowStep ==
  ASSUME IInv, Habits = {}, NEW after, Throw(after)
  PROVE  IInv'
<1>1. /\ Running /\ task.method # "transform" /\ task.method # "sort"
      /\ after \in AfterCallback /\ array' = after /\ fault' = (task.method = "transform")
      /\ Return(Exception, ReleasedOnThrow)
  BY DEF Throw, CallIsDue
<1>2. after \in Seq(Contents) /\ Len(after) = Len(array) /\ Len(array) \in Nat
  BY <1>1, AfterIsAnArray
<1>3. task \in Tasks /\ Len(task.values) \in Nat /\ task.method # "none"
  <2>1. task \in Tasks /\ "none" \notin Callbacks
    BY <1>1, RunningIsATask
  <2>2. QED BY <2>1 DEF Tasks
<1>4. ReleasedOnThrow = Built(task, Len(array))
  <2>1. CASE task.method = "filter"
    BY <1>3, <2>1 DEF ReleasedOnThrow, Built
  <2>2. CASE task.method = "accumulate"
    <3>1. Len(array) # 0
      <4>1. task.position <= Len(array)
        BY <1>1 DEF Throw, CallIsDue
      <4>2. task.position \in Nat \ {0}
        BY <1>3 DEF Tasks
      <4>3. QED BY <1>2, <4>1, <4>2
    <3>2. QED BY <2>2, <3>1 DEF ReleasedOnThrow, Built
  <2>3. CASE task.method \notin {"filter", "accumulate"}
    <3>1. task.values = <<>>
      BY <1>1, <2>3 DEF IInv, Builders
    <3>2. QED BY <1>3, <2>3, <3>1 DEF ReleasedOnThrow, Built
  <2>4. QED BY <2>1, <2>2, <2>3
<1>5. Built(task, Len(array)) \in Int
  BY <1>3 DEF Built
<1>6. fault' = FALSE
  BY <1>1
<1>7. Sound(Exception)
  BY SoundResults
<1>8. QED BY <1>1, <1>2, <1>4, <1>5, <1>6, <1>7, ReturnKeepsIInv

LEMMA FinishStep ==
  ASSUME IInv, Finish
  PROVE  IInv'
<1> DEFINE r == IF task.decided # NoResult THEN task.decided
                ELSE CASE task.method \in {"transform", "filter"} -> NewArray(task.values)
                       [] task.method \in {"all", "any"} -> Scalar("boolean", task.method = "all")
                       [] task.method = "accumulate" /\ array # <<>> ->
                            Scalar("element", task.values[1])
                       [] OTHER -> Undefined
           built == IF task.method = "accumulate" THEN (IF array = <<>> THEN 0 ELSE 1)
                    ELSE Len(task.values)
<1>1. Running /\ task.method # "sort" /\ Return(r, built) /\ UNCHANGED <<array, fault>>
  BY DEF Finish
<1>2. task \in Tasks /\ task.method # "none" /\ Len(task.values) \in Nat
  <2>1. task \in Tasks /\ "none" \notin Callbacks
    BY <1>1, RunningIsATask
  <2>2. QED BY <2>1 DEF Tasks
<1>3. built = Built(task, Len(array)) /\ built \in Int
  <2>1. array = <<>> <=> Len(array) = 0
    BY EmptySeq DEF IInv
  <2>2. QED BY <1>2, <2>1 DEF Built
<1>4. Sound(r)
  <2>1. \/ r = task.decided
        \/ r = NewArray(task.values)
        \/ r = Scalar("boolean", task.method = "all")
        \/ r = Scalar("element", task.values[1])
        \/ r = Undefined
    OBVIOUS
  <2>2. task.decided \in Decisions /\ task.values \in Seq(Contents)
    BY <1>2 DEF Tasks
  <2> HIDE DEF r
  <2>3. QED BY <2>1, <2>2, SoundDecisions, SoundResults
<1>5. array' \in Seq(Contents) /\ Len(array') = Len(array) /\ fault' = FALSE
  BY <1>1 DEF IInv
<1> HIDE DEF r, built
<1>6. QED BY <1>1, <1>3, <1>4, <1>5, ReturnKeepsIInv

LEMMA SortedStep ==
  ASSUME IInv, Sorted
  PROVE  IInv'
<1>1. Running /\ task.method = "sort" /\ Return(NewArray(task.values), Len(task.values))
      /\ UNCHANGED <<array, fault>>
  BY DEF Sorted, Sorting
<1>2. task.values \in Seq(Contents)
  BY <1>1, RunningIsATask DEF Tasks
<1>3. Sound(NewArray(task.values)) /\ Len(task.values) \in Int
  BY <1>2, SoundResults
<1>4. Len(task.values) = Built(task, Len(array))
  BY <1>1 DEF Built
<1>5. array' \in Seq(Contents) /\ Len(array') = Len(array) /\ fault' = FALSE
  BY <1>1 DEF IInv
<1>6. QED BY <1>1, <1>3, <1>4, <1>5, ReturnKeepsIInv

\* What a step of the quicksort has to show.
LEMMA SortingKeepsIInv ==
  ASSUME IInv, Running, task.method = "sort",
         task' \in Tasks, task'.method = "sort", Len(task'.values) = Len(task.values),
         Partitions(task'), UNCHANGED <<result, live>>,
         array' \in Seq(Contents), Len(array') = Len(array), fault' = FALSE
  PROVE  IInv'
<1>1. Built(task', Len(array')) = Built(task, Len(array))
  BY DEF Built
<1>2. live' = Len(array') + Built(task', Len(array')) + Size(result')
  BY <1>1 DEF IInv
<1>3. task'.method \in Builders /\ result' = NoResult
  BY DEF Builders, IInv
<1>4. QED BY <1>2, <1>3, SoundResults DEF IInv

\* A task of sort: its parts, and what the invariant says of them.
LEMMA SortTaskParts ==
  ASSUME IInv, Sorting
  PROVE  /\ Running /\ task.method = "sort" /\ task \in Tasks /\ Partitions(task)
         /\ task.values \in Seq(Contents) /\ Len(task.values) \in Nat
         /\ task.stack \in Seq(Ranges) /\ Len(task.stack) \in Nat
         /\ task.low \in Int /\ task.high \in Int /\ task.i \in Int
         /\ task.position \in Nat \ {0}
<1>1. Running /\ task.method = "sort" /\ Partitions(task)
  BY DEF Sorting, IInv
<1>2. task \in Tasks
  BY <1>1, RunningIsATask
<1>3. QED BY <1>1, <1>2 DEF Tasks

\* A step of the quicksort swaps two of the copies or leaves them alone.
SwapsAtMost ==
  \/ task'.values = task.values
  \/ \E j, k \in DOMAIN task.values : task'.values = Swap(task.values, j, k)

RangeTaken ==
  /\ task'.values = task.values /\ task'.stack = Front(task.stack)
  /\ task'.low = Last(task.stack)[1] /\ task'.high = Last(task.stack)[2]
  /\ task'.i = task'.low - 1 /\ task'.position = task'.low

LEMMA TakeRangeStep ==
  ASSUME IInv, TakeRange
  PROVE  IInv' /\ task'.method = "sort" /\ SwapsAtMost /\ RangeTaken
<1> DEFINE range == Last(task.stack)
           l == range[1]
           h == range[2]
           s == Front(task.stack)
           t1 == [task EXCEPT !.stack = s]
           t2 == [t1 EXCEPT !.low = l]
           t3 == [t2 EXCEPT !.high = h]
           t4 == [t3 EXCEPT !.i = l - 1]
           t5 == [t4 EXCEPT !.position = l]
<1>1. Sorting /\ task.stack # <<>> /\ UNCHANGED <<array, result, live, fault>>
  BY DEF TakeRange
<1>2. task' = t5
  BY DEF TakeRange
<1>3. /\ task.method = "sort" /\ task \in Tasks /\ Partitions(task)
      /\ task.stack \in Seq(Ranges) /\ Len(task.values) \in Nat
  BY <1>1, SortTaskParts
<1>4. /\ Len(task.stack) \in Nat \ {0} /\ range \in Ranges /\ s \in Seq(Ranges)
      /\ Len(s) = Len(task.stack) - 1
      /\ \A k \in 1 .. Len(task.stack) - 1 : s[k] = task.stack[k]
  BY <1>1, <1>3, LastOf
<1>5. range = task.stack[Len(task.stack)]
  BY DEF Last
<1>6. Within(range, Len(task.values)) /\ \A k \in 1 .. Len(s) : Within(s[k], Len(task.values))
  BY <1>3, <1>4, <1>5 DEF Partitions
<1>7. l \in Int /\ h \in Int /\ l >= 1 /\ h <= Len(task.values)
  BY <1>4, <1>6 DEF Ranges, Within
<1> HIDE DEF range, l, h, s, t1, t2, t3, t4, t5
<1>8. t1 = TaskOf(task.method, task.values, task.position, task.decided, task.assignments,
                  s, task.low, task.high, task.i)
  BY <1>3, TaskWith DEF t1
<1>9. t2 = TaskOf(task.method, task.values, task.position, task.decided, task.assignments,
                  s, l, task.high, task.i)
  <2>1. t1 \in Tasks
    BY <1>3, <1>4, <1>8 DEF TaskOf, Tasks
  <2>2. QED BY <1>8, <2>1, TaskWith DEF t2, TaskOf
<1>10. t3 = TaskOf(task.method, task.values, task.position, task.decided, task.assignments,
                   s, l, h, task.i)
  <2>1. t2 \in Tasks
    BY <1>3, <1>4, <1>7, <1>9 DEF TaskOf, Tasks
  <2>2. QED BY <1>9, <2>1, TaskWith DEF t3, TaskOf
<1>11. t4 = TaskOf(task.method, task.values, task.position, task.decided, task.assignments,
                   s, l, h, l - 1)
  <2>1. t3 \in Tasks
    BY <1>3, <1>4, <1>7, <1>10 DEF TaskOf, Tasks
  <2>2. QED BY <1>10, <2>1, TaskWith DEF t4, TaskOf
<1>12. t5 = TaskOf(task.method, task.values, l, task.decided, task.assignments, s, l, h, l - 1)
  <2>1. t4 \in Tasks
    BY <1>3, <1>4, <1>7, <1>11 DEF TaskOf, Tasks
  <2>2. QED BY <1>11, <2>1, TaskWith DEF t5, TaskOf
<1>13. /\ t5 \in Tasks /\ t5.method = "sort" /\ t5.values = task.values /\ t5.stack = s
       /\ t5.low = l /\ t5.high = h /\ t5.i = l - 1 /\ t5.position = l
  BY <1>3, <1>4, <1>7, <1>12 DEF TaskOf, Tasks
<1>14. Partitions(t5)
  BY <1>6, <1>7, <1>13 DEF Partitions
<1>15. array' \in Seq(Contents) /\ Len(array') = Len(array) /\ fault' = FALSE
  BY <1>1 DEF IInv
<1>16. Running
  BY <1>1, SortTaskParts
<1>17. IInv'
  BY <1>1, <1>2, <1>3, <1>13, <1>14, <1>15, <1>16, SortingKeepsIInv
<1>18. RangeTaken
  BY <1>2, <1>13 DEF RangeTaken, range, l, h, s
<1>19. QED BY <1>2, <1>13, <1>17, <1>18 DEF SwapsAtMost

LEMMA SwapKeepsTheLength ==
  ASSUME NEW values \in Seq(Contents), NEW j \in DOMAIN values, NEW k \in DOMAIN values
  PROVE  Swap(values, j, k) \in Seq(Contents) /\ Len(Swap(values, j, k)) = Len(values)
BY DEF Swap

PivotPlaced ==
  /\ task'.values = Swap(task.values, task.i + 1, task.high)
  /\ task'.stack = task.stack \o Parts(task.i + 1)
  /\ task'.low = 0 /\ task'.high = 0

\* Both parts lie within the copies: the pivot is one of the elements partitioned.
LEMMA PlacePivotStep ==
  ASSUME IInv, PlacePivot
  PROVE  IInv' /\ task'.method = "sort" /\ SwapsAtMost /\ PivotPlaced
<1> DEFINE pivot == task.i + 1
           v == Swap(task.values, pivot, task.high)
           s == task.stack \o Parts(pivot)
           t1 == [task EXCEPT !.values = v]
           t2 == [t1 EXCEPT !.stack = s]
           t3 == [t2 EXCEPT !.low = 0]
           t4 == [t3 EXCEPT !.high = 0]
<1>1. /\ Sorting /\ Partitioning /\ UNCHANGED <<array, result, live>>
      /\ fault' = (pivot \notin DOMAIN task.values)
  BY DEF PlacePivot
<1>2. /\ Running /\ task.method = "sort" /\ task \in Tasks /\ Partitions(task)
      /\ task.values \in Seq(Contents) /\ Len(task.values) \in Nat
      /\ task.stack \in Seq(Ranges) /\ Len(task.stack) \in Nat
      /\ task.low \in Int /\ task.high \in Int /\ task.i \in Int
      /\ task.position \in Nat \ {0}
  BY <1>1, SortTaskParts
<1>3. /\ task.low >= 1 /\ task.high <= Len(task.values) /\ task.low < task.high
      /\ task.low - 1 <= task.i /\ task.i < task.position /\ task.position <= task.high
  BY <1>1, <1>2 DEF Partitions, Partitioning
<1>4. /\ pivot \in Int /\ task.low <= pivot /\ pivot <= task.high
      /\ pivot \in DOMAIN task.values /\ task.high \in DOMAIN task.values
  BY <1>2, <1>3, SMTT(30)
<1>5. fault' = FALSE
  BY <1>1, <1>4
<1>6. task' = t4
  BY <1>5 DEF PlacePivot
<1>7. v \in Seq(Contents) /\ Len(v) = Len(task.values)
  BY <1>2, <1>4, SwapKeepsTheLength
<1> HIDE DEF pivot
<1>8. Parts(pivot) = <<<<task.low, pivot - 1>>, <<pivot + 1, task.high>>>>
  BY DEF Parts
<1>9. /\ Parts(pivot) \in Seq(Ranges) /\ Len(Parts(pivot)) = 2
      /\ Within(Parts(pivot)[1], Len(task.values)) /\ Within(Parts(pivot)[2], Len(task.values))
  BY <1>2, <1>3, <1>4, <1>8, SMTT(30) DEF Ranges, Within
<1>10. s \in Seq(Ranges) /\ \A k \in 1 .. Len(s) : Within(s[k], Len(task.values))
  <2> DEFINE parts == Parts(pivot)
  <2> HIDE DEF parts
  <2>1. parts \in Seq(Ranges) /\ Len(parts) = 2 /\ s = task.stack \o parts
    BY <1>9 DEF parts
  <2>2. s \in Seq(Ranges) /\ Len(s) = Len(task.stack) + 2
    <3>1. /\ task.stack \o parts \in Seq(Ranges)
          /\ Len(task.stack \o parts) = Len(task.stack) + Len(parts)
      BY <1>2, <2>1, ConcatProperties, Zenon
    <3>2. QED BY <2>1, <3>1
  <2>3. ASSUME NEW k \in 1 .. Len(s) PROVE Within(s[k], Len(task.values))
    <3>1. CASE k <= Len(task.stack)
      <4>1. s[k] = task.stack[k]
        BY <1>2, <2>1, <2>2, <3>1
      <4>2. QED BY <1>2, <2>2, <3>1, <4>1 DEF Partitions
    <3>2. CASE k > Len(task.stack)
      <4>1. k - Len(task.stack) \in {1, 2}
        BY <1>2, <2>2, <3>2
      <4>2. s[k] = parts[k - Len(task.stack)]
        BY <1>2, <2>1, <2>2, <3>2, ConcatProperties
      <4>3. QED BY <1>9, <4>1, <4>2 DEF parts
    <3>3. QED BY <1>2, <2>2, <3>1, <3>2
  <2>4. QED BY <2>2, <2>3
<1> HIDE DEF v, s, t1, t2, t3, t4
<1>11. t1 = TaskOf(task.method, v, task.position, task.decided, task.assignments,
                   task.stack, task.low, task.high, task.i)
  BY <1>2, TaskWith DEF t1
<1>12. t2 = TaskOf(task.method, v, task.position, task.decided, task.assignments,
                   s, task.low, task.high, task.i)
  <2>1. t1 \in Tasks
    BY <1>2, <1>7, <1>11 DEF TaskOf, Tasks
  <2>2. QED BY <1>11, <2>1, TaskWith DEF t2, TaskOf
<1>13. t3 = TaskOf(task.method, v, task.position, task.decided, task.assignments,
                   s, 0, task.high, task.i)
  <2>1. t2 \in Tasks
    BY <1>2, <1>7, <1>10, <1>12 DEF TaskOf, Tasks
  <2>2. QED BY <1>12, <2>1, TaskWith DEF t3, TaskOf
<1>14. t4 = TaskOf(task.method, v, task.position, task.decided, task.assignments, s, 0, 0, task.i)
  <2>1. t3 \in Tasks
    BY <1>2, <1>7, <1>10, <1>13 DEF TaskOf, Tasks
  <2>2. QED BY <1>13, <2>1, TaskWith DEF t4, TaskOf
<1>15. /\ t4 \in Tasks /\ t4.method = "sort" /\ t4.values = v /\ t4.stack = s
       /\ t4.low = 0 /\ t4.high = 0
  BY <1>2, <1>7, <1>10, <1>14 DEF TaskOf, Tasks
<1>16. Partitions(t4)
  BY <1>7, <1>10, <1>15 DEF Partitions
<1>17. array' \in Seq(Contents) /\ Len(array') = Len(array)
  BY <1>1 DEF IInv
<1>18. Len(t4.values) = Len(task.values)
  BY <1>7, <1>15
<1>19. UNCHANGED <<result, live>>
  BY <1>1
<1>20. IInv'
  BY <1>2, <1>5, <1>6, <1>15, <1>16, <1>17, <1>18, <1>19, SortingKeepsIInv
<1>21. SwapsAtMost
  BY <1>4, <1>6, <1>15 DEF SwapsAtMost, v
<1>22. PivotPlaced
  BY <1>6, <1>15 DEF PivotPlaced, v, s, pivot
<1>23. QED BY <1>6, <1>15, <1>20, <1>21, <1>22

\* Without habits every comparison answers a boolean.
LEMMA ComparisonIsBoolean ==
  ASSUME Habits = {}, NEW answer, NEW after, NEW isBoolean \in BOOLEAN,
         Compare(answer, after, isBoolean)
  PROVE  Compare(answer, after, TRUE)
<1>1. isBoolean = TRUE
  BY DEF Compare
<1>2. QED BY <1>1

\* One step of a method, without habits.
LEMMA StepCases ==
  ASSUME Habits = {}, Step
  PROVE  \/ \E after : Throw(after)
         \/ \E answer, after, isBoolean : Answer(answer, after, isBoolean)
         \/ \E answer, after : Compare(answer, after, TRUE)
         \/ Finish \/ TakeRange \/ PlacePivot \/ Sorted
  BY ComparisonIsBoolean, Zenon DEF Step

PivotCompared(answer) ==
  /\ task'.stack = task.stack /\ task'.low = task.low /\ task'.high = task.high
  /\ task'.position = task.position + 1
  /\ IF answer
     THEN task'.i = task.i + 1 /\ task'.values = Swap(task.values, task.i + 1, task.position)
     ELSE task'.i = task.i /\ task'.values = task.values

LEMMA CompareStep ==
  ASSUME IInv, Habits = {}, NEW answer, NEW after, Compare(answer, after, TRUE)
  PROVE  IInv' /\ task'.method = "sort" /\ SwapsAtMost /\ PivotCompared(answer)
<1> DEFINE n == [Afterwards(after) EXCEPT !.position = @ + 1]
           v == Swap(task.values, task.i + 1, task.position)
           t1 == [n EXCEPT !.i = n.i + 1]
           t2 == [t1 EXCEPT !.values = v]
<1>1. /\ Sorting /\ CallIsDue /\ after \in AfterCallback /\ array' = after
      /\ UNCHANGED <<result, live>>
  BY DEF Compare, Compared
<1>2. /\ Running /\ task.method = "sort" /\ task \in Tasks /\ Partitions(task)
      /\ task.values \in Seq(Contents) /\ Len(task.values) \in Nat
      /\ task.stack \in Seq(Ranges) /\ Len(task.stack) \in Nat
      /\ task.low \in Int /\ task.high \in Int /\ task.i \in Int
      /\ task.position \in Nat \ {0}
  BY <1>1, SortTaskParts
<1>3. Partitioning /\ task.position < task.high
  BY <1>1, <1>2 DEF CallIsDue
<1>4. /\ task.low >= 1 /\ task.high <= Len(task.values) /\ task.low < task.high
      /\ task.low - 1 <= task.i /\ task.i < task.position
  BY <1>2, <1>3 DEF Partitions, Partitioning
<1>5. after \in Seq(Contents) /\ Len(after) = Len(array)
  BY <1>1, AfterIsAnArray
<1>6. /\ n \in Tasks
      /\ n.method = task.method /\ n.values = task.values /\ n.decided = task.decided
      /\ n.position = task.position + 1
      /\ n.stack = task.stack /\ n.low = task.low /\ n.high = task.high /\ n.i = task.i
  BY <1>2, AfterwardsIsATask
<1>7. task.i + 1 \in DOMAIN task.values /\ task.position \in DOMAIN task.values
  BY <1>2, <1>3, <1>4
<1>8. v \in Seq(Contents) /\ Len(v) = Len(task.values)
  BY <1>2, <1>7, SwapKeepsTheLength
<1>9. fault' = FALSE /\ task' = IF answer THEN t2 ELSE n
  <2>1. fault = FALSE
    BY DEF IInv
  <2>2. CASE ~answer
    BY <2>1, <2>2 DEF Compare, Compared
  <2>3. CASE answer
    <3>1. fault' = (task.i + 1 \notin DOMAIN task.values)
      BY <2>3 DEF Compare, Compared
    <3>2. fault' = FALSE
      BY <1>7, <3>1
    <3>3. task' = [n EXCEPT !.i = @ + 1, !.values = Swap(@, task.i + 1, task.position)]
      BY <2>3, <3>2 DEF Compare, Compared
    <3>4. [n EXCEPT !.i = @ + 1].values = task.values
      <4> HIDE DEF n
      <4>1. QED BY <1>6 DEF Tasks
    <3>5. task' = t2
      BY <3>3, <3>4
    <3>6. QED BY <2>3, <3>2, <3>5, Zenon
  <2>4. QED BY <2>2, <2>3
<1> HIDE DEF n, v
<1>10. Partitions(n)
  BY <1>2, <1>3, <1>4, <1>6 DEF Partitions
<1>11. /\ t2 \in Tasks /\ t2.method = "sort" /\ t2.values = v /\ t2.stack = task.stack
       /\ t2.low = task.low /\ t2.high = task.high /\ t2.i = task.i + 1
       /\ t2.position = task.position + 1
  <2> HIDE DEF t1, t2
  <2>1. t1 = TaskOf(n.method, n.values, n.position, n.decided, n.assignments,
                    n.stack, n.low, n.high, n.i + 1)
    BY <1>6, TaskWith DEF t1
  <2>2. t1 \in Tasks
    BY <1>6, <2>1 DEF TaskOf, Tasks
  <2>3. t2 = TaskOf(n.method, v, n.position, n.decided, n.assignments,
                    n.stack, n.low, n.high, n.i + 1)
    BY <2>1, <2>2, TaskWith DEF t2, TaskOf
  <2>4. QED BY <1>2, <1>6, <1>8, <2>3 DEF TaskOf, Tasks
<1> HIDE DEF t1, t2
<1>12. Partitions(t2)
  <2>1. \A k \in 1 .. Len(t2.stack) : Within(t2.stack[k], Len(t2.values))
    BY <1>2, <1>8, <1>11 DEF Partitions
  <2>2. Len(t2.values) = Len(task.values)
    BY <1>8, <1>11
  <2>3. /\ t2.low >= 1 /\ t2.high <= Len(t2.values)
        /\ t2.low - 1 <= t2.i /\ t2.i < t2.position /\ t2.position <= t2.high
    BY <1>2, <1>3, <1>4, <1>11, <2>2
  <2>4. QED BY <2>1, <2>3 DEF Partitions
<1>13. /\ task' \in Tasks /\ task'.method = "sort" /\ Len(task'.values) = Len(task.values)
       /\ Partitions(task')
  <2>1. CASE task' = n
    BY <1>2, <1>6, <1>10, <2>1, Zenon
  <2>2. CASE task' = t2
    BY <1>8, <1>11, <1>12, <2>2, Zenon
  <2>3. QED BY <1>9, <2>1, <2>2
<1>14. array' \in Seq(Contents) /\ Len(array') = Len(array)
  BY <1>1, <1>5
<1>15. IInv'
  BY <1>1, <1>2, <1>9, <1>13, <1>14, SortingKeepsIInv
<1>16. SwapsAtMost
  <2>1. CASE task' = n
    BY <1>6, <2>1, Zenon DEF SwapsAtMost
  <2>2. CASE task' = t2
    <3>1. task'.values = Swap(task.values, task.i + 1, task.position)
      BY <1>11, <2>2, Zenon DEF v
    <3>2. QED BY <1>7, <3>1, Zenon DEF SwapsAtMost
  <2>3. QED BY <1>9, <2>1, <2>2
<1>17. PivotCompared(answer)
  <2>1. CASE answer
    BY <1>9, <1>11, <2>1, Zenon DEF PivotCompared, v
  <2>2. CASE ~answer
    BY <1>6, <1>9, <2>2, Zenon DEF PivotCompared
  <2>3. QED BY <2>1, <2>2
<1>18. QED BY <1>13, <1>15, <1>16, <1>17

\* What a method that works in one go has to show.
LEMMA AtOnceKeepsIInv ==
  ASSUME IInv, ~Running, result = NoResult, UNCHANGED task,
         NEW r, NEW more, Sound(r), Returning(r, more),
         array' \in Seq(Contents), Len(array') <= MaxLength, Len(array') = Len(array) + more,
         fault' = FALSE
  PROVE  IInv'
<1>1. task = Idle /\ ~Running'
  BY DEF Running
<1>2. Built(Idle, Len(array)) = 0 /\ Built(Idle, Len(array')) = 0
  BY DEF Built, Idle
<1>3. result' = r /\ live' = live + more + Size(r)
  BY DEF Returning
<1>4. live = Len(array) /\ Len(array) \in Nat
  BY <1>1, <1>2, Sizes_ DEF IInv
<1>5. live' = Len(array') + Built(task', Len(array')) + Size(result')
  BY <1>1, <1>2, <1>3, <1>4
<1>6. Sound(result')
  BY <1>3
<1>7. QED BY <1>1, <1>5, <1>6 DEF IInv

\* No method is running when one that works in one go is called.
LEMMA AtOnce ==
  ASSUME IInv, NEW method, NEW arguments, At(method, arguments)
  PROVE  /\ ~Running /\ result = NoResult /\ UNCHANGED task /\ fault = FALSE
         /\ array \in Seq(Contents) /\ Len(array) \in Nat /\ Len(array) <= MaxLength
         /\ array = <<>> <=> Len(array) = 0
<1>1. ~Running /\ result = NoResult /\ UNCHANGED task
  BY DEF At, Ready
<1>2. fault = FALSE /\ array \in Seq(Contents) /\ Len(array) <= MaxLength
  BY DEF IInv
<1>3. QED BY <1>1, <1>2, EmptySeq

LEMMA PushStep ==
  ASSUME IInv, NEW v \in Values, NEW front, Push(v, front)
  PROVE  IInv'
<1>1. /\ ~Running /\ result = NoResult /\ UNCHANGED task /\ fault = FALSE
      /\ array \in Seq(Contents) /\ Len(array) \in Nat
  BY AtOnce DEF Push
<1>2. /\ Len(array) < MaxLength /\ Returning(Scalar("element", v), 1) /\ UNCHANGED fault
      /\ array' = <<v>> \o array \/ array' = Append(array, v)
  BY DEF Push
<1>3. v \in Contents /\ <<v>> \in Seq(Contents) /\ Len(<<v>>) = 1 /\ MaxLength \in Nat
  BY UIntsAreInRange DEF Contents
<1>4. array' \in Seq(Contents) /\ Len(array') = Len(array) + 1
  <2>1. CASE array' = Append(array, v)
    BY <1>1, <1>3, <2>1
  <2>2. CASE array' = <<v>> \o array
    <3>1. /\ <<v>> \o array \in Seq(Contents)
          /\ Len(<<v>> \o array) = Len(<<v>>) + Len(array)
      BY <1>1, <1>3, ConcatProperties, Zenon
    <3>2. QED BY <1>1, <1>3, <2>2, <3>1
  <2>3. QED BY <1>2, <2>1, <2>2
<1>5. Len(array') <= MaxLength
  BY <1>1, <1>2, <1>3, <1>4
<1>6. Sound(Scalar("element", v))
  BY SoundResults
<1>7. fault' = FALSE
  BY <1>1, <1>2
<1>8. QED BY <1>1, <1>2, <1>4, <1>5, <1>6, <1>7, AtOnceKeepsIInv

LEMMA PopStep ==
  ASSUME IInv, NEW front, Pop(front)
  PROVE  IInv'
<1>1. /\ ~Running /\ result = NoResult /\ UNCHANGED task /\ fault = FALSE
      /\ array \in Seq(Contents) /\ Len(array) \in Nat /\ Len(array) <= MaxLength
  BY AtOnce DEF Pop
<1>2. fault' = FALSE
  BY <1>1 DEF Pop
<1>3. CASE array = <<>>
  <2>1. Returning(Error, 0) /\ UNCHANGED array
    BY <1>3 DEF Pop
  <2>2. array' \in Seq(Contents) /\ Len(array') <= MaxLength /\ Len(array') = Len(array) + 0
    BY <1>1, <2>1
  <2>3. QED BY <1>1, <1>2, <2>1, <2>2, SoundResults, AtOnceKeepsIInv
<1>4. CASE array # <<>>
  <2> DEFINE r == Scalar("element", IF front THEN Head(array) ELSE Last(array))
  <2>1. /\ array' = Tail(array) \/ array' = Front(array)
        /\ Returning(r, -1)
    BY <1>4 DEF Pop
  <2>2. Tail(array) \in Seq(Contents) /\ Len(Tail(array)) = Len(array) - 1
    BY <1>1, <1>4
  <2>3. Front(array) \in Seq(Contents) /\ Len(Front(array)) = Len(array) - 1
    BY <1>1, <1>4, LastOf
  <2>4. array' \in Seq(Contents) /\ Len(array') = Len(array) + (-1)
    BY <1>1, <2>1, <2>2, <2>3
  <2>5. Len(array') <= MaxLength
    BY <1>1, <2>4, UIntsAreInRange
  <2>6. Sound(r)
    BY SoundResults
  <2> HIDE DEF r
  <2>7. QED BY <1>1, <1>2, <2>1, <2>4, <2>5, <2>6, AtOnceKeepsIInv
<1>5. QED BY <1>3, <1>4

LEMMA ReverseStep ==
  ASSUME IInv, Reverse_
  PROVE  IInv'
<1>1. /\ ~Running /\ result = NoResult /\ UNCHANGED task /\ fault = FALSE
      /\ array \in Seq(Contents) /\ Len(array) \in Nat /\ Len(array) <= MaxLength
  BY AtOnce DEF Reverse_
<1>2. Returning(NewArray(Reverse(array)), 0) /\ UNCHANGED <<array, fault>>
  BY DEF Reverse_
<1>3. Reverse(array) \in Seq(Contents)
  BY <1>1 DEF Reverse
<1>4. Sound(NewArray(Reverse(array)))
  BY <1>3, SoundResults
<1>5. /\ array' \in Seq(Contents) /\ Len(array') <= MaxLength /\ Len(array') = Len(array) + 0
      /\ fault' = FALSE
  BY <1>1, <1>2
<1>6. QED BY <1>1, <1>2, <1>4, <1>5, AtOnceKeepsIInv

LEMMA ContainsStep ==
  ASSUME IInv, NEW v, Contains_(v)
  PROVE  IInv'
<1>1. /\ ~Running /\ result = NoResult /\ UNCHANGED task /\ fault = FALSE
      /\ array \in Seq(Contents) /\ Len(array) \in Nat /\ Len(array) <= MaxLength
  BY AtOnce DEF Contains_
<1>2. Returning(Scalar("boolean", v \in ToSet(array)), 0) /\ UNCHANGED <<array, fault>>
  BY DEF Contains_
<1>3. Sound(Scalar("boolean", v \in ToSet(array)))
  BY SoundResults
<1>4. /\ array' \in Seq(Contents) /\ Len(array') <= MaxLength /\ Len(array') = Len(array) + 0
      /\ fault' = FALSE
  BY <1>1, <1>2
<1>5. QED BY <1>1, <1>2, <1>3, <1>4, AtOnceKeepsIInv

LEMMA FillStep ==
  ASSUME IInv, NEW v \in Values, Fill(v)
  PROVE  IInv'
<1>1. /\ ~Running /\ result = NoResult /\ UNCHANGED task /\ fault = FALSE
      /\ array \in Seq(Contents) /\ Len(array) \in Nat /\ Len(array) <= MaxLength
  BY AtOnce DEF Fill
<1>2. array' = [k \in DOMAIN array |-> v] /\ Returning([kind |-> "handle"], 0) /\ UNCHANGED fault
  BY DEF Fill
<1>3. v \in Contents
  BY DEF Contents
<1>4. array' \in Seq(Contents) /\ Len(array') = Len(array) + 0
  BY <1>1, <1>2, <1>3
<1>5. Len(array') <= MaxLength /\ fault' = FALSE
  BY <1>1, <1>2, <1>4
<1>6. QED BY <1>1, <1>2, <1>4, <1>5, SoundResults, AtOnceKeepsIInv

\* A range that passes the checks ends within the array: to - 1 is checked, and a
\* last index of 0 is the largest unsigned integer.
LEMMA SliceStep ==
  ASSUME IInv, NEW from \in Sizes, NEW to \in Sizes, Slice(from, to)
  PROVE  IInv'
<1>1. /\ ~Running /\ result = NoResult /\ UNCHANGED task /\ fault = FALSE
      /\ array \in Seq(Contents) /\ Len(array) \in Nat /\ Len(array) <= MaxLength
  BY AtOnce DEF Slice
<1>2. UNCHANGED array
  BY DEF Slice
<1>3. /\ array' \in Seq(Contents) /\ Len(array') <= MaxLength /\ Len(array') = Len(array) + 0
  BY <1>1, <1>2
<1>4. CASE SliceInRange(from, to)
  <2> DEFINE f == UInt(from)
             t == UInt(to)
  <2>1. f \in 0 .. UInts - 1 /\ t \in 0 .. UInts - 1
    BY UIntsAreInRange DEF Sizes
  <2>2. f < t /\ f < Len(array) /\ UInt(t - 1) < Len(array)
    BY <1>4 DEF SliceInRange
  <2> HIDE DEF f, t
  <2>3. t - 1 \in 0 .. UInts - 1
    BY <2>1, <2>2, UIntsAreInRange
  <2>4. UInt(t - 1) = t - 1
    BY <2>3, UIntsAreInRange
  <2>5. t <= Len(array) /\ f + 1 \in 1 .. Len(array) + 1 /\ t \in Nat /\ f \in Nat
    BY <1>1, <2>1, <2>2, <2>4
  <2>6. fault' = FALSE
    <3>1. fault' = (t > Len(array))
      BY <1>4 DEF Slice, t
    <3>2. (t > Len(array)) = FALSE
      BY <1>1, <2>5
    <3>3. QED BY <3>1, <3>2, Zenon
  <2>7. Returning(NewArray(SubSeq(array, f + 1, t)), 0)
    BY <1>4, <2>6 DEF Slice, f, t
  <2>8. SubSeq(array, f + 1, t) \in Seq(Contents)
    <3>1. \A k \in f + 1 .. t : array[k] \in Contents
      BY <1>1, <2>5
    <3>2. QED BY <2>5, <3>1, SubSeqProperties
  <2>9. Sound(NewArray(SubSeq(array, f + 1, t)))
    BY <2>8, SoundResults
  <2>10. QED BY <1>1, <1>3, <2>6, <2>7, <2>9, AtOnceKeepsIInv
<1>5. CASE ~SliceInRange(from, to)
  <2>1. Returning(Error, 0) /\ fault' = FALSE
    BY <1>1, <1>5 DEF Slice
  <2>2. QED BY <1>1, <1>3, <2>1, SoundResults, AtOnceKeepsIInv
<1>6. QED BY <1>4, <1>5

LEMMA ResizeStep ==
  ASSUME IInv, Habits = {}, NEW size \in -1 .. MaxLength, Resize(size)
  PROVE  IInv'
<1>1. /\ ~Running /\ result = NoResult /\ UNCHANGED task /\ fault = FALSE
      /\ array \in Seq(Contents) /\ Len(array) \in Nat /\ Len(array) <= MaxLength
  BY AtOnce DEF Resize
<1>2. size >= 0
  BY DEF Resize
<1>3. UInt(size) = size /\ size \in Nat /\ size <= MaxLength
  <2>1. size \in 0 .. UInts - 1
    BY <1>2, UIntsAreInRange
  <2>2. QED BY <2>1, UIntsAreInRange
<1>4. fault' = FALSE
  <2>1. fault' = (size > MaxLength)
    BY <1>3 DEF Resize
  <2>2. (size > MaxLength) = FALSE
    BY <1>3, UIntsAreInRange
  <2>3. QED BY <2>1, <2>2, Zenon
<1>5. array' = [k \in 1 .. size |-> IF k <= Len(array) THEN array[k] ELSE Empty]
      /\ Returning([kind |-> "handle"], size - Len(array))
  BY <1>3, <1>4 DEF Resize
<1>6. array' \in Seq(Contents) /\ Len(array') = size
  <2>1. ASSUME NEW k \in 1 .. size
        PROVE  (IF k <= Len(array) THEN array[k] ELSE Empty) \in Contents
    BY <1>1, <1>3 DEF Contents
  <2>2. QED BY <1>3, <1>5, <2>1
<1>7. Len(array') <= MaxLength /\ Len(array') = Len(array) + (size - Len(array))
  BY <1>1, <1>3, <1>6
<1>8. QED BY <1>1, <1>4, <1>5, <1>6, <1>7, SoundResults, AtOnceKeepsIInv

LEMMA DropStep ==
  ASSUME IInv, Drop
  PROVE  IInv'
<1>1. /\ ~Running /\ result' = NoResult /\ live' = live - Size(result)
      /\ UNCHANGED <<array, task, fault>>
  BY DEF Drop
<1>2. task = Idle /\ ~Running'
  BY <1>1 DEF Running
<1>3. Built(Idle, Len(array)) = 0
  BY DEF Built, Idle
<1>4. Size(result) \in Nat /\ Len(array) \in Nat /\ live = Len(array) + 0 + Size(result)
  BY <1>2, <1>3 DEF IInv, Sound
<1>5. live' = Len(array') + Built(task', Len(array')) + Size(result')
  BY <1>1, <1>2, <1>3, <1>4, Sizes_
<1>6. Sound(result')
  BY <1>1, SoundResults
<1>7. QED BY <1>1, <1>2, <1>5, <1>6 DEF IInv

-----------------------------------------------------------------------------
(* The specification.                                                       *)

LEMMA NextIInv ==
  ASSUME IInv, Habits = {}, [Next]_vars
  PROVE  IInv'
<1>1. CASE UNCHANGED vars
  BY <1>1 DEF vars, IInv, Running
<1>2. CASE Running /\ Step
  BY <1>2, StepCases, AnswerStep, ThrowStep, CompareStep, FinishStep, TakeRangeStep,
     PlacePivotStep, SortedStep
<1>3. CASE \E method \in Callbacks : Begin(method)
  BY <1>3, BeginStep
<1>4. CASE \E front \in BOOLEAN : Pop(front) \/ \E v \in Values : Push(v, front)
  BY <1>4, PopStep, PushStep
<1>5. CASE \E v \in Values : Contains_(v) \/ Fill(v)
  BY <1>5, ContainsStep, FillStep
<1>6. CASE Drop \/ Reverse_
  BY <1>6, DropStep, ReverseStep
<1>7. CASE \E from, to \in Sizes : Slice(from, to)
  BY <1>7, SliceStep
<1>8. CASE \E size \in -1..MaxLength : Resize(size)
  BY <1>8, ResizeStep
<1>9. QED BY <1>1, <1>2, <1>3, <1>4, <1>5, <1>6, <1>7, <1>8 DEF Next

LEMMA Invariance ==
  ASSUME Habits = {}
  PROVE  Spec => []IInv
<1>1. Init => IInv
  BY InitIInv
<1>2. IInv /\ [Next]_vars => IInv'
  BY NextIInv
<1>3. QED BY <1>1, <1>2, PTL DEF Spec

\* The array, the copies of a sort and the results keep holding contents of elements,
\* and no method reads or writes beside its vectors or ends the program: whatever
\* the callbacks of a script answer, also a comparison that contradicts itself, the
\* partitioning of sort (array_methods.cpp:579) stays within its copies and the
\* checks of slice (:556) are enough for every pair of unsigned indices.
THEOREM MethodsStayInside ==
  ASSUME Habits = {}
  PROVE  Spec => []StaysInside
<1>1. IInv => StaysInside
  <2> SUFFICES ASSUME IInv PROVE StaysInside
    OBVIOUS
  <2>2. array \in Seq(Contents) /\ Len(array) <= MaxLength /\ fault = FALSE
    BY DEF IInv
  <2>3. live \in Nat
    <3>1. Built(task, Len(array)) \in Nat
      BY DEF Built, IInv, Tasks, Idle
    <3>2. Len(array) \in Nat /\ Size(result) \in Nat
      BY <2>2 DEF IInv, Sound
    <3>3. QED BY <3>1, <3>2 DEF IInv
  <2>4. Running => task.method \in Callbacks /\ task.values \in Seq(Contents)
    BY RunningIsATask DEF Tasks
  <2>5. result.kind = "array" => result.values \in Seq(Contents)
    BY DEF IInv, Sound
  <2>6. QED BY <2>2, <2>3, <2>4, <2>5 DEF StaysInside, TypeOK, NeverOutside
<1>2. QED BY <1>1, Invariance, PTL

\* Between two calls exactly the elements of the array and what the last method
\* returned are out of their pools: the copies of a sort, what a filter has kept when
\* its callback throws (array_methods.cpp:338) and the accumulator are all released.
THEOREM MethodsDoNotLeak ==
  ASSUME Habits = {}
  PROVE  Spec => []NothingLeaks
<1>1. IInv => NothingLeaks
  <2> SUFFICES ASSUME IInv, ~Running PROVE live = Len(array) + Size(result)
    BY DEF NothingLeaks
  <2>2. Built(task, Len(array)) = 0
    BY DEF Running, Built, Idle
  <2>3. Len(array) \in Nat /\ Size(result) \in Nat
    BY DEF IInv, Sound
  <2>4. QED BY <2>2, <2>3 DEF IInv
<1>2. QED BY <1>1, Invariance, PTL

-----------------------------------------------------------------------------
(* sort permutes.                                                           *)

\* Where a content occurs.
Places(values, v) == {k \in DOMAIN values : values[k] = v}

LEMMA PlacesAreFinite ==
  ASSUME NEW values \in Seq(Contents), NEW v
  PROVE  IsFiniteSet(Places(values, v))
<1>1. IsFiniteSet(1 .. Len(values))
  BY FS_Interval
<1>2. Places(values, v) \subseteq 1 .. Len(values)
  BY DEF Places
<1>3. QED BY <1>1, <1>2, FS_Subset

\* Moving one place of a content does not change how often it occurs.
LEMMA MovingAPlace ==
  ASSUME NEW S, IsFiniteSet(S), NEW j \in S, NEW k, k \notin S
  PROVE  Cardinality((S \ {j}) \cup {k}) = Cardinality(S)
<1>1. IsFiniteSet(S \ {j}) /\ Cardinality(S \ {j}) = Cardinality(S) - 1
  BY FS_RemoveElement
<1>2. Cardinality((S \ {j}) \cup {k}) = Cardinality(S \ {j}) + 1
  BY <1>1, FS_AddElement
<1>3. Cardinality(S) \in Nat
  BY FS_CardinalityType
<1>4. QED BY <1>1, <1>2, <1>3

LEMMA SwapKeepsCounts ==
  ASSUME NEW values \in Seq(Contents), NEW j \in DOMAIN values, NEW k \in DOMAIN values, NEW v
  PROVE  Count(Swap(values, j, k), v) = Count(values, v)
<1> DEFINE after == Swap(values, j, k)
           S == Places(values, v)
           T == Places(after, v)
<1>1. /\ DOMAIN after = DOMAIN values /\ after[k] = values[j]
      /\ j # k => after[j] = values[k]
      /\ j = k => after[j] = values[j]
      /\ \A m \in DOMAIN values \ {j, k} : after[m] = values[m]
  BY DEF Swap
<1>2. IsFiniteSet(S)
  BY PlacesAreFinite
<1>3. /\ \A m \in DOMAIN values : m \in S <=> values[m] = v
      /\ \A m \in DOMAIN values : m \in T <=> after[m] = v
      /\ S \subseteq DOMAIN values /\ T \subseteq DOMAIN values
  BY <1>1 DEF Places
<1>4. Count(after, v) = Cardinality(T) /\ Count(values, v) = Cardinality(S)
  BY DEF Count, Places
<1> HIDE DEF after, S, T
<1>5. CASE values[j] = v <=> values[k] = v
  <2>1. S = T
    BY <1>1, <1>3, <1>5
  <2>2. QED BY <1>4, <2>1 DEF after
<1>6. CASE values[j] = v /\ values[k] # v
  <2>1. j \in S /\ k \notin S /\ T = (S \ {j}) \cup {k}
    BY <1>1, <1>3, <1>6
  <2>2. Cardinality(T) = Cardinality(S)
    BY <1>2, <2>1, MovingAPlace
  <2>3. QED BY <1>4, <2>2 DEF after
<1>7. CASE values[j] # v /\ values[k] = v
  <2>1. k \in S /\ j \notin S /\ T = (S \ {k}) \cup {j}
    BY <1>1, <1>3, <1>7
  <2>2. Cardinality(T) = Cardinality(S)
    BY <1>2, <2>1, MovingAPlace
  <2>3. QED BY <1>4, <2>2 DEF after
<1>8. QED BY <1>5, <1>6, <1>7

\* A history belongs to the method that runs, and the copies of a sort hold what it
\* was given.
SameElements(values) == \A v \in Contents : Count(values, v) = Count(calls.arguments, v)

IsHistory(c) ==
  \E method, arguments, history, ordered :
    c = [method |-> method, arguments |-> arguments, history |-> history, ordered |-> ordered]

PermutesInv ==
  /\ IsHistory(calls)
  /\ Running => calls.method = task.method
  /\ Running /\ task.method = "sort" => SameElements(task.values)
  /\ SortPermutes

\* What the steps do to the history.
LEMMA HistoryKept ==
  ASSUME IsHistory(calls), NEW x, NEW c,
         c = [calls EXCEPT !.ordered = x] \/ c = [calls EXCEPT !.history = x]
  PROVE  IsHistory(c) /\ c.method = calls.method /\ c.arguments = calls.arguments
<1>1. PICK m, a, h, o :
        calls = [method |-> m, arguments |-> a, history |-> h, ordered |-> o]
  BY DEF IsHistory
<1>2. [calls EXCEPT !.ordered = x] =
        [method |-> m, arguments |-> a, history |-> h, ordered |-> x]
  BY <1>1
<1>3. [calls EXCEPT !.history = x] =
        [method |-> m, arguments |-> a, history |-> x, ordered |-> o]
  BY <1>1
<1>4. CASE c = [calls EXCEPT !.ordered = x]
  BY <1>1, <1>2, <1>4 DEF IsHistory
<1>5. CASE c = [calls EXCEPT !.history = x]
  BY <1>1, <1>3, <1>5 DEF IsHistory
<1>6. QED BY <1>4, <1>5

LEMMA CalledIsHistory ==
  ASSUME NEW method, NEW arguments
  PROVE  /\ IsHistory(Called(method, arguments)) /\ Called(method, arguments).method = method
         /\ Called(method, arguments).arguments = arguments
BY DEF Called, IsHistory

\* Nothing is said of other methods than sort.
LEMMA OthersPermute ==
  ASSUME IsHistory(calls'), calls'.method # "sort", Running' => calls'.method = task'.method
  PROVE  PermutesInv'
BY DEF PermutesInv, SortPermutes, HasSorted

\* A step of the quicksort keeps the elements.
LEMMA SortingPermutes ==
  ASSUME IInv, PermutesInv, Sorting, task'.method = "sort", SwapsAtMost, Running',
         IsHistory(calls'), calls'.method = calls.method, calls'.arguments = calls.arguments
  PROVE  PermutesInv'
<1>1. Running /\ task.method = "sort" /\ task.values \in Seq(Contents)
  BY SortTaskParts
<1>2. calls.method = "sort" /\ SameElements(task.values)
  BY <1>1 DEF PermutesInv
<1>3. ASSUME NEW v \in Contents
      PROVE  Count(task'.values, v) = Count(calls'.arguments, v)
  <2>1. Count(task'.values, v) = Count(task.values, v)
    <3>1. CASE task'.values = task.values
      BY <3>1
    <3>2. CASE \E j, k \in DOMAIN task.values : task'.values = Swap(task.values, j, k)
      BY <1>1, <3>2, SwapKeepsCounts
    <3>3. QED BY <3>1, <3>2 DEF SwapsAtMost
  <2>2. QED BY <1>2, <2>1 DEF SameElements
<1>4. ~HasSorted'
  BY DEF HasSorted
<1>5. QED BY <1>2, <1>3, <1>4 DEF PermutesInv, SortPermutes, SameElements

\* A sort that has not returned is still running.
LEMMA SortRuns ==
  ASSUME task'.method = "sort"
  PROVE  Running'
BY DEF Running, Idle

\* A step that is not of sort leaves a history that is not of sort.
OtherMethod ==
  IsHistory(calls') /\ calls'.method # "sort" /\ (Running' => calls'.method = task'.method)

LEMMA StepsOfSort ==
  ASSUME IInv, PermutesInv, Habits = {}, Next
  PROVE  \/ OtherMethod
         \/ Begin("sort") \/ TakeRange \/ PlacePivot \/ Sorted
         \/ \E answer, after : Compare(answer, after, TRUE)
<1> USE DEF OtherMethod
<1>1. IsHistory(calls) /\ (Running => calls.method = task.method)
  BY DEF PermutesInv
<1>2. ASSUME NEW answer, NEW after, NEW isBoolean, Answer(answer, after, isBoolean)
      PROVE  OtherMethod
  <2>1. Running /\ task.method # "sort" /\ Recorded(after, answer, FALSE)
    BY <1>2 DEF Answer, CallIsDue
  <2>2. task'.method = task.method
    BY <1>2, AnswerStep
  <2>3. IsHistory(calls') /\ calls'.method = calls.method
    BY <1>1, <2>1, HistoryKept DEF Recorded
  <2>4. QED BY <1>1, <2>1, <2>2, <2>3
<1>3. ASSUME NEW after, Throw(after)
      PROVE  OtherMethod
  <2>1. Running /\ task.method # "sort" /\ task' = Idle
    BY <1>3 DEF Throw, CallIsDue, Return
  <2>2. \E answer : Recorded(after, answer, TRUE)
    BY <1>3, <2>1 DEF Throw
  <2>3. IsHistory(calls') /\ calls'.method = calls.method
    BY <1>1, <2>2, HistoryKept DEF Recorded
  <2>4. QED BY <1>1, <2>1, <2>3 DEF Running
<1>4. CASE Finish
  <2>1. Running /\ task.method # "sort" /\ task' = Idle /\ UNCHANGED calls
    BY <1>4 DEF Finish, Return
  <2>2. QED BY <1>1, <2>1 DEF Running
<1>5. ASSUME NEW method \in Callbacks, method # "sort", Begin(method)
      PROVE  OtherMethod
  <2>1. task' = Task(method) /\ calls' = Called(method, <<>>)
    BY <1>5 DEF Begin
  <2>2. IsHistory(calls') /\ calls'.method = method /\ task'.method = method
    BY <2>1, CalledIsHistory, TaskIsATask
  <2>3. QED BY <1>5, <2>2
<1>6. ASSUME NEW method \in {"push", "pop", "reverse", "contains", "slice", "resize", "fill"},
             NEW arguments, At(method, arguments)
      PROVE  OtherMethod
  <2>1. calls' = Called(method, arguments) /\ ~Running /\ UNCHANGED task
    BY <1>6 DEF At, Ready
  <2>2. IsHistory(calls') /\ calls'.method = method
    BY <2>1, CalledIsHistory
  <2>3. QED BY <2>1, <2>2 DEF Running
<1>7. CASE Drop
  <2>1. calls' = NoCalls /\ ~Running /\ UNCHANGED task
    BY <1>7 DEF Drop
  <2>2. IsHistory(calls') /\ calls'.method = "none"
    BY <2>1, CalledIsHistory DEF NoCalls
  <2>3. QED BY <2>1, <2>2 DEF Running
<1>8. CASE Running /\ Step
  BY <1>2, <1>3, <1>4, <1>8, StepCases
<1>9. CASE \E method \in Callbacks : Begin(method)
  BY <1>5, <1>9
<1>10. CASE \E front \in BOOLEAN : Pop(front) \/ \E v \in Values : Push(v, front)
  BY <1>6, <1>10 DEF Pop, Push
<1>11. CASE \E v \in Values : Contains_(v) \/ Fill(v)
  BY <1>6, <1>11 DEF Contains_, Fill
<1>12. CASE Reverse_
  BY <1>6, <1>12 DEF Reverse_
<1>13. CASE \E from, to \in Sizes : Slice(from, to)
  BY <1>6, <1>13 DEF Slice
<1>14. CASE \E size \in -1..MaxLength : Resize(size)
  BY <1>6, <1>14 DEF Resize
<1>15. QED
  BY <1>7, <1>8, <1>9, <1>10, <1>11, <1>12, <1>13, <1>14 DEF Next

\* What the history is after a step of the quicksort.
LEMMA ComparedHistory ==
  ASSUME PermutesInv, NEW answer, NEW after, Compare(answer, after, TRUE)
  PROVE  /\ Sorting /\ IsHistory(calls')
         /\ calls'.method = calls.method /\ calls'.arguments = calls.arguments
<1>1. Sorting /\ \E x : calls' = [calls EXCEPT !.ordered = x]
  BY DEF Compare, Compared
<1>2. QED BY <1>1, HistoryKept DEF PermutesInv

LEMMA SortBegins ==
  ASSUME Begin("sort")
  PROVE  /\ IsHistory(calls') /\ calls'.method = "sort" /\ calls'.arguments = array
         /\ task' = SortTask /\ task'.method = "sort" /\ task'.values = array
         /\ ~HasSorted'
<1>1. task' = SortTask /\ calls' = Called("sort", array) /\ result' = NoResult
  BY DEF Begin, Ready
<1>2. IsHistory(calls') /\ calls'.method = "sort" /\ calls'.arguments = array
  BY <1>1, CalledIsHistory
<1>3. task'.method = "sort" /\ task'.values = array
  BY <1>1 DEF SortTask, Task
<1>4. ~HasSorted'
  BY <1>1 DEF HasSorted, NoResult
<1>5. QED BY <1>1, <1>2, <1>3, <1>4

LEMMA InitPermutes ==
  ASSUME Init
  PROVE  PermutesInv
<1>1. calls = NoCalls /\ ~Running
  BY DEF Init, Running
<1>2. IsHistory(calls) /\ calls.method = "none"
  BY <1>1, CalledIsHistory DEF NoCalls
<1>3. QED BY <1>1, <1>2 DEF PermutesInv, SortPermutes, HasSorted

LEMMA NextPermutes ==
  ASSUME IInv, PermutesInv, Habits = {}, [Next]_vars
  PROVE  PermutesInv'
<1> USE DEF PermutesInv
<1>1. CASE UNCHANGED vars
  BY <1>1 DEF vars, Running, SameElements, SortPermutes, HasSorted
<1>2. CASE OtherMethod
  BY <1>2, OthersPermute DEF OtherMethod
<1>3. ASSUME NEW answer, NEW after, Compare(answer, after, TRUE)
      PROVE  PermutesInv'
  BY <1>3, ComparedHistory, CompareStep, SortRuns, SortingPermutes
<1>4. CASE TakeRange \/ PlacePivot
  <2>1. Sorting /\ UNCHANGED calls
    BY <1>4 DEF TakeRange, PlacePivot
  <2>2. task'.method = "sort" /\ SwapsAtMost
    BY <1>4, TakeRangeStep, PlacePivotStep
  <2>3. QED BY <2>1, <2>2, SortRuns, SortingPermutes
<1>5. CASE Sorted
  <2>1. /\ Running /\ task.method = "sort" /\ task' = Idle /\ UNCHANGED calls
        /\ result' = NewArray(task.values)
    BY <1>5 DEF Sorted, Sorting, Return
  <2>2. SameElements(result'.values)
    BY <2>1 DEF NewArray
  <2>3. QED BY <2>1, <2>2 DEF Running, SortPermutes, SameElements
<1>6. CASE Begin("sort")
  BY <1>6, SortBegins DEF SameElements, SortPermutes
<1>7. QED BY <1>1, <1>2, <1>3, <1>4, <1>5, <1>6, StepsOfSort

\* sort returns each element as often as it was given (array_methods.cpp:579): a wrong
\* or contradictory comparison may leave the array out of order, but no element is
\* lost or returned twice.
THEOREM SortKeepsTheElements ==
  ASSUME Habits = {}
  PROVE  Spec => []SortPermutes
<1>1. Init => PermutesInv
  BY InitPermutes
<1>2. IInv /\ PermutesInv /\ [Next]_vars => PermutesInv'
  BY NextPermutes
<1>3. PermutesInv => SortPermutes
  BY DEF PermutesInv
<1>4. QED BY <1>1, <1>2, <1>3, Invariance, PTL DEF Spec

-----------------------------------------------------------------------------
(* sort orders.                                                             *)

InRange(k, range) == range[1] <= k /\ k <= range[2]

\* Two places that some range still to be partitioned, or being partitioned, has both.
Together(stack, low, high, a, b) ==
  \/ \E j \in 1 .. Len(stack) : InRange(a, stack[j]) /\ InRange(b, stack[j])
  \/ low < high /\ InRange(a, <<low, high>>) /\ InRange(b, <<low, high>>)

\* All others are in order already.
Settled(v, stack, low, high) ==
  \A a, b \in 1 .. Len(v) : a < b /\ ~Together(stack, low, high, a, b) => v[a] <= v[b]

\* No place is in two ranges.
Apart(stack, low, high) ==
  \A m \in Int : \A j \in 1 .. Len(stack) : InRange(m, stack[j]) =>
    /\ \A k \in 1 .. Len(stack) : InRange(m, stack[k]) => k = j
    /\ ~(low < high /\ InRange(m, <<low, high>>))

\* The lower part is not above the pivot, the part behind it not below.
Parted(v, low, high, i, position) ==
  low < high =>
    /\ \A a \in low .. i : v[a] <= v[high]
    /\ \A a \in i + 1 .. position - 1 : v[high] <= v[a]

\* An element of the range and one outside of it are in order, whatever is swapped
\* within the range.
LEMMA OutsideOfTheRange ==
  ASSUME NEW v \in Seq(Nat), NEW stack \in Seq(Ranges), NEW low \in Int, NEW high \in Int,
         1 <= low, low < high, high <= Len(v), Settled(v, stack, low, high),
         Apart(stack, low, high), NEW m \in low .. high
  PROVE  /\ \A b \in high + 1 .. Len(v) : v[m] <= v[b]
         /\ \A a \in 1 .. low - 1 : v[a] <= v[m]
<1>1. InRange(m, <<low, high>>) /\ Len(v) \in Nat
  BY DEF InRange
<1>2. \A j \in 1 .. Len(stack) : ~InRange(m, stack[j])
  BY <1>1 DEF Apart
<1>3. ASSUME NEW b \in high + 1 .. Len(v) PROVE v[m] <= v[b]
  <2>1. ~InRange(b, <<low, high>>) /\ m < b /\ m \in 1 .. Len(v) /\ b \in 1 .. Len(v)
    BY <1>1 DEF InRange
  <2>2. ~Together(stack, low, high, m, b)
    BY <1>2, <2>1 DEF Together
  <2>3. QED BY <2>1, <2>2 DEF Settled
<1>4. ASSUME NEW a \in 1 .. low - 1 PROVE v[a] <= v[m]
  <2>1. ~InRange(a, <<low, high>>) /\ a < m /\ m \in 1 .. Len(v) /\ a \in 1 .. Len(v)
    BY <1>1 DEF InRange
  <2>2. ~Together(stack, low, high, a, m)
    BY <1>2, <2>1 DEF Together
  <2>3. QED BY <2>1, <2>2 DEF Settled
<1>5. QED BY <1>3, <1>4

LEMMA ElementOf ==
  ASSUME NEW S, NEW s \in Seq(S), NEW k \in 1 .. Len(s)
  PROVE  s[k] \in S
OBVIOUS

LEMMA SwapOf ==
  ASSUME NEW v \in Seq(Nat), NEW j \in 1 .. Len(v), NEW k \in 1 .. Len(v)
  PROVE  /\ Swap(v, j, k) \in Seq(Nat) /\ Len(Swap(v, j, k)) = Len(v)
         /\ Swap(v, j, k)[k] = v[j] /\ Swap(v, j, k)[j] = v[k]
         /\ \A m \in 1 .. Len(v) : m # j /\ m # k => Swap(v, j, k)[m] = v[m]
BY DEF Swap

\* A swap within the range that is partitioned keeps the rest in order.
LEMMA SwapWithinTheRange ==
  ASSUME NEW v \in Seq(Nat), NEW stack \in Seq(Ranges), NEW low \in Int, NEW high \in Int,
         1 <= low, low < high, high <= Len(v), Settled(v, stack, low, high),
         Apart(stack, low, high), NEW j \in low .. high, NEW k \in low .. high,
         NEW a \in 1 .. Len(v), NEW b \in 1 .. Len(v), a < b,
         ~(InRange(a, <<low, high>>) /\ InRange(b, <<low, high>>)),
         ~Together(stack, low, high, a, b)
  PROVE  Swap(v, j, k)[a] <= Swap(v, j, k)[b]
<1> DEFINE w == Swap(v, j, k)
<1>1. Len(v) \in Nat /\ j \in 1 .. Len(v) /\ k \in 1 .. Len(v)
  OBVIOUS
<1>2. w[k] = v[j] /\ w[j] = v[k] /\ \A m \in 1 .. Len(v) : m # j /\ m # k => w[m] = v[m]
  BY <1>1, SwapOf
<1> HIDE DEF w
<1>3. CASE a \in low .. high
  <2>1. b \in high + 1 .. Len(v)
    BY <1>1, <1>3 DEF InRange
  <2>2. w[b] = v[b]
    <3>1. b # j /\ b # k
      BY <2>1
    <3>2. QED BY <1>2, <3>1, Zenon
  <2>3. \E m \in low .. high : w[a] = v[m]
    BY <1>1, <1>2, <1>3
  <2>4. QED BY <2>1, <2>2, <2>3, OutsideOfTheRange DEF w
<1>4. CASE b \in low .. high
  <2>1. a \in 1 .. low - 1
    BY <1>1, <1>4 DEF InRange
  <2>2. w[a] = v[a]
    <3>1. a # j /\ a # k
      BY <2>1
    <3>2. QED BY <1>2, <3>1, Zenon
  <2>3. \E m \in low .. high : w[b] = v[m]
    BY <1>1, <1>2, <1>4
  <2>4. QED BY <2>1, <2>2, <2>3, OutsideOfTheRange DEF w
<1>5. CASE a \notin low .. high /\ b \notin low .. high
  <2>1. w[a] = v[a] /\ w[b] = v[b]
    BY <1>2, <1>5
  <2>2. QED BY <2>1 DEF Settled, w
<1>6. QED BY <1>3, <1>4, <1>5

\* The element compared joins its part.
LEMMA ComparingOrders ==
  ASSUME NEW v \in Seq(Nat), NEW stack \in Seq(Ranges), NEW low \in Int, NEW high \in Int,
         NEW i \in Int, NEW position \in Int,
         1 <= low, low < high, high <= Len(v), low - 1 <= i, i < position, position < high,
         Settled(v, stack, low, high), Apart(stack, low, high),
         Parted(v, low, high, i, position)
  PROVE  /\ v[position] >= v[high] => Parted(v, low, high, i, position + 1)
         /\ v[position] < v[high] =>
              LET w == Swap(v, i + 1, position)
              IN Settled(w, stack, low, high) /\ Parted(w, low, high, i + 1, position + 1)
<1>1. /\ \A a \in low .. i : v[a] <= v[high]
      /\ \A a \in i + 1 .. position - 1 : v[high] <= v[a]
  BY DEF Parted
<1>2. ASSUME v[position] >= v[high] PROVE Parted(v, low, high, i, position + 1)
  <2>1. ASSUME NEW a \in i + 1 .. position + 1 - 1 PROVE v[high] <= v[a]
    <3>1. a = position \/ a \in i + 1 .. position - 1
      OBVIOUS
    <3>2. v[position] \in Nat /\ v[high] \in Nat
      OBVIOUS
    <3>3. QED BY <1>1, <1>2, <3>1, <3>2
  <2>2. QED BY <1>1, <2>1 DEF Parted
<1>3. ASSUME v[position] < v[high]
      PROVE  LET w == Swap(v, i + 1, position)
             IN Settled(w, stack, low, high) /\ Parted(w, low, high, i + 1, position + 1)
  <2> DEFINE w == Swap(v, i + 1, position)
             j == i + 1
  <2>1. /\ j \in 1 .. Len(v) /\ position \in 1 .. Len(v) /\ Len(v) \in Nat
        /\ j \in low .. high /\ position \in low .. high
    OBVIOUS
  <2>2. /\ w \in Seq(Nat) /\ Len(w) = Len(v) /\ w[position] = v[j] /\ w[j] = v[position]
        /\ \A m \in 1 .. Len(v) : m # j /\ m # position => w[m] = v[m]
    BY <2>1, SwapOf
  <2>3. Settled(w, stack, low, high)
    <3>1. ASSUME NEW a \in 1 .. Len(v), NEW b \in 1 .. Len(v), a < b,
                 ~Together(stack, low, high, a, b)
          PROVE  w[a] <= w[b]
      <4>1. ~(InRange(a, <<low, high>>) /\ InRange(b, <<low, high>>))
        BY <3>1 DEF Together
      <4>2. QED BY <2>1, <3>1, <4>1, SwapWithinTheRange
    <3>2. QED BY <2>2, <3>1 DEF Settled
  <2> HIDE DEF w
  <2>4. w[high] = v[high]
    <3>1. high \in 1 .. Len(v) /\ high # j /\ high # position
      BY <2>1
    <3>2. QED BY <2>2, <3>1
  <2>5. ASSUME NEW a \in low .. j PROVE w[a] <= w[high]
    <3>1. CASE a = j
      <4>1. v[position] \in Nat /\ v[high] \in Nat
        BY <2>1
      <4>2. QED BY <1>3, <2>2, <2>4, <3>1, <4>1, SMTT(30)
    <3>2. CASE a # j
      <4>1. a \in low .. i /\ a \in 1 .. Len(v) /\ a # position
        BY <2>1, <3>2
      <4>2. w[a] = v[a]
        BY <2>2, <3>2, <4>1
      <4>3. QED BY <1>1, <2>4, <4>1, <4>2
    <3>3. QED BY <3>1, <3>2
  <2>6. ASSUME NEW a \in j + 1 .. position + 1 - 1 PROVE w[high] <= w[a]
    <3>1. CASE a = position
      <4>1. j \in i + 1 .. position - 1
        BY <3>1, <2>1
      <4>2. w[a] = v[j]
        BY <2>2, <3>1
      <4>3. QED BY <1>1, <2>4, <4>1, <4>2
    <3>2. CASE a # position
      <4>1. a \in i + 1 .. position - 1 /\ a \in 1 .. Len(v) /\ a # j
        BY <2>1, <3>2
      <4>2. w[a] = v[a]
        BY <2>2, <3>2, <4>1
      <4>3. QED BY <1>1, <2>4, <4>1, <4>2
    <3>3. QED BY <3>1, <3>2
  <2>7. Parted(w, low, high, j, position + 1)
    BY <2>5, <2>6 DEF Parted
  <2>8. QED BY <2>3, <2>7 DEF w
<1>4. QED BY <1>2, <1>3

\* The stack with both parts of a range.
PartsOnTop(parts, stack, low, high, i) ==
  /\ Len(parts) = Len(stack) + 2
  /\ \A j \in 1 .. Len(stack) : parts[j] = stack[j]
  /\ \A m : InRange(m, parts[Len(stack) + 1]) <=> low <= m /\ m <= i
  /\ \A m : InRange(m, parts[Len(stack) + 2]) <=> i + 2 <= m /\ m <= high

LEMMA PushingParts ==
  ASSUME NEW stack \in Seq(Ranges), NEW low \in Int, NEW high \in Int, NEW i \in Int,
         NEW both \in Seq(Ranges), Len(both) = 2,
         both[1] = <<low, i>>, both[2] = <<i + 2, high>>
  PROVE  PartsOnTop(stack \o both, stack, low, high, i)
<1>1. /\ Len(stack \o both) = Len(stack) + 2
      /\ \A j \in 1 .. Len(stack) + 2 :
           (stack \o both)[j] = IF j <= Len(stack) THEN stack[j] ELSE both[j - Len(stack)]
  <2>1. /\ Len(stack \o both) = Len(stack) + Len(both)
        /\ \A j \in 1 .. Len(stack) + Len(both) :
             (stack \o both)[j] = IF j <= Len(stack) THEN stack[j] ELSE both[j - Len(stack)]
    BY ConcatProperties, Zenon
  <2>2. QED BY <2>1, Zenon
<1> DEFINE s == stack \o both
           L == Len(stack)
<1>2. L \in Nat
  OBVIOUS
<1> HIDE DEF s, L
<1>3. ASSUME NEW k \in {1, 2} PROVE s[L + k] = both[k]
  <2> DEFINE m == L + k
  <2>1. m \in 1 .. L + 2 /\ ~(m <= L) /\ m - L = k
    BY <1>2
  <2> HIDE DEF m
  <2>2. s[m] = IF m <= L THEN stack[m] ELSE both[m - L]
    BY <1>1, <2>1, Zenon DEF s, L
  <2>3. s[m] = both[k]
    BY <2>1, <2>2, Zenon
  <2>4. QED BY <2>3 DEF m
<1>4. \A j \in 1 .. L : s[j] = stack[j]
  <2>1. \A j \in 1 .. L : j \in 1 .. L + 2 /\ j <= L
    BY <1>2
  <2>2. QED BY <1>1, <2>1, Zenon DEF s, L
<1>5. /\ \A m : InRange(m, both[1]) <=> low <= m /\ m <= i
      /\ \A m : InRange(m, both[2]) <=> i + 2 <= m /\ m <= high
  <2>1. both[1][1] = low /\ both[1][2] = i /\ both[2][1] = i + 2 /\ both[2][2] = high
    OBVIOUS
  <2>2. QED BY <2>1, Zenon DEF InRange
<1>6. QED BY <1>1, <1>3, <1>4, <1>5, Zenon DEF PartsOnTop, s, L

\* With the pivot between them both parts are ranges of their own.
LEMMA PlacingOrders ==
  ASSUME NEW v \in Seq(Nat), NEW stack \in Seq(Ranges), NEW low \in Int, NEW high \in Int,
         NEW i \in Int, 1 <= low, low < high, high <= Len(v), low - 1 <= i, i < high,
         Settled(v, stack, low, high), Apart(stack, low, high), Parted(v, low, high, i, high),
         NEW parts, PartsOnTop(parts, stack, low, high, i)
  PROVE  Settled(Swap(v, i + 1, high), parts, 0, 0) /\ Apart(parts, 0, 0)
<1> DEFINE w == Swap(v, i + 1, high)
           pivot == i + 1
           L == Len(stack)
<1>1. /\ pivot \in 1 .. Len(v) /\ high \in 1 .. Len(v) /\ Len(v) \in Nat
      /\ pivot \in low .. high /\ high \in low .. high /\ L \in Nat
  OBVIOUS
<1>2. /\ w \in Seq(Nat) /\ Len(w) = Len(v) /\ w[pivot] = v[high] /\ w[high] = v[pivot]
      /\ \A m \in 1 .. Len(v) : m # pivot /\ m # high => w[m] = v[m]
  BY <1>1, SwapOf
<1> HIDE DEF w, L
<1>3. /\ Len(parts) = L + 2 /\ L \in Nat
      /\ \A j \in 1 .. L : parts[j] = stack[j]
      /\ \A m : InRange(m, parts[L + 1]) <=> low <= m /\ m <= i
      /\ \A m : InRange(m, parts[L + 2]) <=> i + 2 <= m /\ m <= high
  BY DEF PartsOnTop, L
<1>4. \A m \in Int : m \in low .. high => \A j \in 1 .. L : ~InRange(m, stack[j])
  BY DEF Apart, InRange, L
<1>5. Apart(parts, 0, 0)
  <2>1. ASSUME NEW m \in Int, NEW j \in 1 .. Len(parts), InRange(m, parts[j]),
               NEW k \in 1 .. Len(parts), InRange(m, parts[k])
        PROVE  k = j
    <3>1. (j \in 1 .. L \/ j = L + 1 \/ j = L + 2) /\ (k \in 1 .. L \/ k = L + 1 \/ k = L + 2)
      BY <1>3
    <3>2. /\ InRange(m, parts[L + 1]) <=> low <= m /\ m <= i
          /\ InRange(m, parts[L + 2]) <=> i + 2 <= m /\ m <= high
      BY <1>3
    <3>3. CASE j \in 1 .. L /\ k \in 1 .. L
      BY <1>3, <2>1, <3>3 DEF Apart, L
    <3>4. CASE j \in 1 .. L /\ k \notin 1 .. L
      <4>1. m \in low .. high
        BY <2>1, <3>1, <3>2, <3>4, SMTT(30)
      <4>2. InRange(m, stack[j])
        BY <1>3, <2>1, <3>4
      <4>3. QED BY <1>4, <3>4, <4>1, <4>2
    <3>5. CASE j \notin 1 .. L /\ k \in 1 .. L
      <4>1. m \in low .. high
        BY <2>1, <3>1, <3>2, <3>5, SMTT(30)
      <4>2. InRange(m, stack[k])
        BY <1>3, <2>1, <3>5
      <4>3. QED BY <1>4, <3>5, <4>1, <4>2
    <3>6. CASE j \notin 1 .. L /\ k \notin 1 .. L
      BY <2>1, <3>1, <3>2, <3>6, SMTT(30)
    <3>7. QED BY <3>3, <3>4, <3>5, <3>6
  <2>2. QED BY <2>1 DEF Apart
<1>6. /\ \A a \in low .. i : w[a] <= w[pivot]
      /\ \A a \in pivot + 1 .. high : w[pivot] <= w[a]
  <2>1. /\ \A a \in low .. i : v[a] <= v[high]
        /\ \A a \in i + 1 .. high - 1 : v[high] <= v[a]
    BY DEF Parted
  <2>2. ASSUME NEW a \in low .. i PROVE w[a] <= w[pivot]
    <3>1. a \in 1 .. Len(v) /\ a # pivot /\ a # high
      BY <1>1
    <3>2. QED BY <1>2, <2>1, <3>1
  <2>3. ASSUME NEW a \in pivot + 1 .. high PROVE w[pivot] <= w[a]
    <3>1. CASE a = high
      <4>1. pivot \in i + 1 .. high - 1
        BY <3>1, <1>1
      <4>2. QED BY <1>2, <2>1, <3>1, <4>1
    <3>2. CASE a # high
      <4>1. a \in 1 .. Len(v) /\ a # pivot /\ a \in i + 1 .. high - 1
        BY <1>1, <3>2
      <4>2. QED BY <1>2, <2>1, <3>2, <4>1
    <3>3. QED BY <3>1, <3>2
  <2>4. QED BY <2>2, <2>3
<1>7. ASSUME NEW a \in 1 .. Len(v), NEW b \in 1 .. Len(v), a < b, ~Together(parts, 0, 0, a, b)
      PROVE  w[a] <= w[b]
  <2>1. \A j \in 1 .. Len(parts) : ~(InRange(a, parts[j]) /\ InRange(b, parts[j]))
    BY <1>7 DEF Together
  <2>2. CASE InRange(a, <<low, high>>) /\ InRange(b, <<low, high>>)
    <3>1. /\ L + 1 \in 1 .. Len(parts) /\ L + 2 \in 1 .. Len(parts)
      BY <1>3
    <3>2. ~(a <= i /\ b <= i) /\ ~(pivot < a /\ pivot < b)
      <4>1. low <= a /\ a <= high /\ low <= b /\ b <= high
        BY <2>2 DEF InRange
      <4>2. /\ ~(InRange(a, parts[L + 1]) /\ InRange(b, parts[L + 1]))
            /\ ~(InRange(a, parts[L + 2]) /\ InRange(b, parts[L + 2]))
        BY <2>1, <3>1
      <4>3. ~(low <= a /\ a <= i /\ low <= b /\ b <= i)
        BY <1>3, <4>2
      <4>4. ~(i + 2 <= a /\ a <= high /\ i + 2 <= b /\ b <= high)
        BY <1>3, <4>2
      <4>5. QED BY <4>1, <4>3, <4>4
    <3>3. a \in low .. high /\ b \in low .. high
      BY <2>2 DEF InRange
    <3>4. a <= pivot /\ pivot <= b
      BY <1>7, <3>2, <3>3
    <3>5. w[a] \in Nat /\ w[b] \in Nat /\ w[pivot] \in Nat
      <4>1. w \in Seq(Nat) /\ Len(w) = Len(v)
        BY <1>2
      <4>2. pivot \in 1 .. Len(w) /\ a \in 1 .. Len(w) /\ b \in 1 .. Len(w)
        BY <1>1, <4>1
      <4>3. QED BY <4>1, <4>2, ElementOf, Zenon
    <3>6. w[a] <= w[pivot]
      <4>1. a = pivot \/ a \in low .. i
        BY <1>1, <3>3, <3>4
      <4>2. CASE a = pivot
        <5>1. w[pivot] <= w[pivot]
          BY <3>5
        <5>2. QED BY <4>2, <5>1, Zenon
      <4>3. CASE a # pivot
        BY <1>6, <4>1, <4>3, Zenon
      <4>4. QED BY <4>2, <4>3
    <3>7. w[pivot] <= w[b]
      <4>1. b = pivot \/ b \in pivot + 1 .. high
        BY <1>1, <3>3, <3>4
      <4>2. CASE b = pivot
        <5>1. w[pivot] <= w[pivot]
          BY <3>5
        <5>2. QED BY <4>2, <5>1, Zenon
      <4>3. CASE b # pivot
        BY <1>6, <4>1, <4>3, Zenon
      <4>4. QED BY <4>2, <4>3
    <3>8. QED BY <3>5, <3>6, <3>7
  <2>3. CASE ~(InRange(a, <<low, high>>) /\ InRange(b, <<low, high>>))
    <3>1. ~Together(stack, low, high, a, b)
      <4>1. ASSUME NEW j \in 1 .. Len(stack) PROVE ~(InRange(a, stack[j]) /\ InRange(b, stack[j]))
        <5>1. j \in 1 .. Len(parts) /\ parts[j] = stack[j]
          BY <1>3 DEF L
        <5>2. QED BY <2>1, <5>1
      <4>2. QED BY <2>3, <4>1 DEF Together
    <3>2. QED BY <1>1, <1>7, <2>3, <3>1, SwapWithinTheRange DEF w
  <2>4. QED BY <2>2, <2>3
<1>8. Settled(w, parts, 0, 0)
  BY <1>2, <1>7 DEF Settled
<1>9. QED BY <1>5, <1>8 DEF w

\* A range that is taken from the stack stays one that is left to order.
LEMMA TakingOrders ==
  ASSUME NEW v \in Seq(Nat), NEW stack \in Seq(Ranges), stack # <<>>,
         NEW low \in Int, NEW high \in Int, ~(low < high),
         Settled(v, stack, low, high), Apart(stack, low, high),
         NEW l, l = Last(stack)[1], NEW h, h = Last(stack)[2]
  PROVE  Settled(v, Front(stack), l, h) /\ Apart(Front(stack), l, h) /\ Parted(v, l, h, l - 1, l)
<1> DEFINE L == Len(stack)
<1>1. /\ L \in Nat \ {0} /\ Len(Front(stack)) = L - 1
      /\ \A k \in 1 .. L - 1 : Front(stack)[k] = stack[k]
      /\ Last(stack) \in Ranges
  BY LastOf
<1>2. Last(stack) = stack[L]
  BY DEF Last
<1>3. l \in Int /\ h \in Int /\ \A m : InRange(m, stack[L]) <=> InRange(m, <<l, h>>)
  BY <1>1, <1>2 DEF Ranges, InRange
<1> HIDE DEF L
<1>4. ASSUME NEW a \in 1 .. Len(v), NEW b \in 1 .. Len(v), a < b,
             Together(stack, low, high, a, b)
      PROVE  Together(Front(stack), l, h, a, b)
  <2>1. PICK j \in 1 .. L : InRange(a, stack[j]) /\ InRange(b, stack[j])
    BY <1>4 DEF Together, L
  <2>2. CASE j = L
    <3>1. InRange(a, <<l, h>>) /\ InRange(b, <<l, h>>)
      BY <1>3, <2>1, <2>2
    <3>2. l < h
      BY <1>3, <1>4, <3>1, SMTT(30) DEF InRange
    <3>3. QED BY <3>1, <3>2 DEF Together
  <2>3. CASE j # L
    <3>1. j \in 1 .. L - 1
      BY <1>1, <2>3
    <3>2. QED BY <1>1, <2>1, <3>1 DEF Together
  <2>4. QED BY <2>2, <2>3
<1>5. Settled(v, Front(stack), l, h)
  BY <1>4 DEF Settled
<1>6. Apart(Front(stack), l, h)
  <2>1. ASSUME NEW m \in Int, NEW j \in 1 .. L - 1, InRange(m, stack[j])
        PROVE  /\ \A k \in 1 .. L - 1 : InRange(m, stack[k]) => k = j
               /\ ~InRange(m, <<l, h>>)
    <3>1. j \in 1 .. L /\ L \in 1 .. L /\ j # L /\ \A k \in 1 .. L - 1 : k \in 1 .. L
      BY <1>1
    <3>2. \A k \in 1 .. L : InRange(m, stack[k]) => k = j
      BY <2>1, <3>1 DEF Apart, L
    <3>3. ~InRange(m, stack[L])
      BY <3>1, <3>2
    <3>4. QED BY <1>3, <3>1, <3>2, <3>3
  <2>2. QED BY <1>1, <2>1 DEF Apart
<1>7. Parted(v, l, h, l - 1, l)
  BY <1>3 DEF Parted
<1>8. QED BY <1>5, <1>6, <1>7

\* Where the comparisons were those of <, the places outside of the ranges that are left
\* are in order.
Ordering(t) ==
  /\ Settled(t.values, t.stack, t.low, t.high)
  /\ Apart(t.stack, t.low, t.high)
  /\ Parted(t.values, t.low, t.high, t.i, t.position)

OrdersInv ==
  /\ Running /\ task.method = "sort" /\ calls.ordered => Ordering(task)
  /\ SortOrders

LEMMA ContentsAreNaturals ==
  ASSUME NEW v \in Seq(Contents)
  PROVE  v \in Seq(Nat)
<1>1. Contents \subseteq Nat
  BY ArrayMethodsAssumption DEF Contents, Empty
<1>2. Len(v) \in Nat /\ v \in [1 .. Len(v) -> Contents]
  OBVIOUS
<1>3. v \in [1 .. Len(v) -> Nat]
  BY <1>1, <1>2
<1>4. QED BY <1>2, <1>3

\* The parts of a task that the lemmas about ordering ask for.
LEMMA OrderingParts ==
  ASSUME IInv, OrdersInv, Sorting, calls.ordered
  PROVE  /\ task.values \in Seq(Nat) /\ task.stack \in Seq(Ranges)
         /\ task.low \in Int /\ task.high \in Int /\ task.i \in Int /\ task.position \in Int
         /\ Settled(task.values, task.stack, task.low, task.high)
         /\ Apart(task.stack, task.low, task.high)
         /\ Parted(task.values, task.low, task.high, task.i, task.position)
         /\ task.low < task.high =>
              /\ 1 <= task.low /\ task.high <= Len(task.values)
              /\ task.low - 1 <= task.i /\ task.i < task.position /\ task.position <= task.high
<1>1. /\ Running /\ task.method = "sort" /\ Partitions(task)
      /\ task.values \in Seq(Contents) /\ task.stack \in Seq(Ranges)
      /\ task.low \in Int /\ task.high \in Int /\ task.i \in Int /\ task.position \in Int
  BY SortTaskParts
<1>3. task.values \in Seq(Nat)
  BY <1>1, ContentsAreNaturals
<1>4. Ordering(task)
  BY <1>1 DEF OrdersInv
<1>5. QED BY <1>1, <1>3, <1>4 DEF Ordering, Partitions

LEMMA StillOrdering ==
  ASSUME Running', Ordering(task')
  PROVE  OrdersInv'
BY DEF OrdersInv, SortOrders, HasSorted

LEMMA NotOrdered ==
  ASSUME ~calls'.ordered
  PROVE  OrdersInv'
BY DEF OrdersInv, SortOrders

LEMMA TakeRangeOrders ==
  ASSUME IInv, OrdersInv, TakeRange
  PROVE  OrdersInv'
<1>1. Sorting /\ ~Partitioning /\ task.stack # <<>> /\ UNCHANGED calls
  BY DEF TakeRange
<1>2. RangeTaken /\ Running'
  BY TakeRangeStep, SortRuns
<1>3. SUFFICES ASSUME calls.ordered PROVE Ordering(task')
  BY <1>1, <1>2, StillOrdering, NotOrdered
<1> DEFINE l == Last(task.stack)[1]
           h == Last(task.stack)[2]
<1>4. Last(task.stack) \in Ranges
  BY <1>1, <1>3, OrderingParts, LastOf
<1>5. l \in Int /\ h \in Int
  BY <1>4 DEF Ranges
<1>6. /\ Settled(task.values, Front(task.stack), l, h) /\ Apart(Front(task.stack), l, h)
      /\ Parted(task.values, l, h, l - 1, l)
  BY <1>1, <1>3, OrderingParts, TakingOrders DEF Partitioning
<1> HIDE DEF l, h
<1>7. /\ task'.values = task.values /\ task'.stack = Front(task.stack)
      /\ task'.low = l /\ task'.high = h /\ task'.i = l - 1 /\ task'.position = l
  BY <1>2 DEF RangeTaken, l, h
<1>8. QED BY <1>6, <1>7, Zenon DEF Ordering

LEMMA PlacePivotOrders ==
  ASSUME IInv, OrdersInv, PlacePivot
  PROVE  OrdersInv'
<1>1. Sorting /\ Partitioning /\ task.position = task.high /\ UNCHANGED calls
  BY DEF PlacePivot
<1>2. PivotPlaced /\ Running'
  BY PlacePivotStep, SortRuns
<1>3. SUFFICES ASSUME calls.ordered PROVE Ordering(task')
  BY <1>1, <1>2, StillOrdering, NotOrdered
<1> DEFINE both == Parts(task.i + 1)
           w == Swap(task.values, task.i + 1, task.high)
           parts == task.stack \o both
<1>4. /\ task.values \in Seq(Nat) /\ task.stack \in Seq(Ranges)
      /\ task.low \in Int /\ task.high \in Int /\ task.i \in Int
      /\ Settled(task.values, task.stack, task.low, task.high)
      /\ Apart(task.stack, task.low, task.high)
      /\ Parted(task.values, task.low, task.high, task.i, task.high)
      /\ 1 <= task.low /\ task.low < task.high /\ task.high <= Len(task.values)
      /\ task.low - 1 <= task.i /\ task.i < task.high
  BY <1>1, <1>3, OrderingParts DEF Partitioning
<1>5. /\ both \in Seq(Ranges) /\ Len(both) = 2
      /\ both[1] = <<task.low, task.i>> /\ both[2] = <<task.i + 2, task.high>>
  <2>1. both = <<<<task.low, task.i>>, <<task.i + 2, task.high>>>>
    <3> DEFINE pivot == task.i + 1
    <3>1. pivot - 1 = task.i /\ pivot + 1 = task.i + 2
      BY <1>4
    <3> HIDE DEF pivot
    <3>2. Parts(pivot) = <<<<task.low, pivot - 1>>, <<pivot + 1, task.high>>>>
      BY DEF Parts
    <3>3. Parts(pivot) = <<<<task.low, task.i>>, <<task.i + 2, task.high>>>>
      BY <3>1, <3>2
    <3>4. QED BY <3>3 DEF pivot
  <2>2. <<task.low, task.i>> \in Ranges /\ <<task.i + 2, task.high>> \in Ranges
    BY <1>4 DEF Ranges
  <2> HIDE DEF both
  <2>3. QED BY <2>1, <2>2
<1> HIDE DEF both
<1>6. PartsOnTop(parts, task.stack, task.low, task.high, task.i)
  BY <1>4, <1>5, PushingParts, Zenon
<1> HIDE DEF parts
<1>7. Settled(w, parts, 0, 0) /\ Apart(parts, 0, 0)
  BY <1>4, <1>6, PlacingOrders, Zenon
<1> HIDE DEF w
<1>8. task'.values = w /\ task'.stack = parts /\ task'.low = 0 /\ task'.high = 0
  BY <1>2, Zenon DEF PivotPlaced, w, parts, both
<1>9. Parted(task'.values, task'.low, task'.high, task'.i, task'.position)
  BY <1>8 DEF Parted
<1>10. QED BY <1>7, <1>8, <1>9, Zenon DEF Ordering

LEMMA CompareOrders ==
  ASSUME IInv, OrdersInv, PermutesInv, Habits = {},
         NEW answer, NEW after, Compare(answer, after, TRUE)
  PROVE  OrdersInv'
<1>1. /\ Sorting /\ Partitioning /\ task.position < task.high
      /\ calls' = [calls EXCEPT !.ordered =
           @ /\ answer = (task.values[task.position] < task.values[task.high])]
  BY DEF Compare, Compared, CallIsDue, Sorting
<1>2. PivotCompared(answer) /\ Running'
  BY CompareStep, SortRuns
<1>3. SUFFICES ASSUME calls'.ordered PROVE Ordering(task')
  BY <1>2, StillOrdering, NotOrdered
<1>4. calls.ordered /\ answer = (task.values[task.position] < task.values[task.high])
  <2>1. PICK m, a, hs, o :
          calls = [method |-> m, arguments |-> a, history |-> hs, ordered |-> o]
    BY DEF PermutesInv, IsHistory
  <2>2. calls'.ordered =
          (calls.ordered /\ answer = (task.values[task.position] < task.values[task.high]))
    BY <1>1, <2>1
  <2>3. QED BY <1>3, <2>2, Zenon
<1>5. /\ task.values \in Seq(Nat) /\ task.stack \in Seq(Ranges)
      /\ task.low \in Int /\ task.high \in Int /\ task.i \in Int /\ task.position \in Int
      /\ Settled(task.values, task.stack, task.low, task.high)
      /\ Apart(task.stack, task.low, task.high)
      /\ Parted(task.values, task.low, task.high, task.i, task.position)
      /\ 1 <= task.low /\ task.low < task.high /\ task.high <= Len(task.values)
      /\ task.low - 1 <= task.i /\ task.i < task.position
  BY <1>1, <1>4, OrderingParts DEF Partitioning
<1> DEFINE w == Swap(task.values, task.i + 1, task.position)
<1>6. /\ task.values[task.position] >= task.values[task.high] =>
           Parted(task.values, task.low, task.high, task.i, task.position + 1)
      /\ task.values[task.position] < task.values[task.high] =>
           /\ Settled(w, task.stack, task.low, task.high)
           /\ Parted(w, task.low, task.high, task.i + 1, task.position + 1)
  BY <1>1, <1>5, ComparingOrders
<1> HIDE DEF w
<1>7. CASE answer
  <2>1. task.values[task.position] < task.values[task.high]
    BY <1>4, <1>7, Zenon
  <2>2. /\ task'.values = w /\ task'.stack = task.stack /\ task'.low = task.low
        /\ task'.high = task.high /\ task'.i = task.i + 1 /\ task'.position = task.position + 1
    BY <1>2, <1>7, Zenon DEF PivotCompared, w
  <2>3. QED BY <1>5, <1>6, <2>1, <2>2, Zenon DEF Ordering
<1>8. CASE ~answer
  <2>1. task.values[task.position] >= task.values[task.high]
    <3>1. ~(task.values[task.position] < task.values[task.high])
      BY <1>4, <1>8, Zenon
    <3>2. task.position \in 1 .. Len(task.values) /\ task.high \in 1 .. Len(task.values)
      BY <1>1, <1>5
    <3>3. task.values[task.position] \in Nat /\ task.values[task.high] \in Nat
      BY <1>5, <3>2, ElementOf, Zenon
    <3>4. QED BY <3>1, <3>3
  <2>2. /\ task'.values = task.values /\ task'.stack = task.stack /\ task'.low = task.low
        /\ task'.high = task.high /\ task'.i = task.i /\ task'.position = task.position + 1
    BY <1>2, <1>8, Zenon DEF PivotCompared
  <2>3. QED BY <1>5, <1>6, <2>1, <2>2, Zenon DEF Ordering
<1>9. QED BY <1>7, <1>8

LEMMA SortedOrders ==
  ASSUME IInv, OrdersInv, Sorted
  PROVE  OrdersInv'
<1>1. /\ Sorting /\ ~Partitioning /\ task.stack = <<>> /\ UNCHANGED calls /\ task' = Idle
      /\ result' = NewArray(task.values)
  BY DEF Sorted, Return
<1>2. SUFFICES ASSUME calls.ordered
               PROVE  \A k \in 1..(Len(result'.values) - 1) :
                        result'.values[k] <= result'.values[k + 1]
  BY <1>1 DEF OrdersInv, SortOrders, Running
<1>3. result'.values = task.values
  BY <1>1 DEF NewArray
<1>4. task.values \in Seq(Nat) /\ Settled(task.values, task.stack, task.low, task.high)
  BY <1>1, <1>2, OrderingParts
<1>5. ASSUME NEW k \in 1 .. Len(task.values) - 1 PROVE task.values[k] <= task.values[k + 1]
  <2>1. ~Together(task.stack, task.low, task.high, k, k + 1)
    BY <1>1 DEF Together, Partitioning
  <2>2. k \in 1 .. Len(task.values) /\ k + 1 \in 1 .. Len(task.values) /\ k < k + 1
    BY <1>4
  <2>3. QED BY <1>4, <2>1, <2>2 DEF Settled
<1>6. QED BY <1>3, <1>5, Zenon

LEMMA SortBeginsOrdering ==
  ASSUME IInv, Begin("sort")
  PROVE  OrdersInv'
<1> DEFINE v == array
           n == Len(array)
<1>1. /\ task' = SortTask /\ task'.method = "sort" /\ ~HasSorted'
  BY SortBegins
<1>2. task'.values = v /\ task'.stack = <<<<1, n>>>> /\ task'.low = 0 /\ task'.high = 0
  BY <1>1 DEF SortTask, Task
<1>3. \A k \in 1 .. n : InRange(k, <<<<1, n>>>>[1])
  BY DEF InRange
<1>4. Settled(v, <<<<1, n>>>>, 0, 0)
  BY <1>3 DEF Settled, Together
<1>5. Apart(<<<<1, n>>>>, 0, 0)
  BY DEF Apart
<1>6. Parted(v, 0, 0, task'.i, task'.position)
  BY DEF Parted
<1>7. Ordering(task')
  BY <1>2, <1>4, <1>5, <1>6, Zenon DEF Ordering
<1>8. QED BY <1>1, <1>7, SortRuns, StillOrdering

LEMMA NextOrders ==
  ASSUME IInv, PermutesInv, OrdersInv, Habits = {}, [Next]_vars
  PROVE  OrdersInv'
<1>1. CASE UNCHANGED vars
  BY <1>1 DEF vars, Running, OrdersInv, SortOrders, HasSorted
<1>2. CASE OtherMethod
  BY <1>2 DEF OtherMethod, OrdersInv, SortOrders, HasSorted
<1>3. QED BY <1>1, <1>2, StepsOfSort, SortBeginsOrdering, TakeRangeOrders, PlacePivotOrders,
             SortedOrders, CompareOrders

\* sort returns the elements in order when its comparisons are those of <
\* (array_methods.cpp:579): with SortKeepsTheElements, the quicksort with its own stack
\* of ranges sorts every array, of every length.
THEOREM SortPutsInOrder ==
  ASSUME Habits = {}
  PROVE  Spec => []SortOrders
<1>1. Init => PermutesInv
  BY InitPermutes
<1>2. Init => OrdersInv
  BY DEF Init, Running, NoCalls, Called, OrdersInv, SortOrders, HasSorted
<1>3. IInv /\ PermutesInv /\ [Next]_vars => PermutesInv'
  BY NextPermutes
<1>4. IInv /\ PermutesInv /\ OrdersInv /\ [Next]_vars => OrdersInv'
  BY NextOrders
<1>5. OrdersInv => SortOrders
  BY DEF OrdersInv
<1>6. QED BY <1>1, <1>2, <1>3, <1>4, <1>5, Invariance, PTL DEF Spec

-----------------------------------------------------------------------------

\* Induction: a set of naturals that is not empty has a least element.
LEMMA LeastNumber ==
  ASSUME NEW S, S \subseteq Nat, S # {}
  PROVE  \E n \in S : \A m \in S : n <= m
<1>1. \E n \in S : \A m \in S : <<m, n>> \notin OpToRel(<, Nat)
  BY NatLessThanWellFounded, WFMin
<1>2. PICK n \in S : \A m \in S : <<m, n>> \notin OpToRel(<, Nat)
  BY <1>1
<1>3. ASSUME NEW m \in S PROVE n <= m
  <2>1. m \in Nat /\ n \in Nat
    OBVIOUS
  <2>2. ~(m < n)
    BY <1>2, <2>1 DEF OpToRel
  <2>3. QED BY <2>1, <2>2
<1>4. QED BY <1>3

\* The recursive function behind Kept, up to m.
IsKept(history, m, kept) ==
  kept = [n \in 0..m |-> IF n = 0 THEN <<>>
                         ELSE IF history[n].answer THEN Append(kept[n - 1], history[n].left)
                         ELSE kept[n - 1]]

LEMMA KeptExists ==
  ASSUME NEW history, NEW m \in Nat
  PROVE  \E kept : IsKept(history, m, kept)
<1> DEFINE S == {k \in Nat : ~\E kept : IsKept(history, k, kept)}
<1>1. SUFFICES ASSUME S # {} PROVE FALSE
  OBVIOUS
<1>2. PICK k \in S : \A j \in S : k <= j
  BY <1>1, LeastNumber
<1>3. CASE k = 0
  <2>1. IsKept(history, 0, [n \in 0..0 |-> <<>>])
    BY DEF IsKept
  <2>2. QED BY <1>2, <1>3, <2>1
<1>4. CASE k # 0
  <2>1. k \in Nat /\ k - 1 \in Nat /\ ~(k <= k - 1)
    BY <1>2, <1>4
  <2>2. k - 1 \notin S
    BY <1>2, <2>1
  <2>3. PICK g : IsKept(history, k - 1, g)
    BY <2>1, <2>2
  <2> DEFINE f == [n \in 0..k |-> IF n = 0 THEN <<>>
                                  ELSE IF history[n].answer THEN Append(g[n - 1], history[n].left)
                                  ELSE g[n - 1]]
  <2>4. \A n \in 0..(k - 1) : g[n] = f[n]
    <3>1. ASSUME NEW n \in 0..(k - 1)
          PROVE  g[n] = IF n = 0 THEN <<>>
                        ELSE IF history[n].answer THEN Append(g[n - 1], history[n].left)
                        ELSE g[n - 1]
      BY <2>3 DEF IsKept
    <3>2. \A n \in 0..(k - 1) : n \in 0..k
      BY <2>1
    <3>3. QED BY <3>1, <3>2, Zenon
  <2>5. \A n \in 0..k : n # 0 => n - 1 \in 0..(k - 1)
    BY <2>1
  <2>6. IsKept(history, k, f)
    <3>1. \A n \in 0..k : n # 0 => f[n - 1] = g[n - 1]
      BY <2>4, <2>5, Zenon
    <3>2. [n \in 0..k |-> IF n = 0 THEN <<>>
                          ELSE IF history[n].answer THEN Append(f[n - 1], history[n].left)
                          ELSE f[n - 1]] = f
      <4> DEFINE h == f
      <4>1. \A n \in 0..k : n # 0 => h[n - 1] = g[n - 1]
        BY <3>1
      <4> HIDE DEF h
      <4>2. [n \in 0..k |-> IF n = 0 THEN <<>>
                          ELSE IF history[n].answer THEN Append(h[n - 1], history[n].left)
                          ELSE h[n - 1]] = f
        BY <4>1
      <4>3. QED BY <4>2 DEF h
    <3>3. QED BY <3>2, Zenon DEF IsKept
  <2>7. QED BY <1>2, <2>6
<1>5. QED BY <1>3, <1>4

LEMMA KeptUnique ==
  ASSUME NEW h1, NEW h2, NEW m1 \in Nat, NEW m2 \in Nat, NEW g1, NEW g2,
         IsKept(h1, m1, g1), IsKept(h2, m2, g2), m1 <= m2,
         \A k \in 1..m1 : h1[k] = h2[k]
  PROVE  \A n \in 0..m1 : g1[n] = g2[n]
<1> DEFINE S == {k \in 0..m1 : g1[k] # g2[k]}
<1>1. SUFFICES ASSUME S # {} PROVE FALSE
  OBVIOUS
<1>0. S \subseteq Nat
  OBVIOUS
<1>2. PICK k \in S : \A j \in S : k <= j
  <2> HIDE DEF S
  <2>1. QED BY <1>0, <1>1, LeastNumber
<1>3. k \in 0..m1 /\ k \in 0..m2 /\ g1[k] # g2[k]
  BY <1>2
<1>4. g1[k] = IF k = 0 THEN <<>>
              ELSE IF h1[k].answer THEN Append(g1[k - 1], h1[k].left) ELSE g1[k - 1]
  BY <1>3 DEF IsKept
<1>5. g2[k] = IF k = 0 THEN <<>>
              ELSE IF h2[k].answer THEN Append(g2[k - 1], h2[k].left) ELSE g2[k - 1]
  BY <1>3 DEF IsKept
<1>6. CASE k = 0
  BY <1>3, <1>4, <1>5, <1>6
<1>7. CASE k # 0
  <2>1. k - 1 \in 0..m1 /\ ~(k <= k - 1) /\ k \in 1..m1
    BY <1>3, <1>7
  <2>2. g1[k - 1] = g2[k - 1]
    BY <1>2, <2>1
  <2>3. h1[k] = h2[k]
    BY <2>1
  <2>4. g1[k] = IF h1[k].answer THEN Append(g1[k - 1], h1[k].left) ELSE g1[k - 1]
    BY <1>4, <1>7
  <2>5. g2[k] = IF h1[k].answer THEN Append(g1[k - 1], h1[k].left) ELSE g1[k - 1]
    BY <1>5, <1>7, <2>2, <2>3
  <2>6. QED BY <1>3, <2>4, <2>5
<1>8. QED BY <1>6, <1>7

LEMMA KeptNext ==
  ASSUME NEW history, NEW m \in Nat, NEW g, IsKept(history, m, g), NEW k \in Nat, k < m,
         NEW k1, k1 = k + 1
  PROVE  g[k1] = IF history[k1].answer THEN Append(g[k], history[k1].left) ELSE g[k]
<1>1. k1 \in 0..m /\ k1 # 0 /\ k1 - 1 = k
  OBVIOUS
<1>2. g[k1] = IF k1 = 0 THEN <<>>
              ELSE IF history[k1].answer THEN Append(g[k1 - 1], history[k1].left) ELSE g[k1 - 1]
  BY <1>1 DEF IsKept
<1>3. QED BY <1>1, <1>2

LEMMA KeptIs ==
  ASSUME NEW history, Len(history) \in Nat
  PROVE  \E g : IsKept(history, Len(history), g) /\ Kept(history) = g[Len(history)]
<1> DEFINE n == Len(history)
           g == CHOOSE kept : IsKept(history, n, kept)
<1>1. IsKept(history, n, g)
  BY KeptExists, Zenon
<1>2. Kept(history) = g[n]
  BY DEF Kept, IsKept
<1>3. QED BY <1>1, <1>2

\* What Kept computes, one call at a time.
LEMMA KeptOfAppend ==
  ASSUME NEW S, NEW history \in Seq(S), NEW c \in S
  PROVE  /\ Kept(<<>>) = <<>>
         /\ Kept(Append(history, c)) =
              IF c.answer THEN Append(Kept(history), c.left) ELSE Kept(history)
<1> DEFINE n == Len(history)
           longer == Append(history, c)
<1>1. /\ n \in Nat /\ Len(longer) = n + 1 /\ n + 1 \in Nat /\ longer[n + 1] = c
      /\ \A k \in 1..n : history[k] = longer[k]
  OBVIOUS
<1> HIDE DEF n, longer
<1>2. PICK g : IsKept(history, n, g) /\ Kept(history) = g[n]
  BY <1>1, KeptIs DEF n
<1>3. PICK f : IsKept(longer, n + 1, f) /\ Kept(longer) = f[n + 1]
  BY <1>1, KeptIs
<1>4. g[n] = f[n]
  <2>1. n <= n + 1 /\ n \in 0..n
    BY <1>1
  <2>2. QED BY <1>1, <1>2, <1>3, <2>1, KeptUnique
<1>5. f[n + 1] = IF c.answer THEN Append(f[n], c.left) ELSE f[n]
  <2>1. n < n + 1
    BY <1>1
  <2>2. f[n + 1] = IF longer[n + 1].answer THEN Append(f[n], longer[n + 1].left) ELSE f[n]
    <3>1. \A h, kept : IsKept(h, n + 1, kept) =>
            kept[n + 1] = IF h[n + 1].answer THEN Append(kept[n], h[n + 1].left) ELSE kept[n]
      BY <1>1, <2>1, KeptNext
    <3>2. QED BY <1>3, <3>1, Zenon
  <2>3. QED BY <1>1, <2>2, Zenon
<1>6. Kept(<<>>) = <<>>
  <2>1. Len(<<>>) = 0 /\ 0 \in Nat
    OBVIOUS
  <2>2. PICK e : IsKept(<<>>, 0, e) /\ Kept(<<>>) = e[0]
    BY <2>1, KeptIs
  <2>3. QED BY <2>2 DEF IsKept
<1>7. QED BY <1>2, <1>3, <1>4, <1>5, <1>6, Zenon DEF longer

\* The history of a loop over n elements: the calls went through the elements in order,
\* and none but the last one may have ended the loop.
CallbackCalls ==
  [index : Nat, given : Contents, left : Contents, answer : Contents \cup BOOLEAN, threw : BOOLEAN]

ElementIndex(m, n, p) == IF m \in {"find_last", "find_last_index"} THEN n + 1 - p ELSE p

DecisiveOf(m) ==
  IF m \in {"find", "find_last", "find_index", "find_last_index", "any"} THEN {TRUE}
  ELSE IF m = "all" THEN {FALSE} ELSE {}

EndsLoop(m, c) == c.threw \/ c.answer \in DecisiveOf(m)

Asked(h, m, n) ==
  /\ h \in Seq(CallbackCalls) /\ Len(h) <= n
  /\ \A p \in 1..Len(h) :
       /\ h[p].index = ElementIndex(m, n, p)
       /\ m \in Predicates => h[p].answer \in BOOLEAN
       /\ p < Len(h) => ~EndsLoop(m, h[p])

\* What a loop has decided and built by the calls of h.
Decision(m, c) ==
  IF m \in {"find", "find_last"} THEN Scalar("element", c.left)
  ELSE IF m \in {"find_index", "find_last_index"} THEN Scalar("index", c.index)
  ELSE Scalar("boolean", c.answer)

DecidedBy(m, h) ==
  IF Len(h) # 0 /\ h[Len(h)].answer \in DecisiveOf(m) THEN Decision(m, h[Len(h)]) ELSE NoResult

Answers_(h) == [p \in 1..Len(h) |-> h[p].answer]

BuiltBy(m, h) ==
  IF m = "transform" THEN Answers_(h)
  ELSE IF m = "filter" THEN Kept(h)
  ELSE IF m = "accumulate" /\ Len(h) # 0 THEN <<h[Len(h)].answer>>
  ELSE <<>>

Looping(h, t, n) ==
  /\ Asked(h, t.method, n)
  /\ t.position = Len(h) + 1
  /\ \A p \in 1..Len(h) : ~h[p].threw
  /\ t.decided = DecidedBy(t.method, h)
  /\ t.values = BuiltBy(t.method, h)

AskedInv ==
  /\ Running /\ task.method # "sort" => Looping(History, task, Len(array))
  /\ EveryElementAskedOnce
  /\ ResultFollowsTheAnswers
  /\ SliceIsTheRange

\* What an answer makes of the task.
LEMMA AnsweredParts ==
  ASSUME task \in Tasks, task.method # "sort", NEW answer \in Answers, NEW after,
         task.method \in Callbacks,
         Answered(answer, after), NEW c, c.left = after[Element], c.index = Element,
         c.answer = answer, task.decided = NoResult
  PROVE  /\ task'.position = task.position + 1 /\ task'.method = task.method
         /\ task'.values = IF task.method = "transform" THEN Append(task.values, c.answer)
                           ELSE IF task.method = "filter"
                                THEN (IF c.answer THEN Append(task.values, c.left) ELSE task.values)
                           ELSE IF task.method = "accumulate" THEN <<c.answer>>
                           ELSE task.values
         /\ task'.decided = IF c.answer \in DecisiveOf(task.method) THEN Decision(task.method, c)
                            ELSE NoResult
<1> DEFINE n == [Afterwards(after) EXCEPT !.position = @ + 1]
           m == task.method
           e == KeptElement(after)
<1>1. /\ n \in Tasks /\ n.method = m /\ n.values = task.values /\ n.decided = NoResult
      /\ n.position = task.position + 1
  BY AfterwardsIsATask
<1>2. e = c.left
  BY DEF KeptElement
<1>3. /\ m = "transform" => task' = [n EXCEPT !.values = Append(n.values, c.answer)]
      /\ m = "filter" => task' = IF answer THEN [n EXCEPT !.values = Append(n.values, e)] ELSE n
      /\ m \in {"find", "find_last"} =>
           task' = IF answer THEN [n EXCEPT !.decided = Scalar("element", e)] ELSE n
      /\ m \in {"find_index", "find_last_index"} =>
           task' = IF answer THEN [n EXCEPT !.decided = Scalar("index", Element)] ELSE n
      /\ m \in {"all", "any"} =>
           task' = IF answer = (m = "any") THEN [n EXCEPT !.decided = Scalar("boolean", answer)]
                   ELSE n
      /\ m = "accumulate" => task' = [n EXCEPT !.values = <<c.answer>>]
      /\ m = "for_each" => task' = n
  BY DEF Answered
<1>4. /\ \A x : LET w == [n EXCEPT !.values = x]
                IN w.values = x /\ w.method = m /\ w.decided = NoResult /\ w.position = n.position
      /\ \A x : LET w == [n EXCEPT !.decided = x]
                IN w.values = n.values /\ w.method = m /\ w.decided = x /\ w.position = n.position
  <2> HIDE DEF n
  <2>1. QED BY <1>1 DEF Tasks
<1>5. m \in Predicates => answer \in BOOLEAN
  BY DEF Answers
<1> HIDE DEF n, e
<1>6. CASE m = "transform"
  <2>1. c.answer \notin DecisiveOf(m)
    BY <1>6 DEF DecisiveOf
  <2>2. task' = [n EXCEPT !.values = Append(n.values, c.answer)]
    BY <1>3, <1>6
  <2>3. task'.values = Append(n.values, c.answer) /\ task'.method = m /\ task'.decided = NoResult
        /\ task'.position = n.position
    BY <1>4, <2>2, Zenon
  <2>4. task'.values = Append(task.values, c.answer)
    BY <1>1, <2>3
  <2>5. QED BY <1>1, <1>6, <2>1, <2>3, <2>4, Zenon
<1>7. CASE m = "filter"
  <2>1. c.answer \notin DecisiveOf(m)
    BY <1>7 DEF DecisiveOf
  <2>2. CASE answer
    <3>1. task' = [n EXCEPT !.values = Append(n.values, c.left)] /\ c.answer
      BY <1>2, <1>3, <1>7, <2>2
    <3>2. task'.values = Append(n.values, c.left) /\ task'.method = m /\ task'.decided = NoResult
          /\ task'.position = n.position
      BY <1>4, <3>1, Zenon
    <3>3. task'.values = Append(task.values, c.left) /\ m # "transform"
      BY <1>1, <1>7, <3>2
    <3>4. QED BY <1>1, <1>7, <2>1, <3>1, <3>2, <3>3, Zenon
  <2>3. CASE ~answer
    BY <1>1, <1>2, <1>3, <1>4, <1>7, <2>1, <2>3
  <2>4. QED BY <2>2, <2>3
<1>8. CASE m \in {"find", "find_last"}
  <2>1. DecisiveOf(m) = {TRUE} /\ answer \in BOOLEAN /\ m \in {"find", "find_last"}
    BY <1>5, <1>8 DEF DecisiveOf, Predicates
  <2>2. CASE answer
    <3>1. c.answer \in DecisiveOf(m) /\ Decision(m, c) = Scalar("element", c.left)
      BY <2>1, <2>2 DEF Decision
    <3>2. task' = [n EXCEPT !.decided = Scalar("element", c.left)]
      BY <1>2, <1>3, <1>8, <2>2
    <3>3. QED BY <1>1, <1>4, <1>8, <3>1, <3>2
  <2>3. CASE ~answer
    <3>1. c.answer \notin DecisiveOf(m)
      BY <2>1, <2>3
    <3>2. task' = n
      BY <1>3, <1>8, <2>3
    <3>3. QED BY <1>1, <1>8, <3>1, <3>2
  <2>4. QED BY <2>2, <2>3
<1>9. CASE m \in {"find_index", "find_last_index"}
  <2>1. DecisiveOf(m) = {TRUE} /\ answer \in BOOLEAN
    BY <1>5, <1>9 DEF DecisiveOf, Predicates
  <2>2. CASE answer
    <3>1. c.answer \in DecisiveOf(m) /\ Decision(m, c) = Scalar("index", c.index)
      BY <1>9, <2>1, <2>2 DEF Decision
    <3>2. task' = [n EXCEPT !.decided = Scalar("index", c.index)]
      BY <1>2, <1>3, <1>9, <2>2
    <3>3. QED BY <1>1, <1>4, <1>9, <3>1, <3>2
  <2>3. CASE ~answer
    <3>1. c.answer \notin DecisiveOf(m)
      BY <2>1, <2>3
    <3>2. task' = n
      BY <1>3, <1>9, <2>3
    <3>3. QED BY <1>1, <1>9, <3>1, <3>2
  <2>4. QED BY <2>2, <2>3
<1>10. CASE m \in {"all", "any"}
  <2>1. DecisiveOf(m) = {m = "any"} /\ answer \in BOOLEAN
    <3>1. CASE m = "any"
      <4>1. DecisiveOf(m) = {TRUE}
        BY <3>1 DEF DecisiveOf
      <4>2. (m = "any") = TRUE
        BY <3>1
      <4>3. answer \in BOOLEAN
        BY <1>5, <3>1 DEF Predicates
      <4>4. QED BY <4>1, <4>2, <4>3, Zenon
    <3>2. CASE m = "all"
      <4>1. DecisiveOf(m) = {FALSE}
        BY <3>2 DEF DecisiveOf
      <4>2. (m = "any") = FALSE
        BY <3>2
      <4>3. answer \in BOOLEAN
        BY <1>5, <3>2 DEF Predicates
      <4>4. QED BY <4>1, <4>2, <4>3, Zenon
    <3>3. QED BY <1>10, <3>1, <3>2
  <2>2. Decision(m, c) = Scalar("boolean", c.answer)
    BY <1>10 DEF Decision
  <2>3. task' = IF c.answer = (m = "any") THEN [n EXCEPT !.decided = Scalar("boolean", c.answer)]
                ELSE n
    BY <1>3, <1>10, Zenon
  <2>4. CASE c.answer = (m = "any")
    <3>1. c.answer \in DecisiveOf(m)
      BY <2>1, <2>4, Zenon
    <3>2. task' = [n EXCEPT !.decided = Scalar("boolean", c.answer)]
      BY <2>3, <2>4, Zenon
    <3>3. QED BY <1>1, <1>4, <1>10, <2>2, <3>1, <3>2
  <2>5. CASE c.answer # (m = "any")
    <3>1. c.answer \notin DecisiveOf(m)
      BY <2>1, <2>5, Zenon
    <3>2. task' = n
      BY <2>3, <2>5, Zenon
    <3>3. QED BY <1>1, <1>10, <3>1, <3>2
  <2>6. QED BY <2>4, <2>5, Zenon
<1>11. CASE m = "accumulate"
  <2>1. c.answer \notin DecisiveOf(m)
    BY <1>11 DEF DecisiveOf
  <2>2. task' = [n EXCEPT !.values = <<c.answer>>]
    BY <1>3, <1>11
  <2>3. task'.values = <<c.answer>> /\ task'.method = m /\ task'.decided = NoResult
        /\ task'.position = n.position
    BY <1>4, <2>2, Zenon
  <2>4. m # "transform" /\ m # "filter"
    BY <1>11
  <2>5. QED BY <1>1, <1>11, <2>1, <2>3, <2>4, Zenon
<1>12. CASE m = "for_each"
  <2>1. c.answer \notin DecisiveOf(m)
    BY <1>12 DEF DecisiveOf
  <2>2. QED BY <1>1, <1>3, <1>12, <2>1
<1>13. QED BY <1>6, <1>7, <1>8, <1>9, <1>10, <1>11, <1>12 DEF Callbacks, Predicates

LEMMA DecisionsDecide ==
  ASSUME NEW m, NEW c
  PROVE  Decision(m, c) # NoResult /\ Decision(m, c) # Exception
<1>1. \A kind \in {"element", "index", "boolean"} : \A v : Scalar(kind, v).kind = kind
  BY DEF Scalar
<1>2. NoResult.kind = "none" /\ Exception.kind = "exception"
  BY DEF NoResult, Exception
<1>3. \E kind \in {"element", "index", "boolean"} : \E v : Decision(m, c) = Scalar(kind, v)
  BY DEF Decision
<1>4. QED BY <1>1, <1>2, <1>3

\* The history g of a loop that goes on, with the call c after those of h.
OneMore(g, h, c, m, n) ==
  /\ Asked(g, m, n) /\ Len(g) = Len(h) + 1 /\ g[Len(g)] = c
  /\ \A p \in 1..Len(h) : g[p] = h[p]
  /\ DecidedBy(m, g) = IF c.answer \in DecisiveOf(m) THEN Decision(m, c) ELSE NoResult
  /\ BuiltBy(m, g) = IF m = "transform" THEN Append(BuiltBy(m, h), c.answer)
                     ELSE IF m = "filter"
                          THEN (IF c.answer THEN Append(BuiltBy(m, h), c.left) ELSE BuiltBy(m, h))
                     ELSE IF m = "accumulate" THEN <<c.answer>>
                     ELSE BuiltBy(m, h)

LEMMA OneMoreCall ==
  ASSUME NEW h, NEW m, NEW n \in Nat, Asked(h, m, n), \A p \in 1..Len(h) : ~h[p].threw,
         DecidedBy(m, h) = NoResult, Len(h) < n,
         NEW c \in CallbackCalls, c.index = ElementIndex(m, n, Len(h) + 1),
         m \in Predicates => c.answer \in BOOLEAN,
         NEW g, g = Append(h, c)
  PROVE  OneMore(g, h, c, m, n)
<1> DEFINE k == Len(h)
<1>1. h \in Seq(CallbackCalls) /\ k \in Nat
  BY DEF Asked
<1>2. /\ g \in Seq(CallbackCalls) /\ Len(g) = k + 1 /\ g[k + 1] = c
      /\ \A p \in 1..k : g[p] = h[p]
  BY <1>1
<1>3. \A p \in 1..k : ~EndsLoop(m, h[p])
  <2>1. ASSUME NEW p \in 1..k PROVE ~EndsLoop(m, h[p])
    <3>1. CASE p < k
      BY <3>1 DEF Asked
    <3>2. CASE p = k
      <4>1. k # 0
        BY <1>1, <3>2
      <4>2. h[k].answer \notin DecisiveOf(m)
        BY <4>1, DecisionsDecide DEF DecidedBy
      <4>3. QED BY <3>2, <4>2 DEF EndsLoop
    <3>3. QED BY <1>1, <3>1, <3>2
  <2>2. QED BY <2>1
<1>4. Asked(g, m, n)
  <2>1. ASSUME NEW p \in 1..(k + 1)
        PROVE  /\ g[p].index = ElementIndex(m, n, p)
               /\ m \in Predicates => g[p].answer \in BOOLEAN
               /\ p < k + 1 => ~EndsLoop(m, g[p])
    <3>1. CASE p \in 1..k
      <4>1. g[p] = h[p]
        BY <1>2, <3>1
      <4>2. /\ h[p].index = ElementIndex(m, n, p)
            /\ m \in Predicates => h[p].answer \in BOOLEAN
        BY <3>1 DEF Asked
      <4>3. QED BY <1>3, <3>1, <4>1, <4>2
    <3>2. CASE p = k + 1
      <4>1. g[p] = c /\ ~(p < k + 1)
        BY <1>1, <1>2, <3>2
      <4>2. QED BY <3>2, <4>1
    <3>3. QED BY <1>1, <3>1, <3>2
  <2>2. Len(g) <= n
    BY <1>1, <1>2
  <2>3. QED BY <1>2, <2>1, <2>2 DEF Asked
<1>5. DecidedBy(m, g) = IF c.answer \in DecisiveOf(m) THEN Decision(m, c) ELSE NoResult
  <2>1. Len(g) # 0 /\ g[Len(g)] = c
    BY <1>1, <1>2
  <2>2. QED BY <2>1 DEF DecidedBy
<1>6. Answers_(g) = Append(Answers_(h), c.answer)
  <2> DEFINE S == {h[p].answer : p \in 1..k} \cup {c.answer}
  <2>1. Answers_(h) \in Seq(S) /\ Len(Answers_(h)) = k
    BY <1>1 DEF Answers_
  <2>2. c.answer \in S
    OBVIOUS
  <2> HIDE DEF S
  <2> DEFINE r == Append(Answers_(h), c.answer)
  <2>3. r \in Seq(S) /\ Len(r) = k + 1 /\ r[k + 1] = c.answer
        /\ \A p \in 1..k : r[p] = Answers_(h)[p]
    BY <1>1, <2>1, <2>2
  <2> HIDE DEF r
  <2>4. \A p \in 1..(k + 1) : r[p] = g[p].answer
    <3>1. ASSUME NEW p \in 1..(k + 1) PROVE r[p] = g[p].answer
      <4>1. CASE p \in 1..k
        <5>1. Answers_(h)[p] = h[p].answer
          BY <4>1 DEF Answers_
        <5>2. QED BY <1>2, <2>3, <4>1, <5>1
      <4>2. CASE p = k + 1
        BY <1>2, <2>3, <4>2
      <4>3. QED BY <1>1, <4>1, <4>2
    <3>2. QED BY <3>1
  <2>5. r = [p \in 1..(k + 1) |-> r[p]]
    BY <1>1, <2>3
  <2>6. Answers_(g) = [p \in 1..(k + 1) |-> g[p].answer]
    BY <1>2, Zenon DEF Answers_
  <2>7. [p \in 1..(k + 1) |-> r[p]] = [p \in 1..(k + 1) |-> g[p].answer]
    BY <2>4
  <2>8. QED BY <2>5, <2>6, <2>7 DEF r
<1>7. BuiltBy(m, g) = IF m = "transform" THEN Append(BuiltBy(m, h), c.answer)
                      ELSE IF m = "filter"
                           THEN (IF c.answer THEN Append(BuiltBy(m, h), c.left) ELSE BuiltBy(m, h))
                      ELSE IF m = "accumulate" THEN <<c.answer>>
                      ELSE BuiltBy(m, h)
  <2>1. CASE m = "transform"
    BY <1>6, <2>1, Zenon DEF BuiltBy
  <2>2. CASE m = "filter"
    <3>1. BuiltBy(m, g) = Kept(g) /\ BuiltBy(m, h) = Kept(h)
      BY <2>2 DEF BuiltBy
    <3>2. Kept(g) = IF c.answer THEN Append(Kept(h), c.left) ELSE Kept(h)
      BY <1>1, KeptOfAppend, Zenon
    <3>3. m # "transform"
      BY <2>2
    <3>4. QED BY <2>2, <3>1, <3>2, <3>3, Zenon
  <2>3. CASE m = "accumulate"
    <3>1. BuiltBy(m, g) = <<c.answer>>
      <4>1. Len(g) # 0 /\ g[Len(g)] = c
        BY <1>1, <1>2
      <4>2. QED BY <2>3, <4>1 DEF BuiltBy
    <3>2. m # "transform" /\ m # "filter"
      BY <2>3
    <3>3. QED BY <2>3, <3>1, <3>2, Zenon
  <2>4. CASE m \notin {"transform", "filter", "accumulate"}
    <3>1. BuiltBy(m, g) = <<>> /\ BuiltBy(m, h) = <<>>
      BY <2>4 DEF BuiltBy
    <3>2. m # "transform" /\ m # "filter" /\ m # "accumulate"
      BY <2>4
    <3>3. QED BY <3>1, <3>2, Zenon
  <2>5. QED BY <2>1, <2>2, <2>3, <2>4, Zenon
<1>8. QED BY <1>2, <1>4, <1>5, <1>7, Zenon DEF OneMore

\* One call is recorded.
LEMMA CallRecorded ==
  ASSUME IsHistory(calls), NEW after \in Seq(Contents), NEW answer, NEW threw,
         Len(after) = Len(array), array \in Seq(Contents), Element \in 1..Len(array),
         answer \in Contents \cup BOOLEAN, threw \in BOOLEAN,
         Recorded(after, answer, threw)
  PROVE  \E c \in CallbackCalls :
           /\ calls'.history = Append(History, c)
           /\ calls'.method = calls.method
           /\ c.index = Element /\ c.left = after[Element] /\ c.answer = answer /\ c.threw = threw
<1> DEFINE c == [index |-> Element, given |-> array[Element],
                 left |-> IF Element \in DOMAIN after THEN after[Element] ELSE Empty,
                 answer |-> answer, threw |-> threw]
<1>1. array[Element] \in Contents /\ after[Element] \in Contents /\ Element \in Nat
      /\ Element \in DOMAIN after
  OBVIOUS
<1>2. c \in CallbackCalls /\ c.index = Element /\ c.answer = answer /\ c.threw = threw
      /\ c.left = after[Element]
  BY <1>1 DEF CallbackCalls
<1>3. calls' = [calls EXCEPT !.history = Append(calls.history, c)]
  BY DEF Recorded
<1> HIDE DEF c
<1>4. PICK m, a, h, o :
        calls = [method |-> m, arguments |-> a, history |-> h, ordered |-> o]
  BY DEF IsHistory
<1>5. calls'.history = Append(calls.history, c) /\ calls'.method = calls.method
  BY <1>3, <1>4
<1>6. QED BY <1>2, <1>5 DEF History

\* What a loop is in when a call is due.
LEMMA CallingParts ==
  ASSUME IInv, PermutesInv, AskedInv, CallIsDue, task.method # "sort"
  PROVE  /\ Running /\ task \in Tasks /\ task.method \in Callbacks /\ calls.method = task.method
         /\ Looping(History, task, Len(array)) /\ task.decided = NoResult
         /\ IsHistory(calls) /\ array \in Seq(Contents) /\ Len(array) \in Nat
         /\ Len(History) \in Nat /\ Len(History) < Len(array)
         /\ Element = ElementIndex(task.method, Len(array), Len(History) + 1)
         /\ Element \in 1..Len(array)
         /\ Answers = IF task.method \in Predicates THEN BOOLEAN ELSE Values
         /\ Answers \subseteq Contents \cup BOOLEAN
<1>1. Running /\ task.decided = NoResult /\ task.position <= Len(array)
  BY DEF CallIsDue
<1>2. task \in Tasks
  BY <1>1, RunningIsATask
<1>3. task.method \in Callbacks
  BY <1>2 DEF Tasks
<1>4. calls.method = task.method /\ IsHistory(calls)
  BY <1>1 DEF PermutesInv
<1>5. Looping(History, task, Len(array))
  BY <1>1 DEF AskedInv
<1>6. array \in Seq(Contents) /\ Len(array) \in Nat
  BY DEF IInv
<1>7. History \in Seq(CallbackCalls) /\ task.position = Len(History) + 1
  BY <1>5 DEF Looping, Asked
<1>8. Len(History) \in Nat /\ Len(History) < Len(array)
  BY <1>1, <1>6, <1>7
<1>9. Element = ElementIndex(task.method, Len(array), Len(History) + 1)
  BY <1>7 DEF Element, Backward, ElementIndex
<1>10. Element \in 1..Len(array)
  BY <1>6, <1>8, <1>9 DEF ElementIndex
<1>11. Answers = IF task.method \in Predicates THEN BOOLEAN ELSE Values
  BY DEF Answers
<1>12. Answers \subseteq Contents \cup BOOLEAN
  BY <1>11 DEF Contents
<1>13. QED BY <1>1, <1>2, <1>3, <1>4, <1>5, <1>6, <1>8, <1>9, <1>10, <1>11, <1>12

\* A loop that runs says nothing about results yet.
LEMMA RunningAsks ==
  ASSUME Running', calls'.method # "slice",
         task'.method # "sort" => Looping(History', task', Len(array'))
  PROVE  AskedInv'
BY DEF AskedInv, EveryElementAskedOnce, ResultFollowsTheAnswers, SliceIsTheRange

LEMMA CallbacksAreNotSlice ==
  "slice" \notin Callbacks /\ "none" \notin Callbacks
BY DEF Callbacks, Predicates

LEMMA AnswerAsks ==
  ASSUME IInv, PermutesInv, AskedInv, Habits = {},
         NEW answer, NEW after, NEW isBoolean, Answer(answer, after, isBoolean)
  PROVE  AskedInv'
<1> DEFINE h == History
           m == task.method
           n == Len(array)
<1>1. /\ CallIsDue /\ m # "sort" /\ answer \in Answers /\ after \in AfterCallback
      /\ isBoolean /\ array' = after /\ Recorded(after, answer, FALSE)
  BY DEF Answer
<1>2. after \in Seq(Contents) /\ Len(after) = n
  BY <1>1, AfterIsAnArray
<1>3. fault' = FALSE
  BY <1>2 DEF Answer
<1>4. Answered(answer, after) /\ UNCHANGED result
  BY <1>1, <1>3 DEF Answer
<1>5. /\ Running /\ task \in Tasks /\ m \in Callbacks /\ calls.method = m
      /\ Looping(h, task, n) /\ task.decided = NoResult
      /\ IsHistory(calls) /\ array \in Seq(Contents) /\ n \in Nat /\ Len(h) \in Nat /\ Len(h) < n
      /\ Element = ElementIndex(m, n, Len(h) + 1) /\ Element \in 1..n
      /\ Answers = (IF m \in Predicates THEN BOOLEAN ELSE Values)
      /\ Answers \subseteq Contents \cup BOOLEAN
  BY <1>1, CallingParts
<1>6. answer \in Contents \cup BOOLEAN /\ FALSE \in BOOLEAN
  BY <1>1, <1>5
<1>7. PICK c \in CallbackCalls :
        /\ calls'.history = Append(h, c) /\ calls'.method = m
        /\ c.index = Element /\ c.left = after[Element] /\ c.answer = answer /\ c.threw = FALSE
  <2>1. /\ IsHistory(calls) /\ Len(after) = Len(array) /\ array \in Seq(Contents)
        /\ Element \in 1..Len(array) /\ after \in Seq(Contents) /\ calls.method = m
    BY <1>2, <1>5
  <2> DEFINE t == FALSE
  <2>2. t \in BOOLEAN /\ Recorded(after, answer, t)
    BY <1>1
  <2> HIDE DEF m, n, t
  <2>3. \E c \in CallbackCalls :
           /\ calls'.history = Append(History, c) /\ calls'.method = calls.method
           /\ c.index = Element /\ c.left = after[Element] /\ c.answer = answer /\ c.threw = t
    BY <1>6, <2>1, <2>2, CallRecorded
  <2>4. QED BY <2>1, <2>3, Zenon DEF t
<1>8. m \in Predicates => c.answer \in BOOLEAN
  BY <1>1, <1>5, <1>7, Zenon
<1>9. /\ task'.position = task.position + 1 /\ task'.method = m
      /\ task'.values = IF m = "transform" THEN Append(task.values, c.answer)
                        ELSE IF m = "filter"
                             THEN (IF c.answer THEN Append(task.values, c.left) ELSE task.values)
                        ELSE IF m = "accumulate" THEN <<c.answer>>
                        ELSE task.values
      /\ task'.decided = IF c.answer \in DecisiveOf(m) THEN Decision(m, c) ELSE NoResult
  BY <1>1, <1>4, <1>5, <1>7, AnsweredParts, Zenon
<1> DEFINE g == Append(h, c)
<1>10. /\ Asked(h, m, n) /\ \A p \in 1..Len(h) : ~h[p].threw
       /\ DecidedBy(m, h) = NoResult /\ BuiltBy(m, h) = task.values
       /\ task.position = Len(h) + 1
  BY <1>5, Zenon DEF Looping
<1>11. c.index = ElementIndex(m, n, Len(h) + 1)
  BY <1>5, <1>7
<1> HIDE DEF h, m, n
<1>12. OneMore(g, h, c, m, n)
  <2>1. n \in Nat /\ Len(h) < n
    BY <1>5
  <2>2. g = Append(h, c)
    OBVIOUS
  <2> HIDE DEF g
  <2>3. QED BY <1>8, <1>10, <1>11, <2>1, <2>2, OneMoreCall, Zenon
<1> HIDE DEF g
<1>13. task'.values = BuiltBy(m, g) /\ task'.decided = DecidedBy(m, g)
  BY <1>9, <1>10, <1>12, Zenon DEF OneMore
<1>14. task'.position = Len(g) + 1
  BY <1>5, <1>9, <1>10, <1>12 DEF OneMore
<1>15. \A p \in 1..Len(g) : ~g[p].threw
  <2>1. ASSUME NEW p \in 1..Len(g) PROVE ~g[p].threw
    <3>1. CASE p \in 1..Len(h)
      BY <1>10, <1>12, <3>1 DEF OneMore
    <3>2. CASE p = Len(g)
      BY <1>7, <1>12, <3>2 DEF OneMore
    <3>3. QED BY <1>5, <1>12, <3>1, <3>2 DEF OneMore
  <2>2. QED BY <2>1
<1>16. Looping(g, task', n)
  BY <1>9, <1>12, <1>13, <1>14, <1>15, Zenon DEF Looping, OneMore
<1>17. History' = g /\ Len(array') = n /\ calls'.method = m
  BY <1>1, <1>2, <1>7 DEF g, History, n
<1>18. Running'
  BY <1>5, <1>9, CallbacksAreNotSlice DEF Running, Idle
<1>19. calls'.method # "slice"
  BY <1>5, <1>17, CallbacksAreNotSlice
<1>20. QED BY <1>16, <1>17, <1>18, <1>19, RunningAsks

\* A loop that has ended asked as it should when its result goes with the last call.
LEMMA EndedAsks ==
  ASSUME NEW h, h = calls'.history, NEW m, m = calls'.method, NEW n \in Nat, n = Len(array'),
         Asked(h, m, n), m # "slice", task' = Idle,
         Len(h) # n => Len(h) # 0 /\ EndsLoop(m, h[Len(h)]),
         Len(h) # 0 /\ h[Len(h)].threw <=> result' = Exception,
         ResultFollowsTheAnswers'
  PROVE  AskedInv'
<1>1. h \in Seq(CallbackCalls) /\ Len(h) \in Nat /\ DOMAIN h = 1..Len(h)
      /\ (h = <<>> <=> Len(h) = 0)
  BY EmptySeq DEF Asked
<1>2. ~Running' /\ History' = h
  BY DEF Running, History
<1>3. \A c : Ends(c)' <=> EndsLoop(m, c)
  BY DEF Ends, EndsLoop, DecisiveOf, Decisive
<1>4. Threw' <=> result' = Exception
  BY <1>1, <1>2 DEF Threw, Last
<1>5. Len(h) = n \/ Decided'
  BY <1>1, <1>2, <1>3 DEF Decided, Last
<1>6. EveryElementAskedOnce'
  <2>1. ASSUME NEW p \in 1..Len(h)
        PROVE  /\ h[p].index = IF m \in {"find_last", "find_last_index"} THEN n + 1 - p ELSE p
               /\ p < Len(h) => ~Ends(h[p])'
    BY <1>3 DEF Asked, ElementIndex
  <2>2. QED BY <1>1, <1>2, <1>4, <1>5, <2>1 DEF EveryElementAskedOnce
<1>7. QED BY <1>2, <1>6 DEF AskedInv, SliceIsTheRange

LEMMA ThrowAsks ==
  ASSUME IInv, PermutesInv, AskedInv, Habits = {}, NEW after, Throw(after)
  PROVE  AskedInv'
<1> DEFINE h == History
           m == task.method
           n == Len(array)
           answer == CHOOSE a \in Answers : TRUE
<1>1. /\ CallIsDue /\ m # "sort" /\ after \in AfterCallback
      /\ array' = after /\ Recorded(after, answer, TRUE) /\ task' = Idle /\ result' = Exception
  BY DEF Throw, Return
<1>2. after \in Seq(Contents) /\ Len(after) = n
  BY <1>1, AfterIsAnArray
<1>3. /\ Running /\ task \in Tasks /\ m \in Callbacks /\ calls.method = m
      /\ Looping(h, task, n) /\ task.decided = NoResult
      /\ IsHistory(calls) /\ array \in Seq(Contents) /\ n \in Nat /\ Len(h) \in Nat /\ Len(h) < n
      /\ Element = ElementIndex(m, n, Len(h) + 1) /\ Element \in 1..n
      /\ Answers = (IF m \in Predicates THEN BOOLEAN ELSE Values)
      /\ Answers \subseteq Contents \cup BOOLEAN
  BY <1>1, CallingParts
<1>4. answer \in Answers
  <2>1. \E a : a \in Answers
    BY <1>3, ArrayMethodsAssumption
  <2>2. QED BY <2>1, Zenon
<1>5. answer \in Contents \cup BOOLEAN /\ TRUE \in BOOLEAN
  BY <1>3, <1>4
<1> HIDE DEF answer
<1>6. PICK c \in CallbackCalls :
        /\ calls'.history = Append(h, c) /\ calls'.method = m
        /\ c.index = Element /\ c.left = after[Element] /\ c.answer = answer /\ c.threw = TRUE
  <2>1. /\ IsHistory(calls) /\ Len(after) = Len(array) /\ array \in Seq(Contents)
        /\ Element \in 1..Len(array) /\ after \in Seq(Contents) /\ calls.method = m
    BY <1>2, <1>3
  <2> DEFINE t == TRUE
  <2>2. t \in BOOLEAN /\ Recorded(after, answer, t)
    BY <1>1
  <2> HIDE DEF m, n, t
  <2>3. \E c \in CallbackCalls :
           /\ calls'.history = Append(History, c) /\ calls'.method = calls.method
           /\ c.index = Element /\ c.left = after[Element] /\ c.answer = answer /\ c.threw = t
    BY <1>5, <2>1, <2>2, CallRecorded
  <2>4. QED BY <2>1, <2>3, Zenon DEF t
<1>7. m \in Predicates => c.answer \in BOOLEAN
  BY <1>3, <1>4, <1>6, Zenon
<1> DEFINE g == Append(h, c)
<1>8. Asked(h, m, n) /\ \A p \in 1..Len(h) : ~h[p].threw
  BY <1>3, Zenon DEF Looping
<1>9. DecidedBy(m, h) = NoResult
  BY <1>3, Zenon DEF Looping
<1>10. c.index = ElementIndex(m, n, Len(h) + 1)
  BY <1>3, <1>6
<1> HIDE DEF h, m, n
<1>11. OneMore(g, h, c, m, n)
  <2>1. n \in Nat /\ Len(h) < n
    BY <1>3
  <2>2. g = Append(h, c)
    OBVIOUS
  <2> HIDE DEF g
  <2>3. QED BY <1>7, <1>8, <1>9, <1>10, <2>1, <2>2, OneMoreCall, Zenon
<1> HIDE DEF g
<1>12. Len(g) # 0 /\ g[Len(g)].threw /\ EndsLoop(m, g[Len(g)])
  BY <1>3, <1>6, <1>11 DEF EndsLoop, OneMore
<1>13. g = calls'.history /\ m = calls'.method /\ n = Len(array') /\ m # "slice"
  BY <1>1, <1>2, <1>3, <1>6, CallbacksAreNotSlice DEF g, n
<1>14. ResultFollowsTheAnswers'
  BY <1>1 DEF ResultFollowsTheAnswers
<1>15. n \in Nat /\ task' = Idle /\ result' = Exception
  BY <1>1, <1>3
<1>16. QED BY <1>11, <1>12, <1>13, <1>14, <1>15, EndedAsks, Zenon DEF OneMore

\* A loop that is left by its end has decided, or it has asked for every element.
LEMMA EndedLoop ==
  ASSUME NEW h, NEW t \in Tasks, NEW n \in Nat, Looping(h, t, n),
         t.decided # NoResult \/ t.position > n
  PROVE  /\ Asked(h, t.method, n) /\ Len(h) \in Nat /\ h \in Seq(CallbackCalls)
         /\ \A p \in 1..Len(h) : ~h[p].threw
         /\ t.values = BuiltBy(t.method, h)
         /\ \/ /\ Len(h) # 0 /\ h[Len(h)].answer \in DecisiveOf(t.method)
               /\ t.decided = Decision(t.method, h[Len(h)]) /\ t.decided # NoResult
            \/ /\ Len(h) = n /\ t.decided = NoResult
               /\ \A p \in 1..Len(h) : h[p].answer \notin DecisiveOf(t.method)
<1> DEFINE m == t.method
<1>1. Asked(h, m, n) /\ h \in Seq(CallbackCalls) /\ Len(h) \in Nat /\ Len(h) <= n
  BY DEF Looping, Asked
<1>2. t.decided = DecidedBy(m, h) /\ t.position = Len(h) + 1 /\ t.values = BuiltBy(m, h)
  BY DEF Looping
<1>3. \A p \in 1..Len(h) : ~h[p].threw
  BY DEF Looping
<1>4. CASE Len(h) # 0 /\ h[Len(h)].answer \in DecisiveOf(m)
  <2>1. t.decided = Decision(m, h[Len(h)])
    BY <1>2, <1>4 DEF DecidedBy
  <2>2. QED BY <1>1, <1>2, <1>3, <1>4, <2>1, DecisionsDecide
<1>5. CASE ~(Len(h) # 0 /\ h[Len(h)].answer \in DecisiveOf(m))
  <2>1. t.decided = NoResult
    BY <1>2, <1>5 DEF DecidedBy
  <2>2. Len(h) = n
    BY <1>1, <1>2, <2>1
  <2>3. ASSUME NEW p \in 1..Len(h) PROVE h[p].answer \notin DecisiveOf(m)
    <3>1. CASE p = Len(h)
      <4>1. Len(h) # 0
        BY <1>1
      <4>2. QED BY <1>5, <3>1, <4>1
    <3>2. CASE p < Len(h)
      BY <1>1, <3>2 DEF Asked, EndsLoop
    <3>3. QED BY <1>1, <3>1, <3>2
  <2>4. QED BY <1>1, <1>2, <1>3, <2>1, <2>2, <2>3
<1>6. QED BY <1>4, <1>5

\* What the result of each method has to be, of the history h of a loop over n elements.
ResultOf(m, h, n) ==
  IF m = "transform" THEN NewArray(Answers_(h))
  ELSE IF m = "filter" THEN NewArray(Kept(h))
  ELSE IF m \in {"find", "find_last", "find_index", "find_last_index"}
       THEN IF Len(h) # 0 /\ h[Len(h)].answer \in DecisiveOf(m) THEN Decision(m, h[Len(h)])
            ELSE Undefined
  ELSE IF m = "all" THEN Scalar("boolean", \A p \in 1..Len(h) : h[p].answer)
  ELSE IF m = "any" THEN Scalar("boolean", \E p \in 1..Len(h) : h[p].answer)
  ELSE IF m = "accumulate" THEN (IF n = 0 THEN Undefined ELSE Scalar("element", h[Len(h)].answer))
  ELSE Undefined

LEMMA ResultIsOf ==
  ASSUME NEW h, h = calls'.history, NEW m, m = calls'.method, NEW n, n = Len(array'),
         array' \in Seq(Contents), h \in Seq(CallbackCalls), \A p \in 1..Len(h) : ~h[p].threw,
         m \in Callbacks \ {"sort"}, result' = ResultOf(m, h, n)
  PROVE  ResultFollowsTheAnswers'
<1>1. /\ Len(h) \in Nat /\ DOMAIN h = 1..Len(h) /\ (h = <<>> <=> Len(h) = 0)
      /\ (array' = <<>> <=> n = 0)
  BY EmptySeq
<1>2. History' = h
  BY DEF History
<1>3. Last(h) = h[Len(h)]
  BY DEF Last
<1>4. m \in {"find", "find_last", "find_index", "find_last_index"} =>
        (Decided' <=> Len(h) # 0 /\ h[Len(h)].answer \in DecisiveOf(m))
  <2>1. ASSUME m \in {"find", "find_last", "find_index", "find_last_index"}
        PROVE Decisive' = DecisiveOf(m)
    BY <2>1 DEF Decisive, DecisiveOf
  <2>2. Len(h) # 0 => ~h[Len(h)].threw
    BY <1>1
  <2>3. QED BY <1>1, <1>2, <1>3, <2>1, <2>2 DEF Decided, Ends
<1>5. CASE m = "transform"
  <2>1. result' = NewArray([p \in DOMAIN h |-> h[p].answer])
    BY <1>1, <1>5 DEF ResultOf, Answers_
  <2>2. QED BY <1>2, <1>5, <2>1 DEF ResultFollowsTheAnswers
<1>6. CASE m = "filter"
  <2>1. result' = NewArray(Kept(h))
    BY <1>6 DEF ResultOf
  <2>2. QED BY <1>2, <1>6, <2>1 DEF ResultFollowsTheAnswers
<1>7. CASE m \in {"find", "find_last"}
  <2>1. result' = IF Decided' THEN Scalar("element", Last(h).left) ELSE Undefined
    BY <1>3, <1>4, <1>7 DEF ResultOf, Decision
  <2>2. QED BY <1>2, <1>7, <2>1 DEF ResultFollowsTheAnswers
<1>8. CASE m \in {"find_index", "find_last_index"}
  <2>1. result' = IF Decided' THEN Scalar("index", Last(h).index) ELSE Undefined
    BY <1>3, <1>4, <1>8 DEF ResultOf, Decision
  <2>2. QED BY <1>2, <1>8, <2>1 DEF ResultFollowsTheAnswers
<1>9. CASE m = "all"
  <2>1. result' = Scalar("boolean", \A p \in 1..Len(h) : h[p].answer)
    BY <1>9 DEF ResultOf
  <2>2. result' = Scalar("boolean", \A p \in DOMAIN h : h[p].answer)
    BY <1>1, <2>1, Zenon
  <2>3. QED BY <1>2, <1>9, <2>2 DEF ResultFollowsTheAnswers
<1>10. CASE m = "any"
  <2>1. result' = Scalar("boolean", \E p \in 1..Len(h) : h[p].answer)
    BY <1>10 DEF ResultOf
  <2>2. result' = Scalar("boolean", \E p \in DOMAIN h : h[p].answer)
    BY <1>1, <2>1, Zenon
  <2>3. QED BY <1>2, <1>10, <2>2 DEF ResultFollowsTheAnswers
<1>11. CASE m = "accumulate"
  <2>1. result' = IF array' = <<>> THEN Undefined ELSE Scalar("element", Last(h).answer)
    BY <1>1, <1>3, <1>11 DEF ResultOf
  <2>2. QED BY <1>2, <1>11, <2>1 DEF ResultFollowsTheAnswers
<1>12. CASE m = "for_each"
  BY <1>12 DEF ResultFollowsTheAnswers
<1>13. QED BY <1>5, <1>6, <1>7, <1>8, <1>9, <1>10, <1>11, <1>12 DEF Callbacks, Predicates

\* The result of a loop that is left by its end is the one of its history.
LEMMA FinishedIs ==
  ASSUME NEW h, NEW t \in Tasks, NEW n \in Nat, Looping(h, t, n), t.method # "sort",
         t.decided # NoResult \/ t.position > n, array \in Seq(Contents), n = Len(array),
         NEW r,
         r = IF t.decided # NoResult THEN t.decided
             ELSE CASE t.method \in {"transform", "filter"} -> NewArray(t.values)
                    [] t.method \in {"all", "any"} -> Scalar("boolean", t.method = "all")
                    [] t.method = "accumulate" /\ array # <<>> -> Scalar("element", t.values[1])
                    [] OTHER -> Undefined
  PROVE  r = ResultOf(t.method, h, n)
<1> DEFINE m == t.method
           d == h[Len(h)].answer \in DecisiveOf(m)
<1>1. /\ Asked(h, m, n) /\ Len(h) \in Nat /\ h \in Seq(CallbackCalls)
      /\ t.values = BuiltBy(m, h)
      /\ \/ /\ Len(h) # 0 /\ d /\ t.decided = Decision(m, h[Len(h)]) /\ t.decided # NoResult
         \/ /\ Len(h) = n /\ t.decided = NoResult
            /\ \A p \in 1..Len(h) : h[p].answer \notin DecisiveOf(m)
  BY EndedLoop
<1>2. m \in Callbacks
  BY DEF Tasks
<1>3. m \in Predicates => \A p \in 1..Len(h) : h[p].answer \in BOOLEAN
  BY <1>1 DEF Asked
<1>4. array = <<>> <=> n = 0
  BY EmptySeq
<1>5. t.decided # NoResult => r = t.decided
  OBVIOUS
<1>6. t.decided = NoResult =>
        /\ m \in {"transform", "filter"} => r = NewArray(t.values)
        /\ m \in {"all", "any"} => r = Scalar("boolean", m = "all")
        /\ m = "accumulate" => r = IF array # <<>> THEN Scalar("element", t.values[1]) ELSE Undefined
        /\ m \in {"find", "find_last", "find_index", "find_last_index", "for_each"} => r = Undefined
  BY <1>2
<1> HIDE DEF m, d
<1>7. CASE m \in {"transform", "filter"}
  <2>1. t.decided = NoResult
    BY <1>1, <1>7 DEF DecisiveOf, d
  <2>2. r = NewArray(BuiltBy(m, h))
    BY <1>1, <1>6, <1>7, <2>1
  <2>3. QED BY <1>7, <2>2 DEF ResultOf, BuiltBy, m
<1>8. CASE m = "accumulate"
  <2>1. t.decided = NoResult /\ Len(h) = n
    BY <1>1, <1>8 DEF DecisiveOf, d
  <2>2. CASE n = 0
    BY <1>4, <1>6, <1>8, <2>1, <2>2 DEF ResultOf, m
  <2>3. CASE n # 0
    <3>1. t.values = <<h[Len(h)].answer>>
      BY <1>1, <1>8, <2>1, <2>3 DEF BuiltBy
    <3>2. t.values[1] = h[Len(h)].answer
      BY <3>1
    <3>3. r = Scalar("element", h[Len(h)].answer)
      BY <1>4, <1>6, <1>8, <2>1, <2>3, <3>2
    <3>4. QED BY <1>8, <2>3, <3>3 DEF ResultOf, m
  <2>4. QED BY <2>2, <2>3
<1>9. CASE m = "for_each"
  <2>1. t.decided = NoResult
    BY <1>1, <1>9 DEF DecisiveOf, d
  <2>2. QED BY <1>6, <1>9, <2>1 DEF ResultOf, m
<1>10. CASE m \in {"find", "find_last", "find_index", "find_last_index"}
  <2>1. CASE t.decided # NoResult
    BY <1>1, <1>5, <1>10, <2>1 DEF ResultOf, m, d
  <2>2. CASE t.decided = NoResult
    <3>1. ~(Len(h) # 0 /\ d)
      BY <1>1, <2>2 DEF d
    <3>2. QED BY <1>6, <1>10, <2>2, <3>1 DEF ResultOf, m, d
  <2>3. QED BY <2>1, <2>2
<1>11. CASE m = "all"
  <2>1. DecisiveOf(m) = {FALSE} /\ m \in Predicates /\ (m = "all") = TRUE
    BY <1>11 DEF DecisiveOf, Predicates
  <2>2. ResultOf(m, h, n) = Scalar("boolean", \A p \in 1..Len(h) : h[p].answer)
    BY <1>11 DEF ResultOf
  <2>3. CASE t.decided # NoResult
    <3>1. Len(h) # 0 /\ h[Len(h)].answer \in {FALSE} /\ t.decided = Decision(m, h[Len(h)])
      BY <1>1, <2>1, <2>3 DEF d
    <3>2. Len(h) \in 1..Len(h)
      BY <1>1, <3>1
    <3>3. h[Len(h)].answer = FALSE
      BY <3>1, Zenon
    <3>4. (\A p \in 1..Len(h) : h[p].answer) = FALSE
      BY <3>2, <3>3, Zenon
    <3>5. Decision(m, h[Len(h)]) = Scalar("boolean", h[Len(h)].answer)
      BY <1>11 DEF Decision
    <3>6. r = Scalar("boolean", FALSE)
      BY <1>5, <2>3, <3>1, <3>3, <3>5, Zenon
    <3>7. QED BY <2>2, <3>4, <3>6, Zenon DEF m
  <2>4. CASE t.decided = NoResult
    <3>1. \A p \in 1..Len(h) : h[p].answer \in BOOLEAN /\ h[p].answer \notin {FALSE}
      BY <1>1, <1>3, <2>1, <2>4 DEF m
    <3>2. (\A p \in 1..Len(h) : h[p].answer) = TRUE
      BY <3>1, Zenon
    <3>3. r = Scalar("boolean", TRUE)
      BY <1>6, <1>11, <2>1, <2>4, Zenon
    <3>4. QED BY <2>2, <3>2, <3>3, Zenon DEF m
  <2>5. QED BY <2>3, <2>4
<1>12. CASE m = "any"
  <2>1. DecisiveOf(m) = {TRUE} /\ m \in Predicates /\ (m = "all") = FALSE
    BY <1>12 DEF DecisiveOf, Predicates
  <2>2. ResultOf(m, h, n) = Scalar("boolean", \E p \in 1..Len(h) : h[p].answer)
    BY <1>12 DEF ResultOf
  <2>3. CASE t.decided # NoResult
    <3>1. Len(h) # 0 /\ h[Len(h)].answer \in {TRUE} /\ t.decided = Decision(m, h[Len(h)])
      BY <1>1, <2>1, <2>3 DEF d
    <3>2. Len(h) \in 1..Len(h)
      BY <1>1, <3>1
    <3>3. h[Len(h)].answer = TRUE
      BY <3>1, Zenon
    <3>4. (\E p \in 1..Len(h) : h[p].answer) = TRUE
      BY <3>2, <3>3, Zenon
    <3>5. Decision(m, h[Len(h)]) = Scalar("boolean", h[Len(h)].answer)
      BY <1>12 DEF Decision
    <3>6. r = Scalar("boolean", TRUE)
      BY <1>5, <2>3, <3>1, <3>3, <3>5, Zenon
    <3>7. QED BY <2>2, <3>4, <3>6, Zenon DEF m
  <2>4. CASE t.decided = NoResult
    <3>1. \A p \in 1..Len(h) : h[p].answer \in BOOLEAN /\ h[p].answer \notin {TRUE}
      BY <1>1, <1>3, <2>1, <2>4 DEF m
    <3>2. (\E p \in 1..Len(h) : h[p].answer) = FALSE
      BY <3>1, Zenon
    <3>3. r = Scalar("boolean", FALSE)
      BY <1>6, <1>12, <2>1, <2>4, Zenon
    <3>4. QED BY <2>2, <3>2, <3>3, Zenon DEF m
  <2>5. QED BY <2>3, <2>4
<1>13. m \in Callbacks /\ m # "sort"
  BY <1>2 DEF m
<1>14. QED BY <1>7, <1>8, <1>9, <1>10, <1>11, <1>12, <1>13 DEF Callbacks, Predicates

LEMMA ResultsAreNotExceptions ==
  ASSUME NEW m, NEW h, NEW n
  PROVE  ResultOf(m, h, n) # Exception
<1>1. Exception.kind = "exception" /\ Undefined.kind = "undefined"
  BY DEF Exception, Undefined
<1>2. \A values : NewArray(values).kind = "array"
  BY DEF NewArray
<1>3. \A kind \in {"element", "boolean"} : \A v : Scalar(kind, v).kind = kind
  BY DEF Scalar
<1>4. \/ \E values : ResultOf(m, h, n) = NewArray(values)
      \/ \E kind \in {"element", "boolean"} : \E v : ResultOf(m, h, n) = Scalar(kind, v)
      \/ ResultOf(m, h, n) = Undefined
      \/ ResultOf(m, h, n) = Decision(m, h[Len(h)])
  BY DEF ResultOf
<1>5. QED BY <1>1, <1>2, <1>3, <1>4, DecisionsDecide

LEMMA FinishAsks ==
  ASSUME IInv, PermutesInv, AskedInv, Finish
  PROVE  AskedInv'
<1> DEFINE h == History
           m == task.method
           n == Len(array)
           r == IF task.decided # NoResult THEN task.decided
                ELSE CASE task.method \in {"transform", "filter"} -> NewArray(task.values)
                       [] task.method \in {"all", "any"} -> Scalar("boolean", task.method = "all")
                       [] task.method = "accumulate" /\ array # <<>> ->
                            Scalar("element", task.values[1])
                       [] OTHER -> Undefined
<1>1. /\ Running /\ m # "sort" /\ (task.decided # NoResult \/ task.position > n)
      /\ result' = r /\ task' = Idle /\ UNCHANGED <<array, calls, fault>>
  BY DEF Finish, Return
<1>2. task \in Tasks /\ array \in Seq(Contents) /\ n \in Nat
  <2>1. task \in Tasks
    BY <1>1, RunningIsATask
  <2>2. array \in Seq(Contents)
    BY DEF IInv
  <2>3. QED BY <2>1, <2>2
<1>3. Looping(h, task, n) /\ calls.method = m
  BY <1>1 DEF AskedInv, PermutesInv
<1>4. r = ResultOf(m, h, n)
  <2>1. r = r
    OBVIOUS
  <2>2. QED BY <1>1, <1>2, <1>3, FinishedIs
<1>5. /\ Asked(h, m, n) /\ Len(h) \in Nat /\ h \in Seq(CallbackCalls)
      /\ \A p \in 1..Len(h) : ~h[p].threw
  BY <1>1, <1>2, <1>3, EndedLoop
<1>6. Len(h) # n => Len(h) # 0 /\ EndsLoop(m, h[Len(h)])
  BY <1>1, <1>2, <1>3, EndedLoop DEF EndsLoop
<1>7. m \in Callbacks
  BY <1>2 DEF Tasks
<1> HIDE DEF r
<1>8. result' # Exception /\ result' = ResultOf(m, h, n)
  BY <1>1, <1>4, ResultsAreNotExceptions
<1>9. h = calls'.history /\ m = calls'.method /\ n = Len(array') /\ array' \in Seq(Contents)
  BY <1>1, <1>2, <1>3 DEF History
<1>10. m \in Callbacks \ {"sort"} /\ m # "slice"
  BY <1>1, <1>7, CallbacksAreNotSlice
<1> HIDE DEF h, m, n
<1>11. ResultFollowsTheAnswers'
  BY <1>5, <1>8, <1>9, <1>10, ResultIsOf
<1>12. Len(h) # 0 => ~h[Len(h)].threw
  BY <1>5
<1>13. QED BY <1>1, <1>2, <1>5, <1>6, <1>8, <1>9, <1>10, <1>11, <1>12, EndedAsks DEF n

\* Where no loop and no slice has run, the properties of loops and of slice say nothing.
LEMMA OthersAsk ==
  ASSUME NEW m, m = calls'.method, m \notin Callbacks \ {"sort"}, m # "slice",
         Running' => m = task'.method, task' \in Tasks \cup {Idle}
  PROVE  AskedInv'
<1>1. Running' => task'.method = "sort"
  <2>1. \A t \in Tasks : t.method \in Callbacks
    BY DEF Tasks
  <2>2. Running' => task' \in Tasks
    BY DEF Running
  <2>3. QED BY <2>1, <2>2
<1>2. /\ m # "transform" /\ m # "filter" /\ m \notin {"find", "find_last"}
      /\ m \notin {"find_index", "find_last_index"} /\ m # "all" /\ m # "any" /\ m # "accumulate"
  BY DEF Callbacks, Predicates
<1>3. ResultFollowsTheAnswers'
  BY <1>2 DEF ResultFollowsTheAnswers
<1>4. QED BY <1>1, <1>3 DEF AskedInv, EveryElementAskedOnce, SliceIsTheRange

LEMMA BeginAsks ==
  ASSUME IInv, NEW method \in Callbacks, Begin(method)
  PROVE  AskedInv'
<1>1. CASE method = "sort"
  <2>1. calls'.method = "sort" /\ task'.method = "sort"
    BY <1>1, SortBegins
  <2>2. task' \in Tasks \cup {Idle}
    BY BeginStep DEF IInv
  <2>3. QED BY <2>1, <2>2, OthersAsk
<1>2. CASE method # "sort"
  <2>1. /\ task' = Task(method) /\ calls' = Called(method, <<>>) /\ UNCHANGED array
    BY <1>2 DEF Begin
  <2>2. /\ task'.method = method /\ task'.position = 1 /\ task'.decided = NoResult
        /\ task'.values = <<>> /\ calls'.method = method /\ History' = <<>>
    BY <2>1 DEF Task, Called, History
  <2>3. Running' /\ calls'.method # "slice"
    BY <2>2, CallbacksAreNotSlice DEF Running, Idle
  <2>4. Len(array) \in Nat
    BY DEF IInv
  <2> DEFINE e == History'
  <2>5. e \in Seq(CallbackCalls) /\ Len(e) = 0
    BY <2>2
  <2>6. BuiltBy(method, e) = <<>>
    <3>1. Kept(e) = <<>>
      <4>1. \E c : c \in {0}
        OBVIOUS
      <4>2. <<>> \in Seq({0})
        OBVIOUS
      <4>3. QED BY <2>2, <4>1, <4>2, KeptOfAppend, Zenon
    <3>2. Answers_(e) = <<>>
      BY <2>5 DEF Answers_
    <3>3. QED BY <2>5, <3>1, <3>2 DEF BuiltBy
  <2> HIDE DEF e
  <2>7. DecidedBy(method, e) = NoResult
    BY <2>5 DEF DecidedBy
  <2>8. Asked(e, method, Len(array))
    BY <2>4, <2>5 DEF Asked
  <2>9. Looping(e, task', Len(array))
    BY <2>2, <2>5, <2>6, <2>7, <2>8 DEF Looping
  <2>10. Looping(History', task', Len(array'))
    BY <2>1, <2>9 DEF e
  <2>11. QED BY <2>3, <2>10, RunningAsks
<1>3. QED BY <1>1, <1>2

\* The checks of slice let through exactly the ranges of the array.
LEMMA SliceChecksTheRange ==
  ASSUME NEW n \in Nat, n <= MaxLength, n = Len(array), NEW from \in Sizes, NEW to \in Sizes
  PROVE  /\ SliceInRange(from, to) <=> (0 <= from /\ from < to /\ to <= n)
         /\ SliceInRange(from, to) => UInt(from) = from /\ UInt(to) = to
<1>1. /\ UInts \in Nat /\ UInts > MaxLength + 2 /\ MaxLength \in Nat
      /\ from \in Int /\ to \in Int /\ -1 <= from /\ -1 <= to
      /\ from < UInts /\ to < UInts
  BY UIntsAreInRange DEF Sizes
<1>2. \A k \in Int : 0 <= k /\ k < UInts => UInt(k) = k
  BY <1>1, UIntsAreInRange
<1>3. UInt(-1) = UInts - 1
  BY UIntsAreInRange
<1>4. CASE from = -1
  <2>1. UInt(from) = UInts - 1
    BY <1>3, <1>4
  <2>2. UInt(to) \in 0 .. UInts - 1
    BY <1>1, UIntsAreInRange
  <2>3. ~(UInt(from) < UInt(to))
    BY <1>1, <2>1, <2>2
  <2>4. QED BY <1>4, <2>3 DEF SliceInRange
<1>5. CASE from >= 0 /\ to = -1
  <2>1. UInt(to) = UInts - 1
    BY <1>3, <1>5
  <2>2. UInt(UInt(to) - 1) = UInts - 2
    <3>1. UInts - 2 \in Int /\ 0 <= UInts - 2 /\ UInts - 2 < UInts
      BY <1>1
    <3>2. UInt(UInts - 2) = UInts - 2
      BY <1>2, <3>1
    <3>3. UInt(to) - 1 = UInts - 2
      BY <1>1, <2>1
    <3>4. QED BY <3>2, <3>3
  <2>3. ~(UInts - 2 < n)
    BY <1>1
  <2>4. QED BY <1>1, <1>5, <2>2, <2>3 DEF SliceInRange
<1>6. CASE from >= 0 /\ to >= 0
  <2>1. UInt(from) = from /\ UInt(to) = to
    BY <1>1, <1>2, <1>6
  <2>2. CASE from < to
    <3>1. UInt(UInt(to) - 1) = to - 1
      <4>1. to - 1 \in Int /\ 0 <= to - 1 /\ to - 1 < UInts
        BY <1>1, <1>6, <2>2
      <4>2. QED BY <1>2, <2>1, <4>1
    <3>2. SliceInRange(from, to) <=> (from < to /\ from < n /\ to - 1 < n)
      BY <2>1, <3>1 DEF SliceInRange
    <3>3. QED BY <1>1, <1>6, <2>1, <2>2, <3>2
  <2>3. CASE ~(from < to)
    BY <2>1, <2>3 DEF SliceInRange
  <2>4. QED BY <2>2, <2>3
<1>7. QED BY <1>1, <1>4, <1>5, <1>6

LEMMA SliceAsks ==
  ASSUME IInv, NEW from \in Sizes, NEW to \in Sizes, Slice(from, to)
  PROVE  AskedInv'
<1> DEFINE n == Len(array)
<1>1. /\ ~Running /\ UNCHANGED task /\ fault = FALSE
      /\ array \in Seq(Contents) /\ n \in Nat /\ n <= MaxLength
  BY AtOnce DEF Slice
<1>2. UNCHANGED array /\ calls' = Called("slice", <<from, to>>)
  BY DEF Slice, At
<1>3. calls'.method = "slice" /\ calls'.arguments = <<from, to>>
  BY <1>2, CalledIsHistory
<1>4. calls'.arguments[1] = from /\ calls'.arguments[2] = to
  BY <1>3
<1>5. /\ SliceInRange(from, to) <=> (0 <= from /\ from < to /\ to <= n)
      /\ SliceInRange(from, to) => UInt(from) = from /\ UInt(to) = to
  BY <1>1, SliceChecksTheRange
<1>6. result' = IF 0 <= from /\ from < to /\ to <= n
                THEN NewArray(SubSeq(array, from + 1, to)) ELSE Error
  <2>1. CASE SliceInRange(from, to)
    <3>1. UInt(from) = from /\ UInt(to) = to /\ to <= n /\ to \in Int
      BY <1>5, <2>1 DEF Sizes
    <3>2. fault' = (UInt(to) > n)
      BY <2>1 DEF Slice
    <3>3. ~(UInt(to) > n)
      BY <1>1, <3>1
    <3>4. result' = NewArray(SubSeq(array, UInt(from) + 1, UInt(to)))
      BY <2>1, <3>2, <3>3 DEF Slice, Returning
    <3>5. QED BY <1>5, <2>1, <3>1, <3>4
  <2>2. CASE ~SliceInRange(from, to)
    BY <1>5, <2>2 DEF Slice, Returning
  <2>3. QED BY <2>1, <2>2
<1>7. SliceIsTheRange'
  BY <1>2, <1>4, <1>6, Zenon DEF SliceIsTheRange
<1>8. ~Running' /\ calls'.method = "slice"
  BY <1>1, <1>3 DEF Running
<1>9. ResultFollowsTheAnswers' /\ EveryElementAskedOnce'
  BY <1>8, CallbacksAreNotSlice DEF ResultFollowsTheAnswers, EveryElementAskedOnce
<1>10. QED BY <1>7, <1>8, <1>9 DEF AskedInv

LEMMA AtOnceAsks ==
  ASSUME IInv, NEW method \in {"push", "pop", "reverse", "contains", "resize", "fill"},
         NEW arguments, At(method, arguments)
  PROVE  AskedInv'
<1>1. calls' = Called(method, arguments) /\ ~Running /\ UNCHANGED task
  BY DEF At, Ready
<1>2. calls'.method = method /\ ~Running'
  BY <1>1, CalledIsHistory DEF Running
<1>3. method \notin Callbacks /\ method # "slice"
  BY DEF Callbacks, Predicates
<1>4. task' \in Tasks \cup {Idle}
  BY <1>1 DEF IInv
<1>5. QED BY <1>2, <1>3, <1>4, OthersAsk

LEMMA SortAsks ==
  ASSUME IInv, PermutesInv, Habits = {},
         TakeRange \/ PlacePivot \/ Sorted \/ \E answer, after : Compare(answer, after, TRUE)
  PROVE  AskedInv'
<1>1. Running /\ task.method = "sort" /\ calls.method = "sort"
  BY DEF TakeRange, PlacePivot, Sorted, Compare, Sorting, PermutesInv
<1>2. calls'.method = "sort"
  <2>1. CASE \E answer, after : Compare(answer, after, TRUE)
    BY <1>1, <2>1, ComparedHistory
  <2>2. CASE TakeRange \/ PlacePivot \/ Sorted
    BY <1>1, <2>2 DEF TakeRange, PlacePivot, Sorted
  <2>3. QED BY <2>1, <2>2
<1>3. Running' => task'.method = "sort"
  <2>1. Sorted => ~Running'
    BY DEF Sorted, Return, Running
  <2>2. QED BY <2>1, TakeRangeStep, PlacePivotStep, CompareStep
<1>4. IInv'
  BY TakeRangeStep, PlacePivotStep, SortedStep, CompareStep
<1>5. task' \in Tasks \cup {Idle}
  BY <1>4 DEF IInv
<1>6. "sort" # "slice"
  OBVIOUS
<1>7. QED BY <1>2, <1>3, <1>5, OthersAsk

LEMMA DropAsks ==
  ASSUME IInv, Drop
  PROVE  AskedInv'
<1>1. calls' = NoCalls /\ ~Running /\ UNCHANGED task
  BY DEF Drop
<1>2. calls'.method = "none" /\ ~Running'
  BY <1>1, CalledIsHistory DEF NoCalls, Running
<1>3. task' \in Tasks \cup {Idle}
  BY <1>1 DEF IInv
<1>4. QED BY <1>2, <1>3, CallbacksAreNotSlice, OthersAsk

LEMMA InitAsks ==
  ASSUME Init
  PROVE  AskedInv
<1>1. ~Running /\ calls.method = "none" /\ result = NoResult
  BY CalledIsHistory DEF Init, Running, NoCalls
<1>2. QED BY <1>1, CallbacksAreNotSlice
          DEF AskedInv, EveryElementAskedOnce, ResultFollowsTheAnswers, SliceIsTheRange

LEMMA NextAsks ==
  ASSUME IInv, PermutesInv, AskedInv, Habits = {}, [Next]_vars
  PROVE  AskedInv'
<1>1. CASE UNCHANGED vars
  BY <1>1 DEF vars, Running, AskedInv, History, EveryElementAskedOnce, ResultFollowsTheAnswers,
              SliceIsTheRange, Ends, Decisive, Decided, Threw
<1>2. CASE Running /\ Step
  BY <1>2, StepCases, AnswerAsks, ThrowAsks, FinishAsks, SortAsks
<1>3. CASE \E method \in Callbacks : Begin(method)
  BY <1>3, BeginAsks
<1>4. CASE \E front \in BOOLEAN : Pop(front) \/ \E v \in Values : Push(v, front)
  BY <1>4, AtOnceAsks DEF Pop, Push
<1>5. CASE \E v \in Values : Contains_(v) \/ Fill(v)
  BY <1>5, AtOnceAsks DEF Contains_, Fill
<1>6. CASE Reverse_
  BY <1>6, AtOnceAsks DEF Reverse_
<1>7. CASE Drop
  BY <1>7, DropAsks
<1>8. CASE \E from, to \in Sizes : Slice(from, to)
  BY <1>8, SliceAsks
<1>9. CASE \E size \in -1..MaxLength : Resize(size)
  BY <1>9, AtOnceAsks DEF Resize
<1>10. QED BY <1>1, <1>2, <1>3, <1>4, <1>5, <1>6, <1>7, <1>8, <1>9 DEF Next

LEMMA AskedInvariance ==
  ASSUME Habits = {}
  PROVE  Spec => []AskedInv
<1>1. Init => PermutesInv /\ AskedInv
  BY InitPermutes, InitAsks
<1>2. IInv /\ PermutesInv /\ [Next]_vars => PermutesInv'
  BY NextPermutes
<1>3. IInv /\ PermutesInv /\ AskedInv /\ [Next]_vars => AskedInv'
  BY NextAsks
<1>4. QED BY <1>1, <1>2, <1>3, Invariance, PTL DEF Spec

\* Every method that calls back (array_methods.cpp:138-532, 712-786) asks for the elements in order, for
\* none of them twice, and for all of them unless an answer decides or the callback throws,
\* over arrays of every length.
THEOREM ElementsAreAskedOnce ==
  ASSUME Habits = {}
  PROVE  Spec => []EveryElementAskedOnce
<1>1. AskedInv => EveryElementAskedOnce
  BY DEF AskedInv
<1>2. QED BY <1>1, AskedInvariance, PTL

\* Every method returns what its name says: filter keeps exactly the elements it was told to,
\* by the values they have after their calls, the searches return the first or the last
\* match, sort returns its elements in order, and slice the range between its indices or an
\* error (array_methods.cpp:138-786), over arrays of every length and contents.
THEOREM MethodsReturnTheRightResults ==
  ASSUME Habits = {}
  PROVE  Spec => []ResultsAreRight
<1>1. AskedInv /\ SortPermutes /\ SortOrders => ResultsAreRight
  BY DEF AskedInv, ResultsAreRight
<1>2. QED BY <1>1, AskedInvariance, SortKeepsTheElements, SortPutsInOrder, PTL
=============================================================================
