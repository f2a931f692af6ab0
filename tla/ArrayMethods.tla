---------------------------- MODULE ArrayMethods ----------------------------
(***************************************************************************)
(* The methods of arrays (types/methods/array_methods.cpp): those that     *)
(* call a function of the script for every element, one call per step, so  *)
(* that the function can answer, throw or assign to the array in between,  *)
(* and those that work in one go.  Values are counted, not named: "live"   *)
(* is how many value objects are out of their pools, and every method says *)
(* what it takes and what it releases.                                     *)
(*                                                                         *)
(* "calls" is the history of the method that runs or ran last; the         *)
(* properties compare its result with it and no action reads it.  The      *)
(* arguments of a method are released by its caller and not counted here.  *)
(***************************************************************************)
EXTENDS Integers, Sequences, FiniteSets, SequencesExt

CONSTANTS Values,         \* contents of elements, integers so that they can be sorted
          MaxLength,      \* bound: length of the array
          MaxAssignments, \* bound: assignments of callbacks to elements, per method call
          UInts,          \* number of unsigned integers, 2^64 in the code
          Habits          \* what scripts do although the methods get it wrong

ASSUME ArrayMethodsAssumption ==
  /\ Values \subseteq Nat \ {0} /\ Values # {}
  /\ MaxLength \in Nat /\ MaxAssignments \in Nat
  /\ Habits \subseteq {"throwInTransform", "throwInSort", "notBoolean",
                       "resizeWithin", "negativeSize"}

Predicates == {"find", "find_last", "find_index", "find_last_index", "filter", "all", "any"}
Callbacks == Predicates \cup {"transform", "for_each", "accumulate", "sort"}

\* An unsigned integer of the script: two's complement.
UInt(n) == n % UInts
ASSUME WidthAssumption == UInts \in Nat /\ MaxLength + 2 < UInts

VARIABLES
  array,  \* the contents of the array, as its variables hold them
  task,   \* the method that is running
  calls,  \* the method called last, its arguments and the calls of its callback
  result, \* what the last method returned, until the script drops it
  live,   \* value objects out of their pools
  fault   \* an access outside of a vector, or an exception no script can catch

vars == <<array, task, calls, result, live, fault>>

Empty == 0 \* the content of an element that is undefined
Contents == Values \cup {Empty}

Idle == [method |-> "none"]
NoResult == [kind |-> "none"]
Called(method, arguments) ==
  [method |-> method, arguments |-> arguments, history |-> <<>>, ordered |-> TRUE]
NoCalls == Called("none", <<>>)
Running == task # Idle

Init ==
  /\ array \in UNION {[1..n -> Values] : n \in 0..MaxLength}
  /\ task = Idle /\ calls = NoCalls /\ result = NoResult
  /\ live = Len(array)
  /\ fault = FALSE

\* Value objects a result stands for: an array owns its elements.
Size(r) ==
  CASE r.kind = "none" -> 0
    [] r.kind = "array" -> 1 + Len(r.values)
    [] OTHER -> 1

Scalar(kind, v) == [kind |-> kind, value |-> v]
NewArray(values) == [kind |-> "array", values |-> values]
Undefined == [kind |-> "undefined"]
Error == [kind |-> "error"]
Exception == [kind |-> "exception"]

\* The script is ready for the next method call.
Ready == ~Running /\ result = NoResult /\ ~fault

\* The method returns r; values it has built or released besides change live.
Return(r, released) ==
  /\ task' = Idle
  /\ result' = r
  /\ live' = live - released + Size(r)

-----------------------------------------------------------------------------
(* Methods that call back *)

\* The last four are of sort only.
Task(method) ==
  [method |-> method, values |-> <<>>, position |-> 1, decided |-> NoResult, assignments |-> 0,
   stack |-> <<>>, low |-> 0, high |-> 0, i |-> 0]

\* The copies to sort, and the stack of ranges that are left to partition.
SortTask == [Task("sort") EXCEPT !.values = array, !.stack = <<<<1, Len(array)>>>>]

Begin(method) ==
  /\ Ready
  /\ task' = IF method = "sort" THEN SortTask ELSE Task(method)
  /\ calls' = Called(method, IF method = "sort" THEN array ELSE <<>>)
  /\ live' = IF method = "sort" THEN live + Len(array)
             ELSE IF method = "accumulate" /\ array # <<>> THEN live + 1
             ELSE live
  /\ UNCHANGED <<array, result, fault>>

\* Mutant: the reverse iterators walk from the front.
FromTheFront == task.position

\* The element the loop is at: the reverse iterators walk from the back.
Backward == task.method \in {"find_last", "find_last_index"}
Element == IF Backward THEN Len(array) + 1 - task.position ELSE task.position

Partitioning == task.low < task.high

\* A callback may assign to an element, and by habit change the length.
AfterCallback ==
  {array}
  \cup (IF task.assignments < MaxAssignments
        THEN {[array EXCEPT ![k] = v] : k \in DOMAIN array, v \in Values} ELSE {})
  \cup (IF "resizeWithin" \notin Habits THEN {}
        ELSE IF Len(array) < MaxLength THEN {Append(array, v) : v \in Values}
        ELSE {Front(array)})

Answers == IF task.method \in Predicates \cup {"sort"} THEN BOOLEAN ELSE Values

Afterwards(after) == [task EXCEPT !.assignments = @ + (IF after = array THEN 0 ELSE 1)]

CallIsDue ==
  /\ Running /\ ~fault
  /\ IF task.method = "sort" THEN Partitioning /\ task.position < task.high
     ELSE task.decided = NoResult /\ task.position <= Len(array)

\* Mutant: the value the callback was given, though it may have been assigned to since.
GivenElement(after) == array[Element]

\* What a method keeps of an element it has asked for: its value by now.
KeptElement(after) == after[Element]

\* What the loop does with an answer it can use; the answer is released again,
\* except by transform, whose result it becomes.
Answered(answer, after) ==
  LET element == KeptElement(after)
      next == [Afterwards(after) EXCEPT !.position = @ + 1]
  IN CASE task.method = "transform" ->
            /\ task' = [next EXCEPT !.values = Append(@, answer)]
            /\ live' = live + 1
       [] task.method = "filter" ->
            /\ task' = IF answer THEN [next EXCEPT !.values = Append(@, element)] ELSE next
            /\ live' = IF answer THEN live + 1 ELSE live
       [] task.method \in {"find", "find_last"} ->
            /\ task' = IF answer THEN [next EXCEPT !.decided = Scalar("element", element)] ELSE next
            /\ UNCHANGED live
       [] task.method \in {"find_index", "find_last_index"} ->
            /\ task' = IF answer THEN [next EXCEPT !.decided = Scalar("index", Element)] ELSE next
            /\ UNCHANGED live
       [] task.method \in {"all", "any"} ->
            /\ task' = IF answer = (task.method = "any")
                       THEN [next EXCEPT !.decided = Scalar("boolean", answer)] ELSE next
            /\ UNCHANGED live
       [] task.method = "accumulate" ->
            /\ task' = [next EXCEPT !.values = <<answer>>]
            /\ UNCHANGED live
       [] OTHER -> task' = next /\ UNCHANGED live

\* The history: the element a callback was given, what it is afterwards, its answer.
Recorded(after, answer, threw) ==
  calls' = [calls EXCEPT !.history =
    Append(@, [index |-> Element, given |-> array[Element],
               left |-> IF Element \in DOMAIN after THEN after[Element] ELSE Empty,
               answer |-> answer, threw |-> threw])]

\* The callback returns.  A vector that changed its length leaves the loop with
\* iterators that are no longer valid.  An answer of a predicate that is no boolean
\* is an error: nothing releases that answer or what the loop has built.
Answer(answer, after, isBoolean) ==
  /\ CallIsDue /\ task.method # "sort" /\ answer \in Answers /\ after \in AfterCallback
  /\ isBoolean \/ ("notBoolean" \in Habits /\ task.method \in Predicates)
  /\ Recorded(after, answer, FALSE)
  /\ array' = after
  /\ fault' = (Len(after) # Len(array))
  /\ IF fault' THEN UNCHANGED <<task, result, live>>
     ELSE IF isBoolean THEN Answered(answer, after) /\ UNCHANGED result
     ELSE Return(Error, -1)

\* Mutant: filter leaves what it has kept.
FilterForgets == IF task.method = "accumulate" THEN 1 ELSE 0

\* What a method that is left by an exception has released: sort releases nothing,
\* and an accumulator went to the callback.
ReleasedOnThrow ==
  CASE task.method = "filter" -> Len(task.values)
    [] task.method = "accumulate" -> 1
    [] OTHER -> 0

\* The callback throws: the loop ends, and the exception is the result.  transform
\* shrinks its results by an index that is never counted up: std::length_error.
Throw(after) ==
  /\ CallIsDue /\ after \in AfterCallback /\ Len(after) = Len(array)
  /\ "throwInTransform" \in Habits \/ task.method # "transform"
  /\ "throwInSort" \in Habits \/ task.method # "sort"
  /\ IF task.method = "sort" THEN UNCHANGED calls
     ELSE Recorded(after, CHOOSE answer \in Answers : TRUE, TRUE)
  /\ array' = after
  /\ fault' = (task.method = "transform")
  /\ Return(Exception, ReleasedOnThrow)

Finish ==
  /\ Running /\ task.method # "sort" /\ ~fault
  /\ task.decided # NoResult \/ task.position > Len(array)
  /\ LET r == IF task.decided # NoResult THEN task.decided
              ELSE CASE task.method \in {"transform", "filter"} -> NewArray(task.values)
                     [] task.method \in {"all", "any"} -> Scalar("boolean", task.method = "all")
                     [] task.method = "accumulate" /\ array # <<>> ->
                          Scalar("element", task.values[1])
                     [] OTHER -> Undefined
         built == IF task.method = "accumulate" THEN (IF array = <<>> THEN 0 ELSE 1)
                  ELSE Len(task.values)
     IN Return(r, built)
  /\ UNCHANGED <<array, calls, fault>>

-----------------------------------------------------------------------------
(* sort: quicksort on copies, its comparisons answered by the callback *)

Sorting == Running /\ task.method = "sort" /\ ~fault

Swap(values, i, j) == [values EXCEPT ![i] = values[j], ![j] = values[i]]

\* Takes the next range; one without two elements is done.
TakeRange ==
  /\ Sorting /\ ~Partitioning /\ task.stack # <<>>
  /\ LET range == Last(task.stack)
     IN task' = [task EXCEPT !.stack = Front(@), !.low = range[1], !.high = range[2],
                             !.i = range[1] - 1, !.position = range[1]]
  /\ UNCHANGED <<array, calls, result, live, fault>>

\* What the comparison says of the element and the pivot: the lower ones go in front.
Compared(answer, after) ==
  /\ calls' = [calls EXCEPT !.ordered =
       @ /\ answer = (task.values[task.position] < task.values[task.high])]
  /\ LET next == [Afterwards(after) EXCEPT !.position = @ + 1]
     IN IF ~answer THEN task' = next /\ UNCHANGED fault
        ELSE /\ fault' = (task.i + 1 \notin DOMAIN task.values)
             /\ task' = IF fault' THEN next
                        ELSE [next EXCEPT !.i = @ + 1, !.values = Swap(@, task.i + 1, task.position)]
  /\ UNCHANGED <<result, live>>

\* Compares an element with the pivot, the last of the range.  An answer that is no
\* boolean is an error: nothing releases that answer or the copies.
Compare(answer, after, isBoolean) ==
  /\ Sorting /\ CallIsDue
  /\ answer \in Answers /\ after \in AfterCallback /\ Len(after) = Len(array)
  /\ isBoolean \/ "notBoolean" \in Habits
  /\ array' = after
  /\ IF isBoolean THEN Compared(answer, after)
     ELSE Return(Error, -1) /\ UNCHANGED <<calls, fault>>

\* Mutant: the pivot stays in the lower part.
PartsWithPivot(pivot) == <<<<task.low, pivot>>, <<pivot + 1, task.high>>>>

Parts(pivot) == <<<<task.low, pivot - 1>>, <<pivot + 1, task.high>>>>

\* The pivot goes between the two parts, which are left to sort.
PlacePivot ==
  /\ Sorting /\ Partitioning /\ task.position = task.high
  /\ LET pivot == task.i + 1
     IN /\ fault' = (pivot \notin DOMAIN task.values)
        /\ task' = [task EXCEPT
             !.values = IF fault' THEN @ ELSE Swap(@, pivot, task.high),
             !.stack = @ \o Parts(pivot),
             !.low = 0, !.high = 0]
  /\ UNCHANGED <<array, calls, result, live>>

Sorted ==
  /\ Sorting /\ ~Partitioning /\ task.stack = <<>>
  /\ Return(NewArray(task.values), Len(task.values))
  /\ UNCHANGED <<array, calls, fault>>

-----------------------------------------------------------------------------
(* Methods that work in one go *)

At(method, arguments) == Ready /\ calls' = Called(method, arguments) /\ UNCHANGED task

Returning(r, more) == result' = r /\ live' = live + more + Size(r)

Push(v, front) ==
  /\ At("push", <<>>) /\ Len(array) < MaxLength
  /\ array' = IF front THEN <<v>> \o array ELSE Append(array, v)
  /\ Returning(Scalar("element", v), 1)
  /\ UNCHANGED fault

Pop(front) ==
  /\ At("pop", <<>>)
  /\ IF array = <<>>
     THEN Returning(Error, 0) /\ UNCHANGED array
     ELSE /\ array' = IF front THEN Tail(array) ELSE Front(array)
          /\ Returning(Scalar("element", IF front THEN Head(array) ELSE Last(array)), -1)
  /\ UNCHANGED fault

Reverse_ ==
  /\ At("reverse", <<>>)
  /\ Returning(NewArray(Reverse(array)), 0)
  /\ UNCHANGED <<array, fault>>

Contains_(v) ==
  /\ At("contains", <<>>)
  /\ Returning(Scalar("boolean", v \in ToSet(array)), 0)
  /\ UNCHANGED <<array, fault>>

\* Mutant: the last index is not checked.
SliceStartInRange(from, to) == UInt(from) < UInt(to) /\ UInt(from) < Len(array)

\* slice(from, to): both unsigned, the last index checked after to - 1.
SliceInRange(from, to) ==
  /\ UInt(from) < UInt(to)
  /\ UInt(from) < Len(array) /\ UInt(UInt(to) - 1) < Len(array)

Slice(from, to) ==
  /\ At("slice", <<from, to>>)
  /\ IF SliceInRange(from, to)
     THEN /\ fault' = (UInt(to) > Len(array))
          /\ Returning(IF fault' THEN Error ELSE NewArray(SubSeq(array, UInt(from) + 1, UInt(to))), 0)
     ELSE Returning(Error, 0) /\ UNCHANGED fault
  /\ UNCHANGED array

\* A negative size reserves more than there can be: std::length_error.
Resize(size) ==
  LET n == UInt(size)
  IN /\ At("resize", <<>>)
     /\ "negativeSize" \in Habits \/ size >= 0
     /\ fault' = (n > MaxLength)
     /\ IF fault' THEN UNCHANGED <<array, result, live>>
        ELSE /\ array' = [k \in 1..n |-> IF k <= Len(array) THEN array[k] ELSE Empty]
             /\ Returning([kind |-> "handle"], n - Len(array))

Fill(v) ==
  /\ At("fill", <<>>)
  /\ array' = [k \in DOMAIN array |-> v]
  /\ Returning([kind |-> "handle"], 0)
  /\ UNCHANGED fault

\* The script releases what a method returned; an exception is caught first.
Drop ==
  /\ ~Running /\ result # NoResult /\ ~fault
  /\ result' = NoResult /\ calls' = NoCalls
  /\ live' = live - Size(result)
  /\ UNCHANGED <<array, task, fault>>

\* One step of the method that runs.
Step ==
  \/ \E after \in AfterCallback :
       \/ Throw(after)
       \/ \E answer \in Answers, isBoolean \in BOOLEAN :
            Compare(answer, after, isBoolean) \/ Answer(answer, after, isBoolean)
  \/ Finish
  \/ TakeRange \/ PlacePivot \/ Sorted

Sizes == -1..(MaxLength + 1)

Next ==
  \/ Running /\ Step
  \/ Drop
  \/ \E method \in Callbacks : Begin(method)
  \/ \E front \in BOOLEAN : Pop(front) \/ \E v \in Values : Push(v, front)
  \/ \E v \in Values : Contains_(v) \/ Fill(v)
  \/ Reverse_
  \/ \E from, to \in Sizes : Slice(from, to)
  \/ \E size \in -1..MaxLength : Resize(size)

\* A method runs until it is done: its callbacks return or throw, and nothing
\* else runs in between.
Fairness == WF_vars(Running /\ Step)

Spec == Init /\ [][Next]_vars /\ Fairness

-----------------------------------------------------------------------------
(* Properties *)

\* The array, the copies of a method and its result hold contents of elements,
\* and no more than the bounds allow.
TypeOK ==
  /\ array \in Seq(Contents) /\ Len(array) <= MaxLength
  /\ live \in Nat /\ fault \in BOOLEAN
  /\ Running => task.method \in Callbacks /\ task.values \in Seq(Contents)
  /\ result.kind = "array" => result.values \in Seq(Contents)

\* No method reads or writes beside its vectors, through iterators a callback has
\* invalidated, or leaves by an exception no script can catch.
NeverOutside == ~fault

\* The vectors hold the right things and are only used within their bounds.
StaysInside == TypeOK /\ NeverOutside

\* Between two calls exactly the elements of the array and what the last method
\* returned are alive, whatever the callbacks answered, assigned or threw.
NothingLeaks == ~Running /\ ~fault => live = Len(array) + Size(result)

History == calls.history
\* The answers that end a method early.
Decisive ==
  CASE calls.method \in {"find", "find_last", "find_index", "find_last_index", "any"} -> {TRUE}
    [] calls.method = "all" -> {FALSE}
    [] OTHER -> {}
Ends(c) == c.threw \/ c.answer \in Decisive
Threw == History # <<>> /\ Last(History).threw
Decided == History # <<>> /\ Ends(Last(History))

\* Every element is asked for at most once, in order, up to the first answer that
\* decides the method or throws; without one every element is asked for.
EveryElementAskedOnce ==
  ~Running /\ calls.method \in Callbacks \ {"sort"} /\ ~fault =>
    /\ \A p \in DOMAIN History :
         /\ History[p].index = IF calls.method \in {"find_last", "find_last_index"}
                               THEN Len(array) + 1 - p ELSE p
         /\ p < Len(History) => ~Ends(History[p])
    /\ Len(History) = Len(array) \/ Decided
    /\ Threw <=> result = Exception

\* What the callback left of the elements it said TRUE of, in the order of the calls.
Kept(history) ==
  LET kept[n \in 0..Len(history)] ==
        IF n = 0 THEN <<>>
        ELSE IF history[n].answer THEN Append(kept[n - 1], history[n].left)
        ELSE kept[n - 1]
  IN kept[Len(history)]

\* What a method returns is what its name says of the answers it was given.
ResultFollowsTheAnswers ==
  ~Running /\ ~fault /\ result # Exception /\ result # NoResult =>
    CASE calls.method = "transform" ->
           result = NewArray([p \in DOMAIN History |-> History[p].answer])
      [] calls.method = "filter" ->
           result = NewArray(Kept(History))
      [] calls.method \in {"find", "find_last"} ->
           result = IF Decided THEN Scalar("element", Last(History).left) ELSE Undefined
      [] calls.method \in {"find_index", "find_last_index"} ->
           result = IF Decided THEN Scalar("index", Last(History).index) ELSE Undefined
      [] calls.method = "all" ->
           result = Scalar("boolean", \A p \in DOMAIN History : History[p].answer)
      [] calls.method = "any" ->
           result = Scalar("boolean", \E p \in DOMAIN History : History[p].answer)
      [] calls.method = "accumulate" ->
           result = IF array = <<>> THEN Undefined
                    ELSE Scalar("element", Last(History).answer)
      [] OTHER -> TRUE

Count(values, v) == Cardinality({k \in DOMAIN values : values[k] = v})

HasSorted == ~Running /\ calls.method = "sort" /\ result.kind = "array"

\* sort returns the elements it was given, each as often as before, whatever the
\* callback answered.
SortPermutes ==
  HasSorted => \A v \in Contents : Count(result.values, v) = Count(calls.arguments, v)

\* sort returns them in order when the callback answered as < does.
SortOrders ==
  HasSorted /\ calls.ordered =>
    \A k \in 1..(Len(result.values) - 1) : result.values[k] <= result.values[k + 1]

\* slice returns the elements from the first index up to the second one, and
\* fails exactly when these are no range of the array.
SliceIsTheRange ==
  calls.method = "slice" =>
    LET from == calls.arguments[1]
        to == calls.arguments[2]
    IN result = IF 0 <= from /\ from < to /\ to <= Len(array)
                THEN NewArray(SubSeq(array, from + 1, to)) ELSE Error

\* Every method returns what the language says of it: by the answers of its callback,
\* in order, or of the range it was given.
ResultsAreRight == ResultFollowsTheAnswers /\ SortPermutes /\ SortOrders /\ SliceIsTheRange

\* Every method comes to its end when its callbacks do, sort too.
MethodsFinish == Running ~> ~Running
=============================================================================
