------------------------------ MODULE Statements ------------------------------
(***************************************************************************)
(* The interpreter of statements.  Every statement returns a pointer: null *)
(* to go on, a value, or one of the small integers lc_break, lc_continue   *)
(* and lc_abort; each statement around it looks at that pointer and at the *)
(* runtime's exception flag and reacts.  The script is any sequence of     *)
(* statements the linter accepts.                                          *)
(*                                                                         *)
(* Of expressions only a call of a script function at their root is kept,  *)
(* and what the statement does with its result.  The iterable of a ranged  *)
(* for neither throws here nor meets a pending exception.  The end         *)
(* expression of a for loop counts as a part of its condition.             *)
(***************************************************************************)
EXTENDS ControlJumps

CONSTANTS MaxDepth,        \* nesting of functions and statements
          MaxStatements,   \* statements the script executes
          Habits           \* what the script does that Varjus does not survive

AllHabits == {"throwInInitializer", "throwInCondition",
              "jumpPastFalseCondition", "errorInMatch"}

ASSUME StatementsAssumption ==
  /\ MaxDepth \in Nat \ {0} /\ MaxStatements \in Nat
  /\ Habits \subseteq AllHabits

VARIABLES stack,      \* functions and statements being executed
          signal,     \* the pointer on its way out of the top of the stack
          thrown,     \* m_bExceptionThrown
          exception,  \* m_pExceptionValue: none, alive, or back in its pool
          abort,      \* WaitingToAbort
          left,       \* statements left to execute
          outcome     \* how the program has ended

vars == <<stack, signal, thrown, exception, abort, left, outcome>>

Loops == {"while", "ranged", "repeat", "repeatWhile"}
Blocks == {"if", "match", "try", "catch"}
Conditional == {"if", "match", "while", "ranged", "repeatWhile"}
Kinds == {"function"} \cup Loops \cup Blocks
Uses == {"statement", "initializer", "return", "throw"}
Codes == {"break", "continue"}

\* "use" is what the caller of a function does with its result.  "code" is the
\* control code that repeat-while keeps while it evaluates its condition.
Frames == [kind : Kinds, phase : {"condition", "body"}, code : Codes \cup {"null"},
           use : Uses \cup {"main", "condition", "iterable", "none"}]
Frame(kind, phase, use) == [kind |-> kind, phase |-> phase, code |-> "null", use |-> use]
Function(use) == Frame("function", "body", use)

Top == stack[Len(stack)]
Pop(s) == SubSeq(s, 1, Len(s) - 1)
Phase(s, phase, code) == [s EXCEPT ![Len(s)].phase = phase, ![Len(s)].code = code]

Running == outcome = "running"
Executing == Running /\ signal = "null" /\ Top.phase = "body"

Init ==
  /\ stack = <<Function("main")>>
  /\ signal = "null" /\ thrown = FALSE /\ exception = "none"
  /\ abort = FALSE /\ left = MaxStatements /\ outcome = "running"

-----------------------------------------------------------------------------
(* Parts of the steps: the new stack, signal and outcome.                   *)

Go(s, rv) == stack' = s /\ signal' = rv /\ UNCHANGED outcome
End(how) == stack' = <<>> /\ signal' = "null" /\ outcome' = how
Keep == UNCHANGED <<thrown, exception>>

\* ExecuteBlock: an abort is noticed here and nowhere else.
EnterBody(s) == Go(Phase(s, "body", "null"), IF abort THEN "abort" ELSE "null")

\* A CRuntimeError leaves every C++ function up to ExecuteScript, but
\* GetCaseIndex is noexcept.
InCaseIndex ==
  \E i \in 1 .. Len(stack) : stack[i].kind = "match" /\ stack[i].phase = "condition"
RuntimeError ==
  IF InCaseIndex THEN "errorInMatch" \in Habits /\ End("terminated")
                 ELSE End("error")

\* Where the script lets no exception pass on its way to a try block.
Guarded ==
  {"iterable"} \cup (IF "throwInInitializer" \in Habits THEN {} ELSE {"initializer"})
               \cup (IF "throwInCondition" \in Habits THEN {} ELSE {"condition"})
MayThrow(use) ==
  use = "throw" =>
    \A i \in 1 .. Len(stack) : stack[i].use \in Guarded =>
      \E j \in (i + 1) .. Len(stack) : stack[j].kind = "try"

\* The condition of the topmost statement of s has been evaluated.  A pending
\* exception is what it evaluates to: like every value without an owner it is
\* released once it has been used.
Test(s) ==
  LET f == s[Len(s)]
  IN  /\ exception' = IF thrown THEN "freed" ELSE exception
      /\ UNCHANGED thrown
      /\ \/ f.kind # "match" /\ RuntimeError           \* nothing to be tested
         \/ f.kind = "match" /\ ~thrown /\ Go(s, "null")      \* the next case
         \/ f.code # "break" /\ EnterBody(s)
         \/ f.code # "continue" /\ Go(Pop(s), "null")
         \/ /\ f.code # "null" /\ "jumpPastFalseCondition" \in Habits
            /\ Go(Pop(s), f.code)

\* Bug: an expression statement releases its value, exception or not.
DiscardReleasing(s) ==
  /\ Go(s, "null")
  /\ exception' = IF thrown THEN "freed" ELSE exception
  /\ UNCHANGED thrown

\* An expression statement hands a pending exception on.
Discard(s) == Go(s, IF thrown THEN "value" ELSE "null") /\ Keep

\* An initializer copies the value and releases it.
Initialize(s) ==
  /\ Go(s, "null")
  /\ exception' = IF thrown THEN "freed" ELSE exception
  /\ UNCHANGED thrown

\* A value thrown anew, or the exception met while it was evaluated.
Throw(s) ==
  /\ Go(s, "value")
  /\ thrown' = TRUE
  /\ exception' = IF thrown THEN exception ELSE "alive"

\* What becomes of an expression's value in the topmost block of s.
Use(use, s) ==
  \/ use = "statement" /\ Discard(s)
  \/ use = "initializer" /\ Initialize(s)
  \/ use = "return" /\ Go(s, "value") /\ Keep
  \/ use = "throw" /\ Throw(s)
  \/ use \in {"condition", "iterable"} /\ Test(s)

\* A loop goes on: with its condition, its next member or its block.
Iterate(code) ==
  \/ Top.kind \in {"while", "repeatWhile"} /\ Go(Phase(stack, "condition", code), "null")
  \/ Top.kind \in {"ranged", "repeat"} /\ EnterBody(stack)
  \/ Top.kind = "ranged" /\ Go(Pop(stack), "null")

-----------------------------------------------------------------------------
(* The statements of the script.                                            *)

NextStatement == Executing /\ left > 0 /\ left' = left - 1 /\ UNCHANGED abort

Evaluate(use) == NextStatement /\ MayThrow(use) /\ Use(use, stack)

Push(frame) == Len(stack) < MaxDepth /\ Go(Append(stack, frame), "null") /\ Keep

\* With an exception pending, Evaluate returns it and calls nothing.
CallFunction(use) ==
  NextStatement /\ ~thrown /\ MayThrow(use) /\ Push(Function(use))

\* Bug: a function inherits the loop it is called in.
LoopControlAnywhere(code) ==
  /\ NextStatement
  /\ \E i \in 1 .. Len(stack) : stack[i].kind \in Loops
  /\ Go(stack, code) /\ Keep

\* The linter accepts break and continue within a loop of the same function.
LoopControl(code) ==
  /\ NextStatement
  /\ \E i \in 1 .. Len(stack) :
       /\ stack[i].kind \in Loops
       /\ \A j \in (i + 1) .. Len(stack) : stack[j].kind # "function"
  /\ Go(stack, code) /\ Keep

EnterConditional(kind) ==
  /\ NextStatement
  /\ kind = "ranged" => ~thrown
  /\ Push(Frame(kind, "condition", "none"))

EnterTry == NextStatement /\ Push(Frame("try", "body", "none"))

EnterRepeat(kind) ==
  /\ NextStatement /\ Len(stack) < MaxDepth
  /\ EnterBody(Append(stack, Frame(kind, "body", "none"))) /\ Keep

\* The condition itself, or the iterable of a ranged for.
Testing == Running /\ signal = "null" /\ Top.phase = "condition"
EvaluateCondition == Testing /\ Test(stack) /\ UNCHANGED <<abort, left>>
CallInCondition ==
  /\ Testing /\ ~thrown /\ left > 0
  /\ Push(Function(IF Top.kind = "ranged" THEN "iterable" ELSE "condition"))
  /\ left' = left - 1 /\ UNCHANGED abort

\* The last statement of a block was executed.
EndBlock ==
  /\ Executing
  /\ \/ Top.kind = "function" /\ Go(stack, "undefined")
     \/ Top.kind \in Blocks /\ Go(Pop(stack), "null")
     \/ Iterate("null")
  /\ Keep /\ UNCHANGED <<abort, left>>

Fail == (Executing \/ Testing) /\ ~thrown /\ RuntimeError /\ Keep /\ UNCHANGED <<abort, left>>

-----------------------------------------------------------------------------
(* The pointer on its way out.                                              *)

Unwinding == Running /\ signal # "null" /\ UNCHANGED <<abort, left>>

LeaveLoop ==
  /\ Unwinding /\ Top.kind \in Loops \ {"repeatWhile"} /\ signal = "break"
  /\ Go(Pop(stack), "null") /\ Keep

ContinueLoop ==
  /\ Unwinding /\ Top.kind \in Loops \ {"repeatWhile"} /\ signal = "continue"
  /\ Iterate("null") /\ Keep

\* repeat-while evaluates its condition before it obeys.
RepeatWhile ==
  /\ Unwinding /\ Top.kind = "repeatWhile" /\ signal \in Codes
  /\ Iterate(signal) /\ Keep

\* Bug: every value that leaves a try block counts as an exception.
CatchAnything ==
  /\ Unwinding /\ Top.kind = "try" /\ (thrown \/ signal = "value")
  /\ Go(Append(Pop(stack), Frame("catch", "body", "none")), "null")
  /\ thrown' = FALSE /\ exception' = "none"

\* ExecuteCatchBlock copies the exception into the catch variable.
CatchException ==
  /\ Unwinding /\ Top.kind = "try" /\ thrown
  /\ Go(Append(Pop(stack), Frame("catch", "body", "none")), "null")
  /\ thrown' = FALSE /\ exception' = "none"

\* Bug: repeat takes an abort for continue.
PassOnRepeating ==
  /\ Unwinding
  /\ IF Top.kind = "repeat" /\ signal = "abort" THEN EnterBody(stack)
     ELSE /\ Top.kind \in Blocks \cup Loops /\ ~(Top.kind = "try" /\ thrown)
          /\ Top.kind \in Loops => signal \notin Codes
          /\ Go(Pop(stack), signal)
  /\ Keep

\* Everything else hands the pointer on.
PassOn ==
  /\ Unwinding
  /\ \/ Top.kind \in Blocks /\ ~(Top.kind = "try" /\ thrown)
     \/ Top.kind \in Loops /\ signal \notin Codes
  /\ Go(Pop(stack), signal) /\ Keep

\* A function that was aborted returns undefined.  A control code would be
\* taken for a pointer to a value.
LeaveFunction ==
  /\ Unwinding /\ Top.kind = "function" /\ signal \notin Codes
  /\ \/ /\ Top.use = "main"
        /\ End(IF thrown /\ signal = "value" THEN "error" ELSE "returned") /\ Keep
     \/ Use(Top.use, Pop(stack))

-----------------------------------------------------------------------------
\* Another thread asks for the end.
Abort ==
  /\ Running /\ ~abort
  /\ abort' = TRUE
  /\ UNCHANGED <<stack, signal, thrown, exception, left, outcome>>

Ended == ~Running /\ UNCHANGED vars

Unwind ==
  \/ LeaveLoop \/ ContinueLoop \/ RepeatWhile \/ CatchException \/ PassOn \/ LeaveFunction

Next ==
  \/ \E use \in Uses : Evaluate(use) \/ CallFunction(use)
  \/ \E code \in Codes : LoopControl(code)
  \/ \E kind \in Conditional : EnterConditional(kind)
  \/ \E kind \in {"repeat", "repeatWhile"} : EnterRepeat(kind)
  \/ EnterTry \/ EvaluateCondition \/ CallInCondition \/ EndBlock \/ Fail
  \/ Unwind \/ Abort \/ Ended

\* The interpreter does not wait between two statements around a jump.
Spec == Init /\ [][Next]_vars /\ WF_vars(Unwind)

-----------------------------------------------------------------------------
\* The variables have their types; main is at the bottom of the stack and
\* nowhere else, and only a repeat-while that evaluates its condition keeps a
\* control code.
TypeOK ==
  /\ stack \in Seq(Frames) /\ Len(stack) <= MaxDepth
  /\ signal \in Codes \cup {"null", "abort", "value", "undefined"}
  /\ thrown \in BOOLEAN /\ exception \in {"none", "alive", "freed"}
  /\ abort \in BOOLEAN /\ left \in 0 .. MaxStatements
  /\ outcome \in {"running", "returned", "error", "terminated"}
  /\ (outcome = "running") <=> (stack # <<>>)
  /\ \A i \in 1 .. Len(stack) :
       /\ (i = 1) <=> (stack[i].use = "main")
       /\ stack[i].code # "null" => stack[i].kind = "repeatWhile" /\ stack[i].phase = "condition"

\* An exception that was thrown is on its way to a handler, alive, until the
\* handler has it: no statement, of no function in between, is executed while
\* it is pending, and none is left over afterwards (the assertion at the start
\* of CRuntimeExpression::Evaluate).
ExceptionOnItsWay ==
  Running => IF thrown THEN signal = "value" /\ exception = "alive"
                       ELSE exception = "none"

\* No control code ever leaves the function it was executed in, which would
\* dereference it.
CodesStayInLoops == Running /\ Top.kind = "function" => signal \notin Codes

\* What a try statement catches has not been destroyed (the assertion in
\* ExecuteCatchBlock).
CaughtExceptionIsAlive ==
  Running /\ signal # "null" /\ thrown /\ Top.kind = "try" => exception = "alive"

\* ExecuteScript returns to its caller, whatever the script does.
ErrorsAreReported == outcome # "terminated"

\* A jump arrives: no chain of blocks keeps the pointer among themselves.
JumpsArrive == (signal # "null") ~> (signal = "null")

\* The detailed program seen as a structured one: a jump that is under way has
\* already happened.
Place(frame) ==
  CASE frame.kind \in {"function", "try"} -> frame.kind
    [] frame.kind \in Loops -> IF frame.code = "break" THEN "left" ELSE "loop"
    [] OTHER -> "block"

JumpUnderWay ==
  CASE signal = "null" -> "stay"
    [] signal \in Codes -> signal
    [] signal = "value" /\ thrown -> "throw"
    [] OTHER -> "return"

Places ==
  IF Running THEN After([i \in 1 .. Len(stack) |-> Place(stack[i])], JumpUnderWay)
  ELSE IF outcome = "returned" THEN Returned ELSE Error

Control == INSTANCE StructuredControl WITH places <- Places

\* Handing pointers from block to block implements structured control: every
\* break, continue, return and throw leads where it should.
ImplementsStructuredControl == Control!Spec
=============================================================================
