------------------------------ MODULE StateApi ------------------------------
(***************************************************************************)
(* Varjus::State as its two users see it: the thread that loads a script   *)
(* and runs it with ExecuteScript, and another thread that may call Abort  *)
(* and HasFinished while it runs.                                          *)
(*                                                                         *)
(* Of the running script only the control is kept: which functions, blocks *)
(* and loops it is inside of, how many statements each has left, and       *)
(* whether the caller of a function needs a value of it.  An abort is      *)
(* noticed where ExecuteBlock polls the flag, and nowhere else.            *)
(* Each call of Abort and HasFinished is one step, although m_pRuntime and *)
(* m_pReturnValue are read there without synchronisation.                  *)
(***************************************************************************)
EXTENDS Naturals, Sequences

CONSTANTS Modules,        \* number of modules with global variables
          MaxDepth,       \* nesting of functions, blocks and loops
          MaxStatements,  \* statements executed in one pass over a block
          Raises          \* whether the script itself makes runtime errors,
                          \* a missing main function included

ASSUME StateApiAssumption ==
  /\ Modules \in Nat \ {0} /\ MaxDepth \in Nat \ {0} /\ MaxStatements \in Nat
  /\ Raises \in BOOLEAN

VARIABLES linter,    \* m_pLinter is there: a context to load into
          loaded,    \* m_bScriptLoaded
          runtime,   \* m_pRuntime is there
          abort,     \* CProgramRuntime::m_bAbort
          returned,  \* m_pReturnValue is there
          error,     \* m_sErrorMessage is not empty
          pc,        \* "idle", or where CProgramRuntime::Execute is
          globals,   \* modules whose global variables are in use
          stack      \* functions, blocks and loops being executed

vars == <<linter, loaded, runtime, abort, returned, error, pc, globals, stack>>
api == <<linter, loaded, runtime, abort>>

Frame(kind, left, operand) == [kind |-> kind, left |-> left, operand |-> operand]
Frames == [kind : {"function", "block", "loop"}, left : 0 .. MaxStatements,
           operand : BOOLEAN]

Top == stack[Len(stack)]
Pop(s) == SubSeq(s, 1, Len(s) - 1)
HasFinished == runtime /\ returned

-----------------------------------------------------------------------------
(* Loading and starting. *)

Init ==
  /\ linter = TRUE /\ loaded = FALSE
  /\ runtime = FALSE /\ abort = FALSE /\ returned = FALSE /\ error = FALSE
  /\ pc = "idle" /\ globals = 0 /\ stack = <<>>

\* LoadScript and LoadScriptFromFile.  A failure leaves m_bScriptLoaded as an
\* earlier call has set it.
LoadScript ==
  /\ pc = "idle"
  /\ \/ linter /\ loaded' = TRUE /\ UNCHANGED error
     \/ UNCHANGED loaded /\ error' = TRUE
  /\ UNCHANGED <<linter, runtime, abort, returned, pc, globals, stack>>

\* Bug: the linter is handed to the runtime without being given up.
ExecuteScriptKeepingLinter ==
  /\ pc = "idle" /\ linter /\ loaded
  /\ runtime' = TRUE /\ abort' = FALSE
  /\ pc' = "starting"
  /\ UNCHANGED <<linter, loaded, returned, error, globals, stack>>

\* ExecuteScript, up to the search for the main function.  The linter moves
\* into the runtime.
ExecuteScript ==
  /\ pc = "idle" /\ linter /\ loaded
  /\ linter' = FALSE /\ runtime' = TRUE /\ abort' = FALSE
  /\ pc' = "starting"
  /\ UNCHANGED <<loaded, returned, error, globals, stack>>

\* ExecuteScript finds no linter, as an earlier one has taken it, or no loaded
\* script: that error is pushed to the linter and thrown past the embedder's
\* m_sErrorMessage.
ExecuteRefused ==
  /\ pc = "idle" /\ (linter => ~loaded)
  /\ error' = (error \/ ~linter)
  /\ UNCHANGED <<linter, loaded, runtime, abort, returned, pc, globals, stack>>

\* FindMainFunction finds nothing, before any variable is set up.
MissingMain ==
  /\ Raises /\ pc = "starting"
  /\ error' = TRUE /\ pc' = "idle"
  /\ UNCHANGED <<api, returned, globals, stack>>

-----------------------------------------------------------------------------
(* Running.  The instructions of a function execute one after another; only *)
(* blocks go through ExecuteBlock.                                          *)

StartGlobals ==
  /\ pc = "starting"
  /\ pc' = "globals"
  /\ UNCHANGED <<api, returned, error, globals, stack>>

\* SetupGlobalVariables of the next module; its global expressions may call a
\* function.
SetupModule ==
  /\ pc = "globals" /\ stack = <<>> /\ globals < Modules
  /\ globals' = globals + 1
  /\ \/ UNCHANGED stack
     \/ \E left \in 0 .. MaxStatements, operand \in BOOLEAN :
          stack' = <<Frame("function", left, operand)>>
  /\ UNCHANGED <<api, returned, error, pc>>

\* BeginExecution.
StartMain ==
  /\ pc = "globals" /\ stack = <<>> /\ globals = Modules
  /\ pc' = "main"
  /\ \E left \in 0 .. MaxStatements : stack' = <<Frame("function", left, FALSE)>>
  /\ UNCHANGED <<api, returned, error, globals>>

Executing == pc \in {"globals", "main"} /\ stack # <<>>

\* The next statement of the top frame, with whatever it executes on top.
NextStatement(frame) ==
  /\ Executing /\ Top.left > 0 /\ Len(stack) < MaxDepth
  /\ stack' = Append([stack EXCEPT ![Len(stack)].left = @ - 1], frame)
  /\ UNCHANGED <<api, returned, error, pc, globals>>

\* A statement that neither calls a function nor has a block.
PlainStatement ==
  /\ Executing /\ Top.left > 0
  /\ stack' = [stack EXCEPT ![Len(stack)].left = @ - 1]
  /\ UNCHANGED <<api, returned, error, pc, globals>>

\* A statement whose expression calls a function; "operand" when an operator
\* is applied to the result, which then has to be more than undefined.
CallFunction ==
  \E left \in 0 .. MaxStatements, operand \in BOOLEAN :
    NextStatement(Frame("function", left, operand))

\* An if, case, while, repeat or for statement, not to be aborted.
EnterBlock ==
  /\ ~abort
  /\ \E kind \in {"block", "loop"}, left \in 0 .. MaxStatements :
       NextStatement(Frame(kind, left, FALSE))

\* The innermost function under way, and the stack it leaves behind.
Innermost ==
  CHOOSE i \in 1 .. Len(stack) :
    /\ stack[i].kind = "function"
    /\ \A j \in (i + 1) .. Len(stack) : stack[j].kind # "function"
Caller == SubSeq(stack, 1, Innermost - 1)

\* CRuntimeError leaves every frame and every global variable as it is.
RuntimeError ==
  /\ error' = TRUE /\ pc' = "idle" /\ stack' = <<>>
  /\ UNCHANGED <<api, returned, globals>>

\* A function is done: its caller goes on with the next statement.
Leave(callers) ==
  /\ stack' = callers
  /\ pc' = IF callers = <<>> /\ pc = "main" THEN "freeing" ELSE pc
  /\ UNCHANGED <<api, returned, error, globals>>

\* ExecuteBlock returns lc_abort.  Every loop and block hands it on, and the
\* function under way returns undefined in its place, to a caller that knows
\* of no abort.
AbortFunction ==
  /\ Executing /\ abort
  /\ \/ Top.left > 0                        \* about to enter a block
     \/ Top.kind = "loop" /\ Top.left = 0   \* about to repeat one
  /\ IF stack[Innermost].operand THEN RuntimeError ELSE Leave(Caller)

\* Bug: the flag is polled on entry to a loop, not on every pass.
RepeatLoopUnpolled ==
  /\ Executing /\ Top.kind = "loop" /\ Top.left = 0
  /\ \E left \in 0 .. MaxStatements : stack' = [stack EXCEPT ![Len(stack)].left = left]
  /\ UNCHANGED <<api, returned, error, pc, globals>>

\* A loop's condition holds and its block is executed again.
RepeatLoop ==
  /\ Executing /\ Top.kind = "loop" /\ Top.left = 0
  /\ ~abort
  /\ \E left \in 0 .. MaxStatements : stack' = [stack EXCEPT ![Len(stack)].left = left]
  /\ UNCHANGED <<api, returned, error, pc, globals>>

\* A block ends, or a loop whose condition does not hold.
EndBlock ==
  /\ Executing /\ Top.kind \in {"block", "loop"} /\ Top.left = 0
  /\ stack' = Pop(stack)
  /\ UNCHANGED <<api, returned, error, pc, globals>>

\* A function ends or, from whatever block, returns what its caller needs.
Return ==
  /\ Executing /\ (Top.kind = "function" \/ Top.left > 0)
  /\ Leave(Caller)

\* An operand of a wrong type or an uncaught exception.
Fail == Raises /\ Executing /\ RuntimeError

\* FreeGlobalVariables of one module; only a run that returns gets here.
FreeModule ==
  /\ pc = "freeing" /\ globals > 0
  /\ globals' = globals - 1
  /\ UNCHANGED <<api, returned, error, pc, stack>>

\* Bug: the return value is published before the global variables are freed.
FinishEarly ==
  /\ pc = "freeing" /\ (returned => globals = 0)
  /\ returned' = TRUE /\ pc' = IF globals = 0 THEN "idle" ELSE pc
  /\ UNCHANGED <<api, error, globals, stack>>

\* ExecuteScript assigns m_pReturnValue and returns.
Finish ==
  /\ pc = "freeing" /\ globals = 0
  /\ returned' = TRUE /\ pc' = "idle"
  /\ UNCHANGED <<api, error, globals, stack>>

-----------------------------------------------------------------------------
(* The other thread, and the whole. *)

\* Abort: without a runtime the request is refused and forgotten.
Abort ==
  /\ IF runtime THEN abort' = TRUE /\ UNCHANGED error
                ELSE error' = TRUE /\ UNCHANGED abort
  /\ UNCHANGED <<linter, loaded, runtime, returned, pc, globals, stack>>

Running ==
  \/ MissingMain \/ StartGlobals \/ SetupModule \/ StartMain
  \/ PlainStatement \/ CallFunction \/ EnterBlock \/ RepeatLoop \/ EndBlock
  \/ AbortFunction \/ Return \/ Fail \/ FreeModule \/ Finish

Next == LoadScript \/ ExecuteScript \/ ExecuteRefused \/ Running \/ Abort

\* Inside ExecuteScript the thread never waits; nobody has to call anything.
Spec == Init /\ [][Next]_vars /\ WF_vars(Running)

TypeOK ==
  /\ {linter, loaded, runtime, abort, returned, error} \subseteq BOOLEAN
  /\ pc \in {"idle", "starting", "globals", "main", "freeing"}
  /\ globals \in 0 .. Modules
  /\ stack \in Seq(Frames) /\ Len(stack) <= MaxDepth

\* When HasFinished says so, nothing of the script is executing and its global
\* variables have been given back: the caller may destroy the State.
FinishedMeansQuiet == HasFinished => pc = "idle" /\ stack = <<>> /\ globals = 0

\* GetErrorMessage has something to say about every execution that ended
\* without a return value, aborted ones included.
FailedRunsExplained == runtime /\ pc = "idle" /\ ~returned => error

\* What the embedder is told about the end of an execution is true.
EndIsReported == FinishedMeansQuiet /\ FailedRunsExplained

\* Once Abort has been accepted no block is entered or repeated, in no
\* function of any depth.
Blocks == {i \in 1 .. Len(stack) : stack[i].kind # "function"}
NothingEnteredAfterAbort ==
  [][abort => /\ Blocks' \subseteq Blocks
              /\ \A i \in Blocks' : stack'[i].left <= stack[i].left]_vars

\* A finished State stays finished: the value GetReturnValue hands out is not
\* pulled away by another execution.
FinishedForGood == [][HasFinished => HasFinished' /\ pc' = "idle"]_vars

\* An accepted Abort ends the execution, whatever loop or recursion it is in.
AbortedRunsStop == (abort /\ pc # "idle") ~> (pc = "idle")

\* "Use the HasFinished method to wait until the execution ends": it can be
\* waited for after an accepted Abort.
AbortedRunsFinish == (abort /\ pc # "idle") ~> HasFinished
=============================================================================
