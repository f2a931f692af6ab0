--------------------------- MODULE Statements_proof ---------------------------
(***************************************************************************)
(* Proofs about Statements for every nesting, every number of statements   *)
(* and every habit a theorem does not exclude.                             *)
(***************************************************************************)
EXTENDS Statements, SequenceTheorems, WellFoundedInduction, TLAPS

Signals == Codes \cup {"null", "abort", "value", "undefined"}
Exceptions == {"none", "alive", "freed"}

\* Only a repeat-while that evaluates its condition keeps a control code.
KeepsCode(kind, phase, code) ==
  code # "null" => kind = "repeatWhile" /\ phase = "condition"

\* Only functions have a use, main is at the bottom, and a function called by a
\* condition lies on the statement it belongs to.
WellPlaced(s, i) ==
  /\ (i = 1) <=> (s[i].use = "main")
  /\ (s[i].kind = "function") <=> (s[i].use # "none")
  /\ s[i].phase = "condition" => s[i].kind \in Conditional
  /\ KeepsCode(s[i].kind, s[i].phase, s[i].code)
  /\ s[i].use \in {"condition", "iterable"} => s[i - 1].phase = "condition"
WellFormed(s) == s \in Seq(Frames) /\ \A i \in 1 .. Len(s) : WellPlaced(s, i)

Core ==
  /\ WellFormed(stack) /\ Len(stack) <= MaxDepth
  /\ signal \in Signals /\ thrown \in BOOLEAN /\ exception \in Exceptions
  /\ outcome \in {"running", "returned", "error", "terminated"}
  /\ Running <=> (stack # <<>>)

IInv == Core /\ abort \in BOOLEAN /\ left \in 0 .. MaxStatements

-----------------------------------------------------------------------------
(* Stacks.                                                                  *)

LEMMA NonEmpty ==
  ASSUME NEW s, WellFormed(s), s # <<>>
  PROVE  /\ s \in Seq(Frames) /\ Len(s) \in Nat /\ Len(s) > 0
         /\ Len(s) \in 1 .. Len(s) /\ s[Len(s)] \in Frames
<1>1. s \in Seq(Frames)
  BY DEF WellFormed
<1>2. Len(s) \in Nat /\ Len(s) > 0
  BY <1>1, EmptySeq
<1>3. Len(s) \in 1 .. Len(s)
  BY <1>2
<1>4. s[Len(s)] \in Frames
  BY <1>1, <1>3
<1>5. QED BY <1>1, <1>2, <1>3, <1>4

\* What is called by a condition is not at the bottom.
LEMMA CalledByCondition ==
  ASSUME NEW s, NEW n \in Nat, NEW i \in 1 .. n, WellPlaced(s, i),
         s[i].use \in {"condition", "iterable"}
  PROVE  i - 1 \in 1 .. n /\ i - 1 # n
<1>1. s[i].use # "main"
  OBVIOUS
<1>2. i # 1
  BY <1>1 DEF WellPlaced
<1>3. QED BY <1>2

\* A statement that is done leaves a well-formed stack behind.
LEMMA PopWellFormed ==
  ASSUME NEW s, WellFormed(s), s # <<>>
  PROVE  /\ WellFormed(Pop(s)) /\ Len(Pop(s)) = Len(s) - 1
         /\ \A i \in 1 .. Len(s) - 1 : Pop(s)[i] = s[i]
         /\ Len(s) > 1 => Pop(s) # <<>>
<1> DEFINE n == Len(s) - 1
           t == Pop(s)
<1>1. s \in Seq(Frames) /\ n \in Nat /\ Len(s) = n + 1
  BY NonEmpty
<1>2. \A i \in 1 .. n : s[i] \in Frames
  BY <1>1
<1>3. t = SubSeq(s, 1, n)
  BY DEF Pop
<1> HIDE DEF n, t
<1>4. t \in Seq(Frames) /\ Len(t) = n /\ \A i \in 1 .. n : t[i] = s[i]
  <2>1. 1 \in Int /\ n \in Int
    BY <1>1
  <2>2. /\ t \in Seq(Frames)
        /\ Len(t) = IF 1 <= n THEN n - 1 + 1 ELSE 0
        /\ \A i \in 1 .. n - 1 + 1 : t[i] = s[1 + i - 1]
    BY <1>2, <1>3, <2>1, SubSeqProperties
  <2>3. Len(t) = n
    BY <1>1, <2>2
  <2>4. ASSUME NEW i \in 1 .. n PROVE t[i] = s[i]
    <3>1. i \in 1 .. n - 1 + 1 /\ 1 + i - 1 = i
      BY <1>1
    <3>2. QED BY <2>2, <3>1
  <2>5. QED BY <2>2, <2>3, <2>4
<1>5. ASSUME NEW i \in 1 .. n PROVE WellPlaced(t, i)
  <2>1. WellPlaced(s, i) /\ t[i] = s[i]
    BY <1>1, <1>4 DEF WellFormed
  <2>2. s[i].use \in {"condition", "iterable"} => t[i - 1] = s[i - 1]
    BY <1>1, <1>4, <2>1, CalledByCondition
  <2>3. QED BY <2>1, <2>2 DEF WellPlaced
<1>6. n > 0 => t # <<>>
  BY <1>4, EmptySeq
<1>7. QED BY <1>1, <1>4, <1>5, <1>6 DEF WellFormed, n, t

\* What a statement puts on top keeps the stack well-formed.
LEMMA AppendWellFormed ==
  ASSUME NEW s, WellFormed(s), s # <<>>,
         NEW f \in Frames, f.use # "main",
         f.kind = "function" <=> f.use # "none",
         f.phase = "condition" => f.kind \in Conditional,
         KeepsCode(f.kind, f.phase, f.code),
         f.use \in {"condition", "iterable"} => s[Len(s)].phase = "condition"
  PROVE  /\ WellFormed(Append(s, f)) /\ Append(s, f) # <<>>
         /\ Len(Append(s, f)) = Len(s) + 1
         /\ Append(s, f)[Len(s) + 1] = f
         /\ \A i \in 1 .. Len(s) : Append(s, f)[i] = s[i]
<1> DEFINE n == Len(s)
           t == Append(s, f)
<1>1. s \in Seq(Frames) /\ n \in Nat /\ n > 0
  BY NonEmpty
<1>2. /\ t \in Seq(Frames) /\ t # <<>> /\ Len(t) = n + 1 /\ t[n + 1] = f
      /\ \A i \in 1 .. n : t[i] = s[i]
  BY <1>1, AppendProperties
<1> HIDE DEF n, t
<1>3. ASSUME NEW i \in 1 .. n + 1 PROVE WellPlaced(t, i)
  <2>1. CASE i = n + 1
    <3>1. i # 1 /\ t[i] = f /\ t[i - 1] = s[n]
      BY <1>1, <1>2, <2>1
    <3>2. QED BY <3>1 DEF WellPlaced, n
  <2>2. CASE i # n + 1
    <3>1. i \in 1 .. n
      BY <1>1, <2>2
    <3>2. WellPlaced(s, i) /\ t[i] = s[i]
      BY <1>2, <3>1 DEF WellFormed, n
    <3>3. s[i].use \in {"condition", "iterable"} => t[i - 1] = s[i - 1]
      BY <1>1, <1>2, <3>1, <3>2, CalledByCondition
    <3>4. QED BY <3>2, <3>3 DEF WellPlaced
  <2>3. QED BY <2>1, <2>2
<1>4. QED BY <1>2, <1>3 DEF WellFormed, n, t

\* One frame of a stack is replaced.
LEMMA Replaced ==
  ASSUME NEW s \in Seq(Frames), Len(s) \in 1 .. Len(s),
         NEW phase \in {"condition", "body"}, NEW code \in Codes \cup {"null"}
  PROVE  /\ Phase(s, phase, code) \in Seq(Frames)
         /\ Len(Phase(s, phase, code)) = Len(s)
         /\ \A j \in 1 .. Len(s) : j # Len(s) => Phase(s, phase, code)[j] = s[j]
         /\ Phase(s, phase, code)[Len(s)].kind = s[Len(s)].kind
         /\ Phase(s, phase, code)[Len(s)].use = s[Len(s)].use
         /\ Phase(s, phase, code)[Len(s)].phase = phase
         /\ Phase(s, phase, code)[Len(s)].code = code
<1>1. s[Len(s)] \in Frames
  OBVIOUS
<1> DEFINE h == [[s[Len(s)] EXCEPT !.phase = phase] EXCEPT !.code = code]
<1>6. /\ h \in Frames /\ h.kind = s[Len(s)].kind /\ h.use = s[Len(s)].use
      /\ h.phase = phase /\ h.code = code
  BY <1>1 DEF Frames
<1>2. PICK g \in Frames : /\ g = h
                          /\ g.kind = s[Len(s)].kind /\ g.use = s[Len(s)].use
                          /\ g.phase = phase /\ g.code = code
  <2> HIDE DEF h
  <2>1. QED BY <1>6
<1>3. Phase(s, phase, code) = [s EXCEPT ![Len(s)] = g]
  BY <1>2, LenProperties DEF Phase
<1>4. /\ [s EXCEPT ![Len(s)] = g] \in Seq(Frames) /\ Len([s EXCEPT ![Len(s)] = g]) = Len(s)
      /\ \A j \in 1 .. Len(s) : j # Len(s) => [s EXCEPT ![Len(s)] = g][j] = s[j]
      /\ [s EXCEPT ![Len(s)] = g][Len(s)] = g
  OBVIOUS
<1>5. QED BY <1>2, <1>3, <1>4

\* The topmost statement enters its condition or its block.
LEMMA PhaseWellFormed ==
  ASSUME NEW s, WellFormed(s), s # <<>>,
         NEW phase \in {"condition", "body"}, NEW code \in Codes \cup {"null"},
         phase = "condition" => s[Len(s)].kind \in Conditional,
         KeepsCode(s[Len(s)].kind, phase, code)
  PROVE  /\ WellFormed(Phase(s, phase, code)) /\ Phase(s, phase, code) # <<>>
         /\ Len(Phase(s, phase, code)) = Len(s)
         /\ \A i \in 1 .. Len(s) :
              /\ Phase(s, phase, code)[i].kind = s[i].kind
              /\ Phase(s, phase, code)[i].use = s[i].use
<1> DEFINE n == Len(s)
           t == Phase(s, phase, code)
<1>1. s \in Seq(Frames) /\ n \in Nat /\ n > 0 /\ n \in 1 .. n
  BY NonEmpty
<1>2. /\ t \in Seq(Frames) /\ Len(t) = n
      /\ \A i \in 1 .. n : i # n => t[i] = s[i]
      /\ t[n].kind = s[n].kind /\ t[n].use = s[n].use /\ t[n].phase = phase /\ t[n].code = code
  BY <1>1, Replaced
<1> HIDE DEF t
<1>3. ASSUME NEW i \in 1 .. n
      PROVE  WellPlaced(t, i) /\ t[i].kind = s[i].kind /\ t[i].use = s[i].use
  <2>1. WellPlaced(s, i)
    BY DEF WellFormed
  <2>2. s[i].use \in {"condition", "iterable"} => t[i - 1] = s[i - 1]
    <3>1. SUFFICES ASSUME s[i].use \in {"condition", "iterable"}
                   PROVE  t[i - 1] = s[i - 1]
      OBVIOUS
    <3>2. i - 1 \in 1 .. n /\ i - 1 # n
      BY <1>1, <2>1, <3>1, CalledByCondition
    <3>3. QED BY <1>2, <3>2
  <2>3. CASE i = n
    BY <1>2, <2>1, <2>2, <2>3 DEF WellPlaced
  <2>4. CASE i # n
    BY <1>2, <2>1, <2>2, <2>4 DEF WellPlaced
  <2>5. QED BY <2>3, <2>4
<1>4. t # <<>>
  BY <1>1, <1>2, EmptySeq
<1>5. QED BY <1>2, <1>3, <1>4 DEF WellFormed, t
-----------------------------------------------------------------------------
(* The parts the steps are made of.  Each moves to a usable stack.          *)

Usable(s) == WellFormed(s) /\ s # <<>> /\ Len(s) <= MaxDepth
Flags == thrown \in BOOLEAN /\ exception \in Exceptions

LEMMA GoCore ==
  ASSUME NEW s, NEW rv \in Signals, Core, Running, Usable(s), Go(s, rv), Flags'
  PROVE  Core'
BY DEF Core, Go, Usable, Flags, Running

LEMMA EndCore ==
  ASSUME NEW how \in {"returned", "error", "terminated"}, End(how), Flags'
  PROVE  Core'
<1>1. WellFormed(<<>>) /\ Len(<<>>) = 0
  BY EmptySeq DEF WellFormed
<1>2. 0 <= MaxDepth
  BY StatementsAssumption
<1>3. QED BY <1>1, <1>2 DEF Core, End, Flags, Running, Signals

LEMMA RuntimeErrorCore ==
  ASSUME RuntimeError, Flags'
  PROVE  Core'
<1>1. PICK how \in {"error", "terminated"} : End(how)
  BY DEF RuntimeError
<1>2. QED BY <1>1, EndCore

\* Something that is not main lies on something.
LEMMA PopUsable ==
  ASSUME NEW s, Usable(s), s[Len(s)].use # "main"
  PROVE  Usable(Pop(s)) /\ Len(Pop(s)) = Len(s) - 1
<1>1. Len(s) \in Nat /\ Len(s) > 0 /\ Len(s) \in 1 .. Len(s)
  BY NonEmpty DEF Usable
<1>2. Len(s) # 1
  BY <1>1 DEF Usable, WellFormed, WellPlaced
<1>3. MaxDepth \in Nat
  BY StatementsAssumption
<1>4. WellFormed(Pop(s)) /\ Len(Pop(s)) = Len(s) - 1 /\ Pop(s) # <<>>
  <2>1. Len(s) > 1
    BY <1>1, <1>2
  <2>2. QED BY <2>1, PopWellFormed DEF Usable
<1>5. Len(s) <= MaxDepth
  BY DEF Usable
<1>6. Len(s) - 1 <= MaxDepth
  BY <1>1, <1>3, <1>5
<1>7. QED BY <1>4, <1>6 DEF Usable

\* What is no function is not main.
LEMMA NotMain ==
  ASSUME NEW s, Usable(s), s[Len(s)].kind # "function"
  PROVE  s[Len(s)].use # "main"
<1>1. WellPlaced(s, Len(s))
  BY NonEmpty DEF Usable, WellFormed
<1>2. QED BY <1>1 DEF WellPlaced

\* What evaluates its condition is a conditional statement, not a function.
LEMMA InCondition ==
  ASSUME NEW s, Usable(s), s[Len(s)].phase = "condition"
  PROVE  /\ s[Len(s)].kind \in Conditional /\ s[Len(s)].kind # "function"
         /\ s[Len(s)].code \in Codes \cup {"null"}
<1>1. WellPlaced(s, Len(s)) /\ s[Len(s)] \in Frames
  BY NonEmpty DEF Usable, WellFormed
<1>2. QED BY <1>1 DEF WellPlaced, Conditional, Frames

LEMMA EnterBodyCore ==
  ASSUME NEW s, Core, Running, Usable(s), EnterBody(s), Flags'
  PROVE  Core'
<1> DEFINE t == Phase(s, "body", "null")
<1>1. Usable(t)
  <2>1. KeepsCode(s[Len(s)].kind, "body", "null")
    BY DEF KeepsCode
  <2>2. QED BY <2>1, PhaseWellFormed DEF Usable
<1>2. PICK rv \in {"abort", "null"} : Go(t, rv)
  BY DEF EnterBody
<1> HIDE DEF t
<1>3. QED BY <1>1, <1>2, GoCore DEF Signals

LEMMA TestCore ==
  ASSUME NEW s, Core, Running, Usable(s), s[Len(s)].phase = "condition", Test(s)
  PROVE  Core'
<1>1. Flags'
  BY DEF Core, Test, Flags, Exceptions
<1>2. Usable(Pop(s))
  BY InCondition, NotMain, PopUsable
<1>3. CASE RuntimeError
  BY <1>1, <1>3, RuntimeErrorCore
<1>4. CASE Go(s, "null")
  BY <1>1, <1>4, GoCore DEF Signals
<1>5. CASE EnterBody(s)
  BY <1>1, <1>5, EnterBodyCore
<1>6. CASE Go(Pop(s), "null")
  BY <1>1, <1>2, <1>6, GoCore DEF Signals
<1>7. CASE Go(Pop(s), s[Len(s)].code)
  <2>1. s[Len(s)].code \in Signals
    BY InCondition DEF Signals
  <2>2. QED BY <1>1, <1>2, <1>7, <2>1, GoCore
<1>8. QED BY <1>3, <1>4, <1>5, <1>6, <1>7 DEF Test

LEMMA UseCore ==
  ASSUME NEW s, NEW use, Core, Running, Usable(s), Use(use, s),
         use \in {"condition", "iterable"} => s[Len(s)].phase = "condition"
  PROVE  Core'
<1>1. thrown \in BOOLEAN /\ exception \in Exceptions
  BY DEF Core
<1>2. CASE use = "statement" /\ Discard(s)
  BY <1>1, <1>2, GoCore DEF Discard, Keep, Flags, Signals
<1>3. CASE use = "initializer" /\ Initialize(s)
  BY <1>1, <1>3, GoCore DEF Initialize, Flags, Signals, Exceptions
<1>4. CASE use = "return" /\ Go(s, "value") /\ Keep
  BY <1>1, <1>4, GoCore DEF Keep, Flags, Signals
<1>5. CASE use = "throw" /\ Throw(s)
  BY <1>1, <1>5, GoCore DEF Throw, Flags, Signals, Exceptions
<1>6. CASE use \in {"condition", "iterable"} /\ Test(s)
  BY <1>6, TestCore
<1>7. QED BY <1>2, <1>3, <1>4, <1>5, <1>6 DEF Use

LEMMA IterateCore ==
  ASSUME NEW code \in Codes \cup {"null"}, Core, Running, Iterate(code), Flags',
         code # "null" => Top.kind = "repeatWhile"
  PROVE  Core'
<1>1. Usable(stack)
  BY DEF Core, Usable
<1>2. CASE Top.kind \in {"while", "repeatWhile"} /\ Go(Phase(stack, "condition", code), "null")
  <2>1. Usable(Phase(stack, "condition", code))
    <3>1. KeepsCode(stack[Len(stack)].kind, "condition", code)
      BY DEF KeepsCode, Top
    <3>2. stack[Len(stack)].kind \in Conditional
      BY <1>2 DEF Top, Conditional
    <3>3. QED BY <1>1, <3>1, <3>2, PhaseWellFormed DEF Usable
  <2>2. QED BY <1>2, <2>1, GoCore DEF Signals
<1>3. CASE EnterBody(stack)
  BY <1>1, <1>3, EnterBodyCore
<1>4. CASE Top.kind = "ranged" /\ Go(Pop(stack), "null")
  <2>1. Usable(Pop(stack))
    BY <1>1, <1>4, NotMain, PopUsable DEF Top
  <2>2. QED BY <1>4, <2>1, GoCore DEF Signals
<1>5. QED BY <1>2, <1>3, <1>4 DEF Iterate

-----------------------------------------------------------------------------
(* One step for each action.                                                *)

LEMMA PushCore ==
  ASSUME NEW f, Core, Running, Push(f), f \in Frames, f.use # "main",
         f.kind = "function" <=> f.use # "none",
         f.phase = "condition" => f.kind \in Conditional, f.code = "null",
         f.use \in {"condition", "iterable"} => Top.phase = "condition"
  PROVE  Core'
<1>1. Usable(stack) /\ Len(stack) \in Nat /\ MaxDepth \in Nat
  BY NonEmpty, StatementsAssumption DEF Core, Usable
<1>2. Usable(Append(stack, f))
  <2>1. KeepsCode(f.kind, f.phase, f.code)
    BY DEF KeepsCode
  <2>2. /\ WellFormed(Append(stack, f)) /\ Append(stack, f) # <<>>
        /\ Len(Append(stack, f)) = Len(stack) + 1
    BY <1>1, <2>1, AppendWellFormed DEF Usable, Top
  <2>3. Len(stack) + 1 <= MaxDepth
    BY <1>1 DEF Push
  <2>4. QED BY <2>2, <2>3 DEF Usable
<1>3. Flags'
  BY DEF Core, Push, Keep, Flags
<1>4. QED BY <1>1, <1>2, <1>3, GoCore DEF Push, Signals

\* The frames that are pushed.
LEMMA FrameFields ==
  ASSUME NEW kind \in Kinds, NEW phase \in {"condition", "body"},
         NEW use \in Uses \cup {"main", "condition", "iterable", "none"}
  PROVE  /\ Frame(kind, phase, use) \in Frames /\ Frame(kind, phase, use).kind = kind
         /\ Frame(kind, phase, use).phase = phase /\ Frame(kind, phase, use).use = use
         /\ Frame(kind, phase, use).code = "null"
BY DEF Frame, Frames

LEMMA KindFacts ==
  /\ Conditional \subseteq Kinds /\ Loops \subseteq Kinds /\ Blocks \subseteq Kinds
  /\ "function" \in Kinds /\ "function" \notin Conditional \cup Loops \cup Blocks
BY DEF Conditional, Kinds, Loops, Blocks

LEMMA InitInv == Init => IInv
<1> SUFFICES ASSUME Init PROVE IInv
  OBVIOUS
<1> DEFINE f == Function("main")
<1>1. /\ f \in Frames /\ f.kind = "function" /\ f.phase = "body"
      /\ f.use = "main" /\ f.code = "null"
  BY FrameFields, KindFacts DEF Function
<1>2. stack = <<f>>
  BY DEF Init
<1> HIDE DEF f
<1>3. stack \in Seq(Frames) /\ Len(stack) = 1 /\ stack[1] = f /\ stack # <<>>
  BY <1>1, <1>2
<1>4. WellPlaced(stack, 1)
  BY <1>1, <1>3 DEF WellPlaced, KeepsCode
<1>5. 1 <= MaxDepth /\ MaxStatements \in 0 .. MaxStatements
  BY StatementsAssumption
<1>6. WellFormed(stack) /\ Len(stack) <= MaxDepth
  BY <1>3, <1>4, <1>5 DEF WellFormed
<1>7. Core
  BY <1>3, <1>6 DEF Core, Init, Running, Signals, Exceptions
<1>8. QED BY <1>5, <1>7 DEF IInv, Init

LEMMA EvaluateCore ==
  ASSUME NEW use \in Uses, Core, Evaluate(use)
  PROVE  Core'
<1>1. Running /\ Usable(stack) /\ Use(use, stack)
  BY DEF Evaluate, NextStatement, Executing, Core, Usable
<1>2. use \notin {"condition", "iterable"}
  BY DEF Uses
<1>3. QED BY <1>1, <1>2, UseCore

LEMMA CallFunctionCore ==
  ASSUME NEW use \in Uses, Core, CallFunction(use)
  PROVE  Core'
<1>1. Running /\ Push(Function(use))
  BY DEF CallFunction, NextStatement, Executing
<1>2. /\ Function(use) \in Frames /\ Function(use).kind = "function"
      /\ Function(use).phase = "body" /\ Function(use).use = use /\ Function(use).code = "null"
  BY FrameFields, KindFacts DEF Function
<1>3. use \notin {"main", "none", "condition", "iterable"}
  BY DEF Uses
<1>4. QED BY <1>1, <1>2, <1>3, PushCore

LEMMA LoopControlCore ==
  ASSUME NEW code \in Codes, Core, LoopControl(code)
  PROVE  Core'
<1>1. Running /\ Usable(stack) /\ Go(stack, code) /\ Flags'
  BY DEF LoopControl, NextStatement, Executing, Core, Usable, Keep, Flags
<1>2. QED BY <1>1, GoCore DEF Signals

LEMMA EnterConditionalCore ==
  ASSUME NEW kind \in Conditional, Core, EnterConditional(kind)
  PROVE  Core'
<1> DEFINE f == Frame(kind, "condition", "none")
<1>1. Running /\ Push(f)
  BY DEF EnterConditional, NextStatement, Executing
<1>2. /\ f \in Frames /\ f.kind = kind /\ f.phase = "condition"
      /\ f.use = "none" /\ f.code = "null" /\ kind # "function"
  BY FrameFields, KindFacts
<1> HIDE DEF f
<1>3. QED BY <1>1, <1>2, PushCore

LEMMA EnterTryCore ==
  ASSUME Core, EnterTry
  PROVE  Core'
<1> DEFINE f == Frame("try", "body", "none")
<1>1. Running /\ Push(f)
  BY DEF EnterTry, NextStatement, Executing
<1>2. /\ f \in Frames /\ f.kind = "try" /\ f.phase = "body"
      /\ f.use = "none" /\ f.code = "null"
  BY FrameFields DEF Kinds, Blocks
<1> HIDE DEF f
<1>3. QED BY <1>1, <1>2, PushCore

\* A repeat is put on the stack in its body.
LEMMA RepeatUsable ==
  ASSUME NEW kind \in {"repeat", "repeatWhile"}, Usable(stack), Len(stack) < MaxDepth
  PROVE  /\ Usable(Append(stack, Frame(kind, "body", "none")))
         /\ Frame(kind, "body", "none") \in Frames
         /\ Frame(kind, "body", "none").use = "none"
<1> DEFINE f == Frame(kind, "body", "none")
           t == Append(stack, f)
<1>1. kind \in Kinds /\ kind # "function"
  BY DEF Kinds, Loops
<1>2. /\ f \in Frames /\ f.kind = kind /\ f.phase = "body"
      /\ f.use = "none" /\ f.code = "null"
  BY <1>1, FrameFields
<1> HIDE DEF f, t
<1>3. KeepsCode(f.kind, f.phase, f.code)
  BY <1>2 DEF KeepsCode
<1>4. WellFormed(t) /\ t # <<>> /\ Len(t) = Len(stack) + 1
  BY <1>1, <1>2, <1>3, AppendWellFormed DEF Usable, t
<1>5. Len(stack) \in Nat /\ MaxDepth \in Nat
  BY NonEmpty, StatementsAssumption DEF Usable
<1>6. Len(stack) + 1 <= MaxDepth
  BY <1>5
<1>7. Usable(t)
  BY <1>4, <1>6 DEF Usable
<1>8. QED BY <1>2, <1>7 DEF f, t

LEMMA EnterRepeatCore ==
  ASSUME NEW kind \in {"repeat", "repeatWhile"}, Core, EnterRepeat(kind)
  PROVE  Core'
<1> DEFINE t == Append(stack, Frame(kind, "body", "none"))
<1>1. Running /\ Usable(stack) /\ Flags' /\ EnterBody(t) /\ Len(stack) < MaxDepth
  BY DEF EnterRepeat, NextStatement, Executing, Core, Usable, Keep, Flags
<1>2. Usable(t)
  BY <1>1, RepeatUsable
<1> HIDE DEF t
<1>3. QED BY <1>1, <1>2, EnterBodyCore

LEMMA EvaluateConditionCore ==
  ASSUME Core, EvaluateCondition
  PROVE  Core'
<1>1. Running /\ Usable(stack) /\ stack[Len(stack)].phase = "condition" /\ Test(stack)
  BY DEF EvaluateCondition, Testing, Core, Usable, Top
<1>2. QED BY <1>1, TestCore

LEMMA CallInConditionCore ==
  ASSUME Core, CallInCondition
  PROVE  Core'
<1>1. PICK use \in {"iterable", "condition"} : Push(Function(use))
  BY DEF CallInCondition
<1>2. Running /\ Top.phase = "condition"
  BY DEF CallInCondition, Testing
<1>3. /\ Function(use) \in Frames /\ Function(use).kind = "function"
      /\ Function(use).phase = "body" /\ Function(use).use = use /\ Function(use).code = "null"
  BY FrameFields, KindFacts DEF Function
<1>4. QED BY <1>1, <1>2, <1>3, PushCore

LEMMA EndBlockCore ==
  ASSUME Core, EndBlock
  PROVE  Core'
<1>1. Running /\ Usable(stack) /\ Flags'
  BY DEF EndBlock, Executing, Core, Usable, Keep, Flags
<1>2. CASE Top.kind = "function" /\ Go(stack, "undefined")
  BY <1>1, <1>2, GoCore DEF Signals
<1>3. CASE Top.kind \in Blocks /\ Go(Pop(stack), "null")
  <2>1. Usable(Pop(stack))
    BY <1>1, <1>3, NotMain, PopUsable, KindFacts DEF Top
  <2>2. QED BY <1>1, <1>3, <2>1, GoCore DEF Signals
<1>4. CASE Iterate("null")
  BY <1>1, <1>4, IterateCore
<1>5. QED BY <1>2, <1>3, <1>4 DEF EndBlock

LEMMA FailCore ==
  ASSUME Core, Fail
  PROVE  Core'
<1>1. RuntimeError /\ Flags'
  BY DEF Fail, Core, Keep, Flags
<1>2. QED BY <1>1, RuntimeErrorCore

LEMMA LeaveLoopCore ==
  ASSUME Core, LeaveLoop
  PROVE  Core'
<1>1. Running /\ Usable(stack) /\ Flags' /\ Go(Pop(stack), "null")
  BY DEF LeaveLoop, Unwinding, Core, Usable, Keep, Flags
<1>2. Top.kind # "function"
  BY DEF LeaveLoop, Loops
<1>3. Usable(Pop(stack))
  BY <1>1, <1>2, NotMain, PopUsable DEF Top
<1>4. QED BY <1>1, <1>3, GoCore DEF Signals

LEMMA ContinueLoopCore ==
  ASSUME Core, ContinueLoop
  PROVE  Core'
<1>1. Running /\ Flags' /\ Iterate("null")
  BY DEF ContinueLoop, Unwinding, Core, Keep, Flags
<1>2. QED BY <1>1, IterateCore

LEMMA RepeatWhileCore ==
  ASSUME Core, RepeatWhile
  PROVE  Core'
<1>1. Running /\ Flags' /\ signal \in Codes /\ Iterate(signal) /\ Top.kind = "repeatWhile"
  BY DEF RepeatWhile, Unwinding, Core, Keep, Flags
<1>2. QED BY <1>1, IterateCore

LEMMA CatchExceptionCore ==
  ASSUME Core, CatchException
  PROVE  Core'
<1> DEFINE f == Frame("catch", "body", "none")
           t == Append(Pop(stack), f)
<1>1. Running /\ Usable(stack) /\ Go(t, "null") /\ Flags' /\ Top.kind = "try"
  BY DEF CatchException, Unwinding, Core, Usable, Flags, Exceptions
<1>2. /\ f \in Frames /\ f.kind = "catch" /\ f.phase = "body"
      /\ f.use = "none" /\ f.code = "null"
  BY FrameFields DEF Kinds, Blocks
<1> HIDE DEF f
<1>3. Usable(Pop(stack)) /\ Len(Pop(stack)) = Len(stack) - 1
  BY <1>1, NotMain, PopUsable DEF Top
<1>4. Usable(t)
  <2>1. KeepsCode(f.kind, f.phase, f.code)
    BY <1>2 DEF KeepsCode
  <2>2. WellFormed(t) /\ t # <<>> /\ Len(t) = Len(Pop(stack)) + 1
    BY <1>2, <1>3, <2>1, AppendWellFormed DEF Usable
  <2>3. Len(stack) \in Nat /\ Len(stack) <= MaxDepth
    BY <1>1, NonEmpty DEF Usable
  <2>4. Len(t) <= MaxDepth
    BY <1>3, <2>2, <2>3
  <2>5. QED BY <2>2, <2>4 DEF Usable
<1> HIDE DEF t
<1>5. QED BY <1>1, <1>4, GoCore DEF Signals

LEMMA PassOnCore ==
  ASSUME Core, PassOn
  PROVE  Core'
<1>1. Running /\ Usable(stack) /\ Go(Pop(stack), signal) /\ Flags' /\ signal \in Signals
  BY DEF PassOn, Unwinding, Core, Usable, Keep, Flags
<1>2. Top.kind # "function"
  BY DEF PassOn, Blocks, Loops
<1>3. Usable(Pop(stack))
  BY <1>1, <1>2, NotMain, PopUsable DEF Top
<1>4. QED BY <1>1, <1>3, GoCore

\* A function called by a condition returns to that condition.
LEMMA LeaveFunctionCore ==
  ASSUME Core, LeaveFunction
  PROVE  Core'
<1>1. Running /\ Usable(stack)
  BY DEF LeaveFunction, Unwinding, Core, Usable
<1>2. CASE Top.use = "main"
  <2>1. Top.use \notin {"statement", "initializer", "return", "throw", "condition", "iterable"}
    BY <1>2
  <2>2. /\ End(IF thrown /\ signal = "value" THEN "error" ELSE "returned")
        /\ Flags'
    BY <2>1 DEF LeaveFunction, Use, Core, Keep, Flags
  <2>3. QED BY <2>2, EndCore
<1>3. CASE Top.use # "main"
  <2> DEFINE s == Pop(stack)
  <2>1. Use(Top.use, s)
    BY <1>3 DEF LeaveFunction
  <2>2. Usable(s) /\ Len(s) = Len(stack) - 1
    BY <1>1, <1>3, PopUsable DEF Top
  <2>3. ASSUME Top.use \in {"condition", "iterable"}
        PROVE  s[Len(s)].phase = "condition"
    <3>1. Len(stack) \in Nat /\ Len(stack) \in 1 .. Len(stack) /\ WellPlaced(stack, Len(stack))
      BY <1>1, NonEmpty DEF Usable, WellFormed
    <3>2. Len(stack) - 1 \in 1 .. Len(stack)
      BY <2>3, <3>1, CalledByCondition DEF Top
    <3>3. stack[Len(stack) - 1].phase = "condition"
      BY <2>3, <3>1 DEF WellPlaced, Top
    <3>4. Len(stack) - 1 \in 1 .. Len(stack) - 1
      BY <3>1, <3>2
    <3>5. s[Len(stack) - 1] = stack[Len(stack) - 1]
      BY <1>1, <3>4, PopWellFormed DEF Usable
    <3>6. QED BY <2>2, <3>3, <3>5
  <2> HIDE DEF s
  <2>4. QED BY <1>1, <2>1, <2>2, <2>3, UseCore
<1>4. QED BY <1>2, <1>3

\* The request to abort and the statements left, which no proof above needs.
LEMMA NextBounds ==
  ASSUME IInv, Next
  PROVE  abort' \in BOOLEAN /\ left' \in 0 .. MaxStatements
<1>1. abort \in BOOLEAN /\ left \in 0 .. MaxStatements /\ MaxStatements \in Nat
  BY StatementsAssumption DEF IInv
<1>2. CASE abort' = abort /\ left' = left
  BY <1>1, <1>2
<1>3. CASE abort' = abort /\ left > 0 /\ left' = left - 1
  BY <1>1, <1>3
<1>4. CASE abort' = TRUE /\ left' = left
  BY <1>1, <1>4
<1>5. \/ abort' = abort /\ left' = left
      \/ abort' = abort /\ left > 0 /\ left' = left - 1
      \/ abort' = TRUE /\ left' = left
  BY DEF Next, Unwind, Evaluate, CallFunction, LoopControl, EnterConditional, EnterTry,
         EnterRepeat, NextStatement, EvaluateCondition, CallInCondition, EndBlock, Fail,
         LeaveLoop, ContinueLoop, RepeatWhile, CatchException, PassOn, LeaveFunction,
         Unwinding, Abort, Ended, vars
<1>6. QED BY <1>2, <1>3, <1>4, <1>5

LEMMA NextCore == Core /\ [Next]_vars => Core'
<1> SUFFICES ASSUME Core, [Next]_vars PROVE Core'
  OBVIOUS
<1>1. ASSUME NEW use \in Uses, Evaluate(use) PROVE Core'
  BY <1>1, EvaluateCore
<1>2. ASSUME NEW use \in Uses, CallFunction(use) PROVE Core'
  BY <1>2, CallFunctionCore
<1>3. ASSUME NEW code \in Codes, LoopControl(code) PROVE Core'
  BY <1>3, LoopControlCore
<1>4. ASSUME NEW kind \in Conditional, EnterConditional(kind) PROVE Core'
  BY <1>4, EnterConditionalCore
<1>5. ASSUME NEW kind \in {"repeat", "repeatWhile"}, EnterRepeat(kind) PROVE Core'
  BY <1>5, EnterRepeatCore
<1>6. CASE EnterTry
  BY <1>6, EnterTryCore
<1>7. CASE EvaluateCondition
  BY <1>7, EvaluateConditionCore
<1>8. CASE CallInCondition
  BY <1>8, CallInConditionCore
<1>9. CASE EndBlock
  BY <1>9, EndBlockCore
<1>10. CASE Fail
  BY <1>10, FailCore
<1>11. CASE Unwind
  BY <1>11, LeaveLoopCore, ContinueLoopCore, RepeatWhileCore, CatchExceptionCore,
     PassOnCore, LeaveFunctionCore DEF Unwind
<1>12. CASE Abort
  BY <1>12 DEF Abort, Core, WellFormed, WellPlaced, KeepsCode, Running
<1>13. CASE Ended \/ UNCHANGED vars
  BY <1>13 DEF Ended, vars, Core, WellFormed, WellPlaced, KeepsCode, Running
<1>14. QED
  BY <1>1, <1>2, <1>3, <1>4, <1>5, <1>6, <1>7, <1>8, <1>9, <1>10, <1>11, <1>12, <1>13
     DEF Next

LEMMA NextInv == IInv /\ [Next]_vars => IInv'
<1> SUFFICES ASSUME IInv, [Next]_vars PROVE IInv'
  OBVIOUS
<1>1. Core'
  BY NextCore DEF IInv
<1>2. abort' \in BOOLEAN /\ left' \in 0 .. MaxStatements
  BY NextBounds DEF IInv, vars
<1>3. QED BY <1>1, <1>2 DEF IInv

LEMMA Invariance == Spec => []IInv
BY InitInv, NextInv, PTL DEF Spec

\* The stack of functions and statements is well-formed however deep the script
\* nests: main and nothing else is at its bottom, and only a repeat-while that
\* evaluates its condition keeps a control code.
THEOREM TypeCorrect == Spec => []TypeOK
<1>1. IInv => TypeOK
  BY DEF IInv, Core, WellFormed, WellPlaced, KeepsCode, TypeOK, Signals, Exceptions, Running
<1>2. QED BY <1>1, Invariance, PTL

-----------------------------------------------------------------------------
(* break and continue.                                                      *)

\* Within a loop of the function on top.
InLoop(s) ==
  \E i \in 1 .. Len(s) : /\ s[i].kind \in Loops
                         /\ \A j \in (i + 1) .. Len(s) : s[j].kind # "function"

CodesInLoops == Running /\ signal \in Codes => InLoop(stack)

LEMMA PopInLoop ==
  ASSUME NEW s, Usable(s), InLoop(s), s[Len(s)].kind \notin Loops
  PROVE  InLoop(Pop(s))
<1>1. PICK i \in 1 .. Len(s) : /\ s[i].kind \in Loops
                              /\ \A j \in (i + 1) .. Len(s) : s[j].kind # "function"
  BY DEF InLoop
<1>2. Len(s) \in Nat /\ Len(Pop(s)) = Len(s) - 1 /\ \A j \in 1 .. Len(s) - 1 : Pop(s)[j] = s[j]
  BY NonEmpty, PopWellFormed DEF Usable
<1>3. i # Len(s)
  BY <1>1
<1>4. i \in 1 .. Len(s) - 1
  BY <1>2, <1>3
<1>5. Pop(s)[i].kind \in Loops
  BY <1>1, <1>2, <1>4
<1>6. ASSUME NEW j \in (i + 1) .. Len(s) - 1 PROVE Pop(s)[j].kind # "function"
  <2>1. j \in 1 .. Len(s) - 1 /\ j \in (i + 1) .. Len(s)
    BY <1>2
  <2>2. QED BY <1>1, <1>2, <2>1
<1>7. QED BY <1>2, <1>4, <1>5, <1>6 DEF InLoop

\* The steps that leave a code on its way: all others end at null, a value or
\* an abort.
LEMMA TestNoCode ==
  ASSUME NEW s, "jumpPastFalseCondition" \notin Habits, Test(s)
  PROVE  signal' \notin Codes
BY DEF Test, Go, RuntimeError, End, EnterBody, Codes

LEMMA UseNoCode ==
  ASSUME NEW s, NEW use, "jumpPastFalseCondition" \notin Habits, Use(use, s)
  PROVE  signal' \notin Codes
BY TestNoCode DEF Use, Discard, Initialize, Throw, Go, Codes

LEMMA IterateNoCode ==
  ASSUME NEW code, Iterate(code)
  PROVE  signal' \notin Codes
BY DEF Iterate, Go, EnterBody, Codes

LEMMA NextCodes ==
  ASSUME "jumpPastFalseCondition" \notin Habits, IInv, CodesInLoops, [Next]_vars
  PROVE  CodesInLoops'
<1>1. ASSUME NEW use \in Uses, Evaluate(use) PROVE CodesInLoops'
  BY <1>1, UseNoCode DEF Evaluate, CodesInLoops
<1>2. ASSUME NEW use \in Uses, CallFunction(use) PROVE CodesInLoops'
  BY <1>2 DEF CallFunction, Push, Go, CodesInLoops, Codes
<1>3. ASSUME NEW code \in Codes, LoopControl(code) PROVE CodesInLoops'
  BY <1>3 DEF LoopControl, Go, CodesInLoops, InLoop
<1>4. ASSUME NEW kind \in Conditional, EnterConditional(kind) PROVE CodesInLoops'
  BY <1>4 DEF EnterConditional, Push, Go, CodesInLoops, Codes
<1>5. ASSUME NEW kind \in {"repeat", "repeatWhile"}, EnterRepeat(kind) PROVE CodesInLoops'
  BY <1>5 DEF EnterRepeat, EnterBody, Go, CodesInLoops, Codes
<1>6. CASE EnterTry
  BY <1>6 DEF EnterTry, Push, Go, CodesInLoops, Codes
<1>7. CASE EvaluateCondition
  BY <1>7, TestNoCode DEF EvaluateCondition, CodesInLoops
<1>8. CASE CallInCondition
  BY <1>8 DEF CallInCondition, Push, Go, CodesInLoops, Codes
<1>9. CASE EndBlock
  BY <1>9, IterateNoCode DEF EndBlock, Go, CodesInLoops, Codes
<1>10. CASE Fail
  BY <1>10 DEF Fail, RuntimeError, End, CodesInLoops, Codes
<1>11. CASE LeaveLoop
  BY <1>11 DEF LeaveLoop, Go, CodesInLoops, Codes
<1>12. CASE ContinueLoop
  BY <1>12, IterateNoCode DEF ContinueLoop, CodesInLoops
<1>13. CASE RepeatWhile
  BY <1>13, IterateNoCode DEF RepeatWhile, CodesInLoops
<1>14. CASE CatchException
  BY <1>14 DEF CatchException, Go, CodesInLoops, Codes
<1>15. CASE PassOn
  <2>1. SUFFICES ASSUME signal \in Codes PROVE InLoop(Pop(stack))
    BY <1>15 DEF PassOn, Go, CodesInLoops, InLoop
  <2>2. Usable(stack) /\ InLoop(stack)
    BY <1>15, <2>1 DEF PassOn, Unwinding, CodesInLoops, IInv, Core, Usable
  <2>3. stack[Len(stack)].kind \notin Loops
    BY <1>15, <2>1 DEF PassOn, Top, Blocks, Loops
  <2>4. QED BY <2>2, <2>3, PopInLoop
<1>16. CASE LeaveFunction
  BY <1>16, UseNoCode DEF LeaveFunction, End, CodesInLoops, Codes
<1>17. CASE Abort \/ Ended \/ UNCHANGED vars
  BY <1>17 DEF Abort, Ended, vars, CodesInLoops, InLoop, Running
<1>18. QED
  BY <1>1, <1>2, <1>3, <1>4, <1>5, <1>6, <1>7, <1>8, <1>9, <1>10, <1>11, <1>12, <1>13,
     <1>14, <1>15, <1>16, <1>17 DEF Next, Unwind

LEMMA CodesInvariant ==
  ASSUME "jumpPastFalseCondition" \notin Habits
  PROVE  Spec => []CodesInLoops
<1>1. Init => CodesInLoops
  BY DEF Init, CodesInLoops, Codes
<1>2. IInv /\ CodesInLoops /\ [Next]_vars => CodesInLoops'
  BY NextCodes
<1>3. QED BY <1>1, <1>2, Invariance, PTL DEF Spec

\* Unless a script breaks or continues a repeat-while whose condition is false
\* then, no break or continue is ever taken for the value of a function,
\* whatever is nested in whatever.
THEOREM CodesStay ==
  ASSUME "jumpPastFalseCondition" \notin Habits
  PROVE  Spec => []CodesStayInLoops
<1>1. IInv /\ CodesInLoops => CodesStayInLoops
  <2> SUFFICES ASSUME IInv, CodesInLoops, Running, Top.kind = "function", signal \in Codes
               PROVE  FALSE
    BY DEF CodesStayInLoops
  <2>1. Len(stack) \in Nat /\ Len(stack) \in 1 .. Len(stack)
    BY NonEmpty DEF IInv, Core
  <2>2. PICK i \in 1 .. Len(stack) :
          /\ stack[i].kind \in Loops
          /\ \A j \in (i + 1) .. Len(stack) : stack[j].kind # "function"
    BY DEF CodesInLoops, InLoop
  <2>3. i # Len(stack)
    BY <2>2 DEF Top, Loops
  <2>4. Len(stack) \in (i + 1) .. Len(stack)
    BY <2>1, <2>3
  <2>5. QED BY <2>2, <2>4 DEF Top
<1>2. QED BY <1>1, CodesInvariant, Invariance, PTL

-----------------------------------------------------------------------------
(* Exceptions.                                                              *)

\* Between the first n frames and a use that would destroy an exception there
\* is a try block.
HandledUpTo(s, n) ==
  \A i \in 1 .. n : s[i].use \in Guarded => \E j \in (i + 1) .. n : s[j].kind = "try"
Handled(s) == HandledUpTo(s, Len(s))

\* So it was when each function whose result is thrown was called, and nothing
\* below it has changed.
ThrowsHandled(s) ==
  \A k \in 1 .. Len(s) : s[k].use = "throw" => HandledUpTo(s, k - 1)

\* Two stacks that agree on kinds and uses up to n.
AgreeUpTo(s, t, n) == \A i \in 1 .. n : t[i].kind = s[i].kind /\ t[i].use = s[i].use

LEMMA AgreeHandled ==
  ASSUME NEW s, NEW t, NEW n, AgreeUpTo(s, t, n), HandledUpTo(s, n), n \in Nat
  PROVE  HandledUpTo(t, n)
<1> SUFFICES ASSUME NEW i \in 1 .. n, t[i].use \in Guarded
             PROVE  \E j \in (i + 1) .. n : t[j].kind = "try"
  BY DEF HandledUpTo
<1>1. s[i].use \in Guarded
  BY DEF AgreeUpTo
<1>2. PICK j \in (i + 1) .. n : s[j].kind = "try"
  BY <1>1 DEF HandledUpTo
<1>3. j \in 1 .. n
  OBVIOUS
<1>4. t[j].kind = "try"
  BY <1>2, <1>3 DEF AgreeUpTo
<1>5. QED BY <1>4

\* A stack whose frames agree with the lower ones of another, or with all but
\* one more that it has on top.
LEMMA AgreeThrows ==
  ASSUME NEW s, NEW t, NEW n \in Nat, AgreeUpTo(s, t, n), ThrowsHandled(s),
         Len(s) \in Nat, n <= Len(s), Len(t) \in {n, n + 1},
         Len(t) = n + 1 => (t[n + 1].use = "throw" => HandledUpTo(s, n))
  PROVE  ThrowsHandled(t)
<1> SUFFICES ASSUME NEW k \in 1 .. Len(t), t[k].use = "throw"
             PROVE  HandledUpTo(t, k - 1)
  BY DEF ThrowsHandled
<1>1. k \in 1 .. n + 1 /\ k - 1 \in Nat /\ k - 1 <= n
  OBVIOUS
<1>2. HandledUpTo(s, k - 1)
  <2>1. CASE k = n + 1
    <3>1. Len(t) = n + 1
      BY <2>1
    <3>2. k - 1 = n
      BY <2>1
    <3>3. QED BY <2>1, <3>1, <3>2
  <2>2. CASE k # n + 1
    <3>1. k \in 1 .. n /\ k \in 1 .. Len(s)
      BY <1>1, <2>2
    <3>2. s[k].use = "throw"
      BY <3>1 DEF AgreeUpTo
    <3>3. QED BY <3>1, <3>2 DEF ThrowsHandled
  <2>3. QED BY <2>1, <2>2
<1>3. AgreeUpTo(s, t, k - 1)
  <2>1. \A i \in 1 .. k - 1 : i \in 1 .. n
    BY <1>1
  <2>2. QED BY <2>1 DEF AgreeUpTo
<1>4. QED BY <1>1, <1>2, <1>3, AgreeHandled

LEMMA EmptyThrows == ThrowsHandled(<<>>)
BY EmptySeq DEF ThrowsHandled

LEMMA PopThrows ==
  ASSUME NEW s, Usable(s), ThrowsHandled(s)
  PROVE  ThrowsHandled(Pop(s)) /\ AgreeUpTo(s, Pop(s), Len(s) - 1)
<1> DEFINE n == Len(s) - 1
<1>1. Len(s) \in Nat /\ n \in Nat /\ n <= Len(s)
  BY NonEmpty DEF Usable
<1>2. Len(Pop(s)) = n /\ AgreeUpTo(s, Pop(s), n)
  BY PopWellFormed DEF Usable, AgreeUpTo
<1>3. Len(Pop(s)) # n + 1
  BY <1>1, <1>2
<1> HIDE DEF n
<1>4. ThrowsHandled(Pop(s))
  BY <1>1, <1>2, <1>3, AgreeThrows
<1>5. QED BY <1>2, <1>4 DEF n

LEMMA AppendThrows ==
  ASSUME NEW s \in Seq(Frames), ThrowsHandled(s), NEW f \in Frames,
         f.use = "throw" => Handled(s)
  PROVE  ThrowsHandled(Append(s, f))
<1> DEFINE t == Append(s, f)
<1>1. /\ Len(s) \in Nat /\ Len(t) = Len(s) + 1 /\ t[Len(s) + 1] = f
      /\ \A i \in 1 .. Len(s) : t[i] = s[i]
  BY AppendProperties
<1> HIDE DEF t
<1>2. AgreeUpTo(s, t, Len(s)) /\ Len(s) <= Len(s)
  BY <1>1 DEF AgreeUpTo
<1>3. QED BY <1>1, <1>2, AgreeThrows DEF Handled, t

LEMMA PhaseThrows ==
  ASSUME NEW s, Usable(s), ThrowsHandled(s),
         NEW phase \in {"condition", "body"}, NEW code \in Codes \cup {"null"}
  PROVE  ThrowsHandled(Phase(s, phase, code))
<1> DEFINE t == Phase(s, phase, code)
<1>1. s \in Seq(Frames) /\ Len(s) \in Nat /\ Len(s) \in 1 .. Len(s)
  BY NonEmpty DEF Usable
<1>2. Len(t) = Len(s) /\ AgreeUpTo(s, t, Len(s))
  <2>1. /\ Len(t) = Len(s) /\ t[Len(s)].kind = s[Len(s)].kind /\ t[Len(s)].use = s[Len(s)].use
        /\ \A i \in 1 .. Len(s) : i # Len(s) => t[i] = s[i]
    BY <1>1, Replaced
  <2> HIDE DEF t
  <2>2. QED BY <2>1 DEF AgreeUpTo
<1> HIDE DEF t
<1>3. Len(t) # Len(s) + 1 /\ Len(s) <= Len(s)
  BY <1>1, <1>2
<1>4. QED BY <1>1, <1>2, <1>3, AgreeThrows DEF t

\* An exception meets no guarded use, and is still handled below what it leaves.
LEMMA HandledBelow ==
  ASSUME NEW s, Usable(s), Handled(s)
  PROVE  /\ s[Len(s)].use \notin Guarded
         /\ s[Len(s)].kind # "try" => Handled(Pop(s))
<1>1. Len(s) \in Nat /\ Len(s) \in 1 .. Len(s) /\ Len(s) - 1 \in Nat
  BY NonEmpty DEF Usable
<1>2. s[Len(s)].use \notin Guarded
  BY <1>1 DEF Handled, HandledUpTo
<1>3. ASSUME s[Len(s)].kind # "try" PROVE HandledUpTo(s, Len(s) - 1)
  <2> SUFFICES ASSUME NEW i \in 1 .. Len(s) - 1, s[i].use \in Guarded
               PROVE  \E j \in (i + 1) .. Len(s) - 1 : s[j].kind = "try"
    BY DEF HandledUpTo
  <2>1. i \in 1 .. Len(s)
    BY <1>1
  <2>2. PICK j \in (i + 1) .. Len(s) : s[j].kind = "try"
    BY <2>1 DEF Handled, HandledUpTo
  <2>3. j # Len(s)
    BY <1>3, <2>2
  <2>4. j \in (i + 1) .. Len(s) - 1
    BY <1>1, <2>3
  <2>5. QED BY <2>2, <2>4
<1>4. Len(Pop(s)) = Len(s) - 1 /\ AgreeUpTo(s, Pop(s), Len(s) - 1)
  BY PopWellFormed DEF Usable, AgreeUpTo
<1>5. ASSUME s[Len(s)].kind # "try" PROVE Handled(Pop(s))
  BY <1>1, <1>3, <1>4, <1>5, AgreeHandled DEF Handled
<1>6. QED BY <1>2, <1>5

\* What a function whose result is thrown returns to may be thrown into.
LEMMA ThrowsBelow ==
  ASSUME NEW s, Usable(s), ThrowsHandled(s), s[Len(s)].use = "throw"
  PROVE  Handled(Pop(s))
<1>1. Len(s) \in Nat /\ Len(s) \in 1 .. Len(s) /\ Len(s) - 1 \in Nat
  BY NonEmpty DEF Usable
<1>2. HandledUpTo(s, Len(s) - 1)
  BY <1>1 DEF ThrowsHandled
<1>3. Len(Pop(s)) = Len(s) - 1 /\ AgreeUpTo(s, Pop(s), Len(s) - 1)
  BY PopWellFormed DEF Usable, AgreeUpTo
<1>4. QED BY <1>1, <1>2, <1>3, AgreeHandled DEF Handled

\* The stacks a step can leave.
LEMMA EnterBodyThrows ==
  ASSUME NEW s, Usable(s), ThrowsHandled(s), EnterBody(s)
  PROVE  ThrowsHandled(stack')
BY PhaseThrows DEF EnterBody, Go

LEMMA TestThrows ==
  ASSUME NEW s, Usable(s), ThrowsHandled(s), Test(s)
  PROVE  ThrowsHandled(stack')
<1>1. CASE RuntimeError
  BY <1>1, EmptyThrows DEF RuntimeError, End
<1>2. CASE EnterBody(s)
  BY <1>2, EnterBodyThrows
<1>3. CASE stack' = s \/ stack' = Pop(s)
  BY <1>3, PopThrows
<1>4. QED BY <1>1, <1>2, <1>3 DEF Test, Go

LEMMA UseThrows ==
  ASSUME NEW s, NEW use, Usable(s), ThrowsHandled(s), Use(use, s)
  PROVE  ThrowsHandled(stack')
BY TestThrows DEF Use, Discard, Initialize, Throw, Go

LEMMA IterateThrows ==
  ASSUME NEW code \in Codes \cup {"null"}, Usable(stack), ThrowsHandled(stack), Iterate(code)
  PROVE  ThrowsHandled(stack')
BY EnterBodyThrows, PhaseThrows, PopThrows DEF Iterate, Go

LEMMA PushThrows ==
  ASSUME NEW f \in Frames, Usable(stack), ThrowsHandled(stack), Push(f),
         f.use = "throw" => Handled(stack)
  PROVE  ThrowsHandled(stack')
BY AppendThrows DEF Push, Go, Usable, WellFormed

LEMMA MayThrowHandled ==
  ASSUME MayThrow("throw")
  PROVE  Handled(stack)
BY DEF MayThrow, Handled, HandledUpTo

LEMMA NextThrows ==
  ASSUME Core, ThrowsHandled(stack), [Next]_vars
  PROVE  ThrowsHandled(stack')
<1>1. CASE ~Running
  <2>1. stack' = stack
    BY <1>1 DEF Next, Unwind, Evaluate, CallFunction, LoopControl, EnterConditional, EnterTry,
         EnterRepeat, NextStatement, EvaluateCondition, CallInCondition, EndBlock, Fail,
         LeaveLoop, ContinueLoop, RepeatWhile, CatchException, PassOn, LeaveFunction,
         Unwinding, Executing, Testing, Abort, Ended, vars
  <2>2. QED BY <2>1
<1>2. CASE Running
  <2>0. Usable(stack)
    BY <1>2 DEF Core, Usable
  <2>1. ASSUME NEW use \in Uses, Evaluate(use) PROVE ThrowsHandled(stack')
    BY <2>0, <2>1, UseThrows DEF Evaluate
  <2>2. ASSUME NEW use \in Uses, CallFunction(use) PROVE ThrowsHandled(stack')
    <3>1. Function(use) \in Frames /\ Function(use).use = use
      BY FrameFields, KindFacts DEF Function
    <3>2. Push(Function(use)) /\ MayThrow(use)
      BY <2>2 DEF CallFunction
    <3>3. QED BY <2>0, <3>1, <3>2, PushThrows, MayThrowHandled
  <2>3. ASSUME NEW code \in Codes, LoopControl(code) PROVE ThrowsHandled(stack')
    BY <2>3 DEF LoopControl, Go
  <2>4. ASSUME NEW kind \in Conditional, EnterConditional(kind) PROVE ThrowsHandled(stack')
    <3>1. /\ Frame(kind, "condition", "none") \in Frames
          /\ Frame(kind, "condition", "none").use # "throw"
      BY FrameFields, KindFacts
    <3>2. Push(Frame(kind, "condition", "none"))
      BY <2>4 DEF EnterConditional
    <3>3. QED BY <2>0, <3>1, <3>2, PushThrows
  <2>5. ASSUME NEW kind \in {"repeat", "repeatWhile"}, EnterRepeat(kind)
        PROVE  ThrowsHandled(stack')
    <3> DEFINE f == Frame(kind, "body", "none")
    <3>1. EnterBody(Append(stack, f)) /\ Len(stack) < MaxDepth /\ stack \in Seq(Frames)
      BY <2>0, <2>5 DEF EnterRepeat, Usable, WellFormed
    <3>2. Usable(Append(stack, f)) /\ f \in Frames /\ f.use # "throw"
      BY <2>0, <3>1, RepeatUsable
    <3> HIDE DEF f
    <3>3. ThrowsHandled(Append(stack, f))
      BY <3>1, <3>2, AppendThrows
    <3>4. QED BY <3>1, <3>2, <3>3, EnterBodyThrows
  <2>6. CASE EnterTry
    <3>1. /\ Frame("try", "body", "none") \in Frames
          /\ Frame("try", "body", "none").use # "throw"
      BY FrameFields DEF Kinds, Blocks
    <3>2. Push(Frame("try", "body", "none"))
      BY <2>6 DEF EnterTry
    <3>3. QED BY <2>0, <3>1, <3>2, PushThrows
  <2>7. CASE EvaluateCondition
    BY <2>0, <2>7, TestThrows DEF EvaluateCondition
  <2>8. CASE CallInCondition
    <3>1. PICK use \in {"iterable", "condition"} : Push(Function(use))
      BY <2>8 DEF CallInCondition
    <3>2. Function(use) \in Frames /\ Function(use).use = use
      BY FrameFields, KindFacts DEF Function
    <3>3. QED BY <2>0, <3>1, <3>2, PushThrows
  <2>9. CASE EndBlock
    BY <2>0, <2>9, IterateThrows, PopThrows DEF EndBlock, Go
  <2>10. CASE Fail
    BY <2>10, EmptyThrows DEF Fail, RuntimeError, End
  <2>11. CASE LeaveLoop \/ PassOn
    BY <2>0, <2>11, PopThrows DEF LeaveLoop, PassOn, Go
  <2>12. CASE ContinueLoop \/ RepeatWhile
    BY <2>0, <2>12, IterateThrows DEF ContinueLoop, RepeatWhile
  <2>13. CASE CatchException
    <3> DEFINE f == Frame("catch", "body", "none")
    <3>1. f \in Frames /\ f.use # "throw"
      BY FrameFields DEF Kinds, Blocks
    <3>2. stack' = Append(Pop(stack), f)
      BY <2>13 DEF CatchException, Go
    <3>3. Pop(stack) \in Seq(Frames) /\ ThrowsHandled(Pop(stack))
      BY <2>0, PopWellFormed, PopThrows DEF Usable, WellFormed
    <3> HIDE DEF f
    <3>4. QED BY <3>1, <3>2, <3>3, AppendThrows
  <2>14. CASE LeaveFunction
    <3>1. CASE stack' = <<>>
      BY <3>1, EmptyThrows
    <3>2. CASE Top.use # "main" /\ Use(Top.use, Pop(stack))
      <4>1. Usable(Pop(stack)) /\ ThrowsHandled(Pop(stack))
        BY <2>0, <3>2, PopUsable, PopThrows DEF Top
      <4>2. QED BY <3>2, <4>1, UseThrows
    <3>3. QED BY <2>14, <3>1, <3>2 DEF LeaveFunction, End, Use
  <2>15. CASE Abort \/ Ended \/ UNCHANGED vars
    BY <2>15 DEF Abort, Ended, vars
  <2>16. QED
    BY <2>1, <2>2, <2>3, <2>4, <2>5, <2>6, <2>7, <2>8, <2>9, <2>10, <2>11, <2>12, <2>13,
       <2>14, <2>15 DEF Next, Unwind
<1>3. QED BY <1>1, <1>2

\* An exception is pending only while it is handed on, alive, to a try block
\* that comes before any use that would destroy it.
Pending ==
  Running => IF thrown THEN signal = "value" /\ exception = "alive" /\ Handled(stack)
                       ELSE exception = "none"

ExceptionInv == ThrowsHandled(stack) /\ Pending

\* Without a pending exception a step that throws none has nothing to lose.
LEMMA NothingPending ==
  ASSUME Pending, Running, ~thrown, ~thrown', exception' = exception
  PROVE  Pending'
BY DEF Pending

LEMMA Uncaught == Pending /\ Running /\ thrown => signal = "value"
BY DEF Pending

\* No use but throw brings an exception about.
LEMMA UsePending ==
  ASSUME NEW s, NEW use, Core, Pending, Running, ~thrown, Use(use, s),
         use = "throw" => Handled(s)
  PROVE  Pending'
<1>1. CASE use = "throw" /\ Throw(s)
  BY <1>1 DEF Throw, Go, Pending
<1>2. CASE ~(use = "throw" /\ Throw(s))
  <2>1. ~thrown' /\ exception' = exception
    BY <1>2 DEF Use, Discard, Initialize, Test, Keep, Core
  <2>2. QED BY <2>1, NothingPending
<1>3. QED BY <1>1, <1>2

\* A pending exception passes expression statements, returns and throws.
LEMMA UseThrown ==
  ASSUME NEW s, NEW use, Core, Pending, Running, thrown, Use(use, s), Handled(s),
         use \notin {"initializer", "condition", "iterable"}
  PROVE  Pending'
<1>1. exception = "alive"
  BY DEF Pending
<1>2. /\ thrown' /\ exception' = exception /\ signal' = "value" /\ stack' = s
  BY DEF Use, Discard, Throw, Keep, Go
<1>3. QED BY <1>1, <1>2 DEF Pending

LEMMA NextPending ==
  ASSUME Habits \cap {"throwInInitializer", "throwInCondition"} = {},
         Core, ExceptionInv, [Next]_vars
  PROVE  Pending'
<1>1. thrown \in BOOLEAN /\ Pending /\ ThrowsHandled(stack)
  BY DEF Core, ExceptionInv
<1>2. CASE ~Running
  BY <1>2 DEF Next, Unwind, Evaluate, CallFunction, LoopControl, EnterConditional, EnterTry,
       EnterRepeat, NextStatement, EvaluateCondition, CallInCondition, EndBlock, Fail,
       LeaveLoop, ContinueLoop, RepeatWhile, CatchException, PassOn, LeaveFunction,
       Unwinding, Executing, Testing, Abort, Ended, vars, Pending, Running
<1>3. CASE Running
  <2>1. ASSUME NEW use \in Uses, Evaluate(use) PROVE Pending'
    <3>1. ~thrown
      BY <1>1, <1>3, <2>1, Uncaught DEF Evaluate, NextStatement, Executing
    <3>2. Use(use, stack) /\ MayThrow(use)
      BY <2>1 DEF Evaluate
    <3>3. QED BY <1>1, <1>3, <3>1, <3>2, UsePending, MayThrowHandled
  <2>2. CASE ~thrown /\ Keep
    BY <1>1, <1>3, <2>2, NothingPending DEF Keep
  <2>3. ASSUME NEW use \in Uses, CallFunction(use) PROVE ~thrown /\ Keep
    BY <2>3 DEF CallFunction, Push
  <2>4. ASSUME NEW code \in Codes, LoopControl(code) PROVE ~thrown /\ Keep
    BY <1>1, <1>3, <2>4, Uncaught DEF LoopControl, NextStatement, Executing
  <2>5. ASSUME NEW kind \in Conditional, EnterConditional(kind) PROVE ~thrown /\ Keep
    BY <1>1, <1>3, <2>5, Uncaught DEF EnterConditional, NextStatement, Executing, Push
  <2>6. ASSUME NEW kind \in {"repeat", "repeatWhile"}, EnterRepeat(kind)
        PROVE  ~thrown /\ Keep
    BY <1>1, <1>3, <2>6, Uncaught DEF EnterRepeat, NextStatement, Executing
  <2>7. CASE EnterTry \/ CallInCondition \/ EndBlock \/ Fail
    <3>1. ~thrown /\ Keep
      BY <1>1, <1>3, <2>7, Uncaught
         DEF EnterTry, CallInCondition, EndBlock, Fail, NextStatement, Executing, Testing, Push
    <3>2. QED BY <2>2, <3>1
  <2>8. CASE LeaveLoop \/ ContinueLoop \/ RepeatWhile
    <3>1. ~thrown /\ Keep
      BY <1>1, <1>3, <2>8, Uncaught DEF LeaveLoop, ContinueLoop, RepeatWhile, Codes
    <3>2. QED BY <2>2, <3>1
  <2>9. CASE EvaluateCondition
    <3>1. ~thrown
      BY <1>1, <1>3, <2>9, Uncaught DEF EvaluateCondition, Testing
    <3>2. ~thrown' /\ exception' = exception
      BY <2>9, <3>1 DEF EvaluateCondition, Test
    <3>3. QED BY <1>1, <1>3, <3>1, <3>2, NothingPending
  <2>10. CASE CatchException
    BY <2>10 DEF CatchException, Pending
  <2>11. CASE PassOn
    <3>1. CASE ~thrown
      BY <2>2, <2>11, <3>1 DEF PassOn
    <3>2. CASE thrown
      <4>1. signal = "value" /\ exception = "alive" /\ Handled(stack) /\ Usable(stack)
        BY <1>1, <1>3, <3>2 DEF Pending, Core, Usable
      <4>2. Top.kind # "try"
        BY <2>11, <3>2 DEF PassOn, Loops
      <4>3. Handled(Pop(stack))
        BY <4>1, <4>2, HandledBelow DEF Top
      <4>4. stack' = Pop(stack) /\ signal' = signal /\ Keep
        BY <2>11 DEF PassOn, Go
      <4>5. QED BY <3>2, <4>1, <4>3, <4>4 DEF Keep, Pending
    <3>3. QED BY <1>1, <3>1, <3>2
  <2>12. CASE LeaveFunction
    <3>1. CASE Top.use = "main"
      <4>1. \E how \in {"error", "returned"} : outcome' = how
        BY <2>12, <3>1 DEF LeaveFunction, End, Use
      <4>2. QED BY <4>1 DEF Pending, Running
    <3>2. CASE Top.use # "main"
      <4>1. Use(Top.use, Pop(stack)) /\ Usable(stack)
        BY <1>3, <2>12, <3>2 DEF LeaveFunction, Core, Usable
      <4>2. CASE ~thrown
        BY <1>1, <1>3, <4>1, <4>2, UsePending, ThrowsBelow DEF Top
      <4>3. CASE thrown
        <5>1. Handled(stack)
          BY <1>1, <1>3, <4>3 DEF Pending
        <5>2. Top.use \notin {"initializer", "condition", "iterable"}
          BY <4>1, <5>1, HandledBelow DEF Top, Guarded
        <5>3. Top.kind # "try"
          BY <2>12 DEF LeaveFunction
        <5>4. Handled(Pop(stack))
          BY <4>1, <5>1, <5>3, HandledBelow DEF Top
        <5>5. QED BY <1>1, <1>3, <4>1, <4>3, <5>2, <5>4, UseThrown
      <4>4. QED BY <1>1, <4>2, <4>3
    <3>3. QED BY <3>1, <3>2
  <2>13. CASE Abort \/ Ended \/ UNCHANGED vars
    BY <1>1, <2>13 DEF Abort, Ended, vars, Pending, Running, Handled, HandledUpTo
  <2>14. QED
    BY <2>1, <2>2, <2>3, <2>4, <2>5, <2>6, <2>7, <2>8, <2>9, <2>10, <2>11, <2>12, <2>13
       DEF Next, Unwind
<1>4. QED BY <1>2, <1>3

LEMMA ExceptionInvariant ==
  ASSUME Habits \cap {"throwInInitializer", "throwInCondition"} = {}
  PROVE  Spec => []ExceptionInv
<1>1. Init => ExceptionInv
  <2> SUFFICES ASSUME Init PROVE ExceptionInv
    OBVIOUS
  <2>1. Pending
    BY DEF Init, Pending
  <2>2. Len(stack) = 1 /\ stack[1].use = "main"
    BY FrameFields, KindFacts DEF Init, Function
  <2>3. ThrowsHandled(stack)
    BY <2>2 DEF ThrowsHandled
  <2>4. QED BY <2>1, <2>3 DEF ExceptionInv
<1>2. IInv /\ ExceptionInv /\ [Next]_vars => ExceptionInv'
  <2> SUFFICES ASSUME IInv, ExceptionInv, [Next]_vars PROVE ExceptionInv'
    OBVIOUS
  <2>1. Core
    BY DEF IInv
  <2>2. ThrowsHandled(stack')
    BY <2>1, NextThrows DEF ExceptionInv
  <2>3. ThrowsHandled(stack)'
    BY <2>2 DEF ThrowsHandled, HandledUpTo
  <2>4. QED BY <2>1, <2>3, NextPending DEF ExceptionInv
<1>3. QED BY <1>1, <1>2, Invariance, PTL DEF Spec

\* Unless a script throws within an initializer or a condition, every exception
\* reaches its handler alive, no statement is executed on its way, and none is
\* left over: through any number of functions and blocks.
THEOREM ExceptionsArrive ==
  ASSUME Habits \cap {"throwInInitializer", "throwInCondition"} = {}
  PROVE  Spec => []ExceptionOnItsWay
<1>1. ExceptionInv => ExceptionOnItsWay
  BY DEF ExceptionInv, Pending, ExceptionOnItsWay
<1>2. QED BY <1>1, ExceptionInvariant, PTL

-----------------------------------------------------------------------------
(* The operators of ControlJumps.                                           *)

LEMMA GreatestNumber ==
  ASSUME NEW n \in Nat, NEW S \in SUBSET (0 .. n), S # {}
  PROVE  Max(S) \in S /\ \A x \in S : x <= Max(S)
<1> DEFINE R == {n - x : x \in S}
<1>1. R \subseteq Nat /\ R # {}
  <2>1. \A x \in S : n - x \in Nat
    OBVIOUS
  <2>2. PICK x \in S : TRUE
    OBVIOUS
  <2>3. n - x \in R
    OBVIOUS
  <2>4. QED BY <2>1, <2>3
<1>2. \E r \in R : \A m \in R : <<m, r>> \notin OpToRel(<, Nat)
  <2> HIDE DEF R
  <2>1. QED BY <1>1, NatLessThanWellFounded, WFMin
<1>3. PICK r \in R : \A m \in R : <<m, r>> \notin OpToRel(<, Nat)
  BY <1>2
<1>4. PICK x \in S : r = n - x
  BY DEF R
<1>5. ASSUME NEW y \in S PROVE x >= y
  <2>1. n - y \in R /\ n - y \in Nat /\ r \in Nat
    BY <1>1
  <2>2. ~(n - y < r)
    BY <1>3, <2>1 DEF OpToRel
  <2>3. x \in Nat /\ y \in Nat
    OBVIOUS
  <2>4. QED BY <1>4, <2>2, <2>3
<1>6. \E z \in S : \A y \in S : z >= y
  BY <1>5
<1>7. Max(S) \in S /\ \A y \in S : Max(S) >= y
  BY <1>6 DEF Max
<1>8. QED BY <1>7

\* i is the last place of a kind, or 0.
IsInnermost(p, kind, i) ==
  /\ i \in 0 .. Len(p)
  /\ i # 0 => p[i] = kind
  /\ \A j \in 1 .. Len(p) : p[j] = kind => j <= i

LEMMA InnermostIsInnermost ==
  ASSUME NEW S, NEW p \in Seq(S), NEW kind
  PROVE  IsInnermost(p, kind, Innermost(p, kind))
<1> DEFINE T == {0} \cup {i \in 1 .. Len(p) : p[i] = kind}
<1>1. Len(p) \in Nat
  OBVIOUS
<1>2. T \in SUBSET (0 .. Len(p)) /\ T # {}
  BY <1>1
<1>3. Innermost(p, kind) = Max(T)
  BY DEF Innermost
<1>4. Max(T) \in T /\ \A x \in T : x <= Max(T)
  <2> HIDE DEF T
  <2>1. QED BY <1>1, <1>2, GreatestNumber
<1>5. QED BY <1>1, <1>3, <1>4 DEF IsInnermost

LEMMA InnermostIs ==
  ASSUME NEW S, NEW p \in Seq(S), NEW kind, NEW i, IsInnermost(p, kind, i)
  PROVE  Innermost(p, kind) = i
<1> DEFINE k == Innermost(p, kind)
<1>1. IsInnermost(p, kind, k) /\ Len(p) \in Nat
  BY InnermostIsInnermost
<1> HIDE DEF k
<1>2. k \in 0 .. Len(p) /\ i \in 0 .. Len(p)
  BY <1>1 DEF IsInnermost
<1>3. k <= i
  BY <1>1, <1>2 DEF IsInnermost
<1>4. i <= k
  BY <1>1, <1>2 DEF IsInnermost
<1>5. k = i
  BY <1>1, <1>2, <1>3, <1>4
<1>6. QED BY <1>5 DEF k

LEMMA PrefixIs ==
  ASSUME NEW S, NEW p \in Seq(S), NEW n \in 0 .. Len(p)
  PROVE  /\ Prefix(p, n) \in Seq(S) /\ Len(Prefix(p, n)) = n
         /\ \A i \in 1 .. n : Prefix(p, n)[i] = p[i]
<1>1. Len(p) \in Nat /\ n \in Nat /\ 1 \in Int /\ n \in Int
  OBVIOUS
<1>2. \A i \in 1 .. n : p[i] \in S
  BY <1>1
<1>3. /\ SubSeq(p, 1, n) \in Seq(S)
      /\ Len(SubSeq(p, 1, n)) = IF 1 <= n THEN n - 1 + 1 ELSE 0
      /\ \A i \in 1 .. n - 1 + 1 : SubSeq(p, 1, n)[i] = p[1 + i - 1]
  BY <1>1, <1>2, SubSeqProperties
<1>4. Len(SubSeq(p, 1, n)) = n
  BY <1>1, <1>3
<1>5. ASSUME NEW i \in 1 .. n PROVE SubSeq(p, 1, n)[i] = p[i]
  <2>1. i \in 1 .. n - 1 + 1 /\ 1 + i - 1 = i
    BY <1>1
  <2>2. QED BY <1>3, <2>1
<1>6. QED BY <1>3, <1>4, <1>5 DEF Prefix

LEMMA PrefixAll ==
  ASSUME NEW S, NEW p \in Seq(S)
  PROVE  Prefix(p, Len(p)) = p
<1>1. Len(p) \in 0 .. Len(p)
  OBVIOUS
<1>2. Prefix(p, Len(p)) \in Seq(S) /\ Len(Prefix(p, Len(p))) = Len(p)
      /\ \A i \in 1 .. Len(p) : Prefix(p, Len(p))[i] = p[i]
  BY <1>1, PrefixIs
<1>3. QED BY <1>2, SeqEqual

LEMMA PrefixOfPrefix ==
  ASSUME NEW S, NEW p \in Seq(S), NEW m \in 0 .. Len(p), NEW n \in 0 .. m
  PROVE  Prefix(Prefix(p, m), n) = Prefix(p, n)
<1> DEFINE q == Prefix(p, m)
<1>1. Len(p) \in Nat /\ n \in 0 .. Len(p)
  OBVIOUS
<1>2. q \in Seq(S) /\ Len(q) = m /\ \A i \in 1 .. m : q[i] = p[i]
  BY PrefixIs
<1>3. Prefix(p, n) \in Seq(S) /\ Len(Prefix(p, n)) = n
      /\ \A i \in 1 .. n : Prefix(p, n)[i] = p[i]
  BY <1>1, PrefixIs
<1> HIDE DEF q
<1>4. n \in 0 .. Len(q) /\ m \in Nat
  BY <1>1, <1>2
<1>5. Prefix(q, n) \in Seq(S) /\ Len(Prefix(q, n)) = n
      /\ \A i \in 1 .. n : Prefix(q, n)[i] = q[i]
  BY <1>2, <1>4, PrefixIs
<1>6. \A i \in 1 .. n : i \in 1 .. m
  BY <1>4
<1>7. \A i \in 1 .. n : Prefix(q, n)[i] = Prefix(p, n)[i]
  BY <1>2, <1>3, <1>5, <1>6
<1>8. Prefix(q, n) = Prefix(p, n)
  BY <1>3, <1>5, <1>7, SeqEqual
<1>9. QED BY <1>8 DEF q

\* The last place does not count when it is of another kind.
LEMMA InnermostBelow ==
  ASSUME NEW S, NEW p \in Seq(S), p # <<>>, NEW kind, p[Len(p)] # kind
  PROVE  /\ Innermost(Prefix(p, Len(p) - 1), kind) = Innermost(p, kind)
         /\ Innermost(p, kind) \in 0 .. Len(p) - 1
<1> DEFINE n == Len(p) - 1
           q == Prefix(p, n)
           k == Innermost(p, kind)
<1>1. n \in Nat /\ Len(p) = n + 1 /\ n \in 0 .. Len(p)
  BY EmptySeq
<1>2. q \in Seq(S) /\ Len(q) = n /\ \A i \in 1 .. n : q[i] = p[i]
  BY <1>1, PrefixIs
<1>3. IsInnermost(p, kind, k)
  BY InnermostIsInnermost
<1> HIDE DEF n, q, k
<1>4. k \in 0 .. n
  BY <1>1, <1>3 DEF IsInnermost
<1>5. IsInnermost(q, kind, k)
  <2>1. k # 0 => q[k] = kind
    BY <1>1, <1>2, <1>3, <1>4 DEF IsInnermost
  <2>2. ASSUME NEW j \in 1 .. n, q[j] = kind PROVE j <= k
    BY <1>1, <1>2, <1>3, <2>2 DEF IsInnermost
  <2>3. QED BY <1>2, <1>4, <2>1, <2>2 DEF IsInnermost
<1>6. Innermost(q, kind) = k
  BY <1>2, <1>5, InnermostIs
<1>7. QED BY <1>4, <1>6 DEF n, q, k

LEMMA InnermostOnTop ==
  ASSUME NEW S, NEW p \in Seq(S), p # <<>>, NEW kind, p[Len(p)] = kind
  PROVE  Innermost(p, kind) = Len(p)
<1>1. Len(p) \in Nat /\ Len(p) > 0
  BY EmptySeq
<1>2. IsInnermost(p, kind, Len(p))
  BY <1>1 DEF IsInnermost
<1>3. QED BY <1>2, InnermostIs

\* What a jump looks for.
Target(jump) ==
  IF jump \in {"continue", "break"} THEN "loop" ELSE IF jump = "return" THEN "function" ELSE "try"

Jumps == {"continue", "break", "return", "throw"}

\* What is in between does not stop a jump.
LEMMA AfterBelow ==
  ASSUME NEW S, NEW p \in Seq(S), p # <<>>, NEW jump \in Jumps, p[Len(p)] # Target(jump),
         jump = "return" => Innermost(p, "function") # 0
  PROVE  After(p, jump) = After(Prefix(p, Len(p) - 1), jump)
<1> DEFINE n == Len(p) - 1
           q == Prefix(p, n)
           k == Innermost(p, Target(jump))
<1>1. n \in Nat /\ Len(p) = n + 1 /\ n \in 0 .. Len(p)
  BY EmptySeq
<1>2. Innermost(q, Target(jump)) = k /\ k \in 0 .. n
  BY InnermostBelow
<1> HIDE DEF n
<1>3. ASSUME NEW m \in 0 .. n PROVE Prefix(q, m) = Prefix(p, m)
  BY <1>1, PrefixOfPrefix
<1> HIDE DEF q, k
<1>4. jump = "continue" => After(p, jump) = After(q, jump)
  BY <1>2, <1>3 DEF After, Target, k
<1>5. jump = "break" => After(p, jump) = After(q, jump)
  BY <1>2, <1>3 DEF After, Target, k
<1>6. ASSUME jump = "return" PROVE After(p, jump) = After(q, jump)
  <2>1. k = Innermost(p, "function") /\ Innermost(q, "function") = k
    BY <1>2, <1>6 DEF Target, k
  <2>2. k - 1 \in 0 .. n
    BY <1>1, <1>2, <1>6, <2>1
  <2>3. Prefix(q, k - 1) = Prefix(p, k - 1)
    BY <1>3, <2>2
  <2>4. QED BY <1>6, <2>1, <2>3 DEF After
<1>7. jump = "throw" => After(p, jump) = After(q, jump)
  BY <1>2, <1>3 DEF After, Target, k
<1>8. After(p, jump) = After(q, jump)
  BY <1>4, <1>5, <1>6, <1>7 DEF Jumps
<1>9. QED BY <1>8 DEF q, n

-----------------------------------------------------------------------------
(* Jumps come from blocks.                                                  *)

\* Only a function that is called by a condition lies on a condition.
Bodies(s) ==
  \A i \in 2 .. Len(s) :
    s[i].use \notin {"condition", "iterable"} => s[i - 1].phase = "body"

\* A pointer on its way out is in the block of a statement.
BodyInv == Bodies(stack) /\ (Running /\ signal # "null" => Top.phase = "body")

LEMMA PopBodies ==
  ASSUME NEW s, Usable(s), Bodies(s)
  PROVE  /\ Bodies(Pop(s))
         /\ s[Len(s)].use \notin {"condition", "iterable", "main"} =>
              Pop(s)[Len(Pop(s))].phase = "body"
<1>1. Len(s) \in Nat /\ Len(Pop(s)) = Len(s) - 1 /\ \A j \in 1 .. Len(s) - 1 : Pop(s)[j] = s[j]
  BY NonEmpty, PopWellFormed DEF Usable
<1>2. ASSUME NEW i \in 2 .. Len(s) - 1, Pop(s)[i].use \notin {"condition", "iterable"}
      PROVE  Pop(s)[i - 1].phase = "body"
  <2>1. i \in 2 .. Len(s) /\ i \in 1 .. Len(s) - 1 /\ i - 1 \in 1 .. Len(s) - 1
    BY <1>1
  <2>2. QED BY <1>1, <1>2, <2>1 DEF Bodies
<1>3. ASSUME s[Len(s)].use \notin {"condition", "iterable", "main"}
      PROVE  Pop(s)[Len(Pop(s))].phase = "body"
  <2>1. Len(Pop(s)) # 0
    BY <1>1, <1>3, PopUsable, NonEmpty DEF Usable
  <2>2. Len(s) \in 2 .. Len(s) /\ Len(s) - 1 \in 1 .. Len(s) - 1
    BY <1>1, <2>1
  <2>3. s[Len(s) - 1].phase = "body"
    BY <1>3, <2>2 DEF Bodies
  <2>4. QED BY <1>1, <2>2, <2>3
<1>4. QED BY <1>1, <1>2, <1>3 DEF Bodies

LEMMA AppendBodies ==
  ASSUME NEW s, Usable(s), Bodies(s), NEW f \in Frames,
         f.use \notin {"condition", "iterable"} => s[Len(s)].phase = "body"
  PROVE  Bodies(Append(s, f))
<1> DEFINE n == Len(s)
           t == Append(s, f)
<1>1. s \in Seq(Frames) /\ n \in Nat /\ n > 0
  BY NonEmpty DEF Usable
<1>2. Len(t) = n + 1 /\ t[n + 1] = f /\ \A i \in 1 .. n : t[i] = s[i]
  BY <1>1, AppendProperties
<1> HIDE DEF t
<1>3. ASSUME NEW i \in 2 .. n + 1, t[i].use \notin {"condition", "iterable"}
      PROVE  t[i - 1].phase = "body"
  <2>1. i - 1 \in 1 .. n /\ t[i - 1] = s[i - 1]
    BY <1>1, <1>2
  <2>2. CASE i = n + 1
    <3>1. t[i] = f /\ i - 1 = n
      BY <1>1, <1>2, <2>2
    <3>2. QED BY <1>3, <2>1, <3>1
  <2>3. CASE i # n + 1
    <3>1. i \in 2 .. n /\ i \in 1 .. n
      BY <1>1, <2>3
    <3>2. t[i] = s[i]
      BY <1>2, <3>1
    <3>3. QED BY <1>3, <2>1, <3>1, <3>2 DEF Bodies
  <2>4. QED BY <2>2, <2>3
<1>4. QED BY <1>2, <1>3 DEF Bodies, t

LEMMA PhaseBodies ==
  ASSUME NEW s, Usable(s), Bodies(s),
         NEW phase \in {"condition", "body"}, NEW code \in Codes \cup {"null"}
  PROVE  /\ Bodies(Phase(s, phase, code))
         /\ Phase(s, phase, code)[Len(Phase(s, phase, code))].phase = phase
<1> DEFINE n == Len(s)
           t == Phase(s, phase, code)
<1>1. s \in Seq(Frames) /\ n \in Nat /\ n > 0 /\ n \in 1 .. n
  BY NonEmpty DEF Usable
<1>2. /\ Len(t) = n /\ t[n].phase = phase /\ t[n].use = s[n].use
      /\ \A i \in 1 .. n : i # n => t[i] = s[i]
  BY <1>1, Replaced
<1> HIDE DEF t
<1>3. ASSUME NEW i \in 2 .. n, t[i].use \notin {"condition", "iterable"}
      PROVE  t[i - 1].phase = "body"
  <2>1. i \in 1 .. n /\ i - 1 \in 1 .. n /\ i - 1 # n
    BY <1>1
  <2>2. t[i].use = s[i].use /\ t[i - 1] = s[i - 1]
    BY <1>2, <2>1
  <2>3. QED BY <1>3, <2>2 DEF Bodies
<1>4. QED BY <1>2, <1>3 DEF Bodies, t

LEMMA GoBodies ==
  ASSUME NEW s, NEW rv, Go(s, rv), Bodies(s), rv # "null" => s[Len(s)].phase = "body"
  PROVE  BodyInv'
BY DEF Go, BodyInv, Bodies, Top

LEMMA EndBodies ==
  ASSUME NEW how, how # "running", End(how)
  PROVE  BodyInv'
<1>1. stack' = <<>> /\ outcome' # "running"
  BY DEF End
<1>2. Bodies(<<>>)
  BY DEF Bodies
<1>3. QED BY <1>1, <1>2 DEF BodyInv, Bodies, Running

LEMMA RuntimeErrorBodies == RuntimeError => BodyInv'
BY EndBodies DEF RuntimeError

LEMMA EnterBodyBodies ==
  ASSUME NEW s, Usable(s), Bodies(s), EnterBody(s)
  PROVE  BodyInv'
<1> DEFINE t == Phase(s, "body", "null")
<1>1. Bodies(t) /\ t[Len(t)].phase = "body"
  BY PhaseBodies
<1>2. PICK rv \in {"abort", "null"} : Go(t, rv)
  BY DEF EnterBody
<1> HIDE DEF t
<1>3. QED BY <1>1, <1>2, GoBodies

LEMMA TestBodies ==
  ASSUME NEW s, Usable(s), Bodies(s), Test(s), "jumpPastFalseCondition" \notin Habits
  PROVE  BodyInv'
<1>1. Bodies(Pop(s))
  BY PopBodies
<1>2. Go(s, "null") => BodyInv'
  BY GoBodies
<1>3. Go(Pop(s), "null") => BodyInv'
  BY <1>1, GoBodies
<1>4. QED BY <1>2, <1>3, EnterBodyBodies, RuntimeErrorBodies DEF Test

LEMMA UseBodies ==
  ASSUME NEW s, NEW use, Usable(s), Bodies(s), Use(use, s),
         "jumpPastFalseCondition" \notin Habits,
         use \notin {"condition", "iterable"} => s[Len(s)].phase = "body"
  PROVE  BodyInv'
<1>1. CASE use \in {"condition", "iterable"}
  BY <1>1, TestBodies DEF Use
<1>2. CASE use \notin {"condition", "iterable"}
  <2>1. \E rv : Go(s, rv)
    BY <1>2 DEF Use, Discard, Initialize, Throw
  <2>2. QED BY <1>2, <2>1, GoBodies
<1>3. QED BY <1>1, <1>2

LEMMA IterateBodies ==
  ASSUME NEW code \in Codes \cup {"null"}, Usable(stack), Bodies(stack), Iterate(code)
  PROVE  BodyInv'
<1>1. CASE Go(Phase(stack, "condition", code), "null")
  <2>1. Bodies(Phase(stack, "condition", code))
    BY PhaseBodies
  <2>2. QED BY <1>1, <2>1, GoBodies
<1>2. CASE EnterBody(stack)
  BY <1>2, EnterBodyBodies
<1>3. CASE Go(Pop(stack), "null")
  BY <1>3, PopBodies, GoBodies
<1>4. QED BY <1>1, <1>2, <1>3 DEF Iterate

LEMMA PushBodies ==
  ASSUME NEW f \in Frames, Usable(stack), Bodies(stack), Push(f),
         f.use \notin {"condition", "iterable"} => Top.phase = "body"
  PROVE  BodyInv'
<1>1. Bodies(Append(stack, f))
  BY AppendBodies DEF Top
<1>2. QED BY <1>1, GoBodies DEF Push

LEMMA NextBodies ==
  ASSUME "jumpPastFalseCondition" \notin Habits, Core, BodyInv, [Next]_vars
  PROVE  BodyInv'
<1>1. Bodies(stack) /\ (Running => Usable(stack))
  BY DEF BodyInv, Core, Usable
<1>2. ASSUME NEW use \in Uses, Evaluate(use) PROVE BodyInv'
  <2>1. Usable(stack) /\ Use(use, stack) /\ stack[Len(stack)].phase = "body"
    BY <1>1, <1>2 DEF Evaluate, NextStatement, Executing, Top
  <2>2. QED BY <1>1, <2>1, UseBodies
<1>3. ASSUME NEW use \in Uses, CallFunction(use) PROVE BodyInv'
  <2>1. Usable(stack) /\ Push(Function(use)) /\ Top.phase = "body"
    BY <1>1, <1>3 DEF CallFunction, NextStatement, Executing
  <2>2. Function(use) \in Frames
    BY FrameFields, KindFacts DEF Function
  <2>3. QED BY <1>1, <2>1, <2>2, PushBodies
<1>4. ASSUME NEW code \in Codes, LoopControl(code) PROVE BodyInv'
  BY <1>1, <1>4, GoBodies DEF LoopControl, NextStatement, Executing, Top
<1>5. ASSUME NEW kind \in Conditional, EnterConditional(kind) PROVE BodyInv'
  <2>1. Usable(stack) /\ Push(Frame(kind, "condition", "none")) /\ Top.phase = "body"
    BY <1>1, <1>5 DEF EnterConditional, NextStatement, Executing
  <2>2. Frame(kind, "condition", "none") \in Frames
    BY FrameFields, KindFacts
  <2>3. QED BY <1>1, <2>1, <2>2, PushBodies
<1>6. ASSUME NEW kind \in {"repeat", "repeatWhile"}, EnterRepeat(kind) PROVE BodyInv'
  <2> DEFINE f == Frame(kind, "body", "none")
             t == Append(stack, f)
  <2>1. Usable(stack) /\ Top.phase = "body" /\ EnterBody(t) /\ Len(stack) < MaxDepth
    BY <1>1, <1>6 DEF EnterRepeat, NextStatement, Executing
  <2>2. Usable(t) /\ f \in Frames
    BY <2>1, RepeatUsable
  <2>3. Bodies(t)
    BY <1>1, <2>1, <2>2, AppendBodies DEF Top
  <2> HIDE DEF t
  <2>4. QED BY <2>1, <2>2, <2>3, EnterBodyBodies
<1>7. CASE EnterTry
  <2>1. Usable(stack) /\ Push(Frame("try", "body", "none")) /\ Top.phase = "body"
    BY <1>1, <1>7 DEF EnterTry, NextStatement, Executing
  <2>2. Frame("try", "body", "none") \in Frames
    BY FrameFields DEF Kinds, Blocks
  <2>3. QED BY <1>1, <2>1, <2>2, PushBodies
<1>8. CASE EvaluateCondition
  BY <1>1, <1>8, TestBodies DEF EvaluateCondition, Testing
<1>9. CASE CallInCondition
  <2>1. PICK use \in {"iterable", "condition"} : Push(Function(use))
    BY <1>9 DEF CallInCondition
  <2>2. Function(use) \in Frames /\ Function(use).use = use
    BY FrameFields, KindFacts DEF Function
  <2>3. Usable(stack)
    BY <1>1, <1>9 DEF CallInCondition, Testing
  <2>4. QED BY <1>1, <2>1, <2>2, <2>3, PushBodies
<1>10. CASE EndBlock
  <2>1. Usable(stack) /\ Top.phase = "body"
    BY <1>1, <1>10 DEF EndBlock, Executing
  <2>2. Go(stack, "undefined") => BodyInv'
    BY <1>1, <2>1, GoBodies DEF Top
  <2>3. Go(Pop(stack), "null") => BodyInv'
    BY <1>1, <2>1, PopBodies, GoBodies
  <2>4. QED BY <1>1, <1>10, <2>1, <2>2, <2>3, IterateBodies DEF EndBlock
<1>11. CASE Fail
  BY <1>11, RuntimeErrorBodies DEF Fail
<1>12. CASE LeaveLoop
  BY <1>1, <1>12, PopBodies, GoBodies DEF LeaveLoop, Unwinding
<1>13. CASE ContinueLoop
  BY <1>1, <1>13, IterateBodies DEF ContinueLoop, Unwinding
<1>14. CASE RepeatWhile
  BY <1>1, <1>14, IterateBodies DEF RepeatWhile, Unwinding
<1>15. CASE CatchException
  <2> DEFINE f == Frame("catch", "body", "none")
             s == Pop(stack)
  <2>1. Usable(stack) /\ Top.kind = "try" /\ Go(Append(s, f), "null")
    BY <1>1, <1>15 DEF CatchException, Unwinding
  <2>2. f \in Frames
    BY FrameFields DEF Kinds, Blocks
  <2>3. WellPlaced(stack, Len(stack))
    BY <2>1, NonEmpty DEF Usable, WellFormed
  <2>4. Top.use = "none"
    BY <2>1, <2>3 DEF WellPlaced, Top
  <2>5. Bodies(s) /\ s[Len(s)].phase = "body" /\ Usable(s)
    BY <1>1, <2>1, <2>4, PopBodies, PopUsable DEF Top
  <2>6. Bodies(Append(s, f))
    BY <2>2, <2>5, AppendBodies
  <2>7. QED BY <2>1, <2>6, GoBodies
<1>16. CASE PassOn
  <2>1. Usable(stack) /\ Top.kind # "function" /\ Go(Pop(stack), signal)
    BY <1>1, <1>16, KindFacts DEF PassOn, Unwinding
  <2>2. WellPlaced(stack, Len(stack))
    BY <2>1, NonEmpty DEF Usable, WellFormed
  <2>3. Top.use = "none"
    BY <2>1, <2>2 DEF WellPlaced, Top
  <2>4. Bodies(Pop(stack)) /\ Pop(stack)[Len(Pop(stack))].phase = "body"
    BY <1>1, <2>1, <2>3, PopBodies DEF Top
  <2>5. QED BY <2>1, <2>4, GoBodies
<1>17. CASE LeaveFunction
  <2>1. Usable(stack)
    BY <1>1, <1>17 DEF LeaveFunction, Unwinding
  <2>2. CASE \E how \in {"error", "returned"} : End(how)
    BY <2>2, EndBodies
  <2>3. CASE Top.use # "main" /\ Use(Top.use, Pop(stack))
    <3>1. Usable(Pop(stack)) /\ Bodies(Pop(stack))
      BY <1>1, <2>1, <2>3, PopUsable, PopBodies DEF Top
    <3>2. Top.use \notin {"condition", "iterable"} =>
            Pop(stack)[Len(Pop(stack))].phase = "body"
      BY <1>1, <2>1, <2>3, PopBodies DEF Top
    <3>3. QED BY <2>3, <3>1, <3>2, UseBodies
  <2>4. QED BY <1>17, <2>2, <2>3 DEF LeaveFunction, Use
<1>18. CASE Abort \/ Ended \/ UNCHANGED vars
  BY <1>18 DEF Abort, Ended, vars, BodyInv, Bodies, Running, Top
<1>19. QED
  BY <1>2, <1>3, <1>4, <1>5, <1>6, <1>7, <1>8, <1>9, <1>10, <1>11, <1>12, <1>13, <1>14,
     <1>15, <1>16, <1>17, <1>18 DEF Next, Unwind

LEMMA InitBodies == Init => BodyInv
<1> SUFFICES ASSUME Init PROVE BodyInv
  OBVIOUS
<1>1. Len(stack) = 1 /\ signal = "null"
  BY DEF Init
<1>2. QED BY <1>1 DEF BodyInv, Bodies

-----------------------------------------------------------------------------
(* The places of a stack.                                                   *)

PlacesOf(s) == [i \in 1 .. Len(s) |-> Place(s[i])]

LEMMA PlaceIs ==
  ASSUME NEW f \in Frames
  PROVE  /\ Place(f) \in FrameKinds
         /\ f.kind \in {"function", "try"} => Place(f) = f.kind
         /\ f.kind \in Loops => Place(f) = IF f.code = "break" THEN "left" ELSE "loop"
         /\ f.kind \in {"if", "match", "catch"} => Place(f) = "block"
<1>1. f.kind \in Kinds
  BY DEF Frames
<1>2. CASE f.kind \in {"function", "try"}
  BY <1>2 DEF Place, FrameKinds, Loops
<1>3. CASE f.kind \in Loops
  BY <1>3 DEF Place, FrameKinds, Loops
<1>4. CASE f.kind \in {"if", "match", "catch"}
  BY <1>4 DEF Place, FrameKinds, Loops
<1>5. QED BY <1>1, <1>2, <1>3, <1>4 DEF Kinds, Blocks

LEMMA PlacesAre ==
  ASSUME NEW s \in Seq(Frames)
  PROVE  /\ PlacesOf(s) \in Seq(FrameKinds) /\ Len(PlacesOf(s)) = Len(s)
         /\ \A i \in 1 .. Len(s) : PlacesOf(s)[i] = Place(s[i])
<1>1. \A i \in 1 .. Len(s) : Place(s[i]) \in FrameKinds
  BY PlaceIs
<1>2. Len(s) \in Nat
  OBVIOUS
<1>3. QED BY <1>1, <1>2 DEF PlacesOf

LEMMA PlacesOfPop ==
  ASSUME NEW s, Usable(s)
  PROVE  PlacesOf(Pop(s)) = Prefix(PlacesOf(s), Len(PlacesOf(s)) - 1)
<1> DEFINE n == Len(s) - 1
           t == Pop(s)
           p == PlacesOf(s)
           q == Prefix(p, n)
<1>1. s \in Seq(Frames) /\ n \in Nat /\ Len(s) = n + 1 /\ t \in Seq(Frames) /\ Len(t) = n
      /\ \A i \in 1 .. n : t[i] = s[i]
  BY NonEmpty, PopWellFormed DEF Usable, WellFormed
<1>2. p \in Seq(FrameKinds) /\ Len(p) = n + 1 /\ \A i \in 1 .. n + 1 : p[i] = Place(s[i])
  BY <1>1, PlacesAre
<1> HIDE DEF n, t, p
<1>3. q \in Seq(FrameKinds) /\ Len(q) = n /\ \A i \in 1 .. n : q[i] = p[i]
  <2>1. n \in 0 .. Len(p)
    BY <1>1, <1>2
  <2>2. QED BY <1>2, <2>1, PrefixIs
<1>4. /\ PlacesOf(t) \in Seq(FrameKinds) /\ Len(PlacesOf(t)) = n
      /\ \A i \in 1 .. n : PlacesOf(t)[i] = Place(t[i])
  BY <1>1, PlacesAre
<1> HIDE DEF q
<1>5. \A i \in 1 .. n : i \in 1 .. n + 1
  BY <1>1
<1>6. \A i \in 1 .. n : PlacesOf(t)[i] = q[i]
  BY <1>1, <1>2, <1>3, <1>4, <1>5
<1>7. PlacesOf(t) = q
  BY <1>3, <1>4, <1>6, SeqEqual
<1>8. Len(p) - 1 = n
  BY <1>1, <1>2
<1>9. PlacesOf(t) = Prefix(p, Len(p) - 1)
  BY <1>7, <1>8 DEF q
<1>10. QED BY <1>9 DEF t, p

LEMMA PlacesOfAppend ==
  ASSUME NEW s \in Seq(Frames), NEW f \in Frames
  PROVE  PlacesOf(Append(s, f)) = Append(PlacesOf(s), Place(f))
<1> DEFINE n == Len(s)
           t == Append(s, f)
           p == PlacesOf(s)
           q == Append(p, Place(f))
<1>1. /\ n \in Nat /\ t \in Seq(Frames) /\ Len(t) = n + 1 /\ t[n + 1] = f
      /\ \A i \in 1 .. n : t[i] = s[i]
  BY AppendProperties
<1>2. /\ p \in Seq(FrameKinds) /\ Len(p) = n /\ \A i \in 1 .. n : p[i] = Place(s[i])
      /\ Place(f) \in FrameKinds
  BY PlacesAre, PlaceIs
<1> HIDE DEF t, p
<1>3. q \in Seq(FrameKinds) /\ Len(q) = n + 1 /\ q[n + 1] = Place(f)
      /\ \A i \in 1 .. n : q[i] = p[i]
  BY <1>2, AppendProperties
<1>4. /\ PlacesOf(t) \in Seq(FrameKinds) /\ Len(PlacesOf(t)) = n + 1
      /\ \A i \in 1 .. n + 1 : PlacesOf(t)[i] = Place(t[i])
  BY <1>1, PlacesAre
<1> HIDE DEF q, n
<1>5. ASSUME NEW i \in 1 .. n + 1 PROVE PlacesOf(t)[i] = q[i]
  <2>1. i = n + 1 \/ i \in 1 .. n
    BY <1>1
  <2>2. QED BY <1>1, <1>2, <1>3, <1>4, <2>1
<1>6. PlacesOf(t) = q
  BY <1>3, <1>4, <1>5, SeqEqual
<1>7. QED BY <1>6 DEF t, q, p

\* A statement keeps its place in its condition and in its block, unless it keeps a break.
LEMMA PlacesOfPhase ==
  ASSUME NEW s, Usable(s), NEW phase \in {"condition", "body"}, NEW code \in Codes \cup {"null"}
  PROVE  /\ s[Len(s)].kind \in Loops /\ (code = "break" <=> s[Len(s)].code = "break") =>
              PlacesOf(Phase(s, phase, code)) = PlacesOf(s)
         /\ s[Len(s)].kind \notin Loops => PlacesOf(Phase(s, phase, code)) = PlacesOf(s)
         /\ s[Len(s)].kind \in Loops /\ code = "break" =>
              PlacesOf(Phase(s, phase, code)) = [PlacesOf(s) EXCEPT ![Len(s)] = "left"]
<1> DEFINE n == Len(s)
           t == Phase(s, phase, code)
           p == PlacesOf(s)
           q == PlacesOf(t)
<1>1. s \in Seq(Frames) /\ n \in Nat /\ n > 0 /\ n \in 1 .. n /\ s[n] \in Frames
  BY NonEmpty DEF Usable
<1>2. /\ t \in Seq(Frames) /\ Len(t) = n /\ t[n].kind = s[n].kind /\ t[n].code = code
      /\ \A i \in 1 .. n : i # n => t[i] = s[i]
  BY <1>1, Replaced
<1> HIDE DEF t, n
<1>3. p \in Seq(FrameKinds) /\ Len(p) = n /\ \A i \in 1 .. n : p[i] = Place(s[i])
  BY <1>1, PlacesAre DEF n
<1>4. q \in Seq(FrameKinds) /\ Len(q) = n /\ \A i \in 1 .. n : q[i] = Place(t[i])
  BY <1>2, PlacesAre
<1>5. t[n] \in Frames
  BY <1>1, <1>2
<1> HIDE DEF p, q
<1>6. \A i \in 1 .. n : i # n => q[i] = p[i]
  BY <1>2, <1>3, <1>4
<1>7. ASSUME q[n] = p[n] PROVE q = p
  <2>1. \A i \in 1 .. n : q[i] = p[i]
    BY <1>6, <1>7
  <2>2. QED BY <1>3, <1>4, <2>1, SeqEqual
<1>8. CASE s[n].kind \notin Loops
  <2>1. Place(t[n]) = Place(s[n])
    BY <1>2, <1>8 DEF Place
  <2>2. q = p
    BY <1>1, <1>3, <1>4, <1>7, <2>1
  <2>3. QED BY <1>8, <2>2 DEF p, q, t, n
<1>9. CASE s[n].kind \in Loops
  <2>1. /\ Place(t[n]) = IF code = "break" THEN "left" ELSE "loop"
        /\ Place(s[n]) = IF s[n].code = "break" THEN "left" ELSE "loop"
    BY <1>1, <1>2, <1>5, <1>9, PlaceIs
  <2>2. ASSUME code = "break" <=> s[n].code = "break" PROVE q = p
    BY <1>1, <1>3, <1>4, <1>7, <2>1, <2>2
  <2>3. ASSUME code = "break" PROVE q = [p EXCEPT ![n] = "left"]
    <3> DEFINE r == [p EXCEPT ![n] = "left"]
    <3>1. r \in Seq(FrameKinds) /\ Len(r) = n /\ r[n] = "left"
          /\ \A i \in 1 .. n : i # n => r[i] = p[i]
      BY <1>1, <1>3 DEF FrameKinds
    <3> HIDE DEF r
    <3>2. q[n] = "left"
      BY <1>1, <1>4, <2>1, <2>3
    <3>3. \A i \in 1 .. n : q[i] = r[i]
      BY <1>6, <3>1, <3>2
    <3>4. q = r
      BY <1>4, <3>1, <3>3, SeqEqual
    <3>5. QED BY <3>4 DEF r
  <2>4. QED BY <1>9, <2>2, <2>3 DEF p, q, t, n
<1>10. QED BY <1>8, <1>9

-----------------------------------------------------------------------------
(* The steps of structured control, between two values of its variable.     *)

ControlStep(p, q) ==
  \/ q = p
  \/ /\ p \notin {Returned, Error}
     /\ \/ \E kind \in FrameKinds \ {"left"} :
             (p[Len(p)] = "left" => kind = "function") /\ q = Append(p, kind)
        \/ q = Prefix(p, Len(p) - 1)
        \/ \E jump \in Jumps :
             /\ jump \in {"break", "continue"} =>
                  Innermost(p, "loop") > Innermost(p, "function")
             /\ q = After(p, jump)
        \/ q = Error

\* Both modules mean the same by a jump.
LEMMA SameOperators ==
  ASSUME NEW p, NEW x
  PROVE  /\ Control!Innermost(p, x) = Innermost(p, x) /\ Control!Prefix(p, x) = Prefix(p, x)
         /\ Control!After(p, x) = After(p, x)
         /\ Control!Returned = Returned /\ Control!Error = Error
         /\ Control!FrameKinds = FrameKinds
<1>1. \A kind : Control!Innermost(p, kind) = Innermost(p, kind)
  BY DEF Control!Innermost, Innermost, Control!Max, Max
<1>2. \A n : Control!Prefix(p, n) = Prefix(p, n)
  BY DEF Control!Prefix, Prefix
<1>3. Control!Returned = Returned /\ Control!Error = Error /\ Control!FrameKinds = FrameKinds
  BY DEF Control!Returned, Returned, Control!Error, Error, Control!FrameKinds, FrameKinds
<1>4. Control!After(p, x) = After(p, x)
  BY <1>1, <1>2, <1>3 DEF Control!After, After
<1>5. QED BY <1>1, <1>2, <1>3, <1>4

LEMMA StepOfControl ==
  ASSUME ControlStep(Places, Places')
  PROVE  [Control!Next]_Places
<1> DEFINE p == Places
           q == Places'
<1>1. CASE q = p
  BY <1>1
<1>2. CASE p \notin {Returned, Error}
  <2>1. Control!Running
    BY <1>2, SameOperators DEF Control!Running
  <2>2. ASSUME NEW kind \in FrameKinds \ {"left"},
               p[Len(p)] = "left" => kind = "function", q = Append(p, kind)
        PROVE  Control!Next
    BY <2>1, <2>2, SameOperators DEF Control!Next, Control!Enter
  <2>3. q = Prefix(p, Len(p) - 1) => Control!Next
    BY <2>1, SameOperators DEF Control!Next, Control!Complete
  <2>4. ASSUME NEW jump \in Jumps, q = After(p, jump),
               jump \in {"break", "continue"} =>
                 Innermost(p, "loop") > Innermost(p, "function")
        PROVE  Control!Next
    <3>1. q = Control!After(p, jump)
      BY <2>4, SameOperators
    <3>2. jump \in {"break", "continue"} =>
            Control!Innermost(p, "loop") > Control!Innermost(p, "function")
      BY <2>4, SameOperators
    <3>3. Control!Jump(jump)
      BY <2>1, <3>1, <3>2 DEF Control!Jump
    <3>4. QED BY <3>3 DEF Control!Next, Jumps
  <2>5. q = Error => Control!Next
    BY <2>1, SameOperators DEF Control!Next, Control!Fail
  <2>6. QED BY <1>2, <2>2, <2>3, <2>4, <2>5 DEF ControlStep
<1>3. QED BY <1>1, <1>2 DEF ControlStep

Way(rv, pending) ==
  CASE rv = "null" -> "stay"
    [] rv \in Codes -> rv
    [] rv = "value" /\ pending -> "throw"
    [] OTHER -> "return"

LEMMA WayIs ==
  ASSUME NEW pending
  PROVE  /\ Way("null", pending) = "stay"
         /\ \A rv \in Codes : Way(rv, pending) = rv
         /\ pending => Way("value", pending) = "throw"
         /\ ~pending => Way("value", pending) = "return"
         /\ Way("undefined", pending) = "return" /\ Way("abort", pending) = "return"
BY DEF Way, Codes

LEMMA AfterStay == ASSUME NEW p PROVE After(p, "stay") = p
BY DEF After

LEMMA PlacesNow ==
  ASSUME Running
  PROVE  Places = After(PlacesOf(stack), Way(signal, thrown))
BY DEF Places, PlacesOf, JumpUnderWay, Way

LEMMA PlacesThen ==
  ASSUME NEW s, NEW rv, Running, Go(s, rv)
  PROVE  /\ Places' = After(PlacesOf(s), Way(rv, thrown'))
         /\ rv = "null" => Places' = PlacesOf(s)
<1>1. Running' /\ stack' = s /\ signal' = rv
  BY DEF Go, Running
<1>2. Places' = After(PlacesOf(s), Way(rv, thrown'))
  BY <1>1 DEF Places, PlacesOf, JumpUnderWay, Way
<1>3. QED BY <1>2, WayIs, AfterStay

\* A program that runs has neither returned nor failed.
LEMMA PlacesAlive ==
  ASSUME NEW s, Usable(s)
  PROVE  /\ PlacesOf(s) \in Seq(FrameKinds) /\ Len(PlacesOf(s)) = Len(s) /\ PlacesOf(s) # <<>>
         /\ PlacesOf(s)[Len(s)] = Place(s[Len(s)])
         /\ PlacesOf(s) \notin {Returned, Error}
         /\ Len(s) \in Nat /\ Len(s) > 0 /\ s[Len(s)] \in Frames
<1>1. s \in Seq(Frames) /\ Len(s) \in Nat /\ Len(s) > 0 /\ Len(s) \in 1 .. Len(s)
      /\ s[Len(s)] \in Frames
  BY NonEmpty DEF Usable
<1>2. PlacesOf(s) \in Seq(FrameKinds) /\ Len(PlacesOf(s)) = Len(s)
      /\ \A i \in 1 .. Len(s) : PlacesOf(s)[i] = Place(s[i])
  BY <1>1, PlacesAre
<1>3. PlacesOf(s) # <<>>
  BY <1>1, <1>2, EmptySeq
<1>4. 1 \in 1 .. Len(s) /\ PlacesOf(s)[1] \in FrameKinds
  BY <1>1, <1>2
<1>5. Error[1] = "error" /\ "error" \notin FrameKinds
  BY DEF Error, FrameKinds
<1>6. PlacesOf(s) # Error
  BY <1>4, <1>5
<1>7. QED BY <1>1, <1>2, <1>3, <1>6 DEF Returned

\* An error ends the program at once.
LEMMA RuntimeErrorPlaces ==
  ASSUME NEW s, Usable(s), "errorInMatch" \notin Habits, RuntimeError
  PROVE  ControlStep(PlacesOf(s), Places')
<1>1. stack' = <<>> /\ outcome' = "error"
  BY DEF RuntimeError, End
<1>2. Places' = Error
  BY <1>1 DEF Places, Running
<1>3. PlacesOf(s) \notin {Returned, Error}
  BY PlacesAlive
<1>4. QED BY <1>2, <1>3 DEF ControlStep

\* A statement that is done.
LEMMA PopPlaces ==
  ASSUME NEW s, Usable(s), Running, Go(Pop(s), "null")
  PROVE  ControlStep(PlacesOf(s), Places')
<1>1. Places' = PlacesOf(Pop(s))
  BY PlacesThen
<1>2. PlacesOf(s) \notin {Returned, Error} /\ PlacesOf(Pop(s)) = Prefix(PlacesOf(s), Len(PlacesOf(s)) - 1)
  BY PlacesAlive, PlacesOfPop
<1>3. QED BY <1>1, <1>2 DEF ControlStep

\* A statement enters its block again, or notices the abort, which is a return.
LEMMA EnterBodyPlaces ==
  ASSUME NEW s, Usable(s), Running, EnterBody(s), s[Len(s)].code # "break"
  PROVE  Places' \in {PlacesOf(s), After(PlacesOf(s), "return")}
<1> DEFINE t == Phase(s, "body", "null")
<1>1. PlacesOf(t) = PlacesOf(s)
  BY PlacesOfPhase
<1>2. PICK rv \in {"abort", "null"} : Go(t, rv)
  BY DEF EnterBody
<1> HIDE DEF t
<1>3. Places' = After(PlacesOf(t), Way(rv, thrown'))
  BY <1>2, PlacesThen
<1>4. QED BY <1>1, <1>2, <1>3, WayIs, AfterStay

LEMMA ReturnStep ==
  ASSUME NEW s, Usable(s), NEW q, q \in {PlacesOf(s), After(PlacesOf(s), "return")}
  PROVE  ControlStep(PlacesOf(s), q)
<1>1. PlacesOf(s) \notin {Returned, Error}
  BY PlacesAlive
<1>2. CASE q = PlacesOf(s)
  BY <1>2 DEF ControlStep
<1>3. CASE q = After(PlacesOf(s), "return")
  BY <1>1, <1>3 DEF ControlStep, Jumps
<1>4. QED BY <1>2, <1>3

LEMMA TestPlaces ==
  ASSUME NEW s, Usable(s), Running, Test(s), Habits = {}
  PROVE  ControlStep(PlacesOf(s), Places')
<1>1. CASE RuntimeError
  BY <1>1, RuntimeErrorPlaces
<1>2. CASE Go(s, "null")
  BY <1>2, PlacesThen DEF ControlStep
<1>3. CASE s[Len(s)].code # "break" /\ EnterBody(s)
  BY <1>3, EnterBodyPlaces, ReturnStep
<1>4. CASE Go(Pop(s), "null")
  BY <1>4, PopPlaces
<1>5. QED BY <1>1, <1>2, <1>3, <1>4 DEF Test

LEMMA ThrownPlaces ==
  ASSUME NEW s, Running, Go(s, "value"), thrown'
  PROVE  Places' = After(PlacesOf(s), "throw")
<1>1. Places' = After(PlacesOf(s), Way("value", thrown'))
  BY PlacesThen
<1>2. Way("value", thrown') = "throw"
  BY DEF Way, Codes
<1>3. QED BY <1>1, <1>2

\* What becomes of a value, where no exception is pending.
LEMMA UsePlaces ==
  ASSUME NEW s, NEW use, Usable(s), Running, ~thrown, thrown \in BOOLEAN, Use(use, s), Habits = {}
  PROVE  ControlStep(PlacesOf(s), Places')
<1>1. PlacesOf(s) \notin {Returned, Error}
  BY PlacesAlive
<1>2. Go(s, "null") => Places' = PlacesOf(s)
  BY PlacesThen
<1>3. CASE use = "statement" /\ Discard(s)
  BY <1>2, <1>3 DEF Discard, ControlStep
<1>4. CASE use = "initializer" /\ Initialize(s)
  BY <1>2, <1>4 DEF Initialize, ControlStep
<1>5. CASE use = "return" /\ Go(s, "value") /\ Keep
  <2>1. ~thrown'
    BY <1>5 DEF Keep
  <2>2. Places' = After(PlacesOf(s), "return")
    BY <1>5, <2>1, PlacesThen, WayIs
  <2>3. QED BY <2>2, ReturnStep
<1>6. CASE use = "throw" /\ Throw(s)
  <2>1. thrown' = TRUE /\ Go(s, "value")
    BY <1>6 DEF Throw
  <2>2. Places' = After(PlacesOf(s), "throw")
    BY <2>1, ThrownPlaces
  <2>3. QED BY <1>1, <2>2 DEF ControlStep, Jumps
<1>7. CASE use \in {"condition", "iterable"} /\ Test(s)
  BY <1>7, TestPlaces
<1>8. QED BY <1>3, <1>4, <1>5, <1>6, <1>7 DEF Use

\* A pending exception is what jumps: its uses do not move it.
LEMMA UseThrownPlaces ==
  ASSUME NEW s, NEW use, Usable(s), Running, thrown, Use(use, s),
         use \notin {"initializer", "condition", "iterable"}
  PROVE  Places' = After(PlacesOf(s), "throw")
<1>1. thrown' /\ Go(s, "value")
  BY DEF Use, Discard, Throw, Keep
<1>2. QED BY <1>1, ThrownPlaces

LEMMA IteratePlaces ==
  ASSUME Usable(stack), Running, Iterate("null"), Top.code # "break"
  PROVE  ControlStep(PlacesOf(stack), Places')
<1>1. CASE Go(Phase(stack, "condition", "null"), "null")
  <2>1. PlacesOf(Phase(stack, "condition", "null")) = PlacesOf(stack)
    BY PlacesOfPhase DEF Top
  <2>2. QED BY <1>1, <2>1, PlacesThen DEF ControlStep
<1>2. CASE EnterBody(stack)
  BY <1>2, EnterBodyPlaces, ReturnStep DEF Top
<1>3. CASE Go(Pop(stack), "null")
  BY <1>3, PopPlaces
<1>4. QED BY <1>1, <1>2, <1>3 DEF Iterate

\* A statement or a function is entered.
LEMMA PushPlaces ==
  ASSUME NEW f \in Frames, Usable(stack), Running, Push(f), Place(f) # "left",
         Place(f) = "function" \/ Top.code # "break"
  PROVE  ControlStep(PlacesOf(stack), Places')
<1> DEFINE p == PlacesOf(stack)
<1>1. Places' = PlacesOf(Append(stack, f))
  BY PlacesThen DEF Push
<1>2. stack \in Seq(Frames)
  BY DEF Usable, WellFormed
<1>3. Places' = Append(p, Place(f))
  BY <1>1, <1>2, PlacesOfAppend
<1>4. p \notin {Returned, Error} /\ p[Len(p)] = Place(Top) /\ Top \in Frames
  BY PlacesAlive DEF Top
<1>5. Place(Top) = "left" => Top.code = "break"
  BY <1>4, PlaceIs DEF Kinds, Blocks, Frames
<1>6. Place(f) \in FrameKinds \ {"left"}
  BY PlaceIs
<1> HIDE DEF p
<1>7. ControlStep(p, Places')
  BY <1>3, <1>4, <1>5, <1>6 DEF ControlStep
<1>8. QED BY <1>7 DEF p

\* What the steps rely on: stacks are well-formed, codes are within their loops, exceptions
\* on their way to a handler, and jumps come from blocks.
ControlInv == IInv /\ CodesInLoops /\ ExceptionInv /\ BodyInv

LEMMA InBlock ==
  ASSUME NEW s, Usable(s), NEW i \in 1 .. Len(s), s[i].phase = "body"
  PROVE  s[i].code = "null" /\ s[i] \in Frames
<1>1. WellPlaced(s, i) /\ s[i] \in Frames
  BY DEF Usable, WellFormed
<1>2. QED BY <1>1 DEF WellPlaced, KeepsCode

LEMMA ControlFacts ==
  ASSUME ControlInv, Running
  PROVE  /\ Usable(stack) /\ thrown \in BOOLEAN /\ (thrown => signal = "value")
         /\ Places = After(PlacesOf(stack), Way(signal, thrown))
         /\ signal = "null" => Places = PlacesOf(stack)
         /\ Top = stack[Len(stack)] /\ Top \in Frames
         /\ signal # "null" \/ Top.phase = "body" => Top.code = "null"
<1>1. Usable(stack) /\ thrown \in BOOLEAN /\ (thrown => signal = "value")
  BY DEF ControlInv, IInv, Core, Usable, ExceptionInv, Pending
<1>2. Places = After(PlacesOf(stack), Way(signal, thrown))
  BY PlacesNow
<1>3. signal = "null" => Places = PlacesOf(stack)
  BY <1>2, WayIs, AfterStay
<1>4. Len(stack) \in 1 .. Len(stack) /\ Top \in Frames /\ Top = stack[Len(stack)]
  BY <1>1, NonEmpty DEF Usable, Top
<1>5. signal # "null" \/ Top.phase = "body" => Top.code = "null"
  BY <1>1, <1>4, InBlock DEF ControlInv, BodyInv
<1>6. QED BY <1>1, <1>2, <1>3, <1>4, <1>5

\* main is below everything.
LEMMA FunctionBelow ==
  ASSUME NEW s, Usable(s)
  PROVE  Innermost(PlacesOf(s), "function") # 0
<1> DEFINE p == PlacesOf(s)
<1>1. s \in Seq(Frames) /\ 1 \in 1 .. Len(s) /\ s[1] \in Frames /\ WellPlaced(s, 1)
  BY NonEmpty DEF Usable, WellFormed
<1>2. Place(s[1]) = "function"
  BY <1>1, PlaceIs DEF WellPlaced
<1>3. p \in Seq(FrameKinds) /\ p[1] = "function" /\ 1 \in 1 .. Len(p)
  BY <1>1, <1>2, PlacesAre
<1>4. IsInnermost(p, "function", Innermost(p, "function"))
  BY <1>3, InnermostIsInnermost
<1> HIDE DEF p
<1>5. Innermost(p, "function") # 0
  BY <1>3, <1>4 DEF IsInnermost
<1>6. QED BY <1>5 DEF p

LEMMA EvaluateControl ==
  ASSUME NEW use \in Uses, ControlInv, Habits = {}, Evaluate(use)
  PROVE  ControlStep(Places, Places')
<1>1. Running /\ signal = "null" /\ Use(use, stack)
  BY DEF Evaluate, NextStatement, Executing
<1>2. ~thrown /\ thrown \in BOOLEAN /\ Usable(stack) /\ Places = PlacesOf(stack)
  BY <1>1, ControlFacts
<1>3. QED BY <1>1, <1>2, UsePlaces

LEMMA PushControl ==
  ASSUME NEW f \in Frames, ControlInv, Running, signal = "null", Push(f), f.code = "null",
         f.kind = "function" \/ Top.phase = "body"
  PROVE  ControlStep(Places, Places')
<1>1. Usable(stack) /\ Places = PlacesOf(stack) /\ (Top.phase = "body" => Top.code = "null")
  BY ControlFacts
<1>2. Place(f) # "left" /\ (f.kind = "function" => Place(f) = "function")
  BY PlaceIs DEF Frames, Kinds, Blocks
<1>3. QED BY <1>1, <1>2, PushPlaces

LEMMA EnterRepeatControl ==
  ASSUME NEW kind \in {"repeat", "repeatWhile"}, ControlInv, EnterRepeat(kind)
  PROVE  ControlStep(Places, Places')
<1> DEFINE f == Frame(kind, "body", "none")
           s == Append(stack, f)
           p == PlacesOf(stack)
<1>1. /\ Running /\ signal = "null" /\ Top.phase = "body" /\ EnterBody(s)
      /\ Len(stack) < MaxDepth
  BY DEF EnterRepeat, NextStatement, Executing
<1>2. /\ Usable(stack) /\ Places = p /\ Top.code = "null" /\ Top \in Frames
      /\ stack \in Seq(Frames) /\ Top = stack[Len(stack)]
  BY <1>1, ControlFacts DEF Usable, WellFormed
<1>3. f \in Frames /\ f.kind = kind /\ f.code = "null" /\ kind \in Loops /\ f.use = "none"
  BY FrameFields DEF Kinds, Loops
<1> HIDE DEF f
<1>4. Usable(s)
  <2>1. Usable(Append(stack, Frame(kind, "body", "none")))
    BY <1>1, <1>2, RepeatUsable
  <2>2. QED BY <2>1 DEF f
<1>5. Len(s) = Len(stack) + 1 /\ s[Len(s)] = f
  BY <1>2, <1>3, AppendProperties
<1>6. Places' \in {PlacesOf(s), After(PlacesOf(s), "return")}
  BY <1>1, <1>3, <1>4, <1>5, EnterBodyPlaces
<1>7. PlacesOf(s) = Append(p, "loop") /\ Place(f) = "loop"
  BY <1>2, <1>3, PlacesOfAppend, PlaceIs
<1>8. p \in Seq(FrameKinds) /\ p \notin {Returned, Error} /\ p[Len(p)] = Place(Top)
  BY <1>2, PlacesAlive
<1>9. Place(Top) # "left"
  BY <1>2, PlaceIs DEF Frames, Kinds, Blocks
<1> HIDE DEF p, s
<1>10. CASE Places' = PlacesOf(s)
  BY <1>2, <1>7, <1>8, <1>9, <1>10 DEF ControlStep, FrameKinds
<1>11. CASE Places' = After(PlacesOf(s), "return")
  <2> DEFINE q == Append(p, "loop")
  <2>1. q \in Seq(FrameKinds) /\ Len(q) = Len(p) + 1 /\ q[Len(p) + 1] = "loop" /\ q # <<>>
        /\ \A i \in 1 .. Len(p) : q[i] = p[i]
    BY <1>8, AppendProperties DEF FrameKinds
  <2>2. Prefix(q, Len(q) - 1) = p
    <3> DEFINE n == Len(p)
               r == Prefix(q, n)
    <3>1. n \in Nat /\ n \in 0 .. Len(q) /\ Len(q) - 1 = n
      BY <1>8, <2>1
    <3> HIDE DEF q, n
    <3>2. r \in Seq(FrameKinds) /\ Len(r) = n /\ \A i \in 1 .. n : r[i] = q[i]
      BY <2>1, <3>1, PrefixIs
    <3> HIDE DEF r
    <3>3. Len(r) = Len(p) /\ \A i \in 1 .. Len(p) : r[i] = p[i]
      BY <2>1, <3>2 DEF n
    <3>4. r = p
      BY <1>8, <3>2, <3>3, SeqEqual
    <3>5. QED BY <3>1, <3>4 DEF r
  <2> HIDE DEF q
  <2>3. Innermost(q, "function") # 0
    <3>1. Innermost(PlacesOf(s), "function") # 0
      BY <1>4, FunctionBelow
    <3>2. QED BY <1>7, <3>1 DEF q
  <2>4. q[Len(q)] # Target("return")
    BY <2>1 DEF Target
  <2>5. After(q, "return") = After(p, "return")
    BY <2>1, <2>2, <2>3, <2>4, AfterBelow DEF Jumps
  <2>6. Places' = After(p, "return")
    BY <1>7, <1>11, <2>5 DEF q
  <2>7. QED BY <1>2, <1>8, <2>6 DEF ControlStep, Jumps
<1>12. QED BY <1>6, <1>10, <1>11

\* break and continue leave a loop of the function they are in.
LEMMA LoopControlControl ==
  ASSUME NEW code \in Codes, ControlInv, LoopControl(code)
  PROVE  ControlStep(Places, Places')
<1> DEFINE p == PlacesOf(stack)
<1>1. Running /\ signal = "null" /\ Top.phase = "body" /\ Go(stack, code)
  BY DEF LoopControl, NextStatement, Executing
<1>2. Usable(stack) /\ Places = p
  BY <1>1, ControlFacts
<1>3. PICK i \in 1 .. Len(stack) :
        /\ stack[i].kind \in Loops
        /\ \A j \in (i + 1) .. Len(stack) : stack[j].kind # "function"
  BY DEF LoopControl
<1>4. stack \in Seq(Frames) /\ Len(stack) \in Nat /\ p \notin {Returned, Error}
  BY <1>2, PlacesAlive DEF Usable, WellFormed
<1>5. stack[i].phase = "body"
  <2>1. CASE i = Len(stack)
    BY <1>1, <2>1 DEF Top
  <2>2. CASE i # Len(stack)
    <3>1. i + 1 \in 2 .. Len(stack) /\ i + 1 \in (i + 1) .. Len(stack)
          /\ i + 1 \in 1 .. Len(stack) /\ (i + 1) - 1 = i
      BY <1>4, <2>2
    <3>2. stack[i + 1].kind # "function" /\ WellPlaced(stack, i + 1)
      BY <1>2, <1>3, <3>1 DEF Usable, WellFormed
    <3>3. stack[i + 1].use = "none"
      BY <3>2 DEF WellPlaced
    <3>4. QED BY <3>1, <3>3 DEF ControlInv, BodyInv, Bodies
  <2>3. QED BY <2>1, <2>2
<1>6. stack[i].code = "null" /\ stack[i] \in Frames
  BY <1>2, <1>5, InBlock
<1>7. /\ p \in Seq(FrameKinds) /\ Len(p) = Len(stack)
      /\ \A k \in 1 .. Len(stack) : p[k] = Place(stack[k])
  BY <1>4, PlacesAre
<1>8. p[i] = "loop"
  <2>1. Place(stack[i]) = "loop"
    BY <1>3, <1>6, PlaceIs
  <2>2. QED BY <1>7, <2>1
<1>9. \A j \in (i + 1) .. Len(stack) : p[j] # "function"
  <2> SUFFICES ASSUME NEW j \in (i + 1) .. Len(stack) PROVE p[j] # "function"
    OBVIOUS
  <2>1. j \in 1 .. Len(stack) /\ stack[j].kind # "function"
    BY <1>3, <1>4
  <2>2. stack[j] \in Frames
    BY <1>4, <2>1
  <2>3. Place(stack[j]) # "function"
    BY <2>1, <2>2, PlaceIs DEF Frames, Kinds, Blocks
  <2>4. QED BY <1>7, <2>1, <2>3
<1> DEFINE loop == Innermost(p, "loop")
           function == Innermost(p, "function")
<1>10. IsInnermost(p, "loop", loop) /\ IsInnermost(p, "function", function)
  BY <1>7, InnermostIsInnermost
<1>11. Places' = After(p, code)
  <2>1. Places' = After(p, Way(code, thrown'))
    BY <1>1, PlacesThen
  <2>2. Way(code, thrown') = code
    BY WayIs
  <2>3. QED BY <2>1, <2>2
<1> HIDE DEF p, loop, function
<1>12. loop >= i /\ loop \in Nat /\ function \in Nat
  BY <1>4, <1>7, <1>8, <1>10 DEF IsInnermost
<1>13. function <= i
  BY <1>4, <1>7, <1>9, <1>10 DEF IsInnermost
<1>14. function # i
  BY <1>8, <1>10, <1>12 DEF IsInnermost
<1>15. loop > function
  BY <1>12, <1>13, <1>14
<1>16. code \in Jumps
  BY DEF Codes, Jumps
<1>17. Innermost(p, "loop") > Innermost(p, "function")
  BY <1>15 DEF loop, function
<1>18. QED BY <1>2, <1>4, <1>11, <1>16, <1>17 DEF ControlStep, p

LEMMA EndBlockControl ==
  ASSUME ControlInv, EndBlock
  PROVE  ControlStep(Places, Places')
<1>1. Running /\ signal = "null" /\ Top.phase = "body"
  BY DEF EndBlock, Executing
<1>2. Usable(stack) /\ Places = PlacesOf(stack) /\ Top.code = "null"
  BY <1>1, ControlFacts
<1>3. CASE Go(stack, "undefined")
  <2>1. Places' = After(PlacesOf(stack), "return")
    BY <1>1, <1>3, PlacesThen, WayIs
  <2>2. QED BY <1>2, <2>1, ReturnStep
<1>4. CASE Go(Pop(stack), "null")
  BY <1>1, <1>2, <1>4, PopPlaces
<1>5. CASE Iterate("null")
  BY <1>1, <1>2, <1>5, IteratePlaces
<1>6. QED BY <1>3, <1>4, <1>5 DEF EndBlock

\* The loop on top is where break and continue lead.
LEMMA LoopOnTop ==
  ASSUME ControlInv, Running, Top.kind \in Loops, signal \in Codes
  PROVE  /\ signal = "continue" => Places = PlacesOf(stack)
         /\ signal = "break" => Places = [PlacesOf(stack) EXCEPT ![Len(stack)] = "left"]
         /\ Top.code = "null" /\ Usable(stack)
<1> DEFINE p == PlacesOf(stack)
<1>1. /\ Usable(stack) /\ Top.code = "null" /\ Top \in Frames /\ Top = stack[Len(stack)]
      /\ Places = After(p, Way(signal, thrown))
  BY ControlFacts DEF Codes
<1>2. p \in Seq(FrameKinds) /\ Len(p) = Len(stack) /\ p # <<>> /\ p[Len(p)] = Place(Top)
      /\ Len(stack) \in Nat /\ Len(stack) > 0
  BY <1>1, PlacesAlive
<1>3. Place(Top) = "loop"
  BY <1>1, PlaceIs
<1>4. Innermost(p, "loop") = Len(p)
  BY <1>2, <1>3, InnermostOnTop
<1>5. Prefix(p, Len(p)) = p
  BY <1>2, PrefixAll
<1>6. Way(signal, thrown) = signal
  BY WayIs
<1>7. Places = After(p, signal)
  BY <1>1, <1>6
<1>8. signal = "continue" => Places = p
  BY <1>4, <1>5, <1>7 DEF After
<1>9. signal = "break" => Places = [p EXCEPT ![Len(stack)] = "left"]
  BY <1>2, <1>4, <1>5, <1>7 DEF After
<1>10. QED BY <1>1, <1>8, <1>9

LEMMA LeaveLoopControl ==
  ASSUME ControlInv, LeaveLoop
  PROVE  ControlStep(Places, Places')
<1> DEFINE p == PlacesOf(stack)
           n == Len(p) - 1
           q == [p EXCEPT ![Len(p)] = "left"]
<1>1. Running /\ Top.kind \in Loops /\ signal = "break" /\ signal \in Codes
      /\ Go(Pop(stack), "null")
  BY DEF LeaveLoop, Unwinding, Codes
<1>2. Usable(stack) /\ Places = [p EXCEPT ![Len(stack)] = "left"]
  BY <1>1, LoopOnTop
<1>3. p \in Seq(FrameKinds) /\ Len(p) = Len(stack) /\ n \in Nat /\ Len(p) = n + 1
      /\ p \notin {Returned, Error}
  BY <1>2, PlacesAlive
<1>4. Places' = Prefix(p, n)
  <2>1. Places' = PlacesOf(Pop(stack))
    BY <1>1, PlacesThen
  <2>2. QED BY <1>2, <2>1, PlacesOfPop
<1> HIDE DEF p, n
<1>5. q \in Seq(FrameKinds) /\ Len(q) = n + 1 /\ q[n + 1] = "left"
      /\ \A i \in 1 .. n : q[i] = p[i]
  BY <1>3 DEF FrameKinds
<1>6. Places = q
  BY <1>2, <1>3
<1> HIDE DEF q
<1>7. Prefix(q, n) = Prefix(p, n)
  <2>1. n \in 0 .. Len(q) /\ n \in 0 .. Len(p)
    BY <1>3, <1>5
  <2>2. Prefix(q, n) \in Seq(FrameKinds) /\ Len(Prefix(q, n)) = n
        /\ \A i \in 1 .. n : Prefix(q, n)[i] = q[i]
    BY <1>5, <2>1, PrefixIs
  <2>3. Prefix(p, n) \in Seq(FrameKinds) /\ Len(Prefix(p, n)) = n
        /\ \A i \in 1 .. n : Prefix(p, n)[i] = p[i]
    BY <1>3, <2>1, PrefixIs
  <2>4. \A i \in 1 .. n : Prefix(q, n)[i] = Prefix(p, n)[i]
    BY <1>5, <2>2, <2>3
  <2>5. QED BY <2>2, <2>3, <2>4, SeqEqual
<1>8. q \notin {Returned, Error}
  <2>1. q # <<>>
    BY <1>3, <1>5, EmptySeq
  <2>2. Error[1] = "error" /\ Len(Error) = 1
    BY DEF Error
  <2>3. q # Error
    <3> SUFFICES ASSUME q = Error PROVE FALSE
      OBVIOUS
    <3>1. n + 1 = 1 /\ q[1] = "error"
      BY <1>5, <2>2
    <3>2. q[n + 1] = "left"
      BY <1>5
    <3>3. q[1] = "left"
      BY <3>1, <3>2, Zenon
    <3>4. QED BY <3>1, <3>3
  <2>4. QED BY <2>1, <2>3 DEF Returned
<1>9. Len(q) - 1 = n
  BY <1>3, <1>5
<1>10. ControlStep(q, Places')
  BY <1>4, <1>7, <1>8, <1>9 DEF ControlStep
<1>11. QED BY <1>6, <1>10

LEMMA ContinueLoopControl ==
  ASSUME ControlInv, ContinueLoop
  PROVE  ControlStep(Places, Places')
<1>1. Running /\ Top.kind \in Loops /\ signal = "continue" /\ signal \in Codes
      /\ Iterate("null")
  BY DEF ContinueLoop, Unwinding, Codes
<1>2. Usable(stack) /\ Places = PlacesOf(stack) /\ Top.code = "null"
  BY <1>1, LoopOnTop
<1>3. QED BY <1>1, <1>2, IteratePlaces

\* repeat-while keeps the code: the program is already where it leads.
LEMMA RepeatWhileControl ==
  ASSUME ControlInv, RepeatWhile
  PROVE  ControlStep(Places, Places')
<1>1. Running /\ Top.kind = "repeatWhile" /\ signal \in Codes /\ Iterate(signal)
      /\ Top.kind \in Loops
  BY DEF RepeatWhile, Unwinding, Loops
<1>2. /\ Usable(stack) /\ Top.code = "null" /\ Top = stack[Len(stack)]
      /\ signal = "continue" => Places = PlacesOf(stack)
      /\ signal = "break" => Places = [PlacesOf(stack) EXCEPT ![Len(stack)] = "left"]
  BY <1>1, LoopOnTop DEF Top
<1>3. Places' = PlacesOf(Phase(stack, "condition", signal))
  <2>1. Go(Phase(stack, "condition", signal), "null")
    BY <1>1 DEF Iterate
  <2>2. QED BY <1>1, <2>1, PlacesThen
<1>4. CASE signal = "continue"
  <2>1. PlacesOf(Phase(stack, "condition", signal)) = PlacesOf(stack)
    BY <1>1, <1>2, <1>4, PlacesOfPhase
  <2>2. QED BY <1>2, <1>3, <1>4, <2>1 DEF ControlStep
<1>5. CASE signal = "break"
  <2>1. PlacesOf(Phase(stack, "condition", signal)) =
          [PlacesOf(stack) EXCEPT ![Len(stack)] = "left"]
    BY <1>1, <1>2, <1>5, PlacesOfPhase
  <2>2. QED BY <1>2, <1>3, <1>5, <2>1 DEF ControlStep
<1>6. QED BY <1>1, <1>4, <1>5 DEF Codes

\* The handler of an exception is where the program already is.
LEMMA CatchControl ==
  ASSUME ControlInv, CatchException
  PROVE  ControlStep(Places, Places')
<1> DEFINE f == Frame("catch", "body", "none")
           s == Pop(stack)
           p == PlacesOf(stack)
           n == Len(p) - 1
           q == [p EXCEPT ![Len(p)] = "block"]
           r == Append(Prefix(p, n), "block")
<1>1. Running /\ Top.kind = "try" /\ thrown /\ signal # "null" /\ Go(Append(s, f), "null")
  BY DEF CatchException, Unwinding
<1>2. Usable(stack) /\ Top \in Frames /\ signal = "value" /\ Top = stack[Len(stack)]
      /\ Places = After(p, Way(signal, thrown))
  BY <1>1, ControlFacts
<1>3. p \in Seq(FrameKinds) /\ Len(p) = n + 1 /\ n \in Nat /\ p # <<>>
      /\ p[Len(p)] = Place(Top) /\ p \notin {Returned, Error}
  BY <1>2, PlacesAlive
<1>4. Place(Top) = "try"
  BY <1>1, <1>2, PlaceIs
<1>5. Places = q
  <2>1. Innermost(p, "try") = Len(p) /\ Prefix(p, Len(p)) = p
    BY <1>3, <1>4, InnermostOnTop, PrefixAll
  <2>2. Way(signal, thrown) = "throw"
    BY <1>1, <1>2, WayIs
  <2>3. Places = After(p, "throw")
    BY <1>2, <2>2
  <2>4. Len(p) # 0
    BY <1>3
  <2> HIDE DEF p
  <2>5. After(p, "throw") = q
    BY <2>1, <2>4 DEF After
  <2>6. QED BY <2>3, <2>5
<1>6. f \in Frames /\ Place(f) = "block"
  <2>1. f \in Frames /\ f.kind = "catch"
    BY FrameFields DEF Kinds, Blocks
  <2>2. QED BY <2>1, PlaceIs
<1>7. s \in Seq(Frames) /\ PlacesOf(s) = Prefix(p, n)
  BY <1>2, PopWellFormed, PlacesOfPop DEF Usable, WellFormed
<1> HIDE DEF f
<1>8. Places' = r
  <2>1. Places' = PlacesOf(Append(s, f))
    BY <1>1, PlacesThen
  <2>2. QED BY <1>6, <1>7, <2>1, PlacesOfAppend
<1> HIDE DEF p, n
<1>9. q \in Seq(FrameKinds) /\ Len(q) = n + 1 /\ q[n + 1] = "block"
      /\ \A i \in 1 .. n : q[i] = p[i]
  BY <1>3 DEF FrameKinds
<1>10. Prefix(p, n) \in Seq(FrameKinds) /\ Len(Prefix(p, n)) = n
       /\ \A i \in 1 .. n : Prefix(p, n)[i] = p[i]
  BY <1>3, PrefixIs
<1>11. r \in Seq(FrameKinds) /\ Len(r) = n + 1 /\ r[n + 1] = "block"
       /\ \A i \in 1 .. n : r[i] = Prefix(p, n)[i]
  BY <1>10, AppendProperties DEF FrameKinds
<1> HIDE DEF q, r
<1>12. ASSUME NEW i \in 1 .. n + 1 PROVE q[i] = r[i]
  <2>1. i = n + 1 \/ i \in 1 .. n
    BY <1>3
  <2>2. QED BY <1>9, <1>10, <1>11, <2>1
<1>13. q = r
  BY <1>9, <1>11, <1>12, SeqEqual
<1>14. QED BY <1>5, <1>8, <1>13 DEF ControlStep

\* What hands a pointer on is not what the jump looks for.
LEMMA PassOnControl ==
  ASSUME ControlInv, PassOn
  PROVE  Places' = Places
<1> DEFINE p == PlacesOf(stack)
           jump == Way(signal, thrown)
<1>1. /\ Running /\ signal # "null" /\ Go(Pop(stack), signal) /\ thrown' = thrown
      /\ \/ Top.kind \in Blocks /\ ~(Top.kind = "try" /\ thrown)
         \/ Top.kind \in Loops /\ signal \notin Codes
  BY DEF PassOn, Unwinding, Keep
<1>2. /\ Usable(stack) /\ Top \in Frames /\ Top.code = "null" /\ (thrown => signal = "value")
      /\ Places = After(p, jump) /\ Top = stack[Len(stack)]
      /\ thrown \in BOOLEAN
  BY <1>1, ControlFacts
<1>3. signal \in Codes \cup {"value", "undefined", "abort"}
  BY <1>1 DEF ControlInv, IInv, Core, Signals
<1>4. /\ p \in Seq(FrameKinds) /\ p # <<>> /\ p[Len(p)] = Place(Top) /\ Len(p) = Len(stack)
      /\ Len(p) \in Nat
  BY <1>2, PlacesAlive
<1>5. Places' = After(PlacesOf(Pop(stack)), jump)
  BY <1>1, PlacesThen
<1>6. PlacesOf(Pop(stack)) = Prefix(p, Len(p) - 1)
  BY <1>2, PlacesOfPop
<1>7. jump \in Jumps
  BY <1>3 DEF Way, Jumps, Codes
<1>8. Place(Top) # Target(jump)
  <2>1. CASE signal \in Codes
    <3>1. jump = signal /\ Top.kind \in Blocks
      BY <1>1, <2>1, WayIs DEF Codes
    <3>2. Place(Top) # "loop"
      BY <1>2, <3>1, PlaceIs DEF Blocks
    <3>3. QED BY <2>1, <3>1, <3>2 DEF Target, Codes
  <2>2. CASE thrown
    <3>1. signal = "value" /\ jump = "throw"
      BY <1>2, <2>2, WayIs
    <3>2. Top.kind \in {"if", "match", "catch"} \cup Loops
      BY <1>1, <2>2 DEF Blocks
    <3>3. Place(Top) # "try"
      BY <1>2, <3>2, PlaceIs
    <3>4. QED BY <3>1, <3>3 DEF Target
  <2>3. CASE ~thrown /\ signal \notin Codes
    <3>1. jump = "return"
      BY <1>3, <2>3, WayIs
    <3>2. Place(Top) # "function"
      BY <1>1, <1>2, PlaceIs DEF Blocks
    <3>3. QED BY <3>1, <3>2 DEF Target
  <2>4. QED BY <1>2, <2>1, <2>2, <2>3
<1>9. Innermost(p, "function") # 0
  BY <1>2, FunctionBelow
<1> HIDE DEF p, jump
<1>10. After(p, jump) = After(Prefix(p, Len(p) - 1), jump)
  BY <1>4, <1>7, <1>8, <1>9, AfterBelow
<1>11. QED BY <1>2, <1>5, <1>6, <1>10

LEMMA LeaveFunctionControl ==
  ASSUME ControlInv, Habits = {}, LeaveFunction
  PROVE  ControlStep(Places, Places')
<1> DEFINE p == PlacesOf(stack)
<1>1. /\ Running /\ signal # "null" /\ Top.kind = "function" /\ signal \notin Codes
      /\ \/ /\ Top.use = "main"
            /\ End(IF thrown /\ signal = "value" THEN "error" ELSE "returned")
         \/ Use(Top.use, Pop(stack))
  BY DEF LeaveFunction, Unwinding
<1>2. /\ Usable(stack) /\ Top \in Frames /\ thrown \in BOOLEAN /\ (thrown => signal = "value")
      /\ Places = After(p, Way(signal, thrown)) /\ Top = stack[Len(stack)]
  BY <1>1, ControlFacts
<1>3. signal \in {"value", "undefined", "abort"}
  BY <1>1 DEF ControlInv, IInv, Core, Signals
<1>4. /\ p \in Seq(FrameKinds) /\ p # <<>> /\ p[Len(p)] = Place(Top) /\ Len(p) = Len(stack)
      /\ Len(p) \in Nat /\ Len(p) > 0 /\ p \notin {Returned, Error}
  BY <1>2, PlacesAlive
<1>5. Place(Top) = "function"
  BY <1>1, <1>2, PlaceIs
<1>6. PlacesOf(Pop(stack)) = Prefix(p, Len(p) - 1)
  BY <1>2, PlacesOfPop
<1>7. ~thrown => Places = PlacesOf(Pop(stack))
  <2> SUFFICES ASSUME ~thrown PROVE Places = PlacesOf(Pop(stack))
    OBVIOUS
  <2>1. Way(signal, thrown) = "return"
    BY <1>3, WayIs
  <2>2. Innermost(p, "function") = Len(p)
    BY <1>4, <1>5, InnermostOnTop
  <2>3. After(p, "return") = Prefix(p, Len(p) - 1)
    BY <2>2 DEF After
  <2>4. QED BY <1>2, <1>6, <2>1, <2>3
<1>8. thrown => Places = After(PlacesOf(Pop(stack)), "throw")
  <2> SUFFICES ASSUME thrown PROVE Places = After(PlacesOf(Pop(stack)), "throw")
    OBVIOUS
  <2>1. Way(signal, thrown) = "throw"
    BY <1>2, WayIs
  <2>2. p[Len(p)] # Target("throw")
    BY <1>4, <1>5 DEF Target
  <2> HIDE DEF p
  <2>3. After(p, "throw") = After(Prefix(p, Len(p) - 1), "throw")
    BY <1>4, <2>2, AfterBelow DEF Jumps
  <2>4. QED BY <1>2, <1>6, <2>1, <2>3
<1>9. CASE Top.use = "main" /\ End(IF thrown /\ signal = "value" THEN "error" ELSE "returned")
  <2>1. Len(stack) = 1
    <3>1. WellPlaced(stack, Len(stack))
      BY <1>2, NonEmpty DEF Usable, WellFormed
    <3>2. QED BY <1>2, <1>9, <3>1 DEF WellPlaced
  <2>2. Pop(stack) = <<>>
    <3>1. WellFormed(Pop(stack)) /\ Len(Pop(stack)) = Len(stack) - 1
      BY <1>2, PopWellFormed DEF Usable
    <3>2. Pop(stack) \in Seq(Frames) /\ Len(Pop(stack)) = 0
      BY <2>1, <3>1 DEF WellFormed
    <3>3. QED BY <3>2, EmptySeq
  <2>3. PlacesOf(Pop(stack)) = <<>>
    BY <2>2 DEF PlacesOf
  <2>4. CASE thrown
    <3>1. Innermost(<<>>, "try") = 0
      <4>1. <<>> \in Seq(FrameKinds) /\ IsInnermost(<<>>, "try", 0)
        BY DEF IsInnermost
      <4>2. QED BY <4>1, InnermostIs
    <3>2. Places = Error
      BY <1>8, <2>3, <2>4, <3>1 DEF After
    <3>3. outcome' = "error"
      BY <1>2, <1>9, <2>4 DEF End
    <3>4. Places' = Error
      BY <3>3 DEF Places, Running
    <3>5. QED BY <3>2, <3>4 DEF ControlStep
  <2>5. CASE ~thrown
    <3>1. Places = Returned
      BY <1>7, <2>3, <2>5 DEF Returned
    <3>2. outcome' = "returned"
      BY <1>9, <2>5 DEF End
    <3>3. Places' = Returned
      BY <3>2 DEF Places, Running
    <3>4. QED BY <3>1, <3>3 DEF ControlStep
  <2>6. QED BY <2>4, <2>5
<1>10. CASE Top.use # "main" /\ Use(Top.use, Pop(stack))
  <2>1. Usable(Pop(stack))
    BY <1>2, <1>10, PopUsable
  <2>2. CASE ~thrown
    <3>1. ControlStep(PlacesOf(Pop(stack)), Places')
      BY <1>1, <1>2, <1>10, <2>1, <2>2, UsePlaces
    <3>2. QED BY <1>7, <2>2, <3>1
  <2>3. CASE thrown
    <3>1. Handled(stack)
      BY <1>1, <2>3 DEF ControlInv, ExceptionInv, Pending
    <3>2. Top.use \notin {"initializer", "condition", "iterable"}
      BY <1>2, <3>1, HandledBelow DEF Top, Guarded
    <3>3. Places' = After(PlacesOf(Pop(stack)), "throw")
      BY <1>1, <1>10, <2>1, <2>3, <3>2, UseThrownPlaces
    <3>4. QED BY <1>8, <2>3, <3>3 DEF ControlStep
  <2>4. QED BY <1>2, <2>2, <2>3
<1>11. QED BY <1>1, <1>9, <1>10 DEF Use

LEMMA NextControl ==
  ASSUME ControlInv, Habits = {}, [Next]_vars
  PROVE  ControlStep(Places, Places')
<1>1. ASSUME NEW use \in Uses, CallFunction(use) PROVE ControlStep(Places, Places')
  <2>1. Running /\ signal = "null" /\ Push(Function(use))
    BY <1>1 DEF CallFunction, NextStatement, Executing
  <2>2. Function(use) \in Frames /\ Function(use).kind = "function" /\ Function(use).code = "null"
    BY FrameFields, KindFacts DEF Function
  <2>3. QED BY <2>1, <2>2, PushControl
<1>2. ASSUME NEW kind \in Conditional, EnterConditional(kind) PROVE ControlStep(Places, Places')
  <2> DEFINE f == Frame(kind, "condition", "none")
  <2>1. Running /\ signal = "null" /\ Top.phase = "body" /\ Push(f)
    BY <1>2 DEF EnterConditional, NextStatement, Executing
  <2>2. f \in Frames /\ f.code = "null"
    BY FrameFields, KindFacts
  <2> HIDE DEF f
  <2>3. QED BY <2>1, <2>2, PushControl
<1>3. CASE EnterTry
  <2> DEFINE f == Frame("try", "body", "none")
  <2>1. Running /\ signal = "null" /\ Top.phase = "body" /\ Push(f)
    BY <1>3 DEF EnterTry, NextStatement, Executing
  <2>2. f \in Frames /\ f.code = "null"
    BY FrameFields DEF Kinds, Blocks
  <2> HIDE DEF f
  <2>3. QED BY <2>1, <2>2, PushControl
<1>4. CASE CallInCondition
  <2>1. PICK use \in {"iterable", "condition"} : Push(Function(use))
    BY <1>4 DEF CallInCondition
  <2>2. Function(use) \in Frames /\ Function(use).kind = "function" /\ Function(use).code = "null"
    BY FrameFields, KindFacts DEF Function
  <2>3. Running /\ signal = "null"
    BY <1>4 DEF CallInCondition, Testing
  <2>4. QED BY <2>1, <2>2, <2>3, PushControl
<1>5. CASE EvaluateCondition
  <2>1. Running /\ signal = "null" /\ Test(stack)
    BY <1>5 DEF EvaluateCondition, Testing
  <2>2. Usable(stack) /\ Places = PlacesOf(stack)
    BY <2>1, ControlFacts
  <2>3. QED BY <2>1, <2>2, TestPlaces
<1>6. CASE Fail
  <2>1. Running /\ signal = "null" /\ RuntimeError
    BY <1>6 DEF Fail, Executing, Testing
  <2>2. Usable(stack) /\ Places = PlacesOf(stack)
    BY <2>1, ControlFacts
  <2>3. QED BY <2>1, <2>2, RuntimeErrorPlaces
<1>7. CASE PassOn
  BY <1>7, PassOnControl DEF ControlStep
<1>8. CASE Abort \/ Ended \/ UNCHANGED vars
  <2>1. UNCHANGED <<stack, signal, thrown, outcome>>
    BY <1>8 DEF Abort, Ended, vars
  <2>2. Places' = Places
    BY <2>1 DEF Places, JumpUnderWay, Running
  <2>3. QED BY <2>2 DEF ControlStep
<1>9. QED
  BY <1>1, <1>2, <1>3, <1>4, <1>5, <1>6, <1>7, <1>8, EvaluateControl, LoopControlControl,
     EnterRepeatControl, EndBlockControl, LeaveLoopControl, ContinueLoopControl,
     RepeatWhileControl, CatchControl, LeaveFunctionControl DEF Next, Unwind

\* Handing pointers from block to block implements structured control, for every nesting:
\* each break, continue, return and throw leads where it should, whatever functions, loops,
\* try blocks and conditions lie between (the Execute methods under src/runtime/statements
\* and rtfunction.cpp:73-88).
THEOREM PointersImplementControl ==
  ASSUME Habits = {}
  PROVE  Spec => ImplementsStructuredControl
<1>1. Init => Control!Init
  <2> SUFFICES ASSUME Init PROVE Control!Init
    OBVIOUS
  <2>1. stack = <<Function("main")>> /\ signal = "null" /\ Running
    BY DEF Init, Running
  <2>2. PlacesOf(stack) = <<"function">>
    <3> DEFINE f == Function("main")
               s == <<f>>
               q == <<"function">>
    <3>1. f \in Frames /\ f.kind = "function"
      BY FrameFields, KindFacts DEF Function
    <3>2. Place(f) = "function"
      BY <3>1, PlaceIs
    <3> HIDE DEF f
    <3>3. s \in Seq(Frames) /\ Len(s) = 1 /\ s[1] = f
      BY <3>1
    <3>4. q \in Seq(FrameKinds) /\ Len(q) = 1 /\ q[1] = "function"
      BY DEF FrameKinds
    <3> HIDE DEF s, q
    <3>5. PlacesOf(s) \in Seq(FrameKinds) /\ Len(PlacesOf(s)) = 1 /\ PlacesOf(s)[1] = "function"
      BY <3>2, <3>3, PlacesAre
    <3>6. PlacesOf(s) = q
      BY <3>4, <3>5, SeqEqual
    <3>7. QED BY <2>1, <3>6 DEF s, f, q
  <2>3. Places = PlacesOf(stack)
    BY <2>1, PlacesNow, WayIs, AfterStay
  <2>4. QED BY <2>2, <2>3 DEF Control!Init
<1>2. ControlInv /\ [Next]_vars => [Control!Next]_Places
  BY NextControl, StepOfControl
<1>3. Spec => []ControlInv
  <2>1. Spec => []CodesInLoops
    BY CodesInvariant
  <2>2. Spec => []ExceptionInv
    BY ExceptionInvariant
  <2>3. IInv /\ BodyInv /\ [Next]_vars => BodyInv'
    BY NextBodies DEF IInv
  <2>4. Spec => []BodyInv
    BY <2>3, InitBodies, Invariance, PTL DEF Spec
  <2>5. QED BY <2>1, <2>2, <2>4, Invariance, PTL DEF ControlInv
<1>4. QED BY <1>1, <1>2, <1>3, PTL DEF Spec, ImplementsStructuredControl, Control!Spec
=============================================================================
