---------------------------- MODULE StateApi_proof ----------------------------
(***************************************************************************)
(* Proofs about StateApi for every number of modules, every nesting and    *)
(* every number of statements.                                             *)
(***************************************************************************)
EXTENDS StateApi, SequenceTheorems, WellFoundedInduction, TLAPS

Flags == /\ linter \in BOOLEAN /\ loaded \in BOOLEAN /\ runtime \in BOOLEAN
         /\ abort \in BOOLEAN /\ returned \in BOOLEAN /\ error \in BOOLEAN

\* At the bottom of what is being executed is a function.
Grounded(s) == s \in Seq(Frames) /\ (s # <<>> => s[1].kind = "function")

\* The linter became the runtime, the stack belongs to the places where a script is
\* executing, and what has returned is over.
IInv ==
  /\ Flags /\ pc \in {"idle", "starting", "globals", "main", "freeing"}
  /\ globals \in 0 .. Modules
  /\ Grounded(stack) /\ Len(stack) <= MaxDepth
  /\ pc = "main" => stack # <<>>
  /\ pc \notin {"globals", "main"} => stack = <<>>
  /\ linter <=> ~runtime
  /\ pc # "idle" => runtime /\ ~returned
  /\ returned => runtime /\ globals = 0
  /\ runtime /\ pc = "idle" /\ ~returned => error

-----------------------------------------------------------------------------
(* Numbers and stacks.                                                      *)

\* A set of natural numbers with a member has a least one.
LEMMA LeastMember ==
  ASSUME NEW S, S \subseteq Nat, S # {}
  PROVE  \E x \in S : \A y \in S : x <= y
<1> DEFINE R == {p \in Nat \X Nat : p[1] < p[2]}
<1>1. IsWellFoundedOn(R, Nat)
  BY NatLessThanWellFounded, Zenon DEF OpToRel
<1> HIDE DEF R
<1>2. PICK x \in S : \A y \in S : ~ (<<y, x>> \in R)
  BY <1>1, WFMin
<1>3. \A y \in S : x <= y
  <2>1. SUFFICES ASSUME NEW y \in S, ~ (x <= y) PROVE FALSE
    OBVIOUS
  <2>2. x \in Nat /\ y \in Nat
    OBVIOUS
  <2>3. y < x
    BY <2>1, <2>2
  <2>4. <<y, x>> \in R
    BY <2>2, <2>3 DEF R
  <2>5. QED BY <1>2, <2>4
<1>4. QED BY <1>3

LEMMA NonEmpty ==
  ASSUME NEW s, Grounded(s), s # <<>>
  PROVE  /\ s \in Seq(Frames) /\ Len(s) \in Nat \ {0} /\ Len(s) \in 1 .. Len(s)
         /\ s[Len(s)] \in Frames /\ s[1].kind = "function"
<1>1. s \in Seq(Frames) /\ s[1].kind = "function"
  BY DEF Grounded
<1>2. Len(s) \in Nat /\ Len(s) > 0
  BY <1>1, EmptySeq
<1>3. Len(s) \in 1 .. Len(s)
  BY <1>2
<1>4. QED BY <1>1, <1>2, <1>3

\* There is a last function: at the latest, the one at the bottom.
LEMMA InnermostIsAFunction ==
  ASSUME Grounded(stack), stack # <<>>
  PROVE  Innermost \in 1 .. Len(stack) /\ stack[Innermost].kind = "function"
<1> DEFINE n == Len(stack)
           S == {k \in 0 .. n - 1 : stack[n - k].kind = "function"}
<1>1. n \in Nat \ {0} /\ stack[1].kind = "function"
  BY NonEmpty
<1> HIDE DEF n
<1>2. n - 1 \in S
  <2>1. n - (n - 1) = 1 /\ n - 1 \in 0 .. n - 1
    BY <1>1
  <2>2. QED BY <1>1, <2>1
<1>3. PICK k \in S : \A y \in S : k <= y
  <2>1. S \subseteq Nat
    BY <1>1
  <2> HIDE DEF S
  <2>2. QED BY <1>2, <2>1, LeastMember
<1> DEFINE i == n - k
<1>4. i \in 1 .. n /\ stack[i].kind = "function"
  BY <1>1
<1>5. ASSUME NEW j \in (i + 1) .. n PROVE stack[j].kind # "function"
  <2>1. n - j \in 0 .. n - 1 /\ n - (n - j) = j /\ ~ (k <= n - j)
    BY <1>1, <1>4
  <2>2. n - j \notin S
    BY <1>3, <2>1
  <2>3. QED BY <2>1, <2>2
<1>6. \E l \in 1 .. n : /\ stack[l].kind = "function"
                        /\ \A j \in (l + 1) .. n : stack[j].kind # "function"
  BY <1>4, <1>5
<1>7. QED BY <1>6 DEF Innermost, n

LEMMA Prefix ==
  ASSUME NEW s, Grounded(s), NEW k \in Nat, k <= Len(s)
  PROVE  /\ Grounded(SubSeq(s, 1, k)) /\ Len(SubSeq(s, 1, k)) = k
         /\ \A i \in 1 .. k : i \in 1 .. Len(s) /\ SubSeq(s, 1, k)[i] = s[i]
<1> DEFINE t == SubSeq(s, 1, k)
<1>1. s \in Seq(Frames) /\ Len(s) \in Nat
  BY DEF Grounded
<1>2. \A i \in 1 .. k : i \in 1 .. Len(s) /\ s[i] \in Frames
  BY <1>1
<1>3. /\ t \in Seq(Frames)
      /\ Len(t) = IF 1 <= k THEN k - 1 + 1 ELSE 0
      /\ \A i \in 1 .. k - 1 + 1 : t[i] = s[1 + i - 1]
  <2>1. 1 \in Int /\ k \in Int /\ \A i \in 1 .. k : s[i] \in Frames
    BY <1>2
  <2>2. QED BY <2>1, SubSeqProperties
<1> HIDE DEF t
<1>4. Len(t) = k
  BY <1>3
<1>5. ASSUME NEW i \in 1 .. k PROVE t[i] = s[i]
  <2>1. i \in 1 .. k - 1 + 1 /\ 1 + i - 1 = i
    OBVIOUS
  <2>2. QED BY <1>3, <2>1
<1>6. t # <<>> => s # <<>> /\ t[1] = s[1]
  <2>1. SUFFICES ASSUME t # <<>> PROVE s # <<>> /\ t[1] = s[1]
    OBVIOUS
  <2>2. k # 0
    BY <1>3, <1>4, <2>1, EmptySeq
  <2>3. 1 \in 1 .. k /\ Len(s) # 0
    BY <1>1, <2>2
  <2>4. QED BY <1>5, <2>3, EmptySeq
<1>7. QED BY <1>2, <1>3, <1>4, <1>5, <1>6 DEF Grounded, t

LEMMA Appended ==
  ASSUME NEW s, Grounded(s), NEW f \in Frames, s = <<>> => f.kind = "function"
  PROVE  /\ Grounded(Append(s, f)) /\ Append(s, f) # <<>>
         /\ Len(Append(s, f)) = Len(s) + 1 /\ Append(s, f)[Len(s) + 1] = f
         /\ \A i \in 1 .. Len(s) : Append(s, f)[i] = s[i]
<1>1. s \in Seq(Frames) /\ Len(s) \in Nat
  BY DEF Grounded
<1>2. /\ Append(s, f) \in Seq(Frames) /\ Append(s, f) # <<>>
      /\ Len(Append(s, f)) = Len(s) + 1 /\ Append(s, f)[Len(s) + 1] = f
      /\ \A i \in 1 .. Len(s) : Append(s, f)[i] = s[i]
  BY <1>1, AppendProperties
<1>3. CASE s = <<>>
  BY <1>2, <1>3, EmptySeq DEF Grounded
<1>4. CASE s # <<>>
  <2>1. 1 \in 1 .. Len(s) /\ s[1].kind = "function"
    BY <1>4, NonEmpty
  <2>2. QED BY <1>2, <2>1 DEF Grounded
<1>5. QED BY <1>3, <1>4

\* The topmost frame has another number of statements left.
LEMMA LeftReplaced ==
  ASSUME NEW s, Grounded(s), s # <<>>, NEW left \in 0 .. MaxStatements
  PROVE  LET t == [s EXCEPT ![Len(s)].left = left]
         IN  /\ Grounded(t) /\ t # <<>> /\ Len(t) = Len(s)
             /\ \A i \in 1 .. Len(s) : t[i].kind = s[i].kind /\ t[i].operand = s[i].operand
             /\ \A i \in 1 .. Len(s) : i # Len(s) => t[i] = s[i]
             /\ t[Len(s)].left = left
<1> DEFINE n == Len(s)
           h == [s[n] EXCEPT !.left = left]
           t == [s EXCEPT ![n].left = left]
<1>1. s \in Seq(Frames) /\ n \in Nat \ {0} /\ n \in 1 .. n /\ s[n] \in Frames /\ s[1].kind = "function"
  BY NonEmpty
<1>2. h \in Frames /\ h.kind = s[n].kind /\ h.operand = s[n].operand /\ h.left = left
  BY <1>1 DEF Frames
<1>3. PICK g \in Frames : g = h /\ g.kind = s[n].kind /\ g.operand = s[n].operand /\ g.left = left
  <2> HIDE DEF h
  <2>1. QED BY <1>2
<1>4. t = [s EXCEPT ![n] = g]
  BY <1>3
<1>5. /\ [s EXCEPT ![n] = g] \in Seq(Frames) /\ Len([s EXCEPT ![n] = g]) = n
      /\ \A j \in 1 .. n : j # n => [s EXCEPT ![n] = g][j] = s[j]
      /\ [s EXCEPT ![n] = g][n] = g
  BY <1>1
<1> HIDE DEF t, n
<1>6. /\ t \in Seq(Frames) /\ Len(t) = n /\ t[n] = g
      /\ \A j \in 1 .. n : j # n => t[j] = s[j]
  BY <1>4, <1>5
<1>7. \A i \in 1 .. n : t[i].kind = s[i].kind /\ t[i].operand = s[i].operand
  BY <1>3, <1>6
<1>8. t # <<>> /\ t[1].kind = "function"
  BY <1>1, <1>6, <1>7, EmptySeq
<1>9. QED BY <1>3, <1>6, <1>7, <1>8 DEF Grounded, t, n

\* A statement of the topmost frame has been executed.
LEMMA StatementTaken ==
  ASSUME NEW s, Grounded(s), s # <<>>, s[Len(s)].left > 0
  PROVE  LET t == [s EXCEPT ![Len(s)].left = @ - 1]
         IN  /\ Grounded(t) /\ t # <<>> /\ Len(t) = Len(s)
             /\ \A i \in 1 .. Len(s) : t[i].kind = s[i].kind /\ t[i].left <= s[i].left
<1> DEFINE left == s[Len(s)].left - 1
<1>1. s[Len(s)] \in Frames /\ s \in Seq(Frames) /\ Len(s) \in 1 .. Len(s)
  BY NonEmpty
<1>2. left \in 0 .. MaxStatements /\ left <= s[Len(s)].left
  BY <1>1, StateApiAssumption DEF Frames
<1>3. [s EXCEPT ![Len(s)].left = @ - 1] = [s EXCEPT ![Len(s)].left = left]
  BY <1>1
<1>4. \A i \in 1 .. Len(s) : s[i].left \in Nat
  <2>1. \A i \in 1 .. Len(s) : s[i] \in Frames
    BY <1>1
  <2>2. \A f \in Frames : f.left \in Nat
    BY StateApiAssumption DEF Frames
  <2>3. QED BY <2>1, <2>2
<1> HIDE DEF left
<1>5. LET t == [s EXCEPT ![Len(s)].left = left]
      IN  /\ Grounded(t) /\ t # <<>> /\ Len(t) = Len(s)
          /\ \A i \in 1 .. Len(s) : t[i].kind = s[i].kind
          /\ \A i \in 1 .. Len(s) : i # Len(s) => t[i] = s[i]
          /\ t[Len(s)].left = left
  BY <1>2, LeftReplaced
<1> DEFINE t == [s EXCEPT ![Len(s)].left = left]
<1> HIDE DEF t
<1>6. ASSUME NEW i \in 1 .. Len(s) PROVE t[i].left <= s[i].left
  <2>1. CASE i = Len(s)
    BY <1>2, <1>5, <2>1 DEF t
  <2>2. CASE i # Len(s)
    <3>1. t[i] = s[i] /\ s[i].left \in Nat
      BY <1>4, <1>5, <2>2 DEF t
    <3>2. QED BY <3>1
  <2>3. QED BY <2>1, <2>2
<1>7. QED BY <1>3, <1>5, <1>6 DEF t

-----------------------------------------------------------------------------
(* The steps.                                                               *)

Shared == <<linter, loaded, runtime, abort, returned, error, pc, globals>>

LEMMA StackStep ==
  ASSUME IInv, Executing, NEW t, Grounded(t), t # <<>>, Len(t) <= MaxDepth,
         stack' = t, UNCHANGED Shared
  PROVE  IInv'
<1>1. Grounded(stack)' /\ (Len(stack) <= MaxDepth)'
  BY DEF Grounded
<1>2. Flags'
  BY DEF IInv, Flags, Shared
<1>3. QED BY <1>1, <1>2 DEF IInv, Shared, Executing

LEMMA RuntimeErrorStep ==
  ASSUME IInv, pc # "idle", RuntimeError
  PROVE  IInv'
<1>1. Grounded(<<>>) /\ Len(<<>>) <= MaxDepth
  BY EmptySeq, StateApiAssumption DEF Grounded
<1>2. Grounded(stack)' /\ (Len(stack) <= MaxDepth)'
  BY <1>1 DEF RuntimeError, Grounded
<1>3. Flags'
  BY DEF IInv, Flags, RuntimeError, api
<1>4. QED BY <1>2, <1>3 DEF IInv, RuntimeError, api

LEMMA LeaveStep ==
  ASSUME IInv, Executing, Leave(Caller)
  PROVE  IInv'
<1>1. Grounded(stack) /\ Innermost \in 1 .. Len(stack) /\ Len(stack) \in Nat
  BY InnermostIsAFunction, NonEmpty DEF IInv, Executing
<1>2. Grounded(Caller) /\ Len(Caller) <= MaxDepth
  <2>1. Innermost - 1 \in Nat /\ Innermost - 1 <= Len(stack)
    BY <1>1
  <2>2. Grounded(Caller) /\ Len(Caller) = Innermost - 1
    BY <1>1, <2>1, Prefix DEF Caller
  <2>3. Len(stack) <= MaxDepth /\ MaxDepth \in Nat
    BY StateApiAssumption DEF IInv
  <2>4. QED BY <1>1, <2>1, <2>2, <2>3
<1>3. Grounded(stack)' /\ (Len(stack) <= MaxDepth)'
  BY <1>2 DEF Leave, Grounded
<1>4. Flags'
  BY DEF IInv, Flags, Leave, api
<1>5. stack' = Caller /\ pc' \in {"globals", "main", "freeing"}
      /\ (pc' = "main" => Caller # <<>>) /\ (pc' = "freeing" => Caller = <<>>)
  BY DEF Leave, Executing
<1>6. pc \in {"globals", "main"}
  BY DEF Executing
<1>7. QED BY <1>3, <1>4, <1>5, <1>6 DEF IInv, Leave, api

\* What a frame puts on top of itself keeps the stack in shape.
LEMMA NextStatementStep ==
  ASSUME IInv, NEW f \in Frames, NextStatement(f)
  PROVE  IInv'
<1> DEFINE t == [stack EXCEPT ![Len(stack)].left = @ - 1]
<1>1. Executing /\ Grounded(stack) /\ stack # <<>> /\ stack[Len(stack)].left > 0
  BY DEF NextStatement, Executing, IInv, Top
<1>2. Grounded(t) /\ t # <<>> /\ Len(t) = Len(stack)
  BY <1>1, StatementTaken
<1>3. stack' = Append(t, f) /\ UNCHANGED Shared /\ Len(stack) < MaxDepth
  BY DEF NextStatement, Shared, api
<1> HIDE DEF t
<1>4. /\ Grounded(Append(t, f)) /\ Append(t, f) # <<>>
      /\ Len(Append(t, f)) = Len(stack) + 1
  BY <1>2, Appended
<1>5. Len(stack) + 1 <= MaxDepth
  BY <1>1, <1>3, NonEmpty, StateApiAssumption
<1>6. QED BY <1>1, <1>3, <1>4, <1>5, StackStep

LEMMA FrameIsAFrame ==
  ASSUME NEW kind \in {"function", "block", "loop"}, NEW left \in 0 .. MaxStatements,
         NEW operand \in BOOLEAN
  PROVE  /\ Frame(kind, left, operand) \in Frames
         /\ Frame(kind, left, operand).kind = kind
BY DEF Frame, Frames

\* A function is called on an empty stack.
LEMMA FirstFunction ==
  ASSUME NEW left \in 0 .. MaxStatements, NEW operand \in BOOLEAN
  PROVE  LET t == <<Frame("function", left, operand)>>
         IN  Grounded(t) /\ t # <<>> /\ Len(t) <= MaxDepth
<1>1. PICK f \in Frames : f = Frame("function", left, operand) /\ f.kind = "function"
  BY FrameIsAFrame
<1>2. <<f>> \in Seq(Frames) /\ <<f>> # <<>> /\ Len(<<f>>) = 1 /\ <<f>>[1] = f
  OBVIOUS
<1>3. 1 <= MaxDepth
  BY StateApiAssumption
<1>4. QED BY <1>1, <1>2, <1>3 DEF Grounded

LEMMA InitIInv == Init => IInv
<1> SUFFICES ASSUME Init PROVE IInv
  OBVIOUS
<1>1. Grounded(<<>>) /\ Len(<<>>) <= MaxDepth
  BY EmptySeq, StateApiAssumption DEF Grounded
<1>2. Flags
  BY DEF Init, Flags
<1>3. globals \in 0 .. Modules /\ globals = 0
  BY StateApiAssumption DEF Init
<1>4. stack = <<>> /\ pc = "idle" /\ linter /\ ~runtime /\ ~returned
  BY DEF Init
<1>5. Grounded(stack) /\ Len(stack) <= MaxDepth
  BY <1>1, <1>4
<1>6. QED BY <1>2, <1>3, <1>4, <1>5 DEF IInv

\* Each step of an execution keeps the invariant.
LEMMA RunningIInv ==
  ASSUME IInv, Running
  PROVE  IInv'
<1> USE StateApiAssumption
<1>1. CASE MissingMain
  <2>1. pc = "starting" /\ UNCHANGED <<api, returned, globals, stack>> /\ error' = TRUE /\ pc' = "idle"
    BY <1>1 DEF MissingMain
  <2>2. stack = <<>>
    BY <2>1 DEF IInv
  <2>3. Flags'
    BY <2>1 DEF IInv, Flags, api
  <2>4. Grounded(stack)' /\ (Len(stack) <= MaxDepth)'
    BY <2>1 DEF IInv, Grounded
  <2>5. QED BY <2>1, <2>2, <2>3, <2>4 DEF IInv, api
<1>2. CASE StartGlobals
  <2>1. Flags'
    BY <1>2 DEF IInv, Flags, StartGlobals, api
  <2>2. Grounded(stack)' /\ (Len(stack) <= MaxDepth)'
    BY <1>2 DEF IInv, Grounded, StartGlobals
  <2>3. QED BY <1>2, <2>1, <2>2 DEF IInv, StartGlobals, api
<1>3. CASE SetupModule
  <2>1. pc = "globals" /\ globals' \in 0 .. Modules /\ UNCHANGED <<api, returned, error, pc>>
    BY <1>3 DEF SetupModule, IInv
  <2>2. Grounded(stack)' /\ (Len(stack) <= MaxDepth)'
    <3>1. CASE UNCHANGED stack
      BY <3>1 DEF IInv, Grounded
    <3>2. CASE \E left \in 0 .. MaxStatements, operand \in BOOLEAN :
                 stack' = <<Frame("function", left, operand)>>
      <4>1. PICK left \in 0 .. MaxStatements, operand \in BOOLEAN :
                   stack' = <<Frame("function", left, operand)>>
        BY <3>2
      <4>2. QED BY <4>1, FirstFunction DEF Grounded
    <3>3. QED BY <1>3, <3>1, <3>2 DEF SetupModule
  <2>3. Flags'
    BY <2>1 DEF IInv, Flags, api
  <2>4. QED BY <2>1, <2>2, <2>3 DEF IInv, api
<1>4. CASE StartMain
  <2>1. PICK left \in 0 .. MaxStatements : stack' = <<Frame("function", left, FALSE)>>
    BY <1>4 DEF StartMain
  <2>2. Grounded(stack)' /\ stack' # <<>> /\ (Len(stack) <= MaxDepth)'
    BY <2>1, FirstFunction DEF Grounded
  <2>3. pc = "globals" /\ pc' = "main" /\ UNCHANGED <<api, returned, error, globals>>
    BY <1>4 DEF StartMain
  <2>4. Flags'
    BY <2>3 DEF IInv, Flags, api
  <2>5. QED BY <2>2, <2>3, <2>4 DEF IInv, api
<1>5. CASE PlainStatement
  <2> DEFINE t == [stack EXCEPT ![Len(stack)].left = @ - 1]
  <2>1. Executing /\ stack[Len(stack)].left > 0 /\ stack' = t /\ UNCHANGED Shared
    BY <1>5 DEF PlainStatement, Top, Shared, api
  <2>2. Grounded(stack) /\ stack # <<>> /\ Len(stack) <= MaxDepth
    BY <2>1 DEF IInv, Executing
  <2>3. Grounded(t) /\ t # <<>> /\ Len(t) = Len(stack)
    BY <2>1, <2>2, StatementTaken
  <2> HIDE DEF t
  <2>4. QED BY <2>1, <2>2, <2>3, StackStep
<1>6. CASE CallFunction
  <2>1. PICK left \in 0 .. MaxStatements, operand \in BOOLEAN :
               NextStatement(Frame("function", left, operand))
    BY <1>6 DEF CallFunction
  <2>2. QED BY <2>1, FrameIsAFrame, NextStatementStep
<1>7. CASE EnterBlock
  <2>1. PICK kind \in {"block", "loop"}, left \in 0 .. MaxStatements :
               NextStatement(Frame(kind, left, FALSE))
    BY <1>7 DEF EnterBlock
  <2>2. QED BY <2>1, FrameIsAFrame, NextStatementStep
<1>8. CASE RepeatLoop
  <2>1. PICK left \in 0 .. MaxStatements : stack' = [stack EXCEPT ![Len(stack)].left = left]
    BY <1>8 DEF RepeatLoop
  <2> DEFINE t == [stack EXCEPT ![Len(stack)].left = left]
  <2>2. Executing /\ UNCHANGED Shared
    BY <1>8 DEF RepeatLoop, Shared, api
  <2>3. Grounded(stack) /\ stack # <<>> /\ Len(stack) <= MaxDepth
    BY <2>2 DEF IInv, Executing
  <2>4. Grounded(t) /\ t # <<>> /\ Len(t) = Len(stack)
    BY <2>3, LeftReplaced
  <2>5. stack' = t
    BY <2>1
  <2> HIDE DEF t
  <2>6. QED BY <2>2, <2>3, <2>4, <2>5, StackStep
<1>9. CASE EndBlock
  <2> DEFINE t == SubSeq(stack, 1, Len(stack) - 1)
  <2>1. Executing /\ UNCHANGED Shared /\ stack' = t /\ stack[Len(stack)].kind # "function"
    BY <1>9 DEF EndBlock, Shared, Pop, Top, api
  <2>2. /\ Grounded(stack) /\ stack # <<>> /\ Len(stack) <= MaxDepth
        /\ Len(stack) \in Nat \ {0} /\ stack[1].kind = "function"
    BY <2>1, NonEmpty DEF IInv, Executing
  <2>3. Len(stack) # 1
    BY <2>1, <2>2
  <2>4. Len(stack) - 1 \in Nat \ {0} /\ Len(stack) - 1 <= Len(stack)
    BY <2>2, <2>3
  <2>5. Grounded(t) /\ Len(t) = Len(stack) - 1
    BY <2>2, <2>4, Prefix
  <2> HIDE DEF t
  <2>6. t # <<>>
    BY <2>4, <2>5, EmptySeq
  <2>7. Len(t) <= MaxDepth
    BY <2>2, <2>4, <2>5
  <2>8. QED BY <2>1, <2>5, <2>6, <2>7, StackStep
<1>10. CASE AbortFunction
  <2>1. Executing /\ pc # "idle" /\ (RuntimeError \/ Leave(Caller))
    BY <1>10 DEF AbortFunction, Executing
  <2>2. QED BY <2>1, RuntimeErrorStep, LeaveStep
<1>11. CASE Return
  BY <1>11, LeaveStep DEF Return
<1>12. CASE Fail
  BY <1>12, RuntimeErrorStep DEF Fail, Executing
<1>13. CASE FreeModule
  <2>1. pc = "freeing" /\ globals' \in 0 .. Modules /\ UNCHANGED <<api, returned, error, pc, stack>>
    BY <1>13 DEF FreeModule, IInv
  <2>2. Flags'
    BY <2>1 DEF IInv, Flags, api
  <2>3. Grounded(stack)' /\ (Len(stack) <= MaxDepth)'
    BY <2>1 DEF IInv, Grounded
  <2>4. QED BY <2>1, <2>2, <2>3 DEF IInv, api
<1>14. CASE Finish
  <2>1. Flags'
    BY <1>14 DEF IInv, Flags, Finish, api
  <2>2. Grounded(stack)' /\ (Len(stack) <= MaxDepth)'
    BY <1>14 DEF IInv, Grounded, Finish
  <2>3. QED BY <1>14, <2>1, <2>2 DEF IInv, Finish, api
<1>15. QED
  BY <1>1, <1>2, <1>3, <1>4, <1>5, <1>6, <1>7, <1>8, <1>9, <1>10, <1>11, <1>12, <1>13, <1>14
     DEF Running

LEMMA NextIInv ==
  ASSUME IInv, [Next]_vars
  PROVE  IInv'
<1>1. CASE Running
  BY <1>1, RunningIInv
<1>2. CASE LoadScript \/ ExecuteScript \/ ExecuteRefused \/ Abort \/ UNCHANGED vars
  <2>1. UNCHANGED <<globals, stack>>
    BY <1>2 DEF LoadScript, ExecuteScript, ExecuteRefused, Abort, vars
  <2>2. Grounded(stack)' /\ (Len(stack) <= MaxDepth)'
    BY <2>1 DEF IInv, Grounded
  <2>3. CASE LoadScript
    <3>1. Flags'
      BY <2>3 DEF IInv, Flags, LoadScript
    <3>2. error => error'
      BY <2>3 DEF LoadScript
    <3>3. QED BY <2>1, <2>2, <2>3, <3>1, <3>2 DEF IInv, LoadScript
  <2>4. CASE ExecuteScript
    <3>1. Flags'
      BY <2>4 DEF IInv, Flags, ExecuteScript
    <3>2. QED BY <2>1, <2>2, <2>4, <3>1 DEF IInv, ExecuteScript
  <2>5. CASE ExecuteRefused
    <3>1. Flags'
      BY <2>5 DEF IInv, Flags, ExecuteRefused
    <3>2. QED BY <2>1, <2>2, <2>5, <3>1 DEF IInv, ExecuteRefused
  <2>6. CASE Abort
    <3>1. Flags'
      BY <2>6 DEF IInv, Flags, Abort
    <3>2. error => error'
      BY <2>6 DEF Abort
    <3>3. QED BY <2>1, <2>2, <2>6, <3>1, <3>2 DEF IInv, Abort
  <2>7. CASE UNCHANGED vars
    <3>1. Flags'
      BY <2>7 DEF IInv, Flags, vars
    <3>2. QED BY <2>1, <2>2, <2>7, <3>1 DEF IInv, vars
  <2>8. QED BY <1>2, <2>3, <2>4, <2>5, <2>6, <2>7
<1>3. QED BY <1>1, <1>2 DEF Next

THEOREM Invariance == Spec => []IInv
<1>1. Init => IInv
  BY InitIInv
<1>2. IInv /\ [Next]_vars => IInv'
  BY NextIInv
<1>3. QED BY <1>1, <1>2, PTL DEF Spec

\* The types, for every size of the program and of its stack.
THEOREM TypeCorrect == Spec => []TypeOK
<1>1. IInv => TypeOK
  <2> SUFFICES ASSUME IInv PROVE TypeOK
    OBVIOUS
  <2>1. {linter, loaded, runtime, abort, returned, error} \subseteq BOOLEAN
    <3>1. Flags
      BY DEF IInv
    <3>2. QED BY <3>1, Zenon DEF Flags
  <2>2. stack \in Seq(Frames)
    BY DEF IInv, Grounded
  <2>3. QED BY <2>1, <2>2 DEF IInv, TypeOK
<1>2. QED BY <1>1, Invariance, PTL

\* HasFinished is only true when nothing of the script is left, and an execution that
\* ended without a value has an error message: whatever was aborted or failed.
THEOREM EndsAreReported == Spec => []EndIsReported
<1>1. IInv => EndIsReported
  BY DEF IInv, EndIsReported, FinishedMeansQuiet, FailedRunsExplained, HasFinished
<1>2. QED BY <1>1, Invariance, PTL

\* No call of the embedder undoes what HasFinished has said.
THEOREM FinishedStaysFinished == Spec => FinishedForGood
<1>1. IInv /\ [Next]_vars => [HasFinished => HasFinished' /\ pc' = "idle"]_vars
  <2> SUFFICES ASSUME IInv, [Next]_vars, HasFinished PROVE HasFinished' /\ pc' = "idle"
    OBVIOUS
  <2>1. runtime /\ returned /\ pc = "idle" /\ ~linter /\ stack = <<>>
    BY DEF IInv, HasFinished
  <2>2. ~Running
    BY <2>1 DEF Running, MissingMain, StartGlobals, SetupModule, StartMain, PlainStatement,
                CallFunction, EnterBlock, NextStatement, RepeatLoop, EndBlock, AbortFunction,
                Return, Fail, FreeModule, Finish, Executing
  <2>3. LoadScript \/ ExecuteRefused \/ Abort \/ UNCHANGED vars
    BY <2>1, <2>2 DEF Next, ExecuteScript
  <2>4. QED BY <2>1, <2>3 DEF LoadScript, ExecuteRefused, Abort, vars, HasFinished
<1>2. QED BY <1>1, Invariance, PTL DEF Spec, FinishedForGood

-----------------------------------------------------------------------------
(* What an abort leaves to be done.                                         *)

\* No block is on the new stack that was not on the old one, and none starts over.
Winds(t) ==
  \A i \in 1 .. Len(t) :
    t[i].kind # "function" =>
      i \in 1 .. Len(stack) /\ stack[i].kind # "function" /\ t[i].left <= stack[i].left

LEMMA PrefixWinds ==
  ASSUME Grounded(stack), NEW k \in Nat, k <= Len(stack)
  PROVE  Winds(SubSeq(stack, 1, k))
<1> DEFINE t == SubSeq(stack, 1, k)
<1>1. Len(t) = k /\ \A i \in 1 .. k : i \in 1 .. Len(stack) /\ t[i] = stack[i]
  BY Prefix
<1>2. \A i \in 1 .. Len(stack) : stack[i].left \in Nat
  <2>1. \A i \in 1 .. Len(stack) : stack[i] \in Frames
    BY DEF Grounded
  <2>2. \A f \in Frames : f.left \in Nat
    BY StateApiAssumption DEF Frames
  <2>3. QED BY <2>1, <2>2
<1> HIDE DEF t
<1>3. ASSUME NEW i \in 1 .. k PROVE t[i].left <= stack[i].left
  <2>1. t[i] = stack[i] /\ stack[i].left \in Nat
    BY <1>1, <1>2
  <2>2. QED BY <2>1
<1>4. QED BY <1>1, <1>3 DEF Winds, t

LEMMA EmptyWinds == Winds(<<>>)
BY EmptySeq DEF Winds

LEMMA SameWinds ==
  ASSUME Grounded(stack)
  PROVE  Winds(stack)
<1>1. \A i \in 1 .. Len(stack) : stack[i].left \in Nat
  <2>1. \A i \in 1 .. Len(stack) : stack[i] \in Frames
    BY DEF Grounded
  <2>2. \A f \in Frames : f.left \in Nat
    BY StateApiAssumption DEF Frames
  <2>3. QED BY <2>1, <2>2
<1>2. QED BY <1>1 DEF Winds

LEMMA FunctionWinds ==
  ASSUME NEW left \in 0 .. MaxStatements, NEW operand \in BOOLEAN
  PROVE  Winds(<<Frame("function", left, operand)>>)
<1>1. PICK f \in Frames : f = Frame("function", left, operand) /\ f.kind = "function"
  BY FrameIsAFrame
<1>2. Len(<<f>>) = 1 /\ <<f>>[1] = f
  OBVIOUS
<1>3. QED BY <1>1, <1>2 DEF Winds

LEMMA StatementWinds ==
  ASSUME Grounded(stack), stack # <<>>, stack[Len(stack)].left > 0
  PROVE  LET t == [stack EXCEPT ![Len(stack)].left = @ - 1]
         IN  /\ Winds(t)
             /\ \A f \in Frames : f.kind = "function" => Winds(Append(t, f))
<1> DEFINE t == [stack EXCEPT ![Len(stack)].left = @ - 1]
<1>1. /\ Grounded(t) /\ t # <<>> /\ Len(t) = Len(stack) /\ Len(stack) \in Nat
      /\ \A i \in 1 .. Len(stack) : t[i].kind = stack[i].kind /\ t[i].left <= stack[i].left
  BY StatementTaken, NonEmpty
<1> HIDE DEF t
<1>2. Winds(t)
  BY <1>1 DEF Winds
<1>3. ASSUME NEW f \in Frames, f.kind = "function" PROVE Winds(Append(t, f))
  <2> DEFINE u == Append(t, f)
  <2>1. /\ Len(u) = Len(t) + 1 /\ u[Len(t) + 1] = f
        /\ \A i \in 1 .. Len(t) : u[i] = t[i]
    BY <1>1, Appended
  <2> HIDE DEF u
  <2>2. ASSUME NEW i \in 1 .. Len(u), u[i].kind # "function" PROVE i \in 1 .. Len(t) /\ u[i] = t[i]
    BY <1>1, <1>3, <2>1, <2>2
  <2>3. QED BY <1>2, <2>2 DEF Winds, u
<1>4. QED BY <1>2, <1>3 DEF t

LEMMA AbortedWinds ==
  ASSUME IInv, [Next]_vars, abort
  PROVE  Winds(stack')
<1>1. Grounded(stack)
  BY DEF IInv
<1>2. CASE UNCHANGED stack
  BY <1>1, <1>2, SameWinds DEF Winds
<1>3. CASE SetupModule
  BY <1>2, <1>3, FunctionWinds DEF SetupModule
<1>4. CASE StartMain
  BY <1>4, FunctionWinds DEF StartMain
<1>5. CASE PlainStatement
  <2>1. Executing /\ stack[Len(stack)].left > 0 /\ stack' = [stack EXCEPT ![Len(stack)].left = @ - 1]
    BY <1>5 DEF PlainStatement, Top
  <2>2. Winds([stack EXCEPT ![Len(stack)].left = @ - 1])
    BY <1>1, <2>1, StatementWinds DEF Executing
  <2>3. QED BY <2>1, <2>2
<1>6. CASE CallFunction
  <2>1. PICK left \in 0 .. MaxStatements, operand \in BOOLEAN :
               NextStatement(Frame("function", left, operand))
    BY <1>6 DEF CallFunction
  <2>2. PICK f \in Frames : f = Frame("function", left, operand) /\ f.kind = "function"
    BY FrameIsAFrame
  <2>3. /\ Executing /\ stack[Len(stack)].left > 0
        /\ stack' = Append([stack EXCEPT ![Len(stack)].left = @ - 1], f)
    BY <2>1, <2>2 DEF NextStatement, Top
  <2>4. Winds(Append([stack EXCEPT ![Len(stack)].left = @ - 1], f))
    BY <1>1, <2>2, <2>3, StatementWinds DEF Executing
  <2>5. QED BY <2>3, <2>4
<1>7. CASE EnterBlock \/ RepeatLoop
  BY <1>7 DEF EnterBlock, RepeatLoop
<1>8. CASE EndBlock
  <2>1. stack # <<>> /\ stack' = SubSeq(stack, 1, Len(stack) - 1)
    BY <1>8 DEF EndBlock, Executing, Pop
  <2>2. Len(stack) - 1 \in Nat /\ Len(stack) - 1 <= Len(stack)
    BY <1>1, <2>1, NonEmpty
  <2>3. Winds(SubSeq(stack, 1, Len(stack) - 1))
    BY <1>1, <2>2, PrefixWinds
  <2>4. QED BY <2>1, <2>3
<1>9. CASE AbortFunction \/ Return \/ Fail
  <2>1. stack # <<>> /\ (stack' = <<>> \/ stack' = Caller)
    BY <1>9 DEF AbortFunction, Return, Fail, Executing, Leave, RuntimeError
  <2>2. Innermost - 1 \in Nat /\ Innermost - 1 <= Len(stack)
    <3>1. Innermost \in 1 .. Len(stack) /\ Len(stack) \in Nat
      BY <1>1, <2>1, InnermostIsAFunction, NonEmpty
    <3>2. QED BY <3>1
  <2>3. Winds(Caller)
    BY <1>1, <2>2, PrefixWinds DEF Caller
  <2>4. QED BY <2>1, <2>3, EmptyWinds
<1>10. QED
  BY <1>2, <1>3, <1>4, <1>5, <1>6, <1>7, <1>8, <1>9
     DEF Next, Running, LoadScript, ExecuteScript, ExecuteRefused, Abort, MissingMain,
         StartGlobals, FreeModule, Finish, vars

\* After an accepted Abort the stack of blocks only unwinds, whatever functions are still
\* called: the flag that ExecuteBlock polls cannot be passed by.
THEOREM NothingIsEnteredAnymore == Spec => NothingEnteredAfterAbort
<1> DEFINE P == abort => /\ Blocks' \subseteq Blocks
                        /\ \A i \in Blocks' : stack'[i].left <= stack[i].left
<1>1. IInv /\ [Next]_vars => P
  BY AbortedWinds DEF Winds, Blocks
<1>2. QED BY <1>1, Invariance, PTL DEF Spec, NothingEnteredAfterAbort
=============================================================================
