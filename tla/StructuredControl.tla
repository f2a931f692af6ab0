-------------------------- MODULE StructuredControl --------------------------
(***************************************************************************)
(* What the statements of Varjus promise about control: break, continue,   *)
(* return and throw lead to one place of the program, at once, whatever    *)
(* lies between.  Statements keeps the promise by handing a pointer from   *)
(* one block to the block around it.                                       *)
(***************************************************************************)
EXTENDS ControlJumps

VARIABLE places

Running == places \notin {Returned, Error}

Init == places = <<"function">>

\* A statement with a block, or the call of a function.  A loop that was left
\* may still evaluate its condition, but enters no block.
Enter(kind) ==
  /\ Running
  /\ places[Len(places)] = "left" => kind = "function"
  /\ places' = Append(places, kind)

\* Everything ends after its last statement.
Complete == Running /\ places' = Prefix(places, Len(places) - 1)

\* break and continue stay within the function.
Jump(jump) ==
  /\ Running
  /\ jump \in {"break", "continue"} =>
       Innermost(places, "loop") > Innermost(places, "function")
  /\ places' = After(places, jump)

Fail == Running /\ places' = Error

Next ==
  \/ \E kind \in FrameKinds \ {"left"} : Enter(kind)
  \/ \E jump \in {"break", "continue", "return", "throw"} : Jump(jump)
  \/ Complete \/ Fail

Spec == Init /\ [][Next]_places
=============================================================================
