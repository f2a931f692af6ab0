---------------------------- MODULE ControlJumps ----------------------------
(***************************************************************************)
(* Where a jump of a Varjus program leads.  A program is the sequence of   *)
(* the functions, loops, try blocks and other blocks it is inside of; a    *)
(* loop that break has left is "left" until it is done.                    *)
(***************************************************************************)
EXTENDS Naturals, Sequences, FiniteSetsExt

FrameKinds == {"function", "loop", "left", "try", "block"}

\* No place is left when the program has returned.
Returned == <<>>
Error == <<"error">>

\* The last place of a kind, 0 when there is none.
Innermost(places, kind) ==
  Max({0} \cup {i \in 1 .. Len(places) : places[i] = kind})

Prefix(places, n) == SubSeq(places, 1, n)

After(places, jump) ==
  LET loop == Innermost(places, "loop")
      try == Innermost(places, "try")
  IN  CASE jump = "stay" -> places
        [] jump = "continue" -> Prefix(places, loop)
        [] jump = "break" -> IF loop = 0 THEN Error
                             ELSE [Prefix(places, loop) EXCEPT ![loop] = "left"]
        [] jump = "return" -> Prefix(places, Innermost(places, "function") - 1)
        [] jump = "throw" -> IF try = 0 THEN Error
                             ELSE [Prefix(places, try) EXCEPT ![try] = "block"]
=============================================================================
