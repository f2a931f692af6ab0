--------------------------- MODULE ResourceArena ---------------------------
(***************************************************************************)
(* What an object pool of the runtime promises its clients, said without   *)
(* vectors: a resource is either idle or held by one client, resources are *)
(* handed out only when nobody holds them, and new ones are created only   *)
(* when the idle ones do not suffice.  ObjectPool implements this.         *)
(***************************************************************************)
EXTENDS FiniteSets

CONSTANT Objects   \* every address an object of the pool can have

VARIABLES idle,    \* created and waiting to be handed out
          held     \* handed out and not given back

vars == <<idle, held>>

TypeOK == idle \subseteq Objects /\ held \subseteq Objects

Init == held = {} /\ idle \in SUBSET Objects

\* Resources of S go to clients: idle ones first, fresh ones only when every
\* idle one goes with them.
Take(S) ==
  /\ S \cap held = {}
  /\ S \subseteq idle \/ idle \subseteq S
  /\ held' = held \cup S
  /\ idle' = idle \ S

GiveBack(o) ==
  /\ o \in held
  /\ held' = held \ {o}
  /\ idle' = idle \cup {o}

Destroy == held' = {} /\ idle' = {}

Next ==
  \/ \E S \in SUBSET Objects : Take(S)
  \/ \E o \in Objects : GiveBack(o)
  \/ Destroy

Spec == Init /\ [][Next]_vars
=============================================================================
