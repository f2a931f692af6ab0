---------------------------- MODULE Scopes_proof ----------------------------
(***************************************************************************)
(* Proofs about the linter's scopes and memories, for every script, every  *)
(* length of the chain and every number of parameters: what is declared is *)
(* typed; and, for scripts without the habits that Scopes names, constness *)
(* is kept, slots stay apart and every use reaches the variable it means.  *)
(*                                                                         *)
(* The invariant grows by layers: TypeInv (types, the chain of functions,  *)
(* the bounds), Lexical (scopes against memories), Indexed (memories       *)
(* against the two index tables), Framed (frames), UsesSound (nodes).      *)
(* Each layer is kept by every action given the layers below it.           *)
(***************************************************************************)
EXTENDS Scopes, SequenceTheorems, FiniteSetTheorems, WellFoundedInduction, TLAPS

\* Induction: a set of naturals that is not empty has a least element.
LEMMA LeastNumber ==
  ASSUME NEW S, S \subseteq Nat, S # {}
  PROVE  \E n \in S : \A m \in S : n <= m
<1>1. \E n \in S : \A m \in S : <<m, n>> \notin OpToRel(<, Nat)
  BY NatLessThanWellFounded, WFMin
<1>2. PICK n \in S : \A m \in S : <<m, n>> \notin OpToRel(<, Nat)
  BY <1>1
<1>3. ASSUME NEW m \in S PROVE n <= m
  <2>1. m \in Nat /\ n \in Nat
    OBVIOUS
  <2>2. ~(m < n)
    BY <1>2, <2>1 DEF OpToRel
  <2>3. QED BY <2>1, <2>2
<1>4. QED BY <1>3

-----------------------------------------------------------------------------
(* Types.                                                                   *)

\* What maps some of the names to members of T.
Maps(T) == UNION {[D -> T] : D \in SUBSET Names}

ScopeType == [function : Nat, names : Maps(BOOLEAN)]

Memories ==
  [owner : Nat, lowerFunction : Nat, variables : Maps(Variable), parameters : Seq(Names),
   captures : SUBSET Slots, uses : SUBSET NodeType, initializing : Initializer \cup {None}]

Typed ==
  /\ events \in 0..MaxEvents
  /\ assignments \subseteq [const : BOOLEAN, refused : BOOLEAN]
  /\ allVariables \in Maps(Nat) /\ IsFiniteSet(DOMAIN allVariables)
  /\ allGlobalVariables \in Maps(Nat) /\ IsFiniteSet(DOMAIN allGlobalVariables)
  /\ scopes \in Seq(ScopeType) /\ functions \in Seq(Memories)

LEMMA MapIs ==
  ASSUME NEW T, NEW v \in Maps(T)
  PROVE  DOMAIN v \subseteq Names /\ v \in [DOMAIN v -> T] /\ \A n \in DOMAIN v : v[n] \in T
<1>1. PICK D \in SUBSET Names : v \in [D -> T]
  BY DEF Maps
<1>2. QED BY <1>1

LEMMA IsMap ==
  ASSUME NEW T, NEW v, DOMAIN v \subseteq Names, v \in [DOMAIN v -> T]
  PROVE  v \in Maps(T)
BY DEF Maps

LEMMA SlotsAre == Slots \subseteq Nat /\ 0 \in Slots
<1>1. MaxEvents \in Nat /\ MaxParameters + 1 \in Nat
  BY ScopesAssumption
<1>2. MaxEvents * (MaxParameters + 1) \in Nat
  BY <1>1
<1>3. QED BY <1>2 DEF Slots

LEMMA VariableIs ==
  ASSUME NEW index \in Slots, NEW captured \in BOOLEAN, NEW const \in BOOLEAN
  PROVE  [index |-> index, captured |-> captured, const |-> const] \in Variable
BY DEF Variable

LEMMA ConstOfVariable ==
  ASSUME NEW v \in Variable, NEW const \in BOOLEAN
  PROVE  /\ [v EXCEPT !.const = const] \in Variable
         /\ [v EXCEPT !.const = const].index = v.index
         /\ [v EXCEPT !.const = const].captured = v.captured
         /\ [v EXCEPT !.const = const].const = const
BY DEF Variable

LEMMA CapturedVariable ==
  ASSUME NEW v \in Variable
  PROVE  /\ [v EXCEPT !.captured = TRUE] \in Variable
         /\ [v EXCEPT !.captured = TRUE].index = v.index
         /\ [v EXCEPT !.captured = TRUE].captured
         /\ [v EXCEPT !.captured = TRUE].const = v.const
BY DEF Variable

LEMMA MemoryIs ==
  ASSUME NEW m \in Memories
  PROVE  /\ m.owner \in Nat /\ m.lowerFunction \in Nat /\ m.variables \in Maps(Variable)
         /\ m.parameters \in Seq(Names) /\ m.captures \subseteq Slots /\ m.uses \subseteq NodeType
         /\ m.initializing \in Initializer \cup {None}
BY DEF Memories

\* What a memory has beside its variables.
SameMemory(m, w) ==
  /\ m.owner = w.owner /\ m.lowerFunction = w.lowerFunction
  /\ m.parameters = w.parameters

LEMMA VariablesOfMemory ==
  ASSUME NEW m \in Memories, NEW v \in Maps(Variable)
  PROVE  /\ [m EXCEPT !.variables = v] \in Memories /\ [m EXCEPT !.variables = v].variables = v
         /\ SameMemory([m EXCEPT !.variables = v], m)
         /\ [m EXCEPT !.variables = v].captures = m.captures
         /\ [m EXCEPT !.variables = v].uses = m.uses
         /\ [m EXCEPT !.variables = v].initializing = m.initializing
BY DEF Memories, SameMemory

LEMMA InitializingOfMemory ==
  ASSUME NEW m \in Memories, NEW i \in Initializer \cup {None}
  PROVE  /\ [m EXCEPT !.initializing = i] \in Memories
         /\ [m EXCEPT !.initializing = i].variables = m.variables
         /\ SameMemory([m EXCEPT !.initializing = i], m)
         /\ [m EXCEPT !.initializing = i].captures = m.captures
         /\ [m EXCEPT !.initializing = i].uses = m.uses
         /\ [m EXCEPT !.initializing = i].initializing = i
BY DEF Memories, SameMemory

LEMMA UsesOfMemory ==
  ASSUME NEW m \in Memories, NEW u \in SUBSET NodeType
  PROVE  /\ [m EXCEPT !.uses = u] \in Memories
         /\ [m EXCEPT !.uses = u].variables = m.variables
         /\ SameMemory([m EXCEPT !.uses = u], m)
         /\ [m EXCEPT !.uses = u].captures = m.captures
         /\ [m EXCEPT !.uses = u].uses = u
         /\ [m EXCEPT !.uses = u].initializing = m.initializing
BY DEF Memories, SameMemory

LEMMA CapturesOfMemory ==
  ASSUME NEW m \in Memories, NEW c \in SUBSET Slots
  PROVE  /\ [m EXCEPT !.captures = c] \in Memories
         /\ [m EXCEPT !.captures = c].variables = m.variables
         /\ SameMemory([m EXCEPT !.captures = c], m)
         /\ [m EXCEPT !.captures = c].captures = c
         /\ [m EXCEPT !.captures = c].uses = m.uses
         /\ [m EXCEPT !.captures = c].initializing = m.initializing
BY DEF Memories, SameMemory

\* One memory is replaced.
LEMMA Replaced ==
  ASSUME NEW F \in Seq(Memories), NEW c \in DOMAIN F, NEW m \in Memories
  PROVE  /\ [F EXCEPT ![c] = m] \in Seq(Memories) /\ DOMAIN [F EXCEPT ![c] = m] = DOMAIN F
         /\ [F EXCEPT ![c] = m][c] = m /\ Len([F EXCEPT ![c] = m]) = Len(F)
         /\ \A f \in DOMAIN F : f # c => [F EXCEPT ![c] = m][f] = F[f]
OBVIOUS

-----------------------------------------------------------------------------
(* The chain of scopes.                                                     *)

Open == {scopes[s].function : s \in DOMAIN scopes}
Locals == Open \ {GlobalMemory}
NamesOf(s) == DOMAIN scopes[s].names
VarsOf(f) == DOMAIN functions[f].variables
IndexOf(f, n) == functions[f].variables[n].index

\* A function is open as long as it has a scope, from its first to the first of the next one.
Chain ==
  /\ scopes # <<>> /\ scopes[1].function = GlobalMemory
  /\ \A s \in DOMAIN scopes : scopes[s].function \in DOMAIN functions
  /\ \A s, t \in DOMAIN scopes : s <= t => scopes[s].function <= scopes[t].function
  /\ \A f \in DOMAIN functions \ {GlobalMemory} :
       functions[f].owner \in 1..(f - 1) /\ functions[f].lowerFunction \in 0..(f - 1)
  /\ \A f \in Locals : functions[f].owner \in Open /\ functions[f].lowerFunction \in Open \cup {0}
  /\ functions[GlobalMemory].owner = 0 /\ functions[GlobalMemory].lowerFunction = 0

LEMMA ChainIs ==
  ASSUME Typed, Chain
  PROVE  /\ scopes \in Seq(ScopeType) /\ Len(scopes) \in Nat /\ Len(scopes) > 0
         /\ DOMAIN scopes = 1..Len(scopes) /\ Len(scopes) \in DOMAIN scopes /\ 1 \in DOMAIN scopes
         /\ CurrentScope = scopes[Len(scopes)] /\ CurrentScope \in ScopeType
         /\ Current \in DOMAIN functions /\ Current \in Nat \ {0} /\ Own = functions[Current]
         /\ Own \in Memories
         /\ GlobalMemory \in DOMAIN functions /\ Current \in Open /\ GlobalMemory \in Open
         /\ \A f \in Open : f \in DOMAIN functions /\ f <= Current /\ f \in Nat
         /\ \A f \in DOMAIN functions : functions[f] \in Memories /\ f \in Nat \ {0}
         /\ Open = Enclosing \cup {Current} /\ Current \notin Enclosing
         /\ functions \in Seq(Memories) /\ Len(functions) \in Nat
         /\ DOMAIN functions = 1..Len(functions)
<1>1. scopes \in Seq(ScopeType) /\ functions \in Seq(Memories)
  BY DEF Typed
<1>2. /\ Len(scopes) \in Nat /\ Len(scopes) > 0 /\ DOMAIN scopes = 1..Len(scopes)
      /\ Len(functions) \in Nat /\ DOMAIN functions = 1..Len(functions)
  BY <1>1, EmptySeq DEF Chain
<1>3. Len(scopes) \in DOMAIN scopes /\ 1 \in DOMAIN scopes
  BY <1>2
<1>4. CurrentScope = scopes[Len(scopes)] /\ CurrentScope \in ScopeType
  BY <1>1, <1>3 DEF CurrentScope, Last
<1>5. Current = scopes[Len(scopes)].function
  BY <1>4 DEF Current
<1>6. Current \in DOMAIN functions /\ Current \in Open /\ GlobalMemory \in Open
      /\ GlobalMemory \in DOMAIN functions
  BY <1>3, <1>5 DEF Chain, Open
<1>7. \A f \in DOMAIN functions : functions[f] \in Memories /\ f \in Nat \ {0}
  BY <1>1, <1>2
<1>8. ASSUME NEW f \in Open PROVE f \in DOMAIN functions /\ f <= Current /\ f \in Nat
  <2>1. PICK s \in DOMAIN scopes : f = scopes[s].function
    BY DEF Open
  <2>2. s <= Len(scopes)
    BY <1>2
  <2>3. QED BY <1>3, <1>5, <1>7, <2>1, <2>2 DEF Chain
<1>9. Open = Enclosing \cup {Current} /\ Current \notin Enclosing
  BY <1>6 DEF Enclosing, Open
<1>10. Own = functions[Current] /\ Own \in Memories
  BY <1>6, <1>7 DEF Own
<1>11. QED BY <1>1, <1>2, <1>3, <1>4, <1>6, <1>7, <1>8, <1>9, <1>10

-----------------------------------------------------------------------------
(* What the steps do to the memories.                                       *)

\* Two tables of variables with the same names and indices.
SameIndices(v, w) == DOMAIN v = DOMAIN w /\ \A n \in DOMAIN w : v[n].index = w[n].index

SameConsts(v, w) == \A n \in DOMAIN w : v[n].const = w[n].const

\* A variable that was captured stays captured.
StaysCaptured(v, w) == \A n \in DOMAIN w : w[n].captured => v[n].captured

\* Memories F after memories G in which no variable was declared.
SameShape(F, G) ==
  /\ F \in Seq(Memories) /\ DOMAIN F = DOMAIN G
  /\ \A f \in DOMAIN G : SameMemory(F[f], G[f]) /\ SameIndices(F[f].variables, G[f].variables)
                         /\ StaysCaptured(F[f].variables, G[f].variables)

LEMMA ScopeDiedFacts ==
  ASSUME Typed, Chain, NEW scope
  PROVE  /\ SameShape(ScopeDied(scope), functions)
         /\ \A f \in DOMAIN functions :
              /\ ScopeDied(scope)[f].captures = functions[f].captures
              /\ ScopeDied(scope)[f].uses = functions[f].uses
              /\ ScopeDied(scope)[f].initializing = functions[f].initializing
              /\ \A n \in VarsOf(f) :
                   ScopeDied(scope)[f].variables[n].const =
                     IF f = GlobalMemory /\ n \in DOMAIN scope.names THEN FALSE
                     ELSE functions[f].variables[n].const
              /\ f # GlobalMemory => ScopeDied(scope)[f] = functions[f]
<1> DEFINE g == GlobalMemory
           V == functions[g].variables
           W == [n \in DOMAIN V |-> IF n \in DOMAIN scope.names THEN [V[n] EXCEPT !.const = FALSE]
                                    ELSE V[n]]
           m == [functions[g] EXCEPT !.variables = W]
           F == [functions EXCEPT ![g] = m]
<1>1. g \in DOMAIN functions /\ functions[g] \in Memories /\ functions \in Seq(Memories)
  BY ChainIs
<1>2. V \in Maps(Variable)
  BY <1>1, MemoryIs
<1>3. DOMAIN V \subseteq Names /\ \A n \in DOMAIN V : V[n] \in Variable
  BY <1>2, MapIs
<1>4. ASSUME NEW n \in DOMAIN V
      PROVE  /\ W[n] \in Variable /\ W[n].index = V[n].index /\ W[n].captured = V[n].captured
             /\ W[n].const = IF n \in DOMAIN scope.names THEN FALSE ELSE V[n].const
  <2>1. V[n] \in Variable /\ FALSE \in BOOLEAN
    BY <1>3
  <2>2. /\ [V[n] EXCEPT !.const = FALSE] \in Variable
        /\ [V[n] EXCEPT !.const = FALSE].index = V[n].index
        /\ [V[n] EXCEPT !.const = FALSE].captured = V[n].captured
        /\ [V[n] EXCEPT !.const = FALSE].const = FALSE
    BY <2>1, ConstOfVariable
  <2>3. QED BY <2>1, <2>2
<1>5. W \in Maps(Variable) /\ DOMAIN W = DOMAIN V
  BY <1>3, <1>4, IsMap
<1>6. ScopeDied(scope) = F
  BY <1>1 DEF ScopeDied
<1> HIDE DEF W, V, g
<1>7. /\ m \in Memories /\ m.variables = W /\ SameMemory(m, functions[g])
      /\ m.captures = functions[g].captures /\ m.uses = functions[g].uses
      /\ m.initializing = functions[g].initializing
  BY <1>1, <1>5, VariablesOfMemory
<1> HIDE DEF m
<1>8. /\ F \in Seq(Memories) /\ DOMAIN F = DOMAIN functions /\ F[g] = m
      /\ \A f \in DOMAIN functions : f # g => F[f] = functions[f]
  BY <1>1, <1>7, Replaced
<1> HIDE DEF F
<1>9. ASSUME NEW f \in DOMAIN functions
      PROVE  /\ SameMemory(F[f], functions[f])
             /\ SameIndices(F[f].variables, functions[f].variables)
             /\ StaysCaptured(F[f].variables, functions[f].variables)
             /\ F[f].captures = functions[f].captures /\ F[f].uses = functions[f].uses
             /\ F[f].initializing = functions[f].initializing
             /\ \A n \in VarsOf(f) :
                  F[f].variables[n].const = IF f = g /\ n \in DOMAIN scope.names THEN FALSE
                                            ELSE functions[f].variables[n].const
             /\ f # g => F[f] = functions[f]
  <2>1. CASE f = g
    <3>1. F[f] = m /\ functions[f].variables = V
      BY <1>8, <2>1 DEF V
    <3>2. SameIndices(W, V) /\ StaysCaptured(W, V)
      BY <1>4, <1>5 DEF SameIndices, StaysCaptured
    <3>3. \A n \in VarsOf(f) : W[n].const = IF f = g /\ n \in DOMAIN scope.names THEN FALSE
                                            ELSE functions[f].variables[n].const
      BY <1>4, <2>1, <3>1 DEF VarsOf
    <3>4. QED BY <1>7, <2>1, <3>1, <3>2, <3>3
  <2>2. CASE f # g
    <3>1. F[f] = functions[f]
      BY <1>8, <2>2
    <3>2. QED BY <2>2, <3>1 DEF SameMemory, SameIndices, StaysCaptured
  <2>3. QED BY <2>1, <2>2
<1>10. QED BY <1>6, <1>8, <1>9 DEF SameShape, g

\* The memories after the current one got the variable, or declared it again.
Declares(n, const, initializing) ==
  /\ functions' \in Seq(Memories) /\ DOMAIN functions' = DOMAIN functions
  /\ \A f \in DOMAIN functions :
       /\ SameMemory(functions'[f], functions[f])
       /\ functions'[f].captures = functions[f].captures /\ functions'[f].uses = functions[f].uses
       /\ f # Current => functions'[f] = functions[f]
  /\ functions'[Current].initializing = initializing
  /\ DOMAIN functions'[Current].variables = VarsOf(Current) \cup {n}
  /\ \A m \in VarsOf(Current) :
       /\ functions'[Current].variables[m].index = IndexOf(Current, m)
       /\ functions'[Current].variables[m].captured = functions[Current].variables[m].captured
       /\ m # n => functions'[Current].variables[m] = functions[Current].variables[m]
  /\ functions'[Current].variables[n].const = const
  /\ n \notin VarsOf(Current) =>
       functions'[Current].variables[n].index = Insert(TableOf(Current), n)

LEMMA DeclaredFacts ==
  ASSUME NEW V \in Maps(Variable), NEW T, NEW n \in Names, n \in DOMAIN V \/ Insert(T, n) \in Slots
  PROVE  /\ Declared(V, T, n) \in Maps(Variable) /\ DOMAIN Declared(V, T, n) = DOMAIN V \cup {n}
         /\ \A m \in DOMAIN V : Declared(V, T, n)[m] = V[m]
         /\ Declared(V, T, n)[n] \in Variable
         /\ n \notin DOMAIN V => Declared(V, T, n)[n] =
              [index |-> Insert(T, n), captured |-> FALSE, const |-> FALSE]
<1>1. DOMAIN V \subseteq Names /\ (\A m \in DOMAIN V : V[m] \in Variable)
  BY MapIs
<1>2. CASE n \in DOMAIN V
  BY <1>1, <1>2 DEF Declared
<1>3. CASE n \notin DOMAIN V
  <2> DEFINE v == [index |-> Insert(T, n), captured |-> FALSE, const |-> FALSE]
             W == [m \in DOMAIN V \cup {n} |-> IF m = n THEN v ELSE V[m]]
  <2>1. v \in Variable
    BY <1>3, VariableIs
  <2>2. Declared(V, T, n) = W
    BY <1>3 DEF Declared
  <2> HIDE DEF v
  <2>3. \A m \in DOMAIN W : W[m] \in Variable
    BY <1>1, <2>1
  <2>4. W \in Maps(Variable) /\ DOMAIN W = DOMAIN V \cup {n}
    BY <1>1, <2>3, IsMap
  <2>5. (\A m \in DOMAIN V : W[m] = V[m]) /\ W[n] = v
    BY <1>3
  <2> HIDE DEF W
  <2>6. QED BY <1>3, <2>1, <2>2, <2>4, <2>5 DEF v
<1>4. QED BY <1>2, <1>3

LEMMA DeclareFacts ==
  ASSUME Typed, Chain, NEW n \in Names, NEW const \in BOOLEAN,
         NEW initializing \in Initializer \cup {None},
         n \in VarsOf(Current) \/ Insert(TableOf(Current), n) \in Slots,
         DeclareInMemory(n, const, initializing)
  PROVE  Declares(n, const, initializing)
<1> DEFINE c == Current
           V == functions[c].variables
           T == TableOf(Current)
           U == Declared(V, T, n)
           W == [U EXCEPT ![n] = [U[n] EXCEPT !.const = const]]
           a == [functions[c] EXCEPT !.variables = W]
           m == [a EXCEPT !.initializing = initializing]
           F == [functions EXCEPT ![c] = m]
<1>1. c \in DOMAIN functions /\ functions[c] \in Memories /\ functions \in Seq(Memories)
  BY ChainIs
<1>2. V \in Maps(Variable)
  BY <1>1, MemoryIs
<1>3. functions' = F
  BY <1>1 DEF DeclareInMemory
<1>4. /\ U \in Maps(Variable) /\ DOMAIN U = DOMAIN V \cup {n} /\ U[n] \in Variable
      /\ \A x \in DOMAIN V : U[x] = V[x]
      /\ n \notin DOMAIN V => U[n] = [index |-> Insert(T, n), captured |-> FALSE, const |-> FALSE]
  <2>1. n \in DOMAIN V \/ Insert(T, n) \in Slots
    BY DEF VarsOf
  <2> HIDE DEF V, T
  <2>2. QED BY <1>2, <2>1, DeclaredFacts
<1> HIDE DEF U, V, T, c
<1>5. DOMAIN U \subseteq Names /\ \A x \in DOMAIN U : U[x] \in Variable
  BY <1>4, MapIs
<1> DEFINE v == [U[n] EXCEPT !.const = const]
<1>6. v \in Variable /\ v.index = U[n].index /\ v.captured = U[n].captured /\ v.const = const
  BY <1>4, ConstOfVariable
<1>7. W[n] = v /\ DOMAIN W = DOMAIN U /\ \A x \in DOMAIN U : x # n => W[x] = U[x]
  BY <1>4
<1> HIDE DEF v, W
<1>8. W \in Maps(Variable)
  <2>1. \A x \in DOMAIN W : W[x] \in Variable
    BY <1>5, <1>6, <1>7
  <2>2. W \in [DOMAIN W -> Variable]
    BY <1>7, <2>1 DEF W
  <2>3. QED BY <1>5, <1>7, <2>2, IsMap
<1>9. /\ a \in Memories /\ a.variables = W /\ SameMemory(a, functions[c])
      /\ a.captures = functions[c].captures /\ a.uses = functions[c].uses
  BY <1>1, <1>8, VariablesOfMemory
<1> HIDE DEF a
<1>10. /\ m \in Memories /\ m.variables = W /\ SameMemory(m, functions[c])
       /\ m.captures = functions[c].captures /\ m.uses = functions[c].uses
       /\ m.initializing = initializing
  <2>1. /\ m \in Memories /\ m.variables = a.variables /\ SameMemory(m, a)
        /\ m.captures = a.captures /\ m.uses = a.uses /\ m.initializing = initializing
    BY <1>9, InitializingOfMemory
  <2> HIDE DEF m
  <2>2. QED BY <1>9, <2>1 DEF SameMemory
<1> HIDE DEF m
<1>11. /\ F \in Seq(Memories) /\ DOMAIN F = DOMAIN functions /\ F[c] = m
       /\ \A f \in DOMAIN functions : f # c => F[f] = functions[f]
  BY <1>1, <1>10, Replaced
<1> HIDE DEF F
<1>12. ASSUME NEW f \in DOMAIN functions
       PROVE  /\ SameMemory(F[f], functions[f]) /\ F[f].captures = functions[f].captures
              /\ F[f].uses = functions[f].uses /\ (f # c => F[f] = functions[f])
  <2>1. CASE f = c
    BY <1>10, <1>11, <2>1
  <2>2. CASE f # c
    BY <1>11, <2>2 DEF SameMemory
  <2>3. QED BY <2>1, <2>2
<1>13. ASSUME NEW x \in DOMAIN V
       PROVE  W[x].index = V[x].index /\ W[x].captured = V[x].captured /\ (x # n => W[x] = V[x])
  BY <1>4, <1>6, <1>7
<1>14. n \notin DOMAIN V => W[n].index = Insert(T, n)
  BY <1>4, <1>6, <1>7
<1>15. F[c].variables = W /\ F[c].initializing = initializing /\ W[n].const = const
       /\ DOMAIN W = DOMAIN V \cup {n}
  BY <1>4, <1>6, <1>7, <1>10, <1>11
<1>16. QED BY <1>3, <1>11, <1>12, <1>13, <1>14, <1>15 DEF Declares, VarsOf, IndexOf, V, T, c

\* One variable of one memory is replaced by v.
WithVariable(F, c, n, v) ==
  [F EXCEPT ![c] = [F[c] EXCEPT !.variables = [F[c].variables EXCEPT ![n] = v]]]

LEMMA WithVariableFacts ==
  ASSUME NEW F \in Seq(Memories), NEW c \in DOMAIN F, NEW n \in DOMAIN F[c].variables,
         NEW v \in Variable
  PROVE  /\ WithVariable(F, c, n, v) \in Seq(Memories) /\ DOMAIN WithVariable(F, c, n, v) = DOMAIN F
         /\ \A f \in DOMAIN F :
              /\ SameMemory(WithVariable(F, c, n, v)[f], F[f])
              /\ WithVariable(F, c, n, v)[f].captures = F[f].captures
              /\ WithVariable(F, c, n, v)[f].uses = F[f].uses
              /\ WithVariable(F, c, n, v)[f].initializing = F[f].initializing
              /\ DOMAIN WithVariable(F, c, n, v)[f].variables = DOMAIN F[f].variables
              /\ \A x \in DOMAIN F[f].variables :
                   WithVariable(F, c, n, v)[f].variables[x] =
                     IF f = c /\ x = n THEN v ELSE F[f].variables[x]
<1> DEFINE V == F[c].variables
           W == [V EXCEPT ![n] = v]
           m == [F[c] EXCEPT !.variables = W]
           G == [F EXCEPT ![c] = m]
<1>1. F[c] \in Memories
  OBVIOUS
<1>2. V \in Maps(Variable)
  BY <1>1, MemoryIs
<1>3. DOMAIN V \subseteq Names /\ V \in [DOMAIN V -> Variable]
  BY <1>2, MapIs
<1>4. W \in [DOMAIN V -> Variable] /\ DOMAIN W = DOMAIN V
      /\ \A x \in DOMAIN V : W[x] = IF x = n THEN v ELSE V[x]
  BY <1>3
<1>5. WithVariable(F, c, n, v) = G
  BY DEF WithVariable
<1> HIDE DEF W
<1>6. W \in Maps(Variable)
  BY <1>3, <1>4, IsMap
<1>7. /\ m \in Memories /\ m.variables = W /\ SameMemory(m, F[c])
      /\ m.captures = F[c].captures /\ m.uses = F[c].uses /\ m.initializing = F[c].initializing
  <2> HIDE DEF V
  <2>1. QED BY <1>1, <1>6, VariablesOfMemory
<1> HIDE DEF m
<1>8. /\ G \in Seq(Memories) /\ DOMAIN G = DOMAIN F /\ G[c] = m
      /\ \A f \in DOMAIN F : f # c => G[f] = F[f]
  BY <1>7, Replaced
<1> HIDE DEF G
<1>9. ASSUME NEW f \in DOMAIN F
      PROVE  /\ SameMemory(G[f], F[f]) /\ G[f].captures = F[f].captures /\ G[f].uses = F[f].uses
             /\ G[f].initializing = F[f].initializing
             /\ DOMAIN G[f].variables = DOMAIN F[f].variables
             /\ \A x \in DOMAIN F[f].variables :
                  G[f].variables[x] = IF f = c /\ x = n THEN v ELSE F[f].variables[x]
  <2>1. CASE f = c
    BY <1>4, <1>7, <1>8, <2>1
  <2>2. CASE f # c
    BY <1>8, <2>2 DEF SameMemory
  <2>3. QED BY <2>1, <2>2
<1>10. QED BY <1>5, <1>8, <1>9

\* The uses of the current function after one more.
WithUse(node) ==
  [functions EXCEPT ![Current] = [functions[Current] EXCEPT !.uses = Own.uses \cup {node}]]

LEMMA WithUseFacts ==
  ASSUME Typed, Chain, NEW node \in NodeType
  PROVE  /\ WithUse(node) \in Seq(Memories) /\ DOMAIN WithUse(node) = DOMAIN functions
         /\ \A f \in DOMAIN functions :
              /\ SameMemory(WithUse(node)[f], functions[f])
              /\ WithUse(node)[f].captures = functions[f].captures
              /\ WithUse(node)[f].initializing = functions[f].initializing
              /\ WithUse(node)[f].variables = functions[f].variables
              /\ WithUse(node)[f].uses = IF f = Current THEN functions[f].uses \cup {node}
                                         ELSE functions[f].uses
<1> DEFINE c == Current
           u == Own.uses \cup {node}
           m == [functions[c] EXCEPT !.uses = u]
           G == [functions EXCEPT ![c] = m]
<1>1. c \in DOMAIN functions /\ functions[c] \in Memories /\ functions \in Seq(Memories)
      /\ Own = functions[c]
  BY ChainIs
<1>2. u \in SUBSET NodeType
  BY <1>1, MemoryIs
<1>3. WithUse(node) = G /\ u = functions[c].uses \cup {node}
  BY <1>1 DEF WithUse
<1> HIDE DEF u, c
<1>4. /\ m \in Memories /\ m.variables = functions[c].variables /\ SameMemory(m, functions[c])
      /\ m.captures = functions[c].captures /\ m.uses = u
      /\ m.initializing = functions[c].initializing
  BY <1>1, <1>2, UsesOfMemory
<1> HIDE DEF m
<1>5. /\ G \in Seq(Memories) /\ DOMAIN G = DOMAIN functions /\ G[c] = m
      /\ \A f \in DOMAIN functions : f # c => G[f] = functions[f]
  BY <1>1, <1>4, Replaced
<1> HIDE DEF G
<1>6. ASSUME NEW f \in DOMAIN functions
      PROVE  /\ SameMemory(G[f], functions[f]) /\ G[f].captures = functions[f].captures
             /\ G[f].initializing = functions[f].initializing
             /\ G[f].variables = functions[f].variables
             /\ G[f].uses = IF f = c THEN functions[f].uses \cup {node} ELSE functions[f].uses
  <2>1. CASE f = c
    BY <1>3, <1>4, <1>5, <2>1
  <2>2. CASE f # c
    BY <1>5, <2>2 DEF SameMemory
  <2>3. QED BY <2>1, <2>2
<1>7. QED BY <1>3, <1>5, <1>6 DEF c

\* A use leaves everything as it was but the uses and the captured flag.
Resolves(n, memory, capturing) ==
  /\ SameShape(functions', functions)
  /\ \A f \in DOMAIN functions :
       /\ functions'[f].captures = functions[f].captures
       /\ functions'[f].initializing = functions[f].initializing
       /\ SameConsts(functions'[f].variables, functions[f].variables)
       /\ functions'[f].uses = IF f = Current THEN functions[f].uses \cup {Node(n, memory)}
                               ELSE functions[f].uses
  /\ capturing => functions'[memory].variables[n].captured

LEMMA ResolveFacts ==
  ASSUME Typed, Chain, NEW n, functions' = Resolve(n), NEW memory,
         memory = GetVariableByIdentifier(n),
         memory = 0 \/ (memory \in DOMAIN functions /\ n \in VarsOf(memory)),
         Node(n, memory) \in NodeType
  PROVE  Resolves(n, memory, memory # 0 /\ memory = Own.lowerFunction)
<1> DEFINE U == WithUse(Node(n, memory))
           capturing == memory # 0 /\ memory = Own.lowerFunction
           v == [U[memory].variables[n] EXCEPT !.captured = TRUE]
<1>1. /\ U \in Seq(Memories) /\ DOMAIN U = DOMAIN functions
      /\ \A f \in DOMAIN functions :
           /\ SameMemory(U[f], functions[f]) /\ U[f].captures = functions[f].captures
           /\ U[f].initializing = functions[f].initializing
           /\ U[f].variables = functions[f].variables
           /\ U[f].uses = IF f = Current THEN functions[f].uses \cup {Node(n, memory)}
                          ELSE functions[f].uses
  BY WithUseFacts
<1>2. Current \in DOMAIN functions /\ Own = functions[Current] /\ functions \in Seq(Memories)
  BY ChainIs
<1>3. U = [functions EXCEPT ![Current].uses = @ \cup {Node(n, memory)}]
  BY <1>2 DEF WithUse
<1>4. functions' = IF capturing THEN [U EXCEPT ![memory].variables[n].captured = TRUE] ELSE U
  BY <1>3 DEF Resolve
<1> HIDE DEF U
<1>5. CASE ~capturing
  <2>1. functions' = U
    BY <1>4, <1>5
  <2>2. QED BY <1>1, <1>5, <2>1 DEF Resolves, SameShape, SameIndices, StaysCaptured, SameConsts
<1>6. CASE capturing
  <2>0. memory \in DOMAIN functions /\ n \in DOMAIN functions[memory].variables
    BY <1>6 DEF VarsOf
  <2>1. memory \in DOMAIN U /\ n \in DOMAIN U[memory].variables /\ U[memory] \in Memories
    <3>1. memory \in DOMAIN U /\ U[memory].variables = functions[memory].variables
      BY <1>1, <2>0
    <3>2. U[memory] \in Memories
      BY <1>1, <3>1
    <3>3. QED BY <2>0, <3>1, <3>2
  <2>2. U[memory].variables \in Maps(Variable)
    BY <2>1, MemoryIs
  <2>3. U[memory].variables[n] \in Variable
    BY <2>1, <2>2, MapIs
  <2>4. v \in Variable /\ v.index = U[memory].variables[n].index
        /\ v.captured /\ v.const = U[memory].variables[n].const
    BY <2>3, CapturedVariable
  <2>5. functions' = WithVariable(U, memory, n, v)
    BY <1>4, <1>6, <2>1, <2>2 DEF WithVariable
  <2> HIDE DEF v
  <2>6. /\ functions' \in Seq(Memories) /\ DOMAIN functions' = DOMAIN U
        /\ \A f \in DOMAIN U :
              /\ SameMemory(functions'[f], U[f])
              /\ functions'[f].captures = U[f].captures
              /\ functions'[f].uses = U[f].uses
              /\ functions'[f].initializing = U[f].initializing
              /\ DOMAIN functions'[f].variables = DOMAIN U[f].variables
              /\ \A x \in DOMAIN U[f].variables :
                   functions'[f].variables[x] =
                     IF f = memory /\ x = n THEN v ELSE U[f].variables[x]
    BY <1>1, <2>1, <2>4, <2>5, WithVariableFacts
  <2>7. ASSUME NEW f \in DOMAIN functions
        PROVE  /\ SameMemory(functions'[f], functions[f])
               /\ functions'[f].captures = functions[f].captures
               /\ functions'[f].initializing = functions[f].initializing
               /\ DOMAIN functions'[f].variables = DOMAIN functions[f].variables
               /\ functions'[f].uses = IF f = Current THEN functions[f].uses \cup {Node(n, memory)}
                                       ELSE functions[f].uses
               /\ \A x \in DOMAIN functions[f].variables :
                    /\ functions'[f].variables[x].index = functions[f].variables[x].index
                    /\ functions'[f].variables[x].const = functions[f].variables[x].const
                    /\ functions[f].variables[x].captured => functions'[f].variables[x].captured
    <3>0. f \in DOMAIN U
      BY <1>1
    <3>1. U[f].variables = functions[f].variables
      BY <1>1
    <3>2. SameMemory(functions'[f], functions[f])
      <4>1. SameMemory(U[f], functions[f])
        BY <1>1
      <4>2. SameMemory(functions'[f], U[f])
        BY <2>6, <3>0
      <4>3. QED BY <4>1, <4>2 DEF SameMemory
    <3>3. ASSUME NEW x \in DOMAIN functions[f].variables
          PROVE  /\ functions'[f].variables[x].index = functions[f].variables[x].index
                 /\ functions'[f].variables[x].const = functions[f].variables[x].const
                 /\ functions[f].variables[x].captured => functions'[f].variables[x].captured
      <4>1. CASE f = memory /\ x = n
        BY <1>1, <2>4, <2>6, <3>1, <4>1
      <4>2. CASE ~(f = memory /\ x = n)
        <5>1. functions'[f].variables[x] = U[f].variables[x]
          BY <2>6, <3>0, <3>1, <4>2
        <5>2. QED BY <3>1, <5>1
      <4>3. QED BY <4>1, <4>2
    <3>4. /\ functions'[f].captures = functions[f].captures
          /\ functions'[f].initializing = functions[f].initializing
          /\ DOMAIN functions'[f].variables = DOMAIN functions[f].variables
      BY <1>1, <2>6, <3>0, <3>1
    <3>5. functions'[f].uses = IF f = Current THEN functions[f].uses \cup {Node(n, memory)}
                               ELSE functions[f].uses
      BY <1>1, <2>6, <3>0
    <3>6. QED BY <3>2, <3>3, <3>4, <3>5
  <2>8. functions'[memory].variables[n].captured
    BY <1>1, <2>1, <2>4, <2>6
  <2>9. QED BY <1>1, <2>6, <2>7, <2>8
     DEF Resolves, SameShape, SameIndices, StaysCaptured, SameConsts
<1>7. QED BY <1>5, <1>6

\* The end of an initializer: the constness of the declaration.
LEMMA EndInitializerFacts ==
  ASSUME Typed, Chain, EndInitializer, NEW n \in VarsOf(Current), n = Own.initializing.name,
         Own.initializing \in Initializer
  PROVE  /\ SameShape(functions', functions)
         /\ \A f \in DOMAIN functions :
              /\ functions'[f].captures = functions[f].captures
              /\ functions'[f].uses = functions[f].uses
              /\ functions'[f].initializing = IF f = Current THEN None ELSE functions[f].initializing
              /\ \A x \in VarsOf(f) :
                   functions'[f].variables[x].const =
                     IF f = Current /\ x = n THEN Own.initializing.const
                     ELSE functions[f].variables[x].const
<1> DEFINE c == Current
           const == Own.initializing.const
           v == [functions[c].variables[n] EXCEPT !.const = const]
           F == WithVariable(functions, c, n, v)
           m == [F[c] EXCEPT !.initializing = None]
           G == [F EXCEPT ![c] = m]
<1>1. c \in DOMAIN functions /\ functions[c] \in Memories /\ functions \in Seq(Memories)
      /\ Own = functions[c]
  BY ChainIs
<1>2. const \in BOOLEAN /\ n \in DOMAIN functions[c].variables
  BY DEF Initializer, VarsOf
<1>3. functions[c].variables \in Maps(Variable)
  BY <1>1, MemoryIs
<1>4. functions[c].variables[n] \in Variable
  BY <1>2, <1>3, MapIs
<1>5. functions' = [functions EXCEPT ![c].variables[n].const = const, ![c].initializing = None]
  BY DEF EndInitializer
<1>6. F = [functions EXCEPT ![c].variables[n].const = const]
  BY <1>1, <1>2 DEF WithVariable
<1>7. functions' = G
  BY <1>1, <1>5, <1>6
<1> HIDE DEF c, const
<1>8. v \in Variable /\ v.index = functions[c].variables[n].index
      /\ v.captured = functions[c].variables[n].captured /\ v.const = const
  BY <1>2, <1>4, ConstOfVariable
<1> HIDE DEF v
<1>9. /\ F \in Seq(Memories) /\ DOMAIN F = DOMAIN functions
      /\ \A f \in DOMAIN functions :
              /\ SameMemory(F[f], functions[f])
              /\ F[f].captures = functions[f].captures
              /\ F[f].uses = functions[f].uses
              /\ F[f].initializing = functions[f].initializing
              /\ DOMAIN F[f].variables = DOMAIN functions[f].variables
              /\ \A x \in DOMAIN functions[f].variables :
                   F[f].variables[x] = IF f = c /\ x = n THEN v ELSE functions[f].variables[x]
  BY <1>1, <1>2, <1>8, WithVariableFacts
<1> HIDE DEF F
<1>10. F[c] \in Memories /\ None \in Initializer \cup {None}
  BY <1>1, <1>9
<1>11. /\ m \in Memories /\ m.variables = F[c].variables /\ SameMemory(m, F[c])
       /\ m.captures = F[c].captures /\ m.uses = F[c].uses /\ m.initializing = None
  BY <1>10, InitializingOfMemory
<1> HIDE DEF m
<1>12. /\ G \in Seq(Memories) /\ DOMAIN G = DOMAIN F /\ G[c] = m
       /\ \A f \in DOMAIN F : f # c => G[f] = F[f]
  BY <1>1, <1>9, <1>11, Replaced
<1> HIDE DEF G
<1>13. ASSUME NEW f \in DOMAIN functions
       PROVE  /\ SameMemory(G[f], functions[f])
              /\ G[f].captures = functions[f].captures /\ G[f].uses = functions[f].uses
              /\ G[f].initializing = IF f = c THEN None ELSE functions[f].initializing
              /\ DOMAIN G[f].variables = DOMAIN functions[f].variables
              /\ \A x \in DOMAIN functions[f].variables :
                   G[f].variables[x] = IF f = c /\ x = n THEN v ELSE functions[f].variables[x]
  <2>1. CASE f = c
    BY <1>9, <1>11, <1>12, <2>1 DEF SameMemory
  <2>2. CASE f # c
    BY <1>9, <1>12, <2>2
  <2>3. QED BY <2>1, <2>2
<1>14. ASSUME NEW f \in DOMAIN functions, NEW x \in DOMAIN functions[f].variables
       PROVE  /\ G[f].variables[x].index = functions[f].variables[x].index
              /\ functions[f].variables[x].captured => G[f].variables[x].captured
              /\ G[f].variables[x].const = IF f = c /\ x = n THEN const
                                           ELSE functions[f].variables[x].const
  <2>1. CASE f = c /\ x = n
    BY <1>8, <1>13, <2>1
  <2>2. CASE ~(f = c /\ x = n)
    BY <1>13, <2>2
  <2>3. QED BY <2>1, <2>2
<1>15. SameShape(functions', functions)
  BY <1>7, <1>9, <1>12, <1>13, <1>14 DEF SameShape, SameIndices, StaysCaptured
<1>16. QED BY <1>7, <1>13, <1>14, <1>15 DEF VarsOf, c, const

\* The end of a function: its captures, collected from the owner's flags.
LEMMA EndFunctionFacts ==
  ASSUME Typed, Chain, EndFunction
  PROVE  /\ SameShape(functions', functions)
         /\ \A f \in DOMAIN functions :
              /\ functions'[f].uses = functions[f].uses
              /\ functions'[f].initializing = functions[f].initializing
              /\ f # Current => functions'[f].captures = functions[f].captures
              /\ \A n \in VarsOf(f) :
                   functions'[f].variables[n].const =
                     IF f = GlobalMemory /\ n \in DOMAIN CurrentScope.names THEN FALSE
                     ELSE functions[f].variables[n].const
         /\ functions'[Current].captures =
              IF Own.owner = GlobalMemory THEN {} ELSE GetSharedOwnershipVariables(Own.owner)
<1> DEFINE c == Current
           F == ScopeDied(CurrentScope)
           u == IF Own.owner = GlobalMemory THEN {} ELSE GetSharedOwnershipVariables(Own.owner)
           m == [F[c] EXCEPT !.captures = u]
           G == [F EXCEPT ![c] = m]
<1>1. c \in DOMAIN functions /\ Own = functions[c] /\ c > 1 /\ functions \in Seq(Memories)
  <2>1. c \in DOMAIN functions /\ Own = functions[c] /\ functions \in Seq(Memories)
        /\ DOMAIN scopes = 1..Len(scopes) /\ Len(scopes) \in Nat /\ c = scopes[Len(scopes)].function
        /\ c \in Nat
    BY ChainIs DEF Current
  <2>2. Len(scopes) > 1 /\ scopes[Len(scopes) - 1].function # c
    BY DEF EndFunction
  <2>3. Len(scopes) - 1 \in DOMAIN scopes /\ Len(scopes) \in DOMAIN scopes
    BY <2>1, <2>2
  <2>4. /\ scopes[Len(scopes) - 1].function \in DOMAIN functions
        /\ scopes[Len(scopes) - 1].function <= c
    <3>1. Len(scopes) - 1 <= Len(scopes)
      BY <2>1
    <3>2. QED BY <2>1, <2>3, <3>1, Zenon DEF Chain
  <2>5. scopes[Len(scopes) - 1].function \in Nat \ {0}
    BY <2>4, ChainIs
  <2>6. QED BY <2>1, <2>2, <2>4, <2>5
<1>2. SameShape(F, functions)
      /\ \A f \in DOMAIN functions :
           /\ F[f].captures = functions[f].captures /\ F[f].uses = functions[f].uses
           /\ F[f].initializing = functions[f].initializing
           /\ \A n \in VarsOf(f) :
                F[f].variables[n].const =
                  IF f = GlobalMemory /\ n \in DOMAIN CurrentScope.names THEN FALSE
                  ELSE functions[f].variables[n].const
  BY ScopeDiedFacts
<1>3. functions' = G
  BY DEF EndFunction
<1>4. F \in Seq(Memories) /\ DOMAIN F = DOMAIN functions /\ F[c] \in Memories
  BY <1>1, <1>2 DEF SameShape
<1>5. u \in SUBSET Slots
  <2>1. CASE Own.owner = GlobalMemory
    BY <2>1
  <2>2. CASE Own.owner # GlobalMemory
    <3>1. Own.owner \in 1..(c - 1)
      BY <1>1 DEF Chain, GlobalMemory
    <3>2. Own.owner \in DOMAIN functions
      BY <1>1, <3>1, ChainIs
    <3>3. functions[Own.owner].variables \in Maps(Variable)
      BY <3>2, ChainIs, MemoryIs
    <3>4. \A n \in DOMAIN functions[Own.owner].variables : functions[Own.owner].variables[n] \in Variable
      BY <3>3, MapIs
    <3>5. u = GetSharedOwnershipVariables(Own.owner)
      BY <2>2
    <3>6. GetSharedOwnershipVariables(Own.owner) \subseteq Slots
      BY <3>4 DEF GetSharedOwnershipVariables, Variable
    <3>7. QED BY <3>5, <3>6
  <2>3. QED BY <2>1, <2>2
<1> HIDE DEF F, u, c
<1>6. /\ m \in Memories /\ m.variables = F[c].variables /\ SameMemory(m, F[c])
      /\ m.captures = u /\ m.uses = F[c].uses /\ m.initializing = F[c].initializing
  BY <1>4, <1>5, CapturesOfMemory
<1> HIDE DEF m
<1>7. /\ G \in Seq(Memories) /\ DOMAIN G = DOMAIN F /\ G[c] = m
      /\ \A f \in DOMAIN F : f # c => G[f] = F[f]
  BY <1>1, <1>4, <1>6, Replaced
<1> HIDE DEF G
<1>8. ASSUME NEW f \in DOMAIN functions
      PROVE  /\ SameMemory(G[f], F[f]) /\ G[f].variables = F[f].variables
             /\ G[f].uses = F[f].uses /\ G[f].initializing = F[f].initializing
             /\ f # c => G[f].captures = F[f].captures
  <2>1. CASE f = c
    BY <1>4, <1>6, <1>7, <2>1
  <2>2. CASE f # c
    BY <1>4, <1>7, <2>2 DEF SameMemory
  <2>3. QED BY <2>1, <2>2
<1>9. SameShape(functions', functions)
  <2>1. ASSUME NEW f \in DOMAIN functions PROVE SameMemory(G[f], functions[f])
    BY <1>2, <1>8, <2>1 DEF SameShape, SameMemory
  <2>2. QED BY <1>2, <1>3, <1>4, <1>7, <1>8, <2>1 DEF SameShape
<1>10. G[c].captures = u
  BY <1>6, <1>7
<1>11. QED BY <1>2, <1>3, <1>8, <1>9, <1>10 DEF c, u

-----------------------------------------------------------------------------
(* What the steps do to the chain.                                          *)

\* The functions along the chain.
Climbing(chain) ==
  /\ chain # <<>> /\ chain[1].function = GlobalMemory
  /\ \A s, t \in DOMAIN chain : s <= t => chain[s].function <= chain[t].function

FunctionsOf(chain) == {chain[s].function : s \in DOMAIN chain}

LEMMA GrownFacts ==
  ASSUME Typed, Chain, NEW S \in ScopeType, scopes' = Append(scopes, S), S.function >= Current
  PROVE  /\ scopes' \in Seq(ScopeType) /\ Len(scopes') = Len(scopes) + 1
         /\ DOMAIN scopes' = DOMAIN scopes \cup {Len(scopes) + 1}
         /\ \A s \in DOMAIN scopes : scopes'[s] = scopes[s] /\ s <= Len(scopes)
         /\ scopes'[Len(scopes) + 1] = S
         /\ Climbing(scopes') /\ FunctionsOf(scopes') = Open \cup {S.function}
         /\ CurrentScope' = S /\ Current' = S.function
<1>1. scopes \in Seq(ScopeType) /\ Len(scopes) \in Nat /\ DOMAIN scopes = 1..Len(scopes)
      /\ Len(scopes) \in DOMAIN scopes /\ 1 \in DOMAIN scopes
  BY ChainIs
<1>2. /\ scopes' \in Seq(ScopeType) /\ Len(scopes') = Len(scopes) + 1
      /\ DOMAIN scopes' = DOMAIN scopes \cup {Len(scopes) + 1}
      /\ \A s \in DOMAIN scopes : scopes'[s] = scopes[s] /\ s <= Len(scopes)
      /\ scopes'[Len(scopes) + 1] = S
  BY <1>1
<1>3. scopes' # <<>> /\ scopes'[1].function = GlobalMemory
  BY <1>1, <1>2 DEF Chain
<1>4. ASSUME NEW s \in DOMAIN scopes', NEW t \in DOMAIN scopes', s <= t
      PROVE  scopes'[s].function <= scopes'[t].function
  <2>1. \A f \in Open : f <= S.function
    <3>1. S.function \in Nat
      BY DEF ScopeType
    <3>2. \A f \in Open : f \in Nat /\ f <= Current
      BY ChainIs
    <3>3. Current \in Nat
      BY ChainIs
    <3>4. QED BY <3>1, <3>2, <3>3
  <2>2. CASE t = Len(scopes) + 1
    <3>1. CASE s = Len(scopes) + 1
      <4>1. S.function \in Nat
        BY DEF ScopeType
      <4>2. QED BY <1>2, <2>2, <3>1, <4>1
    <3>2. CASE s # Len(scopes) + 1
      <4>1. s \in DOMAIN scopes
        BY <1>2, <3>2
      <4>2. scopes[s].function \in Open
        BY <4>1 DEF Open
      <4>3. QED BY <1>2, <2>1, <2>2, <4>1, <4>2
    <3>3. QED BY <3>1, <3>2
  <2>3. CASE t # Len(scopes) + 1
    <3>1. t \in DOMAIN scopes /\ s \in DOMAIN scopes
      <4>1. t \in DOMAIN scopes
        BY <1>2, <2>3
      <4>2. t \in 1..Len(scopes) /\ s <= t
        BY <1>1, <1>4, <4>1
      <4>3. s # Len(scopes) + 1
        BY <1>1, <4>2
      <4>4. QED BY <1>2, <4>1, <4>3
    <3>2. QED BY <1>2, <3>1, <1>4, Zenon DEF Chain
  <2>4. QED BY <2>2, <2>3
<1>5. FunctionsOf(scopes') = Open \cup {S.function}
  <2>1. FunctionsOf(scopes') =
          {scopes'[s].function : s \in DOMAIN scopes} \cup {scopes'[Len(scopes) + 1].function}
    BY <1>2 DEF FunctionsOf
  <2>2. {scopes'[s].function : s \in DOMAIN scopes} = Open
    BY <1>2 DEF Open
  <2>3. QED BY <1>2, <2>1, <2>2
<1>6. CurrentScope' = S /\ Current' = S.function
  BY <1>2 DEF CurrentScope, Current, Last
<1>7. Climbing(scopes')
  BY <1>3, <1>4, Zenon DEF Climbing
<1>8. QED BY <1>2, <1>5, <1>6, <1>7

LEMMA ShrunkFacts ==
  ASSUME Typed, Chain, Len(scopes) > 1, scopes' = Front(scopes)
  PROVE  /\ scopes' \in Seq(ScopeType) /\ Len(scopes') = Len(scopes) - 1
         /\ DOMAIN scopes' = DOMAIN scopes \ {Len(scopes)}
         /\ \A s \in DOMAIN scopes' : scopes'[s] = scopes[s]
         /\ Climbing(scopes') /\ FunctionsOf(scopes') \subseteq Open
         /\ scopes[Len(scopes) - 1].function = Current =>
              FunctionsOf(scopes') = Open /\ Current' = Current
         /\ scopes[Len(scopes) - 1].function # Current => FunctionsOf(scopes') = Open \ {Current}
<1>1. scopes \in Seq(ScopeType) /\ Len(scopes) \in Nat /\ DOMAIN scopes = 1..Len(scopes)
      /\ Len(scopes) \in DOMAIN scopes /\ 1 \in DOMAIN scopes /\ Len(scopes) - 1 \in DOMAIN scopes
      /\ Current = scopes[Len(scopes)].function
  BY ChainIs DEF Current
<1>2. /\ scopes' \in Seq(ScopeType) /\ Len(scopes') = Len(scopes) - 1
      /\ DOMAIN scopes' = 1..(Len(scopes) - 1)
      /\ \A s \in DOMAIN scopes' : scopes'[s] = scopes[s]
  BY <1>1 DEF Front
<1>3. DOMAIN scopes' = DOMAIN scopes \ {Len(scopes)}
  BY <1>1, <1>2
<1>4. Climbing(scopes')
  <2>1. scopes' # <<>> /\ scopes'[1].function = GlobalMemory
    BY <1>1, <1>2 DEF Chain
  <2>2. ASSUME NEW s \in DOMAIN scopes', NEW t \in DOMAIN scopes', s <= t
        PROVE  scopes'[s].function <= scopes'[t].function
    <3>1. s \in DOMAIN scopes /\ t \in DOMAIN scopes
      BY <1>3
    <3>2. scopes[s].function <= scopes[t].function
      BY <2>2, <3>1, Zenon DEF Chain
    <3>3. QED BY <1>2, <3>2
  <2>3. QED BY <2>1, <2>2, Zenon DEF Climbing
<1>5. FunctionsOf(scopes') = {scopes[s].function : s \in DOMAIN scopes'}
  BY <1>2 DEF FunctionsOf
<1>6. FunctionsOf(scopes') \subseteq Open
  BY <1>3, <1>5 DEF Open
<1>7. ASSUME scopes[Len(scopes) - 1].function = Current
      PROVE  FunctionsOf(scopes') = Open /\ Current' = Current
  <2>1. Len(scopes) - 1 \in DOMAIN scopes'
    <3>1. Len(scopes) - 1 # Len(scopes)
      <4>1. \A l \in Nat : l - 1 # l
        OBVIOUS
      <4>2. QED BY <1>1, <4>1, Zenon
    <3>2. QED BY <1>1, <1>3, <3>1
  <2>2. \A s \in DOMAIN scopes : s \in DOMAIN scopes' \/ scopes[s].function = Current
    BY <1>1, <1>3
  <2>3. Open \subseteq FunctionsOf(scopes')
    BY <1>5, <1>7, <2>1, <2>2 DEF Open
  <2>4. Current' = scopes'[Len(scopes')].function
    BY DEF Current, CurrentScope, Last
  <2>5. QED BY <1>2, <1>6, <1>7, <2>1, <2>3, <2>4
<1>8. ASSUME scopes[Len(scopes) - 1].function # Current
      PROVE  FunctionsOf(scopes') = Open \ {Current}
  <2>1. ASSUME NEW s \in DOMAIN scopes' PROVE scopes[s].function # Current
    <3>1. s \in DOMAIN scopes /\ s <= Len(scopes) - 1 /\ Len(scopes) - 1 <= Len(scopes)
      BY <1>1, <1>2
    <3>2. scopes[s].function <= scopes[Len(scopes) - 1].function
          /\ scopes[Len(scopes) - 1].function <= scopes[Len(scopes)].function
      BY <1>1, <3>1, Zenon DEF Chain
    <3>3. scopes[s].function \in Open /\ scopes[Len(scopes) - 1].function \in Open
      BY <1>1, <3>1 DEF Open
    <3>4. scopes[s].function \in Nat /\ scopes[Len(scopes) - 1].function \in Nat /\ Current \in Nat
      BY <3>3, ChainIs
    <3>5. QED BY <1>1, <1>8, <3>2, <3>4
  <2>2. \A s \in DOMAIN scopes : s \in DOMAIN scopes' \/ scopes[s].function = Current
    BY <1>1, <1>3
  <2>3. DOMAIN scopes' \subseteq DOMAIN scopes
    BY <1>3
  <2>4. QED BY <1>5, <2>1, <2>2, <2>3 DEF Open
<1>9. QED BY <1>2, <1>3, <1>4, <1>6, <1>7, <1>8

\* A name is added to the innermost scope, or gets its constness.
LEMMA RenamedFacts ==
  ASSUME Typed, Chain, NEW n \in Names, NEW const \in BOOLEAN,
         scopes' = Append(Front(scopes), WithName(CurrentScope, n, const))
  PROVE  /\ scopes' \in Seq(ScopeType) /\ Len(scopes') = Len(scopes)
         /\ DOMAIN scopes' = DOMAIN scopes
         /\ \A s \in DOMAIN scopes :
              /\ scopes'[s].function = scopes[s].function
              /\ s # Len(scopes) => scopes'[s] = scopes[s]
         /\ DOMAIN scopes'[Len(scopes)].names = NamesOf(Len(scopes)) \cup {n}
         /\ \A m \in NamesOf(Len(scopes)) \cup {n} :
              scopes'[Len(scopes)].names[m] = IF m = n THEN const ELSE scopes[Len(scopes)].names[m]
         /\ Climbing(scopes') /\ FunctionsOf(scopes') = Open /\ Current' = Current
<1> DEFINE l == Len(scopes)
           S == scopes[l]
           N == [m \in DOMAIN S.names \cup {n} |-> IF m = n THEN const ELSE S.names[m]]
           W == [S EXCEPT !.names = N]
<1>1. scopes \in Seq(ScopeType) /\ l \in Nat /\ DOMAIN scopes = 1..l
      /\ l \in DOMAIN scopes /\ 1 \in DOMAIN scopes /\ CurrentScope = S /\ S \in ScopeType
      /\ Current = S.function
  BY ChainIs DEF Current
<1>2. S.names \in Maps(BOOLEAN) /\ S.function \in Nat
  BY <1>1 DEF ScopeType
<1>3. DOMAIN S.names \subseteq Names /\ \A m \in DOMAIN S.names : S.names[m] \in BOOLEAN
  BY <1>2, MapIs
<1>4. N \in Maps(BOOLEAN)
  <2>1. DOMAIN N \subseteq Names
    BY <1>3
  <2>2. N \in [DOMAIN N -> BOOLEAN]
    BY <1>3
  <2>3. QED BY <2>1, <2>2, IsMap
<1>5. WithName(CurrentScope, n, const) = W
  BY <1>1 DEF WithName, ScopeType
<1>6. DOMAIN N = DOMAIN S.names \cup {n}
      /\ \A m \in DOMAIN S.names \cup {n} : N[m] = IF m = n THEN const ELSE S.names[m]
  OBVIOUS
<1> HIDE DEF N
<1>7. W \in ScopeType /\ W.names = N /\ W.function = S.function
  BY <1>1, <1>4 DEF ScopeType
<1> HIDE DEF W
<1>8. /\ Front(scopes) \in Seq(ScopeType) /\ Len(Front(scopes)) = l - 1
      /\ \A s \in 1..(l - 1) : Front(scopes)[s] = scopes[s]
  BY <1>1 DEF Front
<1>9. scopes' = Append(Front(scopes), W)
  BY <1>5
<1>10. /\ scopes' \in Seq(ScopeType) /\ Len(scopes') = l /\ DOMAIN scopes' = 1..l
       /\ scopes'[l] = W /\ \A s \in 1..(l - 1) : scopes'[s] = scopes[s]
  <2> HIDE DEF l, S
  <2>1. QED BY <1>1, <1>7, <1>8, <1>9
<1>11. ASSUME NEW s \in DOMAIN scopes
       PROVE  scopes'[s].function = scopes[s].function /\ (s # l => scopes'[s] = scopes[s])
  <2>1. s = l \/ s \in 1..(l - 1)
    BY <1>1
  <2>2. QED BY <1>7, <1>10, <2>1
<1>12. scopes' # <<>> /\ scopes'[1].function = GlobalMemory
  <2>1. scopes'[1].function = GlobalMemory
    BY <1>1, <1>11 DEF Chain
  <2>2. 1 \in DOMAIN scopes'
    BY <1>1, <1>10
  <2>3. QED BY <2>1, <2>2
<1>13. ASSUME NEW s \in DOMAIN scopes', NEW t \in DOMAIN scopes', s <= t
       PROVE  scopes'[s].function <= scopes'[t].function
  <2>1. s \in DOMAIN scopes /\ t \in DOMAIN scopes
    BY <1>1, <1>10
  <2>2. scopes[s].function <= scopes[t].function
    BY <1>13, <2>1, Zenon DEF Chain
  <2>3. QED BY <1>11, <2>1, <2>2
<1>14. Climbing(scopes')
  BY <1>12, <1>13, Zenon DEF Climbing
<1>15. FunctionsOf(scopes') = Open
  <2>1. DOMAIN scopes' = DOMAIN scopes
    BY <1>1, <1>10
  <2>2. QED BY <1>11, <2>1 DEF FunctionsOf, Open
<1>16. Current' = Current
  BY <1>1, <1>7, <1>10 DEF Current, CurrentScope, Last
<1>17. QED BY <1>1, <1>6, <1>7, <1>10, <1>11, <1>14, <1>15, <1>16 DEF NamesOf

\* The functions stay the same, and the chain is as before or lost its last function.
LEMMA ChainKept ==
  ASSUME Typed, Chain, DOMAIN functions' = DOMAIN functions,
         \A f \in DOMAIN functions : SameMemory(functions'[f], functions[f]),
         Climbing(scopes'),
         FunctionsOf(scopes') = Open \/ FunctionsOf(scopes') = Open \ {Current}
  PROVE  Chain'
<1>1. scopes' # <<>> /\ scopes'[1].function = GlobalMemory
      /\ \A s, t \in DOMAIN scopes' : s <= t => scopes'[s].function <= scopes'[t].function
  BY DEF Climbing
<1>2. Open' = FunctionsOf(scopes') /\ Open' \subseteq Open
  BY DEF Open, FunctionsOf
<1>3. \A f \in Open : f \in DOMAIN functions /\ f \in Nat /\ f <= Current
  BY ChainIs
<1>4. \A s \in DOMAIN scopes' : scopes'[s].function \in DOMAIN functions'
  BY <1>2, <1>3 DEF FunctionsOf
<1>5. \A f \in DOMAIN functions : functions'[f].owner = functions[f].owner
                                  /\ functions'[f].lowerFunction = functions[f].lowerFunction
  BY DEF SameMemory
<1>6. \A f \in DOMAIN functions' \ {GlobalMemory} :
        functions'[f].owner \in 1..(f - 1) /\ functions'[f].lowerFunction \in 0..(f - 1)
  BY <1>5 DEF Chain
<1>7. GlobalMemory \in DOMAIN functions
  BY ChainIs
<1>8. functions'[GlobalMemory].owner = 0 /\ functions'[GlobalMemory].lowerFunction = 0
  BY <1>5, <1>7 DEF Chain
<1>9. ASSUME NEW f \in Open' \ {GlobalMemory}
      PROVE  functions'[f].owner \in Open' /\ functions'[f].lowerFunction \in Open' \cup {0}
  <2>1. f \in Locals /\ f \in DOMAIN functions /\ f \in Nat /\ f <= Current /\ Current \in Nat
    BY <1>2, <1>3, ChainIs DEF Locals
  <2>2. functions[f].owner \in Open /\ functions[f].lowerFunction \in Open \cup {0}
        /\ functions[f].owner \in 1..(f - 1) /\ functions[f].lowerFunction \in 0..(f - 1)
    BY <2>1 DEF Chain, Locals
  <2>3. functions[f].owner # Current /\ functions[f].lowerFunction # Current
    BY <2>1, <2>2
  <2>4. QED BY <1>2, <1>5, <2>1, <2>2, <2>3
<1>10. QED BY <1>1, <1>4, <1>6, <1>8, <1>9 DEF Chain, Locals

-----------------------------------------------------------------------------
(* The tables.                                                              *)

\* The entries of a table are 0, 1, ...: each is the number of the entries below it.
Below(T, n) == {m \in DOMAIN T : T[m] < T[n]}
Ranked(T) == \A n \in DOMAIN T : /\ T[n] = Cardinality(Below(T, n))
                                 /\ \A m \in DOMAIN T : T[m] = T[n] => m = n

Bounded(T, b) == Cardinality(DOMAIN T) <= b /\ \A n \in DOMAIN T : T[n] < b

Table(T) == T \in Maps(Nat) /\ IsFiniteSet(DOMAIN T)

LEMMA RankedBelow ==
  ASSUME NEW T, Table(T), Ranked(T), NEW n \in DOMAIN T
  PROVE  T[n] < Cardinality(DOMAIN T)
<1>1. T[n] \in Nat
  BY MapIs DEF Table
<1>2. Below(T, n) \subseteq DOMAIN T \ {n}
  BY <1>1 DEF Below
<1>3. IsFiniteSet(DOMAIN T \ {n}) /\ Cardinality(DOMAIN T \ {n}) = Cardinality(DOMAIN T) - 1
      /\ Cardinality(DOMAIN T) \in Nat
  BY FS_RemoveElement, FS_CardinalityType DEF Table
<1>4. Cardinality(Below(T, n)) <= Cardinality(DOMAIN T \ {n})
  BY <1>2, <1>3, FS_Subset
<1>5. Cardinality(Below(T, n)) = T[n]
  BY DEF Ranked
<1>6. QED BY <1>1, <1>3, <1>4, <1>5

LEMMA InsertedFacts ==
  ASSUME NEW T, Table(T), NEW n \in Names
  PROVE  /\ Table(Inserted(T, n)) /\ DOMAIN Inserted(T, n) = DOMAIN T \cup {n}
         /\ \A m \in DOMAIN T : Inserted(T, n)[m] = T[m]
         /\ Inserted(T, n)[n] = Insert(T, n) /\ Insert(T, n) \in Nat
         /\ Cardinality(DOMAIN Inserted(T, n)) \in Nat /\ Cardinality(DOMAIN T) \in Nat
         /\ n \notin DOMAIN T => /\ Insert(T, n) = Cardinality(DOMAIN T)
                                 /\ Cardinality(DOMAIN Inserted(T, n)) = Cardinality(DOMAIN T) + 1
         /\ \A b \in Nat : Bounded(T, b) => Bounded(Inserted(T, n), b + 1)
         /\ \A b \in Nat : Bounded(T, b) => Insert(T, n) <= b
         /\ Ranked(T) => Ranked(Inserted(T, n))
<1> DEFINE I == Inserted(T, n)
           card == Cardinality(DOMAIN T)
<1>1. T \in Maps(Nat) /\ IsFiniteSet(DOMAIN T) /\ DOMAIN T \subseteq Names
      /\ (\A m \in DOMAIN T : T[m] \in Nat) /\ card \in Nat
  BY MapIs, FS_CardinalityType DEF Table
<1>2. /\ DOMAIN I = DOMAIN T \cup {n} /\ (\A m \in DOMAIN T : I[m] = T[m]) /\ I[n] = Insert(T, n)
      /\ I = [m \in DOMAIN T \cup {n} |-> Insert(T, m)]
  BY DEF Inserted, Insert
<1>3. Insert(T, n) \in Nat /\ (n \notin DOMAIN T => Insert(T, n) = card)
  BY <1>1 DEF Insert
<1>4. \A m \in DOMAIN T : Insert(T, m) = T[m]
  BY DEF Insert
<1> HIDE DEF I
<1>5. Table(I)
  <2>1. \A m \in DOMAIN T \cup {n} : Insert(T, m) \in Nat
    BY <1>1, <1>3, <1>4
  <2>2. I \in [DOMAIN I -> Nat]
    BY <1>2, <2>1
  <2>3. DOMAIN I \subseteq Names
    BY <1>1, <1>2
  <2>4. I \in Maps(Nat)
    BY <2>2, <2>3, IsMap
  <2>5. IsFiniteSet(DOMAIN I)
    BY <1>1, <1>2, FS_AddElement
  <2>6. QED BY <2>4, <2>5 DEF Table
<1>6. Cardinality(DOMAIN I) \in Nat
      /\ Cardinality(DOMAIN I) = IF n \in DOMAIN T THEN card ELSE card + 1
  BY <1>1, <1>2, FS_AddElement, FS_CardinalityType
<1>7. ASSUME NEW b \in Nat, Bounded(T, b)
      PROVE  Bounded(I, b + 1) /\ Insert(T, n) <= b
  <2>1. card <= b /\ \A m \in DOMAIN T : T[m] < b
    BY <1>7 DEF Bounded
  <2>2. Insert(T, n) <= b
    <3>1. CASE n \in DOMAIN T
      BY <1>1, <1>4, <2>1, <3>1
    <3>2. CASE n \notin DOMAIN T
      BY <1>1, <1>3, <2>1, <3>2
    <3>3. QED BY <3>1, <3>2
  <2>3. \A m \in DOMAIN I : I[m] < b + 1
    BY <1>1, <1>2, <1>3, <2>1, <2>2
  <2>4. Cardinality(DOMAIN I) <= b + 1
    BY <1>1, <1>6, <2>1
  <2>5. QED BY <2>2, <2>3, <2>4 DEF Bounded
<1>8. ASSUME Ranked(T) PROVE Ranked(I)
  <2>1. CASE n \in DOMAIN T
    <3>1. DOMAIN I = DOMAIN T
      BY <1>2, <2>1
    <3>2. \A m \in DOMAIN T : Below(I, m) = Below(T, m)
      BY <1>2, <3>1 DEF Below
    <3>3. QED BY <1>2, <1>8, <3>1, <3>2 DEF Ranked
  <2>2. CASE n \notin DOMAIN T
    <3>1. \A m \in DOMAIN T : T[m] < card
      BY <1>8, RankedBelow
    <3>2. I[n] = card /\ \A m \in DOMAIN T : I[m] = T[m] /\ I[m] \in Nat /\ I[m] < card
      BY <1>1, <1>2, <1>3, <2>2, <3>1
    <3>3. Below(I, n) = DOMAIN T
      BY <1>1, <1>2, <3>2 DEF Below
    <3>4. \A m \in DOMAIN T : Below(I, m) = Below(T, m)
      BY <1>1, <1>2, <3>2 DEF Below
    <3>5. ASSUME NEW m \in DOMAIN I
          PROVE  I[m] = Cardinality(Below(I, m)) /\ \A x \in DOMAIN I : I[x] = I[m] => x = m
      <4>1. CASE m = n
        BY <1>1, <1>2, <3>2, <3>3, <4>1
      <4>2. CASE m # n
        <5>1. m \in DOMAIN T
          BY <1>2, <4>2
        <5>2. I[m] = Cardinality(Below(I, m))
          BY <1>8, <3>2, <3>4, <5>1 DEF Ranked
        <5>3. \A x \in DOMAIN I : I[x] = I[m] => x = m
          <6>1. \A x \in DOMAIN T : T[x] = T[m] => x = m
            BY <1>8, <5>1 DEF Ranked
          <6>2. QED BY <1>1, <1>2, <3>2, <5>1, <6>1
        <5>4. QED BY <5>2, <5>3
      <4>3. QED BY <4>1, <4>2
    <3>6. QED BY <3>5 DEF Ranked
  <2>3. QED BY <2>1, <2>2
<1>9. QED BY <1>2, <1>3, <1>5, <1>6, <1>7, <1>8, <1>1 DEF I

LEMMA TableAfterFacts ==
  ASSUME NEW T, Table(T), NEW n \in Names, NEW V
  PROVE  /\ Table(TableAfter(V, T, n))
         /\ \A m \in DOMAIN T : m \in DOMAIN TableAfter(V, T, n) /\ TableAfter(V, T, n)[m] = T[m]
         /\ n \notin DOMAIN V => /\ DOMAIN TableAfter(V, T, n) = DOMAIN T \cup {n}
                                 /\ TableAfter(V, T, n)[n] = Insert(T, n)
         /\ n \in DOMAIN V => TableAfter(V, T, n) = T
         /\ \A b \in Nat : Bounded(T, b) => Bounded(TableAfter(V, T, n), b + 1)
         /\ Ranked(T) => Ranked(TableAfter(V, T, n))
<1>1. CASE n \in DOMAIN V
  <2>1. TableAfter(V, T, n) = T
    BY <1>1 DEF TableAfter
  <2>2. ASSUME NEW b \in Nat, Bounded(T, b) PROVE Bounded(T, b + 1)
    <3>1. Cardinality(DOMAIN T) \in Nat /\ \A m \in DOMAIN T : T[m] \in Nat
      BY MapIs, FS_CardinalityType DEF Table
    <3>2. QED BY <2>2, <3>1 DEF Bounded
  <2>3. QED BY <1>1, <2>1, <2>2
<1>2. CASE n \notin DOMAIN V
  <2>1. TableAfter(V, T, n) = Inserted(T, n)
    BY <1>2 DEF TableAfter
  <2> DEFINE I == Inserted(T, n)
  <2>2. /\ Table(I) /\ DOMAIN I = DOMAIN T \cup {n} /\ I[n] = Insert(T, n)
        /\ (\A b \in Nat : Bounded(T, b) => Bounded(I, b + 1))
        /\ (Ranked(T) => Ranked(I))
        /\ \A m \in DOMAIN T : I[m] = T[m]
    BY InsertedFacts
  <2> HIDE DEF I
  <2>3. TableAfter(V, T, n) = I
    BY <2>1 DEF I
  <2>4. QED BY <1>2, <2>2, <2>3
<1>3. QED BY <1>1, <1>2

\* A table without the entries of a function that had the highest ones.
LEMMA ErasedFacts ==
  ASSUME NEW T, Table(T), NEW E
  PROVE  /\ Table(Erased(T, E)) /\ DOMAIN Erased(T, E) = DOMAIN T \ E
         /\ \A m \in DOMAIN T \ E : Erased(T, E)[m] = T[m]
         /\ \A b \in Nat : Bounded(T, b) => Bounded(Erased(T, E), b)
         /\ Ranked(T) /\ (\A m \in DOMAIN T \ E, e \in E \cap DOMAIN T : T[m] < T[e]) =>
              Ranked(Erased(T, E))
<1> DEFINE I == Erased(T, E)
<1>1. T \in Maps(Nat) /\ IsFiniteSet(DOMAIN T) /\ DOMAIN T \subseteq Names
      /\ (\A m \in DOMAIN T : T[m] \in Nat)
  BY MapIs DEF Table
<1>2. /\ DOMAIN I = DOMAIN T \ E /\ (\A m \in DOMAIN T \ E : I[m] = T[m])
      /\ I = [m \in DOMAIN T \ E |-> T[m]]
  BY DEF Erased
<1> HIDE DEF I
<1>3. IsFiniteSet(DOMAIN I) /\ Cardinality(DOMAIN I) <= Cardinality(DOMAIN T)
      /\ Cardinality(DOMAIN I) \in Nat /\ Cardinality(DOMAIN T) \in Nat
  <2>1. DOMAIN I \subseteq DOMAIN T
    BY <1>2
  <2>2. QED BY <1>1, <2>1, FS_Subset, FS_CardinalityType
<1>4. Table(I)
  <2>1. I \in [DOMAIN I -> Nat] /\ DOMAIN I \subseteq Names
    BY <1>1, <1>2
  <2>2. QED BY <1>3, <2>1, IsMap DEF Table
<1>5. ASSUME NEW b \in Nat, Bounded(T, b) PROVE Bounded(I, b)
  BY <1>1, <1>2, <1>3, <1>5 DEF Bounded
<1>6. ASSUME Ranked(T), \A m \in DOMAIN T \ E, e \in E \cap DOMAIN T : T[m] < T[e]
      PROVE  Ranked(I)
  <2>1. ASSUME NEW n \in DOMAIN I
        PROVE  I[n] = Cardinality(Below(I, n)) /\ \A m \in DOMAIN I : I[m] = I[n] => m = n
    <3>1. n \in DOMAIN T \ E /\ I[n] = T[n]
      BY <1>2
    <3>2. ASSUME NEW m \in DOMAIN T, T[m] < T[n] PROVE m \in DOMAIN I
      BY <1>1, <1>2, <1>6, <3>1, <3>2
    <3>3. Below(I, n) = Below(T, n)
      BY <1>2, <3>1, <3>2 DEF Below
    <3>4. T[n] = Cardinality(Below(T, n)) /\ \A m \in DOMAIN T : T[m] = T[n] => m = n
      BY <1>6, <3>1 DEF Ranked
    <3>5. QED BY <1>2, <3>1, <3>3, <3>4
  <2>2. QED BY <2>1 DEF Ranked
<1>7. QED BY <1>2, <1>4, <1>5, <1>6 DEF I

-----------------------------------------------------------------------------
(* The memory of a new function.                                            *)

Start(memory, table) == [memory |-> memory, table |-> table]

IsAfter(start, params, m, after) ==
  after = [k \in 0..m |-> IF k = 0 THEN start ELSE WithParameter(after[k - 1], params[k])]

LEMMA AfterExists ==
  ASSUME NEW start, NEW params, NEW m \in Nat
  PROVE  \E after : IsAfter(start, params, m, after)
<1> DEFINE S == {k \in Nat : ~\E after : IsAfter(start, params, k, after)}
<1>1. SUFFICES ASSUME S # {} PROVE FALSE
  OBVIOUS
<1>2. PICK k \in S : \A j \in S : k <= j
  BY <1>1, LeastNumber
<1>3. CASE k = 0
  <2>1. IsAfter(start, params, 0, [n \in 0..0 |-> start])
    BY DEF IsAfter
  <2>2. QED BY <1>2, <1>3, <2>1
<1>4. CASE k # 0
  <2>1. k \in Nat /\ k - 1 \in Nat /\ ~(k <= k - 1)
    BY <1>2, <1>4
  <2>2. k - 1 \notin S
    BY <1>2, <2>1
  <2>3. PICK g : IsAfter(start, params, k - 1, g)
    BY <2>1, <2>2
  <2> DEFINE f == [n \in 0..k |-> IF n = 0 THEN start ELSE WithParameter(g[n - 1], params[n])]
  <2>4. \A n \in 0..(k - 1) : g[n] = f[n]
    <3>1. ASSUME NEW n \in 0..(k - 1)
          PROVE  g[n] = IF n = 0 THEN start ELSE WithParameter(g[n - 1], params[n])
      BY <2>3 DEF IsAfter
    <3>2. \A n \in 0..(k - 1) : n \in 0..k
      BY <2>1
    <3>3. QED BY <3>1, <3>2, Zenon
  <2>5. \A n \in 0..k : n # 0 => n - 1 \in 0..(k - 1)
    BY <2>1
  <2>6. IsAfter(start, params, k, f)
    <3>1. \A n \in 0..k : n # 0 => f[n - 1] = g[n - 1]
      BY <2>4, <2>5, Zenon
    <3>2. [n \in 0..k |-> IF n = 0 THEN start ELSE WithParameter(f[n - 1], params[n])] = f
      <4> DEFINE h == f
      <4>1. \A n \in 0..k : n # 0 => h[n - 1] = g[n - 1]
        BY <3>1
      <4> HIDE DEF h
      <4>2. [n \in 0..k |-> IF n = 0 THEN start ELSE WithParameter(h[n - 1], params[n])] = f
        BY <4>1
      <4>3. QED BY <4>2 DEF h
    <3>3. QED BY <3>2, Zenon DEF IsAfter
  <2>7. QED BY <1>2, <2>6
<1>5. QED BY <1>3, <1>4

LEMMA WithParametersIs ==
  ASSUME NEW memory, NEW table, NEW params, Len(params) \in Nat
  PROVE  \E after : /\ IsAfter(Start(memory, table), params, Len(params), after)
                    /\ WithParameters(memory, table, params) = after[Len(params)]
<1> DEFINE n == Len(params)
           s == Start(memory, table)
           g == CHOOSE after : IsAfter(s, params, n, after)
<1>1. IsAfter(s, params, n, g)
  BY AfterExists, Zenon
<1>2. WithParameters(memory, table, params) = g[n]
  BY DEF WithParameters, IsAfter, Start
<1>3. QED BY <1>1, <1>2

LEMMA ParametersAre ==
  ASSUME NEW params \in Parameters
  PROVE  /\ params \in Seq(Names) /\ Len(params) \in 0..MaxParameters
         /\ DOMAIN params = 1..Len(params)
         /\ \A i, j \in DOMAIN params : params[i] = params[j] => i = j
<1>1. PICK k \in 0..MaxParameters : params \in [1..k -> Names]
  BY DEF Parameters
<1>2. \A i, j \in DOMAIN params : params[i] = params[j] => i = j
  BY DEF Parameters
<1>3. k \in Nat
  BY <1>1, ScopesAssumption
<1>4. params \in Seq(Names) /\ Len(params) = k
  BY <1>1, <1>3
<1>5. QED BY <1>1, <1>2, <1>3, <1>4

\* A function whose first k parameters were declared; T is the table before it.
Parametrized(owner, lower, T, params, k, m, A) ==
  /\ m \in Memories /\ m.owner = owner /\ m.lowerFunction = lower
  /\ m.captures = {} /\ m.uses = {} /\ m.initializing = None
  /\ Len(m.parameters) = k /\ (\A i \in 1..k : m.parameters[i] = params[i])
  /\ DOMAIN m.variables = {params[i] : i \in 1..k}
  /\ Table(A) /\ DOMAIN A = DOMAIN T \cup DOMAIN m.variables
  /\ \A n \in DOMAIN T : A[n] = T[n]
  /\ \A n \in DOMAIN m.variables : /\ m.variables[n].index = A[n] /\ ~m.variables[n].captured
                                   /\ m.variables[n].const = FALSE
  /\ \A b \in Nat : Bounded(T, b) => Bounded(A, b + k)
  /\ Ranked(T) => Ranked(A)
  /\ (\A i \in 1..k : params[i] \notin DOMAIN T) =>
       /\ Cardinality(DOMAIN A) = Cardinality(DOMAIN T) + k
       /\ \A i \in 1..k : A[params[i]] = Cardinality(DOMAIN T) + i - 1

IsParameterMemory(m, v, p, x) ==
  /\ x \in Memories /\ x.variables = v /\ x.parameters = p
  /\ x.owner = m.owner /\ x.lowerFunction = m.lowerFunction
  /\ x.captures = m.captures /\ x.uses = m.uses /\ x.initializing = m.initializing

LEMMA ParameterMemory ==
  ASSUME NEW m \in Memories, NEW v \in Maps(Variable), NEW p \in Seq(Names)
  PROVE  IsParameterMemory(m, v, p, [m EXCEPT !.variables = v, !.parameters = p])
BY DEF Memories, IsParameterMemory

DeclaredIs(V, T, n) ==
  /\ Declared(V, T, n) \in Maps(Variable) /\ DOMAIN Declared(V, T, n) = DOMAIN V \cup {n}
  /\ \A x \in DOMAIN V : Declared(V, T, n)[x] = V[x]
  /\ n \notin DOMAIN V => Declared(V, T, n)[n] =
       [index |-> Insert(T, n), captured |-> FALSE, const |-> FALSE]

LEMMA DeclaredAre ==
  ASSUME NEW V \in Maps(Variable), NEW T, NEW n \in Names, n \in DOMAIN V \/ Insert(T, n) \in Slots
  PROVE  DeclaredIs(V, T, n)
BY DeclaredFacts DEF DeclaredIs

TableAfterIs(V, T, n) ==
  /\ Table(TableAfter(V, T, n))
  /\ \A m \in DOMAIN T : m \in DOMAIN TableAfter(V, T, n) /\ TableAfter(V, T, n)[m] = T[m]
  /\ n \notin DOMAIN V => /\ DOMAIN TableAfter(V, T, n) = DOMAIN T \cup {n}
                          /\ TableAfter(V, T, n)[n] = Insert(T, n)
  /\ n \in DOMAIN V => TableAfter(V, T, n) = T
  /\ \A b \in Nat : Bounded(T, b) => Bounded(TableAfter(V, T, n), b + 1)
  /\ Ranked(T) => Ranked(TableAfter(V, T, n))

LEMMA TableAfterIsSo ==
  ASSUME NEW T, Table(T), NEW n \in Names, NEW V
  PROVE  TableAfterIs(V, T, n)
BY TableAfterFacts DEF TableAfterIs

\* One parameter more.
LEMMA ParameterAdded ==
  ASSUME NEW owner, NEW lower, NEW T, Table(T), NEW params \in Seq(Names), NEW k \in Nat,
         k + 1 \in DOMAIN params, \A i, j \in DOMAIN params : params[i] = params[j] => i = j,
         NEW m, NEW A, Parametrized(owner, lower, T, params, k, m, A),
         NEW b \in Nat, Bounded(T, b), b + k \in Slots
  PROVE  LET w == WithParameter([memory |-> m, table |-> A], params[k + 1])
         IN Parametrized(owner, lower, T, params, k + 1, w.memory, w.table)
<1> DEFINE n == params[k + 1]
           V == m.variables
           U == Declared(V, A, n)
           B == TableAfter(V, A, n)
           p == Append(m.parameters, n)
           w == WithParameter([memory |-> m, table |-> A], n)
           card == Cardinality(DOMAIN T)
<1>1. n \in Names /\ DOMAIN params = 1..Len(params) /\ Len(params) \in Nat
  OBVIOUS
<1>2. m \in Memories /\ V \in Maps(Variable) /\ m.parameters \in Seq(Names) /\ Len(m.parameters) = k
  BY MemoryIs DEF Parametrized
<1>3. Table(A) /\ DOMAIN A = DOMAIN T \cup DOMAIN V
  BY DEF Parametrized
<1>4. DOMAIN V = {params[i] : i \in 1..k}
  BY DEF Parametrized
<1>5. \A i \in 1..k : i \in DOMAIN params /\ i # k + 1
  BY <1>1
<1>6. n \notin DOMAIN V
  BY <1>4, <1>5
<1> HIDE DEF n, U, B, p, w
<1>7. Bounded(A, b + k) /\ Insert(A, n) \in Slots
  <2>1. Bounded(A, b + k)
    BY DEF Parametrized
  <2>2. Insert(A, n) <= b + k /\ Insert(A, n) \in Nat /\ b + k \in Nat
    <3>1. b + k \in Nat
      OBVIOUS
    <3>2. Insert(A, n) \in Nat /\ \A c \in Nat : Bounded(A, c) => Insert(A, n) <= c
      BY <1>1, <1>3, InsertedFacts
    <3>3. QED BY <2>1, <3>1, <3>2
  <2>3. MaxEvents * (MaxParameters + 1) \in Nat
    BY ScopesAssumption
  <2>4. QED BY <2>1, <2>2, <2>3 DEF Slots
<1>8. /\ U \in Maps(Variable) /\ DOMAIN U = DOMAIN V \cup {n} /\ (\A x \in DOMAIN V : U[x] = V[x])
      /\ U[n] = [index |-> Insert(A, n), captured |-> FALSE, const |-> FALSE]
  <2> HIDE DEF V
  <2>1. /\ Declared(V, A, n) \in Maps(Variable) /\ DOMAIN Declared(V, A, n) = DOMAIN V \cup {n}
        /\ (\A x \in DOMAIN V : Declared(V, A, n)[x] = V[x])
        /\ n \notin DOMAIN V => Declared(V, A, n)[n] =
             [index |-> Insert(A, n), captured |-> FALSE, const |-> FALSE]
    <3>1. V \in Maps(Variable)
      BY <1>2
    <3>2. n \in Names
      BY <1>1
    <3>3. n \in DOMAIN V \/ Insert(A, n) \in Slots
      BY <1>7
    <3>4. DeclaredIs(V, A, n)
      BY <3>1, <3>2, <3>3, DeclaredAre
    <3>5. QED BY <3>4 DEF DeclaredIs
  <2>2. QED BY <1>6, <2>1 DEF U
<1>9. /\ Table(B) /\ DOMAIN B = DOMAIN A \cup {n} /\ B[n] = Insert(A, n)
      /\ (\A c \in Nat : Bounded(A, c) => Bounded(B, c + 1))
      /\ (Ranked(A) => Ranked(B))
      /\ \A x \in DOMAIN A : B[x] = A[x]
  <2> HIDE DEF V
  <2>1. /\ Table(TableAfter(V, A, n))
        /\ \A x \in DOMAIN A : x \in DOMAIN TableAfter(V, A, n) /\ TableAfter(V, A, n)[x] = A[x]
        /\ n \notin DOMAIN V => /\ DOMAIN TableAfter(V, A, n) = DOMAIN A \cup {n}
                                /\ TableAfter(V, A, n)[n] = Insert(A, n)
        /\ \A c \in Nat : Bounded(A, c) => Bounded(TableAfter(V, A, n), c + 1)
        /\ Ranked(A) => Ranked(TableAfter(V, A, n))
    <3>1. Table(A) /\ n \in Names
      BY <1>1, <1>3
    <3>2. TableAfterIs(V, A, n)
      BY <3>1, TableAfterIsSo
    <3>3. QED BY <3>2 DEF TableAfterIs
  <2>2. QED BY <1>6, <2>1 DEF B
<1>10. p \in Seq(Names) /\ Len(p) = k + 1 /\ p[k + 1] = n /\ \A i \in 1..k : p[i] = m.parameters[i]
  BY <1>1, <1>2 DEF p
<1>11. w.memory = [m EXCEPT !.variables = U, !.parameters = p] /\ w.table = B
  BY <1>2 DEF WithParameter, U, B, p, w
<1>12. /\ w.memory \in Memories /\ w.memory.variables = U /\ w.memory.parameters = p
       /\ w.memory.owner = m.owner /\ w.memory.lowerFunction = m.lowerFunction
       /\ w.memory.captures = m.captures /\ w.memory.uses = m.uses
       /\ w.memory.initializing = m.initializing
  <2> DEFINE x == [m EXCEPT !.variables = U, !.parameters = p]
  <2>1. /\ x \in Memories /\ x.variables = U /\ x.parameters = p
        /\ x.owner = m.owner /\ x.lowerFunction = m.lowerFunction
        /\ x.captures = m.captures /\ x.uses = m.uses /\ x.initializing = m.initializing
    <3>1. m \in Memories /\ U \in Maps(Variable) /\ p \in Seq(Names)
      BY <1>2, <1>8, <1>10
    <3>2. IsParameterMemory(m, U, p, x)
      BY <3>1, ParameterMemory
    <3>3. QED BY <3>2 DEF IsParameterMemory
  <2> HIDE DEF x
  <2>2. w.memory = x
    BY <1>11 DEF x
  <2>3. QED BY <2>1, <2>2
<1>13. /\ w.memory.owner = owner /\ w.memory.lowerFunction = lower
       /\ w.memory.captures = {} /\ w.memory.uses = {} /\ w.memory.initializing = None
  BY <1>12 DEF Parametrized
<1>14. \A i \in 1..(k + 1) : i \in 1..k \/ i = k + 1
  OBVIOUS
<1>15. Len(w.memory.parameters) = k + 1
       /\ \A i \in 1..(k + 1) : w.memory.parameters[i] = params[i]
  BY <1>10, <1>12, <1>14 DEF Parametrized, n
<1>16. DOMAIN w.memory.variables = {params[i] : i \in 1..(k + 1)}
  <2>1. {params[i] : i \in 1..(k + 1)} = {params[i] : i \in 1..k} \cup {n}
    BY <1>14 DEF n
  <2>2. QED BY <1>4, <1>8, <1>12, <2>1
<1>17. /\ Table(w.table) /\ DOMAIN w.table = DOMAIN T \cup DOMAIN w.memory.variables
       /\ \A x \in DOMAIN T : w.table[x] = T[x]
  <2>1. \A x \in DOMAIN T : x \in DOMAIN A /\ A[x] = T[x]
    BY <1>3 DEF Parametrized
  <2>2. QED BY <1>3, <1>8, <1>9, <1>11, <1>12, <2>1
<1>18. ASSUME NEW x \in DOMAIN w.memory.variables
       PROVE  /\ w.memory.variables[x].index = w.table[x] /\ ~w.memory.variables[x].captured
              /\ w.memory.variables[x].const = FALSE
  <2>1. CASE x = n
    BY <1>8, <1>9, <1>11, <1>12, <2>1
  <2>2. CASE x # n
    <3>1. x \in DOMAIN V /\ x \in DOMAIN A
      BY <1>3, <1>8, <1>12, <2>2
    <3>2. V[x].index = A[x] /\ ~V[x].captured /\ V[x].const = FALSE
      BY <3>1 DEF Parametrized
    <3>3. QED BY <1>8, <1>9, <1>11, <1>12, <3>1, <3>2
  <2>3. QED BY <2>1, <2>2
<1>19. ASSUME NEW c \in Nat, Bounded(T, c) PROVE Bounded(w.table, c + (k + 1))
  <2>1. Bounded(A, c + k) /\ c + k \in Nat /\ c + k + 1 = c + (k + 1)
    BY <1>19 DEF Parametrized
  <2>2. QED BY <1>9, <1>11, <2>1
<1>20. Ranked(T) => Ranked(w.table)
  BY <1>9, <1>11 DEF Parametrized
<1>21. ASSUME \A i \in 1..(k + 1) : params[i] \notin DOMAIN T
       PROVE  /\ Cardinality(DOMAIN w.table) = card + (k + 1)
              /\ \A i \in 1..(k + 1) : w.table[params[i]] = card + i - 1
  <2>1. \A i \in 1..k : params[i] \notin DOMAIN T
    BY <1>21
  <2>2. Cardinality(DOMAIN A) = card + k /\ \A i \in 1..k : A[params[i]] = card + i - 1
    BY <2>1 DEF Parametrized
  <2>3. n \notin DOMAIN T
    BY <1>14, <1>21 DEF n
  <2>4. n \notin DOMAIN A
    BY <1>3, <1>6, <2>3
  <2>5. card \in Nat
    BY FS_CardinalityType DEF Table
  <2>6. Insert(A, n) = card + k /\ Cardinality(DOMAIN A \cup {n}) = card + k + 1
    <3>1. IsFiniteSet(DOMAIN A)
      BY <1>3 DEF Table
    <3>2. Cardinality(DOMAIN A \cup {n}) = Cardinality(DOMAIN A) + 1
      BY <2>4, <3>1, FS_AddElement
    <3>3. QED BY <2>2, <2>4, <3>2 DEF Insert
  <2>7. \A i \in 1..k : w.table[params[i]] = card + i - 1
    <3>1. \A i \in 1..k : params[i] \in DOMAIN A
      BY <1>3, <1>4
    <3>2. QED BY <1>9, <1>11, <2>2, <3>1
  <2>8. w.table[n] = card + (k + 1) - 1 /\ Cardinality(DOMAIN w.table) = card + (k + 1)
    BY <1>9, <1>11, <2>5, <2>6
  <2>9. QED BY <1>14, <2>7, <2>8 DEF n
<1> HIDE DEF V
<1>22. Parametrized(owner, lower, T, params, k + 1, w.memory, w.table)
  BY <1>12, <1>13, <1>15, <1>16, <1>17, <1>18, <1>19, <1>20, <1>21, Zenon DEF Parametrized
<1>23. QED BY <1>22 DEF w, n

LEMMA NewMemoryIs ==
  ASSUME NEW owner \in Nat, NEW lower \in Nat
  PROVE  /\ NewMemory(owner, lower) \in Memories
         /\ NewMemory(owner, lower).owner = owner /\ NewMemory(owner, lower).lowerFunction = lower
         /\ NewMemory(owner, lower).captures = {} /\ NewMemory(owner, lower).uses = {}
         /\ NewMemory(owner, lower).initializing = None
         /\ NewMemory(owner, lower).parameters = <<>>
         /\ DOMAIN NewMemory(owner, lower).variables = {}
<1>1. <<>> \in Maps(Variable)
  <2>1. <<>> \in [DOMAIN <<>> -> Variable] /\ DOMAIN <<>> \subseteq Names
    OBVIOUS
  <2>2. QED BY <2>1, IsMap
<1>2. <<>> \in Seq(Names)
  OBVIOUS
<1>3. QED BY <1>1, <1>2 DEF NewMemory, Memories

\* All parameters declared, one after another.
LEMMA WithParametersFacts ==
  ASSUME NEW owner \in Nat, NEW lower \in Nat, NEW T, Table(T), NEW params \in Parameters,
         NEW b \in Nat, Bounded(T, b), b + MaxParameters \in Slots
  PROVE  LET w == WithParameters(NewMemory(owner, lower), T, params)
         IN Parametrized(owner, lower, T, params, Len(params), w.memory, w.table)
<1> DEFINE L == Len(params)
           m0 == NewMemory(owner, lower)
           start == Start(m0, T)
<1>1. /\ params \in Seq(Names) /\ L \in Nat /\ L <= MaxParameters /\ MaxParameters \in Nat
      /\ DOMAIN params = 1..L /\ \A i, j \in DOMAIN params : params[i] = params[j] => i = j
  BY ParametersAre, ScopesAssumption
<1>2. PICK after : /\ IsAfter(start, params, L, after)
                   /\ WithParameters(m0, T, params) = after[L]
  BY <1>1, WithParametersIs
<1> DEFINE P(k) == /\ after[k] = [memory |-> after[k].memory, table |-> after[k].table]
                   /\ Parametrized(owner, lower, T, params, k, after[k].memory, after[k].table)
           S == {k \in 0..L : ~P(k)}
<1>3. after[0] = start /\ \A k \in 1..L : after[k] = WithParameter(after[k - 1], params[k])
  <2>1. \A k \in 0..L : after[k] = IF k = 0 THEN start ELSE WithParameter(after[k - 1], params[k])
    BY <1>2 DEF IsAfter
  <2>2. 0 \in 0..L /\ \A k \in 1..L : k \in 0..L /\ k # 0
    BY <1>1
  <2>3. QED BY <2>1, <2>2
<1>4. P(0)
  <2>1. after[0].memory = m0 /\ after[0].table = T
        /\ after[0] = [memory |-> after[0].memory, table |-> after[0].table]
    BY <1>3 DEF Start
  <2>2. Parametrized(owner, lower, T, params, 0, m0, T)
    <3>1. {params[i] : i \in 1..0} = {} /\ \A i \in 1..0 : FALSE
      OBVIOUS
    <3>2. /\ m0 \in Memories /\ m0.owner = owner /\ m0.lowerFunction = lower
          /\ m0.captures = {} /\ m0.uses = {} /\ m0.initializing = None
          /\ m0.parameters = <<>> /\ DOMAIN m0.variables = {}
      BY NewMemoryIs
    <3>3. Cardinality(DOMAIN T) \in Nat
      BY FS_CardinalityType DEF Table
    <3>4. Len(<<>>) = 0 /\ (\A c \in Nat : c + 0 = c)
      OBVIOUS
    <3> HIDE DEF m0
    <3>5. \A c \in Nat : Bounded(T, c) => Bounded(T, c + 0)
      BY <3>4
    <3>6. QED BY <3>1, <3>2, <3>3, <3>4, <3>5 DEF Parametrized
  <2>3. QED BY <2>1, <2>2
<1>5. ASSUME NEW k \in Nat, k + 1 \in 1..L, P(k) PROVE P(k + 1)
  <2>1. b + k \in Slots
    <3>1. MaxEvents * (MaxParameters + 1) \in Nat
      BY ScopesAssumption
    <3>2. b + MaxParameters <= MaxEvents * (MaxParameters + 1)
      BY <3>1 DEF Slots
    <3>3. k <= MaxParameters
      BY <1>1, <1>5
    <3>4. b + k <= b + MaxParameters
      BY <1>1, <3>3
    <3>5. b + k \in Nat /\ b + MaxParameters \in Nat
      BY <1>1
    <3>6. QED BY <3>1, <3>2, <3>4, <3>5 DEF Slots
  <2> DEFINE w == WithParameter([memory |-> after[k].memory, table |-> after[k].table], params[k + 1])
  <2>2. k + 1 - 1 = k
    OBVIOUS
  <2>3. after[k + 1] = w
    BY <1>3, <1>5, <2>2
  <2>4. Parametrized(owner, lower, T, params, k + 1, w.memory, w.table)
    BY <1>1, <1>5, <2>1, ParameterAdded
  <2>5. w = [memory |-> w.memory, table |-> w.table]
    BY DEF WithParameter
  <2>6. QED BY <2>3, <2>4, <2>5
<1>6. S = {}
  <2>1. SUFFICES ASSUME S # {} PROVE FALSE
    OBVIOUS
  <2>2. S \subseteq Nat
    BY <1>1
  <2> HIDE DEF P
  <2>3. PICK k \in S : \A j \in S : k <= j
    BY <2>1, <2>2, LeastNumber
  <2>4. k # 0
    BY <1>4, <2>3
  <2>5. k \in 1..L /\ k - 1 \in 0..L /\ k - 1 \in Nat /\ ~(k <= k - 1) /\ k - 1 + 1 = k
    BY <1>1, <2>3, <2>4
  <2>6. P(k - 1)
    BY <2>3, <2>5
  <2>7. P(k)
    BY <1>5, <2>5, <2>6
  <2>8. QED BY <2>3, <2>7
<1>7. P(L)
  <2> HIDE DEF P, L
  <2>1. L \in 0..L
    BY <1>1
  <2>2. QED BY <1>6, <2>1
<1>8. QED BY <1>2, <1>7

-----------------------------------------------------------------------------
(* The types.                                                               *)

PerEvent == MaxParameters + 1

Counted ==
  /\ Len(functions) <= events + 1
  /\ Bounded(allVariables, events * PerEvent) /\ Bounded(allGlobalVariables, events * PerEvent)

\* What is being initialized, and the parameters, are variables of the function.
Known ==
  \A f \in DOMAIN functions :
    /\ functions[f].initializing # None => functions[f].initializing.name \in VarsOf(f)
    /\ ToSet(functions[f].parameters) \subseteq VarsOf(f)

TypeInv == Typed /\ Chain /\ Counted /\ Known

LEMMA TypedIs ==
  ASSUME TypeInv
  PROVE  /\ Typed /\ Chain /\ Table(allVariables) /\ Table(allGlobalVariables)
         /\ \A f : Table(TableOf(f))
BY DEF TypeInv, Typed, Table, TableOf

LEMMA EventBounds ==
  ASSUME events \in 0..MaxEvents
  PROVE  /\ events \in Nat /\ events * PerEvent \in Nat /\ PerEvent \in Nat /\ PerEvent >= 1
         /\ (events + 1) * PerEvent = events * PerEvent + PerEvent
         /\ events * PerEvent \in Slots
         /\ events < MaxEvents => events * PerEvent + MaxParameters \in Slots
         /\ events < MaxEvents => events + 1 \in 0..MaxEvents
<1>1. MaxEvents \in Nat /\ MaxParameters \in Nat /\ events \in Nat /\ events <= MaxEvents
  BY ScopesAssumption
<1>2. PerEvent \in Nat /\ PerEvent >= 1 /\ PerEvent = MaxParameters + 1
  BY <1>1 DEF PerEvent
<1>3. \A e, m, p \in Nat : /\ e * p \in Nat /\ (e + 1) * p = e * p + p
                           /\ e <= m => e * p <= m * p
  BY SMTT(30)
<1>4. events * PerEvent \in Nat /\ (events + 1) * PerEvent = events * PerEvent + PerEvent
      /\ events * PerEvent <= MaxEvents * PerEvent /\ MaxEvents * PerEvent \in Nat
  BY <1>1, <1>2, <1>3
<1>5. Slots = 0..(MaxEvents * PerEvent)
  BY DEF Slots, PerEvent
<1>6. events * PerEvent \in Slots
  BY <1>4, <1>5
<1>7. ASSUME events < MaxEvents
      PROVE  events * PerEvent + MaxParameters \in Slots /\ events + 1 \in 0..MaxEvents
  <2>1. events + 1 \in Nat /\ events + 1 <= MaxEvents
    BY <1>1, <1>7
  <2>2. (events + 1) * PerEvent <= MaxEvents * PerEvent
    BY <1>1, <1>2, <1>3, <2>1
  <2>3. events * PerEvent + MaxParameters <= MaxEvents * PerEvent
        /\ events * PerEvent + MaxParameters \in Nat
    BY <1>1, <1>2, <1>4, <2>2
  <2>4. QED BY <1>4, <1>5, <2>1, <2>3, <1>1
<1>8. QED BY <1>1, <1>2, <1>4, <1>6, <1>7

LEMMA BoundGrows ==
  ASSUME events \in 0..MaxEvents, NEW T, Table(T), NEW j \in 0..PerEvent,
         Bounded(T, events * PerEvent + j)
  PROVE  Bounded(T, (events + 1) * PerEvent)
<1>1. events * PerEvent \in Nat /\ PerEvent \in Nat
      /\ (events + 1) * PerEvent = events * PerEvent + PerEvent
  BY EventBounds
<1> DEFINE a == events * PerEvent
           b == (events + 1) * PerEvent
<1>2. a \in Nat /\ b \in Nat /\ j \in Nat /\ a + j <= b
  BY <1>1
<1>3. Cardinality(DOMAIN T) \in Nat /\ \A n \in DOMAIN T : T[n] \in Nat
  BY MapIs, FS_CardinalityType DEF Table
<1>4. Cardinality(DOMAIN T) <= a + j /\ \A n \in DOMAIN T : T[n] < a + j
  BY DEF Bounded
<1> HIDE DEF a, b
<1>5. Cardinality(DOMAIN T) <= b /\ \A n \in DOMAIN T : T[n] < b
  BY <1>2, <1>3, <1>4
<1>6. QED BY <1>5 DEF Bounded, b

LEMMA BoundsKept ==
  ASSUME events \in 0..MaxEvents, NEW T, Table(T), Bounded(T, events * PerEvent)
  PROVE  Bounded(T, (events + 1) * PerEvent)
<1>1. events * PerEvent + 0 = events * PerEvent /\ 0 \in 0..PerEvent
  BY EventBounds
<1>2. QED BY <1>1, BoundGrows

\* A step that begins no function.
LEMMA TypeKept ==
  ASSUME TypeInv, Count,
         functions' \in Seq(Memories), DOMAIN functions' = DOMAIN functions,
         \A f \in DOMAIN functions :
           /\ SameMemory(functions'[f], functions[f]) /\ VarsOf(f) \subseteq VarsOf(f)'
           /\ functions'[f].initializing # None => functions'[f].initializing.name \in VarsOf(f)',
         scopes' \in Seq(ScopeType), Climbing(scopes'),
         FunctionsOf(scopes') = Open \/ FunctionsOf(scopes') = Open \ {Current},
         assignments' \subseteq [const : BOOLEAN, refused : BOOLEAN],
         Table(allVariables'), Table(allGlobalVariables'),
         Bounded(allVariables', (events + 1) * PerEvent),
         Bounded(allGlobalVariables', (events + 1) * PerEvent)
  PROVE  TypeInv'
<1>1. events \in 0..MaxEvents /\ events < MaxEvents /\ events' = events + 1
  BY DEF TypeInv, Typed, Count
<1>2. events' \in 0..MaxEvents /\ events \in Nat
  BY <1>1, EventBounds
<1>3. Typed'
  BY <1>2 DEF Typed, Table
<1>4. Chain'
  BY ChainKept DEF TypeInv
<1>5. Len(functions') = Len(functions) /\ Len(functions) \in Nat
  BY DEF TypeInv, Typed
<1>6. Counted'
  BY <1>1, <1>2, <1>5 DEF TypeInv, Counted
<1>7. Known'
  <2>1. ASSUME NEW f \in DOMAIN functions PROVE ToSet(functions'[f].parameters) \subseteq VarsOf(f)'
    BY DEF TypeInv, Known, SameMemory
  <2>2. QED BY <2>1 DEF Known
<1>8. QED BY <1>3, <1>4, <1>6, <1>7 DEF TypeInv

\* A name that is known has a meaning.
LEMMA MeantIs ==
  ASSUME TypeInv, NEW n \in Names, VariableExists(n)
  PROVE  /\ ScopeOf(n) \in DOMAIN scopes /\ n \in NamesOf(ScopeOf(n))
         /\ Meant(n) = <<scopes[ScopeOf(n)].function, n>>
         /\ scopes[ScopeOf(n)].function \in Open
         /\ Meant(n)[1] = scopes[ScopeOf(n)].function /\ Meant(n)[2] = n
         /\ Meant(n) \in (1..(MaxEvents + 1)) \X Names
         /\ IsConst(n) \in BOOLEAN
<1>1. \E s \in DOMAIN scopes : n \in DOMAIN scopes[s].names
  BY DEF VariableExists
<1>2. ScopeOf(n) \in DOMAIN scopes /\ n \in DOMAIN scopes[ScopeOf(n)].names
  BY <1>1 DEF ScopeOf
<1>3. scopes[ScopeOf(n)].function \in Open
  BY <1>2 DEF Open
<1>4. scopes[ScopeOf(n)].function \in DOMAIN functions /\ DOMAIN functions = 1..Len(functions)
      /\ Len(functions) \in Nat
  BY <1>3, ChainIs DEF TypeInv
<1>5. scopes[ScopeOf(n)].function \in 1..(MaxEvents + 1)
  <2>1. Len(functions) <= events + 1 /\ events \in 0..MaxEvents /\ MaxEvents \in Nat
    BY ScopesAssumption DEF TypeInv, Typed, Counted
  <2>2. QED BY <1>4, <2>1
<1>6. scopes[ScopeOf(n)].names \in Maps(BOOLEAN)
  <2>1. scopes \in Seq(ScopeType)
    BY DEF TypeInv, Typed
  <2>2. scopes[ScopeOf(n)] \in ScopeType
    BY <1>2, <2>1
  <2>3. QED BY <2>2 DEF ScopeType
<1>7. scopes[ScopeOf(n)].names[n] \in BOOLEAN
  BY <1>2, <1>6, MapIs
<1>8. QED BY <1>2, <1>3, <1>5, <1>7 DEF Meant, NamesOf, IsConst

LEMMA NodeIs ==
  ASSUME TypeInv, NEW n \in Names, VariableExists(n), NEW memory \in Nat,
         memory = 0 \/ (memory \in DOMAIN functions /\ n \in VarsOf(memory))
  PROVE  Node(n, memory) \in NodeType
<1>1. Meant(n) \in (1..(MaxEvents + 1)) \X Names
  BY MeantIs
<1>2. memory # 0 => functions[memory].variables[n] \in Variable
  <2>1. ASSUME memory # 0 PROVE functions[memory].variables[n] \in Variable
    <3>1. memory \in DOMAIN functions /\ n \in DOMAIN functions[memory].variables
      BY <2>1 DEF VarsOf
    <3>2. functions[memory].variables \in Maps(Variable)
      BY <3>1, ChainIs, MemoryIs DEF TypeInv
    <3>3. QED BY <3>1, <3>2, MapIs
  <2>2. QED BY <2>1
<1>3. (IF memory = 0 THEN None ELSE functions[memory].variables[n].index) \in Slots \cup {None}
  BY <1>2 DEF Variable
<1>4. QED BY <1>1, <1>3 DEF Node, NodeType

LEMMA ResolvedIs ==
  ASSUME TypeInv, NEW n \in Names, NEW memory, memory = GetVariableByIdentifier(n)
  PROVE  /\ memory \in Nat
         /\ memory = 0 \/ (memory \in DOMAIN functions /\ n \in VarsOf(memory))
<1>1. /\ GlobalMemory \in DOMAIN functions /\ Current \in DOMAIN functions
      /\ Own = functions[Current] /\ Own \in Memories
      /\ \A f \in DOMAIN functions : f \in Nat
  BY ChainIs DEF TypeInv
<1>2. Own.lowerFunction \in Nat /\ (Own.lowerFunction = 0 \/ Own.lowerFunction \in DOMAIN functions)
  <2>1. CASE Current = GlobalMemory
    BY <1>1, <2>1 DEF TypeInv, Chain
  <2>2. CASE Current # GlobalMemory
    <3>1. Own.lowerFunction \in 0..(Current - 1)
      BY <1>1, <2>2 DEF TypeInv, Chain
    <3>2. DOMAIN functions = 1..Len(functions) /\ Len(functions) \in Nat
      BY ChainIs DEF TypeInv
    <3>3. QED BY <1>1, <3>1, <3>2
  <2>3. QED BY <2>1, <2>2
<1>3. QED BY <1>1, <1>2 DEF GetVariableByIdentifier, Has, VarsOf

-----------------------------------------------------------------------------
(* The types are kept by every construct.                                   *)

LEMMA NewScopeIs ==
  ASSUME NEW f \in Nat
  PROVE  NewScope(f) \in ScopeType /\ NewScope(f).function = f /\ DOMAIN NewScope(f).names = {}
<1>1. <<>> \in [DOMAIN <<>> -> BOOLEAN] /\ DOMAIN <<>> = {}
  OBVIOUS
<1>2. <<>> \in Maps(BOOLEAN)
  BY <1>1, IsMap
<1>3. QED BY <1>1, <1>2 DEF NewScope, ScopeType

LEMMA NamedScopeIs ==
  ASSUME NEW f \in Nat, NEW n \in Names, NEW const \in BOOLEAN
  PROVE  /\ WithName(NewScope(f), n, const) \in ScopeType
         /\ WithName(NewScope(f), n, const).function = f
         /\ DOMAIN WithName(NewScope(f), n, const).names = {n}
         /\ WithName(NewScope(f), n, const).names[n] = const
<1> DEFINE N == [m \in DOMAIN NewScope(f).names \cup {n} |->
                   IF m = n THEN const ELSE NewScope(f).names[m]]
           S == [NewScope(f) EXCEPT !.names = N]
<1>1. DOMAIN NewScope(f).names = {} /\ NewScope(f) \in ScopeType /\ NewScope(f).function = f
  BY NewScopeIs
<1>2. DOMAIN N = {n} /\ N[n] = const /\ \A m \in DOMAIN N : N[m] \in BOOLEAN
  BY <1>1
<1>3. N \in [DOMAIN N -> BOOLEAN] /\ DOMAIN N \subseteq Names
  BY <1>2
<1>4. WithName(NewScope(f), n, const) = S
  BY <1>1 DEF WithName, ScopeType
<1> HIDE DEF N
<1>5. N \in Maps(BOOLEAN)
  BY <1>3, IsMap
<1>6. S \in ScopeType /\ S.names = N /\ S.function = f
  BY <1>1, <1>5 DEF ScopeType
<1>7. QED BY <1>2, <1>4, <1>6

\* What a step that leaves the tables alone needs.
LEMMA TablesKept ==
  ASSUME TypeInv, Count
  PROVE  /\ Bounded(allVariables, (events + 1) * PerEvent)
         /\ Bounded(allGlobalVariables, (events + 1) * PerEvent)
<1>1. events \in 0..MaxEvents /\ Counted /\ Table(allVariables) /\ Table(allGlobalVariables)
  BY TypedIs DEF TypeInv, Typed
<1>2. QED BY <1>1, BoundsKept DEF Counted

LEMMA SameFunctions ==
  ASSUME TypeInv, functions' = functions
  PROVE  /\ functions' \in Seq(Memories) /\ DOMAIN functions' = DOMAIN functions
         /\ \A f \in DOMAIN functions :
              /\ SameMemory(functions'[f], functions[f]) /\ VarsOf(f) \subseteq VarsOf(f)'
              /\ functions'[f].initializing # None => functions'[f].initializing.name \in VarsOf(f)'
BY DEF TypeInv, Typed, Known, SameMemory, VarsOf

\* Memories of the same shape, with nothing new being initialized.
LEMMA SameShapeTypes ==
  ASSUME TypeInv, SameShape(functions', functions),
         \A f \in DOMAIN functions :
            functions'[f].initializing \in {functions[f].initializing, None}
  PROVE  /\ functions' \in Seq(Memories) /\ DOMAIN functions' = DOMAIN functions
         /\ \A f \in DOMAIN functions :
              /\ SameMemory(functions'[f], functions[f]) /\ VarsOf(f) \subseteq VarsOf(f)'
              /\ functions'[f].initializing # None => functions'[f].initializing.name \in VarsOf(f)'
<1>1. ASSUME NEW f \in DOMAIN functions
      PROVE  /\ SameMemory(functions'[f], functions[f]) /\ VarsOf(f) \subseteq VarsOf(f)'
             /\ functions'[f].initializing # None => functions'[f].initializing.name \in VarsOf(f)'
  <2>1. VarsOf(f)' = VarsOf(f)
    BY DEF SameShape, SameIndices, VarsOf
  <2>2. functions[f].initializing # None => functions[f].initializing.name \in VarsOf(f)
    BY DEF TypeInv, Known
  <2>3. SameMemory(functions'[f], functions[f])
    BY DEF SameShape
  <2>4. QED BY <2>1, <2>2, <2>3
<1>2. QED BY <1>1 DEF SameShape

\* A declaration.
LEMMA DeclarationTypes ==
  ASSUME TypeInv, Count, NEW n \in Names, NEW const \in BOOLEAN, NEW i \in Initializer \cup {None},
         i # None => i.name = n, DeclareInMemory(n, const, i)
  PROVE  /\ Declares(n, const, i)
         /\ functions' \in Seq(Memories) /\ DOMAIN functions' = DOMAIN functions
         /\ \A f \in DOMAIN functions :
              /\ SameMemory(functions'[f], functions[f]) /\ VarsOf(f) \subseteq VarsOf(f)'
              /\ functions'[f].initializing # None => functions'[f].initializing.name \in VarsOf(f)'
         /\ Table(allVariables') /\ Table(allGlobalVariables')
         /\ Bounded(allVariables', (events + 1) * PerEvent)
         /\ Bounded(allGlobalVariables', (events + 1) * PerEvent)
<1> DEFINE b == events * PerEvent
<1>1. events \in 0..MaxEvents /\ events < MaxEvents /\ Typed /\ Chain
      /\ Table(allVariables) /\ Table(allGlobalVariables) /\ Table(TableOf(Current))
  BY TypedIs DEF TypeInv, Typed, Count
<1>2. b \in Nat /\ PerEvent \in Nat /\ 1 \in 0..PerEvent /\ b \in Slots
  BY <1>1, EventBounds
<1>3. Bounded(allVariables, b) /\ Bounded(allGlobalVariables, b)
  BY DEF TypeInv, Counted
<1> HIDE DEF b
<1>4. Bounded(TableOf(Current), b)
  BY <1>3 DEF TableOf
<1>5. Insert(TableOf(Current), n) \in Slots
  <2>1. Insert(TableOf(Current), n) \in Nat /\ Insert(TableOf(Current), n) <= b
    BY <1>1, <1>2, <1>4, InsertedFacts
  <2>2. MaxEvents * (MaxParameters + 1) \in Nat
    BY ScopesAssumption
  <2>3. QED BY <1>2, <2>1, <2>2 DEF Slots
<1>6. Declares(n, const, i)
  BY <1>1, <1>5, DeclareFacts
<1>7. ASSUME NEW f \in DOMAIN functions
      PROVE  /\ SameMemory(functions'[f], functions[f]) /\ VarsOf(f) \subseteq VarsOf(f)'
             /\ functions'[f].initializing # None => functions'[f].initializing.name \in VarsOf(f)'
  <2>1. CASE f = Current
    <3>1. VarsOf(f)' = VarsOf(f) \cup {n} /\ functions'[f].initializing = i
      BY <1>6, <2>1 DEF Declares, VarsOf
    <3>2. QED BY <1>6, <3>1 DEF Declares
  <2>2. CASE f # Current
    <3>1. functions'[f] = functions[f]
      BY <1>6, <2>2 DEF Declares
    <3>2. functions[f].initializing # None => functions[f].initializing.name \in VarsOf(f)
      BY DEF TypeInv, Known
    <3>3. QED BY <3>1, <3>2 DEF VarsOf, SameMemory
  <2>3. QED BY <2>1, <2>2
<1>8. \A T : Table(T) /\ Bounded(T, b) =>
        /\ Table(TableAfter(Own.variables, T, n))
        /\ Bounded(TableAfter(Own.variables, T, n), (events + 1) * PerEvent)
        /\ Bounded(T, (events + 1) * PerEvent)
  <2>1. ASSUME NEW T, Table(T), Bounded(T, b)
        PROVE  /\ Table(TableAfter(Own.variables, T, n))
               /\ Bounded(TableAfter(Own.variables, T, n), (events + 1) * PerEvent)
               /\ Bounded(T, (events + 1) * PerEvent)
    <3>1. TableAfterIs(Own.variables, T, n)
      BY <2>1, TableAfterIsSo
    <3>2. Table(TableAfter(Own.variables, T, n)) /\ Bounded(TableAfter(Own.variables, T, n), b + 1)
      BY <1>2, <2>1, <3>1 DEF TableAfterIs
    <3>3. Bounded(TableAfter(Own.variables, T, n), (events + 1) * PerEvent)
      BY <1>1, <1>2, <3>2, BoundGrows DEF b
    <3>4. Bounded(T, (events + 1) * PerEvent)
      BY <1>1, <2>1, BoundsKept DEF b
    <3>5. QED BY <3>2, <3>3, <3>4
  <2>2. QED BY <2>1
<1>9. /\ allVariables' \in {allVariables, TableAfter(Own.variables, allVariables, n)}
      /\ allGlobalVariables' \in {allGlobalVariables, TableAfter(Own.variables, allGlobalVariables, n)}
  BY DEF DeclareInMemory
<1>10. /\ Table(allVariables') /\ Table(allGlobalVariables')
       /\ Bounded(allVariables', (events + 1) * PerEvent)
       /\ Bounded(allGlobalVariables', (events + 1) * PerEvent)
  <2>1. Table(allVariables') /\ Bounded(allVariables', (events + 1) * PerEvent)
    BY <1>1, <1>3, <1>8, <1>9
  <2>2. Table(allGlobalVariables') /\ Bounded(allGlobalVariables', (events + 1) * PerEvent)
    BY <1>1, <1>3, <1>8, <1>9
  <2>3. QED BY <2>1, <2>2
<1>11. functions' \in Seq(Memories) /\ DOMAIN functions' = DOMAIN functions
  BY <1>6 DEF Declares
<1>12. QED BY <1>6, <1>7, <1>10, <1>11

LEMMA BlockOpened ==
  ASSUME Typed, Chain, NEW S \in ScopeType, scopes' = Append(scopes, S), S.function = Current
  PROVE  /\ scopes' \in Seq(ScopeType) /\ Climbing(scopes') /\ FunctionsOf(scopes') = Open
         /\ Open' = Open /\ Current' = Current /\ Len(scopes') = Len(scopes) + 1
         /\ DOMAIN scopes' = DOMAIN scopes \cup {Len(scopes) + 1}
         /\ \A s \in DOMAIN scopes : scopes'[s] = scopes[s] /\ s <= Len(scopes)
         /\ scopes'[Len(scopes) + 1] = S
<1>1. Current \in Nat /\ Current \in Open
  BY ChainIs
<1>2. S.function >= Current
  BY <1>1
<1>3. Open \cup {S.function} = Open
  BY <1>1
<1>4. /\ scopes' \in Seq(ScopeType) /\ Len(scopes') = Len(scopes) + 1
      /\ DOMAIN scopes' = DOMAIN scopes \cup {Len(scopes) + 1}
      /\ \A s \in DOMAIN scopes : scopes'[s] = scopes[s] /\ s <= Len(scopes)
      /\ scopes'[Len(scopes) + 1] = S
      /\ Climbing(scopes') /\ FunctionsOf(scopes') = Open \cup {S.function}
      /\ Current' = S.function
  BY <1>2, GrownFacts
<1>5. Open' = FunctionsOf(scopes')
  BY DEF Open, FunctionsOf
<1>6. QED BY <1>3, <1>4, <1>5

LEMMA OpenBlockTypes == ASSUME TypeInv, OpenBlock PROVE TypeInv'
<1>1. Typed /\ Chain /\ Count /\ scopes' = Append(scopes, NewScope(Current))
      /\ UNCHANGED <<functions, allVariables, allGlobalVariables, assignments>>
  BY DEF TypeInv, OpenBlock
<1>2. Current \in Nat /\ Current \in Open
  BY <1>1, ChainIs
<1>3. NewScope(Current) \in ScopeType /\ NewScope(Current).function = Current
  BY <1>2, NewScopeIs
<1>4. scopes' \in Seq(ScopeType) /\ Climbing(scopes') /\ FunctionsOf(scopes') = Open
  BY <1>1, <1>3, BlockOpened
<1>5. QED BY <1>1, <1>4, SameFunctions, TablesKept, TypedIs, TypeKept DEF TypeInv, Typed

LEMMA CloseBlockTypes == ASSUME TypeInv, CloseBlock PROVE TypeInv'
<1>1. Typed /\ Chain /\ Count /\ scopes' = Front(scopes) /\ Len(scopes) > 1
      /\ scopes[Len(scopes) - 1].function = Current /\ functions' = ScopeDied(CurrentScope)
      /\ UNCHANGED <<allVariables, allGlobalVariables, assignments>>
  BY DEF TypeInv, CloseBlock
<1>2. scopes' \in Seq(ScopeType) /\ Climbing(scopes') /\ FunctionsOf(scopes') = Open
  BY <1>1, ShrunkFacts
<1>3. SameShape(functions', functions)
      /\ \A f \in DOMAIN functions : functions'[f].initializing = functions[f].initializing
  BY <1>1, ScopeDiedFacts
<1>4. /\ functions' \in Seq(Memories) /\ DOMAIN functions' = DOMAIN functions
      /\ \A f \in DOMAIN functions :
           /\ SameMemory(functions'[f], functions[f]) /\ VarsOf(f) \subseteq VarsOf(f)'
           /\ functions'[f].initializing # None => functions'[f].initializing.name \in VarsOf(f)'
  BY <1>3, SameShapeTypes
<1>5. QED BY <1>1, <1>2, <1>4, TablesKept, TypedIs, TypeKept DEF TypeInv, Typed

\* A declaration in the innermost scope.
LEMMA DeclarationKeepsTypes ==
  ASSUME TypeInv, Count, NEW n \in Names, NEW c \in BOOLEAN, NEW const \in BOOLEAN,
         NEW later \in BOOLEAN, DeclareInMemory(n, c, [name |-> n, const |-> later]),
         scopes' = Append(Front(scopes), WithName(CurrentScope, n, const)), UNCHANGED assignments
  PROVE  TypeInv'
<1>1. Typed /\ Chain
  BY DEF TypeInv
<1>2. scopes' \in Seq(ScopeType) /\ Climbing(scopes') /\ FunctionsOf(scopes') = Open
  BY <1>1, RenamedFacts
<1> DEFINE i == [name |-> n, const |-> later]
<1>3. i \in Initializer \cup {None} /\ i.name = n
  BY DEF Initializer
<1> HIDE DEF i
<1>4. DeclareInMemory(n, c, i)
  BY DEF i
<1>5. /\ functions' \in Seq(Memories) /\ DOMAIN functions' = DOMAIN functions
      /\ \A f \in DOMAIN functions :
           /\ SameMemory(functions'[f], functions[f]) /\ VarsOf(f) \subseteq VarsOf(f)'
           /\ functions'[f].initializing # None => functions'[f].initializing.name \in VarsOf(f)'
      /\ Table(allVariables') /\ Table(allGlobalVariables')
      /\ Bounded(allVariables', (events + 1) * PerEvent)
      /\ Bounded(allGlobalVariables', (events + 1) * PerEvent)
  BY <1>3, <1>4, DeclarationTypes
<1>6. QED BY <1>1, <1>2, <1>5, TypeKept DEF Typed

LEMMA DeclareVariableTypes ==
  ASSUME TypeInv, NEW n \in Names, NEW const \in BOOLEAN, DeclareVariable(n, const)
  PROVE  TypeInv'
<1>1. Count /\ DeclareInMemory(n, FALSE, [name |-> n, const |-> const]) /\ UNCHANGED assignments
      /\ scopes' = Append(Front(scopes), WithName(CurrentScope, n, FALSE))
  BY DEF DeclareVariable
<1>2. FALSE \in BOOLEAN
  OBVIOUS
<1>3. QED BY <1>1, <1>2, DeclarationKeepsTypes

LEMMA DeclareDestructuredTypes ==
  ASSUME TypeInv, NEW n \in Names, NEW const \in BOOLEAN, DeclareDestructured(n, const)
  PROVE  TypeInv'
<1>1. Count /\ DeclareInMemory(n, const, [name |-> n, const |-> const]) /\ UNCHANGED assignments
      /\ scopes' = Append(Front(scopes), WithName(CurrentScope, n, const))
  BY DEF DeclareDestructured
<1>2. QED BY <1>1, DeclarationKeepsTypes

LEMMA EndInitializerIs ==
  ASSUME TypeInv, EndInitializer
  PROVE  /\ Own.initializing \in Initializer /\ Own.initializing.name \in VarsOf(Current)
         /\ Own.initializing.name \in Names /\ Own.initializing.const \in BOOLEAN
<1>1. Own.initializing # None
  BY DEF EndInitializer, NoInitializer
<1>2. Own \in Memories /\ Own = functions[Current] /\ Current \in DOMAIN functions
  BY ChainIs DEF TypeInv
<1>3. Own.initializing \in Initializer
  BY <1>1, <1>2 DEF Memories
<1>4. Own.initializing.name \in VarsOf(Current)
  BY <1>1, <1>2 DEF TypeInv, Known
<1>5. QED BY <1>3, <1>4 DEF Initializer

LEMMA EndInitializerTypes == ASSUME TypeInv, EndInitializer PROVE TypeInv'
<1> DEFINE n == Own.initializing.name
           const == Own.initializing.const
<1>1. Typed /\ Chain /\ Count /\ scopes' = Append(Front(scopes), WithName(CurrentScope, n, const))
      /\ UNCHANGED <<allVariables, allGlobalVariables, assignments>>
  BY DEF TypeInv, EndInitializer
<1>2. Own.initializing \in Initializer /\ n \in VarsOf(Current) /\ n \in Names /\ const \in BOOLEAN
  BY EndInitializerIs
<1>3. scopes' \in Seq(ScopeType) /\ Climbing(scopes') /\ FunctionsOf(scopes') = Open
  <2> HIDE DEF n, const
  <2>1. QED BY <1>1, <1>2, RenamedFacts
<1>4. SameShape(functions', functions)
      /\ \A f \in DOMAIN functions : functions'[f].initializing \in {functions[f].initializing, None}
  <2>1. /\ SameShape(functions', functions)
        /\ \A f \in DOMAIN functions :
             functions'[f].initializing = IF f = Current THEN None ELSE functions[f].initializing
    BY <1>1, <1>2, EndInitializerFacts
  <2>2. QED BY <2>1
<1>5. /\ functions' \in Seq(Memories) /\ DOMAIN functions' = DOMAIN functions
      /\ \A f \in DOMAIN functions :
           /\ SameMemory(functions'[f], functions[f]) /\ VarsOf(f) \subseteq VarsOf(f)'
           /\ functions'[f].initializing # None => functions'[f].initializing.name \in VarsOf(f)'
  BY <1>4, SameShapeTypes
<1>6. QED BY <1>1, <1>3, <1>5, TablesKept, TypedIs, TypeKept DEF Typed

\* A declaration in a scope of its own.
LEMMA BlockKeepsTypes ==
  ASSUME TypeInv, Count, NEW n \in Names, NEW c \in BOOLEAN, NEW const \in BOOLEAN,
         DeclareInMemory(n, c, None),
         scopes' = Append(scopes, WithName(NewScope(Current), n, const)), UNCHANGED assignments
  PROVE  TypeInv'
<1>1. Typed /\ Chain
  BY DEF TypeInv
<1> DEFINE S == WithName(NewScope(Current), n, const)
<1>2. Current \in Nat
  BY <1>1, ChainIs
<1>3. S \in ScopeType /\ S.function = Current
  BY <1>2, NamedScopeIs
<1> HIDE DEF S
<1>4. scopes' = Append(scopes, S)
  BY DEF S
<1>5. scopes' \in Seq(ScopeType) /\ Climbing(scopes') /\ FunctionsOf(scopes') = Open
  BY <1>1, <1>3, <1>4, BlockOpened
<1>6. None \in Initializer \cup {None}
  OBVIOUS
<1>7. /\ functions' \in Seq(Memories) /\ DOMAIN functions' = DOMAIN functions
      /\ \A f \in DOMAIN functions :
           /\ SameMemory(functions'[f], functions[f]) /\ VarsOf(f) \subseteq VarsOf(f)'
           /\ functions'[f].initializing # None => functions'[f].initializing.name \in VarsOf(f)'
      /\ Table(allVariables') /\ Table(allGlobalVariables')
      /\ Bounded(allVariables', (events + 1) * PerEvent)
      /\ Bounded(allGlobalVariables', (events + 1) * PerEvent)
  BY <1>6, DeclarationTypes
<1>8. QED BY <1>1, <1>5, <1>7, TypeKept DEF Typed

LEMMA WasConstIs == ASSUME TypeInv, NEW n \in Names PROVE WasConst(n) \in BOOLEAN
BY DEF WasConst

LEMMA CatchBlockTypes ==
  ASSUME TypeInv, NEW n \in Names, CatchBlock(n)
  PROVE  TypeInv'
<1>1. Count /\ DeclareInMemory(n, WasConst(n), None) /\ UNCHANGED assignments
      /\ scopes' = Append(scopes, WithName(NewScope(Current), n, FALSE))
  BY DEF CatchBlock
<1>2. FALSE \in BOOLEAN /\ WasConst(n) \in BOOLEAN
  BY WasConstIs
<1>3. QED BY <1>1, <1>2, BlockKeepsTypes

LEMMA LoopBlockTypes ==
  ASSUME TypeInv, NEW n \in Names, NEW const \in BOOLEAN, LoopBlock(n, const)
  PROVE  TypeInv'
<1>1. Count /\ DeclareInMemory(n, FALSE, None) /\ UNCHANGED assignments
      /\ scopes' = Append(scopes, WithName(NewScope(Current), n, const))
  BY DEF LoopBlock
<1>2. FALSE \in BOOLEAN
  OBVIOUS
<1>3. QED BY <1>1, <1>2, BlockKeepsTypes

LEMMA EndFunctionTypes == ASSUME TypeInv, EndFunction PROVE TypeInv'
<1>1. Typed /\ Chain /\ Count /\ scopes' = Front(scopes) /\ Len(scopes) > 1
      /\ scopes[Len(scopes) - 1].function # Current
      /\ allVariables' = Erased(allVariables, VarsOf(Current))
      /\ UNCHANGED <<allGlobalVariables, assignments>>
  BY DEF TypeInv, EndFunction, EraseNames, VarsOf
<1>2. scopes' \in Seq(ScopeType) /\ Climbing(scopes') /\ FunctionsOf(scopes') = Open \ {Current}
  BY <1>1, ShrunkFacts
<1>3. SameShape(functions', functions)
      /\ \A f \in DOMAIN functions : functions'[f].initializing = functions[f].initializing
  BY <1>1, EndFunctionFacts
<1>4. /\ functions' \in Seq(Memories) /\ DOMAIN functions' = DOMAIN functions
      /\ \A f \in DOMAIN functions :
           /\ SameMemory(functions'[f], functions[f]) /\ VarsOf(f) \subseteq VarsOf(f)'
           /\ functions'[f].initializing # None => functions'[f].initializing.name \in VarsOf(f)'
  BY <1>3, SameShapeTypes
<1>5. (events + 1) * PerEvent \in Nat
  BY EventBounds DEF Typed, TypeInv
<1>6. Table(allVariables) /\ Bounded(allVariables, (events + 1) * PerEvent)
      /\ Table(allGlobalVariables) /\ Bounded(allGlobalVariables, (events + 1) * PerEvent)
  BY <1>1, TablesKept, TypedIs
<1>7. Table(allVariables') /\ Bounded(allVariables', (events + 1) * PerEvent)
  BY <1>1, <1>5, <1>6, ErasedFacts
<1>8. QED BY <1>1, <1>2, <1>4, <1>6, <1>7, TypeKept DEF Typed

LEMMA UseTypes ==
  ASSUME TypeInv, NEW n \in Names, MayUse(n), functions' = Resolve(n)
  PROVE  /\ Resolves(n, GetVariableByIdentifier(n), GetVariableByIdentifier(n) # 0
                          /\ GetVariableByIdentifier(n) = Own.lowerFunction)
         /\ functions' \in Seq(Memories) /\ DOMAIN functions' = DOMAIN functions
         /\ \A f \in DOMAIN functions :
              /\ SameMemory(functions'[f], functions[f]) /\ VarsOf(f) \subseteq VarsOf(f)'
              /\ functions'[f].initializing # None => functions'[f].initializing.name \in VarsOf(f)'
<1> DEFINE memory == GetVariableByIdentifier(n)
<1>1. memory \in Nat /\ (memory = 0 \/ (memory \in DOMAIN functions /\ n \in VarsOf(memory)))
  BY ResolvedIs
<1>2. VariableExists(n)
  BY DEF MayUse
<1>3. Node(n, memory) \in NodeType
  <2> HIDE DEF memory
  <2>1. QED BY <1>1, <1>2, NodeIs
<1>4. Resolves(n, memory, memory # 0 /\ memory = Own.lowerFunction)
  BY <1>1, <1>3, ResolveFacts DEF TypeInv
<1> HIDE DEF memory
<1>5. SameShape(functions', functions)
      /\ \A f \in DOMAIN functions : functions'[f].initializing = functions[f].initializing
  BY <1>4 DEF Resolves
<1>6. QED BY <1>4, <1>5, SameShapeTypes DEF memory

LEMMA UseKeepsTypes ==
  ASSUME TypeInv, Count, NEW n \in Names, MayUse(n), functions' = Resolve(n),
         assignments' \subseteq [const : BOOLEAN, refused : BOOLEAN],
         UNCHANGED <<scopes, allVariables, allGlobalVariables>>
  PROVE  TypeInv'
<1>1. Typed /\ Chain
  BY DEF TypeInv
<1>2. scopes' \in Seq(ScopeType) /\ Climbing(scopes') /\ FunctionsOf(scopes') = Open
  BY <1>1 DEF Typed, Chain, Climbing, FunctionsOf, Open
<1>3. QED BY <1>1, <1>2, UseTypes, TablesKept, TypedIs, TypeKept DEF Typed

LEMMA UseActionTypes == ASSUME TypeInv, NEW n \in Names, Use(n) PROVE TypeInv'
<1>1. Count /\ MayUse(n) /\ functions' = Resolve(n)
      /\ UNCHANGED <<scopes, allVariables, allGlobalVariables, assignments>>
  BY DEF Use
<1>2. QED BY <1>1, UseKeepsTypes DEF TypeInv, Typed

LEMMA ConstIs ==
  ASSUME TypeInv, NEW memory \in DOMAIN functions, NEW n \in VarsOf(memory)
  PROVE  functions[memory].variables[n] \in Variable
         /\ functions[memory].variables[n].const \in BOOLEAN
<1>1. functions[memory].variables \in Maps(Variable)
  BY ChainIs, MemoryIs DEF TypeInv
<1>2. functions[memory].variables[n] \in Variable
  BY <1>1, MapIs DEF VarsOf
<1>3. QED BY <1>2 DEF Variable

LEMMA AssignTypes == ASSUME TypeInv, NEW n \in Names, Assign(n) PROVE TypeInv'
<1> DEFINE memory == GetVariableByIdentifier(n)
           a == [const |-> IsConst(n), refused |-> functions[memory].variables[n].const]
<1>1. Count /\ MayUse(n) /\ functions' = Resolve(n) /\ memory # 0
      /\ UNCHANGED <<scopes, allVariables, allGlobalVariables>>
      /\ assignments' = assignments \cup {a}
  BY DEF Assign
<1>2. memory \in DOMAIN functions /\ n \in VarsOf(memory) /\ VariableExists(n)
  BY <1>1, ResolvedIs DEF MayUse
<1>3. IsConst(n) \in BOOLEAN /\ functions[memory].variables[n].const \in BOOLEAN
  <2>1. IsConst(n) \in BOOLEAN
    BY <1>2, MeantIs
  <2> HIDE DEF memory
  <2>2. functions[memory].variables[n].const \in BOOLEAN
    BY <1>2, ConstIs
  <2>3. QED BY <2>1, <2>2
<1>4. a \in [const : BOOLEAN, refused : BOOLEAN]
  BY <1>3
<1> HIDE DEF a, memory
<1>5. assignments' \subseteq [const : BOOLEAN, refused : BOOLEAN]
  BY <1>1, <1>4 DEF TypeInv, Typed
<1>6. QED BY <1>1, <1>5, UseKeepsTypes

\* A loop over a variable resolves it in the function's own memory.
LEMMA LoopOverIs ==
  ASSUME TypeInv, NEW n \in Names, LoopOver(n)
  PROVE  LET memory == IF Has(Current, n) THEN Current ELSE 0
         IN /\ Resolves(n, memory, FALSE)
            /\ memory # 0 => n \in VarsOf(Current) /\ memory = Current
            /\ assignments' = IF memory = 0 THEN assignments ELSE
                 assignments \cup {[const |-> IsConst(n), refused |-> Own.variables[n].const]}
<1> DEFINE memory == IF Has(Current, n) THEN Current ELSE 0
<1>1. VariableExists(n) /\ functions' = [functions EXCEPT ![Current].uses = @ \cup {Node(n, memory)}]
      /\ assignments' = IF memory = 0 THEN assignments ELSE
           assignments \cup {[const |-> IsConst(n), refused |-> Own.variables[n].const]}
  BY DEF LoopOver
<1>2. Current \in DOMAIN functions /\ Current \in Nat \ {0} /\ Own = functions[Current] /\ Typed
      /\ Chain /\ functions \in Seq(Memories)
  BY ChainIs DEF TypeInv
<1>3. memory \in Nat /\ (memory # 0 => n \in VarsOf(Current) /\ memory = Current)
  BY <1>2 DEF Has, VarsOf
<1>4. Node(n, memory) \in NodeType
  <2>1. memory = 0 \/ (memory \in DOMAIN functions /\ n \in VarsOf(memory))
    BY <1>2, <1>3
  <2> HIDE DEF memory
  <2>2. QED BY <1>1, <1>3, <2>1, NodeIs
<1>5. functions' = WithUse(Node(n, memory))
  BY <1>1, <1>2 DEF WithUse
<1> HIDE DEF memory
<1>6. Resolves(n, memory, FALSE)
  BY <1>2, <1>4, <1>5, WithUseFacts DEF Resolves, SameShape, SameIndices, StaysCaptured, SameConsts
<1>7. QED BY <1>1, <1>3, <1>6 DEF memory

LEMMA LoopOverTypes == ASSUME TypeInv, NEW n \in Names, LoopOver(n) PROVE TypeInv'
<1> DEFINE memory == IF Has(Current, n) THEN Current ELSE 0
<1>1. Typed /\ Chain /\ Count /\ scopes' = Append(scopes, NewScope(Current)) /\ VariableExists(n)
      /\ UNCHANGED <<allVariables, allGlobalVariables>>
  BY DEF TypeInv, LoopOver
<1>2. /\ Resolves(n, memory, FALSE)
      /\ memory # 0 => n \in VarsOf(Current) /\ memory = Current
      /\ assignments' = IF memory = 0 THEN assignments ELSE
           assignments \cup {[const |-> IsConst(n), refused |-> Own.variables[n].const]}
  BY LoopOverIs
<1> HIDE DEF memory
<1>3. assignments' \subseteq [const : BOOLEAN, refused : BOOLEAN]
  <2>1. memory # 0 => Own.variables[n].const \in BOOLEAN
    BY <1>1, <1>2, ConstIs, ChainIs
  <2>2. IsConst(n) \in BOOLEAN
    BY <1>1, MeantIs
  <2>3. assignments \subseteq [const : BOOLEAN, refused : BOOLEAN]
    BY <1>1 DEF Typed
  <2>4. QED BY <1>2, <2>1, <2>2, <2>3
<1>4. Current \in Nat
  BY <1>1, ChainIs
<1>5. NewScope(Current) \in ScopeType /\ NewScope(Current).function = Current
  BY <1>4, NewScopeIs
<1>6. scopes' \in Seq(ScopeType) /\ Climbing(scopes') /\ FunctionsOf(scopes') = Open
  BY <1>1, <1>5, BlockOpened
<1>7. SameShape(functions', functions)
      /\ \A f \in DOMAIN functions : functions'[f].initializing = functions[f].initializing
  BY <1>2 DEF Resolves
<1>8. /\ functions' \in Seq(Memories) /\ DOMAIN functions' = DOMAIN functions
      /\ \A f \in DOMAIN functions :
           /\ SameMemory(functions'[f], functions[f]) /\ VarsOf(f) \subseteq VarsOf(f)'
           /\ functions'[f].initializing # None => functions'[f].initializing.name \in VarsOf(f)'
  BY <1>7, SameShapeTypes
<1>9. QED BY <1>1, <1>3, <1>6, <1>8, TablesKept, TypedIs, TypeKept

-----------------------------------------------------------------------------
(* The beginning of a function.                                             *)

NewFunction == Len(functions) + 1

\* What BeginMemory does; m is the memory of the new function.
Begins(params, lower, m) ==
  /\ Parametrized(Current, lower, allVariables, params, Len(params), m, allVariables')
  /\ functions' \in Seq(Memories) /\ DOMAIN functions' = DOMAIN functions \cup {NewFunction}
  /\ \A f \in DOMAIN functions : functions'[f] = functions[f] /\ f < NewFunction
  /\ functions'[NewFunction] = m /\ m \in Memories
  /\ DOMAIN m.variables = ToSet(params) /\ ToSet(params) \subseteq Names /\ m.parameters = params
  /\ Len(functions') = NewFunction /\ Len(scopes') = Len(scopes) + 1
  /\ scopes' \in Seq(ScopeType) /\ DOMAIN scopes' = DOMAIN scopes \cup {Len(scopes) + 1}
  /\ \A s \in DOMAIN scopes : scopes'[s] = scopes[s] /\ s <= Len(scopes)
  /\ scopes'[Len(scopes) + 1].function = NewFunction
  /\ scopes'[Len(scopes) + 1].names = [n \in ToSet(params) |-> FALSE]
  /\ Climbing(scopes') /\ FunctionsOf(scopes') = Open \cup {NewFunction}
  /\ Open' = Open \cup {NewFunction} /\ Current' = NewFunction
  /\ Bounded(allVariables', (events + 1) * PerEvent)
  /\ lower \in Open \cup {0}

LEMMA BeginFacts ==
  ASSUME TypeInv, Count, NEW params \in Parameters, NEW lower \in Open \cup {0},
         BeginMemory(params, lower)
  PROVE  \E m : Begins(params, lower, m)
<1> DEFINE w == WithParameters(NewMemory(Current, lower), allVariables, params)
           m == w.memory
           L == Len(params)
           S == [function |-> NewFunction, names |-> [n \in ToSet(params) |-> FALSE]]
           b == events * PerEvent
<1>1. /\ Typed /\ Chain /\ Counted /\ Table(allVariables) /\ events \in 0..MaxEvents
      /\ events < MaxEvents /\ functions' = Append(functions, m) /\ scopes' = Append(scopes, S)
      /\ allVariables' = w.table
  BY TypedIs DEF TypeInv, BeginMemory, NewFunction, Typed, Count
<1>2. /\ Current \in Nat /\ lower \in Nat /\ functions \in Seq(Memories)
      /\ Len(functions) \in Nat /\ DOMAIN functions = 1..Len(functions)
      /\ Current \in DOMAIN functions
  BY <1>1, ChainIs
<1>3. b \in Nat /\ b + MaxParameters \in Slots /\ Bounded(allVariables, b)
  BY <1>1, EventBounds DEF Counted
<1>4. Parametrized(Current, lower, allVariables, params, L, m, w.table)
  BY <1>1, <1>2, <1>3, WithParametersFacts
<1>5. /\ params \in Seq(Names) /\ L \in Nat /\ L <= MaxParameters /\ DOMAIN params = 1..L
  BY ParametersAre, ScopesAssumption
<1>6. ToSet(params) = {params[i] : i \in 1..L} /\ ToSet(params) \subseteq Names
  BY <1>5 DEF ToSet
<1>7. S \in ScopeType /\ S.function = NewFunction /\ S.names = [n \in ToSet(params) |-> FALSE]
  <2> DEFINE N == [n \in ToSet(params) |-> FALSE]
  <2>1. N \in [DOMAIN N -> BOOLEAN] /\ DOMAIN N \subseteq Names
    BY <1>6
  <2> HIDE DEF N
  <2>2. N \in Maps(BOOLEAN)
    BY <2>1, IsMap
  <2>3. NewFunction \in Nat
    BY <1>2 DEF NewFunction
  <2>4. QED BY <2>2, <2>3 DEF ScopeType, N
<1>8. S.function >= Current
  BY <1>2, <1>7 DEF NewFunction
<1> HIDE DEF S, w, b, L
<1>9. /\ scopes' \in Seq(ScopeType) /\ Len(scopes') = Len(scopes) + 1
      /\ DOMAIN scopes' = DOMAIN scopes \cup {Len(scopes) + 1}
      /\ \A s \in DOMAIN scopes : scopes'[s] = scopes[s] /\ s <= Len(scopes)
      /\ scopes'[Len(scopes) + 1] = S
      /\ Climbing(scopes') /\ FunctionsOf(scopes') = Open \cup {S.function}
      /\ Current' = S.function
  BY <1>1, <1>7, <1>8, GrownFacts
<1>10. /\ m \in Memories /\ Len(m.parameters) = L /\ (\A i \in 1..L : m.parameters[i] = params[i])
       /\ DOMAIN m.variables = {params[i] : i \in 1..L}
  BY <1>4 DEF Parametrized
<1>11. m.parameters = params
  <2>1. m.parameters \in Seq(Names)
    BY <1>10, MemoryIs
  <2>2. DOMAIN m.parameters = 1..L
    BY <1>10, <2>1
  <2>3. QED BY <1>5, <1>10, <2>1, <2>2
<1> HIDE DEF m
<1>12. /\ functions' \in Seq(Memories) /\ DOMAIN functions' = DOMAIN functions \cup {NewFunction}
       /\ Len(functions') = NewFunction /\ functions'[NewFunction] = m
       /\ \A f \in DOMAIN functions : functions'[f] = functions[f] /\ f < NewFunction
  BY <1>1, <1>2, <1>10 DEF NewFunction
<1>13. Bounded(allVariables', (events + 1) * PerEvent)
  <2>1. Bounded(w.table, b + L) /\ Table(w.table)
    BY <1>3, <1>4 DEF Parametrized
  <2>2. L \in 0..PerEvent
    BY <1>5, ScopesAssumption DEF PerEvent
  <2>3. QED BY <1>1, <2>1, <2>2, BoundGrows DEF b
<1>14. Open' = FunctionsOf(scopes')
  BY DEF Open, FunctionsOf
<1>15. Begins(params, lower, m)
  <2>1. Parametrized(Current, lower, allVariables, params, Len(params), m, allVariables')
    BY <1>1, <1>4 DEF L
  <2>2. DOMAIN m.variables = ToSet(params)
    BY <1>6, <1>10
  <2>3. /\ scopes'[Len(scopes) + 1].function = NewFunction
        /\ scopes'[Len(scopes) + 1].names = [n \in ToSet(params) |-> FALSE]
        /\ FunctionsOf(scopes') = Open \cup {NewFunction} /\ Current' = NewFunction
    BY <1>7, <1>9
  <2>4. Open' = Open \cup {NewFunction}
    BY <1>14, <2>3
  <2>5. QED BY <1>6, <1>9, <1>10, <1>11, <1>12, <1>13, <2>1, <2>2, <2>3, <2>4, Zenon DEF Begins
<1>16. QED BY <1>15

LEMMA BeginKeepsTypes ==
  ASSUME TypeInv, Count, NEW params \in Parameters, NEW lower \in Open \cup {0},
         BeginMemory(params, lower)
  PROVE  TypeInv'
<1>1. PICK m : Begins(params, lower, m)
  BY BeginFacts
<1>2. UNCHANGED <<allGlobalVariables, assignments>>
  BY DEF BeginMemory
<1>3. events \in 0..MaxEvents /\ events < MaxEvents /\ events' = events + 1 /\ Typed /\ Chain
      /\ Table(allGlobalVariables) /\ Counted /\ Known
  BY TypedIs DEF TypeInv, Typed, Count
<1>4. events' \in 0..MaxEvents /\ events \in Nat
  BY <1>3, EventBounds
<1>5. Table(allVariables')
  BY <1>1 DEF Begins, Parametrized
<1>6. Typed'
  <2>1. Table(allGlobalVariables') /\ assignments' \subseteq [const : BOOLEAN, refused : BOOLEAN]
    BY <1>2, <1>3 DEF Typed
  <2>2. scopes' \in Seq(ScopeType) /\ functions' \in Seq(Memories)
    BY <1>1 DEF Begins
  <2>3. QED BY <1>4, <1>5, <2>1, <2>2 DEF Typed, Table
<1>7. Counted'
  <2>1. Len(functions') <= events' + 1
    <3>1. Len(functions) \in Nat /\ Len(functions) <= events + 1
      BY <1>3, ChainIs DEF Counted
    <3>2. Len(functions') = Len(functions) + 1
      BY <1>1 DEF Begins, NewFunction
    <3>3. QED BY <1>3, <1>4, <3>1, <3>2
  <2>2. Bounded(allVariables', events' * PerEvent)
    BY <1>1, <1>3 DEF Begins
  <2>3. Bounded(allGlobalVariables', events' * PerEvent)
    BY <1>2, <1>3, TablesKept
  <2>4. QED BY <2>1, <2>2, <2>3 DEF Counted
<1>8. Known'
  <2>1. ASSUME NEW f \in DOMAIN functions'
        PROVE  /\ functions'[f].initializing # None => functions'[f].initializing.name \in VarsOf(f)'
               /\ ToSet(functions'[f].parameters) \subseteq VarsOf(f)'
    <3>1. CASE f \in DOMAIN functions
      <4>1. functions'[f] = functions[f]
        BY <1>1, <3>1 DEF Begins
      <4>2. QED BY <1>3, <3>1, <4>1 DEF Known, VarsOf
    <3>2. CASE f \notin DOMAIN functions
      <4>1. f = NewFunction
        BY <1>1, <3>2 DEF Begins
      <4>2. /\ functions'[f] = m /\ m.initializing = None /\ m.parameters = params
            /\ DOMAIN m.variables = ToSet(params)
        BY <1>1, <4>1 DEF Begins, Parametrized
      <4>3. QED BY <4>2 DEF VarsOf
    <3>3. QED BY <3>1, <3>2
  <2>2. QED BY <2>1 DEF Known
<1>9. Chain'
  <2>1. scopes' # <<>> /\ scopes'[1].function = GlobalMemory
        /\ \A s, t \in DOMAIN scopes' : s <= t => scopes'[s].function <= scopes'[t].function
    BY <1>1 DEF Begins, Climbing
  <2>2. Open' = Open \cup {NewFunction} /\ Open' = FunctionsOf(scopes')
    BY <1>1 DEF Begins
  <2>3. \A f \in Open : f \in DOMAIN functions
    BY <1>3, ChainIs
  <2>4. \A s \in DOMAIN scopes' : scopes'[s].function \in DOMAIN functions'
    <3>1. Open' \subseteq DOMAIN functions'
      BY <1>1, <2>2, <2>3 DEF Begins
    <3>2. QED BY <2>2, <3>1 DEF FunctionsOf
  <2>5. /\ functions'[NewFunction].owner = Current /\ functions'[NewFunction].lowerFunction = lower
        /\ lower \in Open \cup {0} /\ Current \in Open /\ Current \in Nat \ {0}
        /\ Current \in DOMAIN functions /\ Len(functions) \in Nat
        /\ DOMAIN functions = 1..Len(functions)
    <3>1. functions'[NewFunction].owner = Current /\ functions'[NewFunction].lowerFunction = lower
      BY <1>1 DEF Begins, Parametrized
    <3>2. QED BY <1>3, <3>1, ChainIs
  <2>6. ASSUME NEW f \in DOMAIN functions' \ {GlobalMemory}
        PROVE  functions'[f].owner \in 1..(f - 1) /\ functions'[f].lowerFunction \in 0..(f - 1)
    <3>1. CASE f \in DOMAIN functions
      <4>1. functions'[f] = functions[f]
        BY <1>1, <3>1 DEF Begins
      <4>2. QED BY <1>3, <2>6, <3>1, <4>1 DEF Chain
    <3>2. CASE f \notin DOMAIN functions
      <4>1. f = NewFunction
        BY <1>1, <3>2 DEF Begins
      <4>2. lower \in 0..Len(functions) /\ Current \in 1..Len(functions) /\ f - 1 = Len(functions)
        BY <2>3, <2>5, <4>1 DEF NewFunction
      <4>3. QED BY <2>5, <4>1, <4>2
    <3>3. QED BY <3>1, <3>2
  <2>7. ASSUME NEW f \in Open' \ {GlobalMemory}
        PROVE  functions'[f].owner \in Open' /\ functions'[f].lowerFunction \in Open' \cup {0}
    <3>1. CASE f \in Open
      <4>1. f \in DOMAIN functions
        BY <2>3, <3>1
      <4>2. functions'[f] = functions[f]
        BY <1>1, <4>1 DEF Begins
      <4>3. functions[f].owner \in Open /\ functions[f].lowerFunction \in Open \cup {0}
        BY <1>3, <2>7, <3>1 DEF Chain, Locals
      <4>4. QED BY <2>2, <4>2, <4>3
    <3>2. CASE f \notin Open
      BY <2>2, <2>5, <3>2
    <3>3. QED BY <3>1, <3>2
  <2>8. functions'[GlobalMemory].owner = 0 /\ functions'[GlobalMemory].lowerFunction = 0
    <3>1. GlobalMemory \in DOMAIN functions
      BY <1>3, ChainIs
    <3>2. functions'[GlobalMemory] = functions[GlobalMemory]
      BY <1>1, <3>1 DEF Begins
    <3>3. QED BY <1>3, <3>2 DEF Chain
  <2>9. QED BY <2>1, <2>4, <2>6, <2>7, <2>8 DEF Chain, Locals
<1>10. QED BY <1>6, <1>7, <1>8, <1>9 DEF TypeInv

\* Which function a new one takes its captures from.
LEMMA LowerIs ==
  ASSUME TypeInv
  PROVE  0 \in Open \cup {0} /\ GetGlobalFunction(Current) \in Open \cup {0}
<1>1. /\ Current \in Open /\ Current \in DOMAIN functions
      /\ Current # GlobalMemory => functions[Current].lowerFunction \in Open \cup {0}
  BY ChainIs DEF TypeInv, Chain, Locals
<1>2. QED BY <1>1 DEF GetGlobalFunction

LEMMA BeginFunctionTypes ==
  ASSUME TypeInv, NEW params \in Parameters, BeginFunction(params)
  PROVE  TypeInv'
BY LowerIs, BeginKeepsTypes DEF BeginFunction

LEMMA BeginLambdaTypes ==
  ASSUME TypeInv, NEW params \in Parameters, BeginLambda(params)
  PROVE  TypeInv'
BY LowerIs, BeginKeepsTypes DEF BeginLambda

LEMMA InitTypes == ASSUME Init PROVE TypeInv
<1>1. /\ scopes = <<NewScope(GlobalMemory)>> /\ functions = <<NewMemory(0, 0)>>
      /\ allVariables = <<>> /\ allGlobalVariables = <<>> /\ assignments = {} /\ events = 0
  BY DEF Init
<1>2. NewScope(GlobalMemory) \in ScopeType /\ NewScope(GlobalMemory).function = GlobalMemory
  BY NewScopeIs DEF GlobalMemory
<1>3. NewMemory(0, 0) \in Memories /\ NewMemory(0, 0).owner = 0 /\ NewMemory(0, 0).lowerFunction = 0
      /\ NewMemory(0, 0).initializing = None /\ NewMemory(0, 0).parameters = <<>>
  BY NewMemoryIs
<1>4. Table(<<>>)
  <2>1. <<>> \in [DOMAIN <<>> -> Nat] /\ DOMAIN <<>> = {}
    OBVIOUS
  <2>2. QED BY <2>1, IsMap, FS_EmptySet DEF Table
<1>5. /\ scopes \in Seq(ScopeType) /\ DOMAIN scopes = {1} /\ scopes[1].function = GlobalMemory
      /\ functions \in Seq(Memories) /\ DOMAIN functions = {1} /\ functions[1] = NewMemory(0, 0)
      /\ Len(functions) = 1 /\ Len(scopes) = 1
  BY <1>1, <1>2, <1>3
<1>6. MaxEvents \in Nat
  BY ScopesAssumption
<1>7. Typed
  BY <1>1, <1>4, <1>5, <1>6 DEF Typed, Table
<1>8. Open = {GlobalMemory}
  BY <1>5 DEF Open
<1>9. Chain
  <2>1. scopes # <<>>
    BY <1>1
  <2>2. functions[GlobalMemory].owner = 0 /\ functions[GlobalMemory].lowerFunction = 0
    BY <1>3, <1>5 DEF GlobalMemory
  <2>3. DOMAIN functions \ {GlobalMemory} = {} /\ Locals = {}
    BY <1>5, <1>8 DEF GlobalMemory, Locals
  <2>4. ASSUME NEW s \in DOMAIN scopes, NEW t \in DOMAIN scopes
        PROVE  scopes[s].function <= scopes[t].function /\ scopes[s].function \in DOMAIN functions
    BY <1>5 DEF GlobalMemory
  <2>5. QED BY <1>5, <2>1, <2>2, <2>3, <2>4 DEF Chain
<1>10. Counted
  <2>1. Bounded(<<>>, 0)
    <3>1. DOMAIN <<>> = {} /\ Cardinality({}) = 0
      BY FS_EmptySet
    <3>2. QED BY <3>1 DEF Bounded
  <2>2. events * PerEvent = 0
    BY <1>1, ScopesAssumption DEF PerEvent
  <2>3. QED BY <1>1, <1>5, <2>1, <2>2 DEF Counted
<1>11. Known
  <2>1. ToSet(<<>>) = {}
    BY DEF ToSet
  <2>2. QED BY <1>3, <1>5, <2>1 DEF Known
<1>12. QED BY <1>7, <1>9, <1>10, <1>11 DEF TypeInv

LEMMA NextTypes == ASSUME TypeInv, [Next]_vars PROVE TypeInv'
<1>1. CASE UNCHANGED vars
  BY <1>1 DEF vars, TypeInv, Typed, Chain, Counted, Known, Open, Locals, Bounded, VarsOf
<1>2. CASE Next
  <2>1. CASE OpenBlock \/ CloseBlock \/ EndInitializer \/ EndFunction
    BY <2>1, OpenBlockTypes, CloseBlockTypes, EndInitializerTypes, EndFunctionTypes
  <2>2. CASE \E n \in Names, const \in BOOLEAN :
               DeclareVariable(n, const) \/ DeclareDestructured(n, const) \/ LoopBlock(n, const)
    BY <2>2, DeclareVariableTypes, DeclareDestructuredTypes, LoopBlockTypes
  <2>3. CASE \E n \in Names : CatchBlock(n) \/ Use(n) \/ Assign(n) \/ LoopOver(n)
    BY <2>3, CatchBlockTypes, UseActionTypes, AssignTypes, LoopOverTypes
  <2>4. CASE \E params \in Parameters : BeginFunction(params) \/ BeginLambda(params)
    BY <2>4, BeginFunctionTypes, BeginLambdaTypes
  <2>5. QED BY <1>2, <2>1, <2>2, <2>3, <2>4 DEF Next
<1>3. QED BY <1>1, <1>2

LEMMA TypeInvImplies == ASSUME TypeInv PROVE TypeOK
<1>1. Typed /\ Chain /\ Counted /\ Known
  BY DEF TypeInv
<1>2. events \in 0..MaxEvents /\ assignments \subseteq [const : BOOLEAN, refused : BOOLEAN]
  BY <1>1 DEF Typed
<1>3. ASSUME NEW T, Table(T), Bounded(T, events * PerEvent)
      PROVE  DOMAIN T \subseteq Names /\ \A n \in DOMAIN T : T[n] \in Slots
  <2>1. DOMAIN T \subseteq Names /\ \A n \in DOMAIN T : T[n] \in Nat
    BY <1>3, MapIs DEF Table
  <2>2. \A n \in DOMAIN T : T[n] < events * PerEvent
    BY <1>3 DEF Bounded
  <2>3. events * PerEvent \in Slots /\ events * PerEvent \in Nat
    BY <1>2, EventBounds
  <2>4. MaxEvents * (MaxParameters + 1) \in Nat
    BY ScopesAssumption
  <2>5. QED BY <2>1, <2>2, <2>3, <2>4 DEF Slots
<1>4. \A table \in {allVariables, allGlobalVariables} :
        DOMAIN table \subseteq Names /\ \A n \in DOMAIN table : table[n] \in Slots
  BY <1>1, <1>3, TypedIs DEF Counted
<1>5. ASSUME NEW s \in DOMAIN scopes
      PROVE  /\ scopes[s].function \in DOMAIN functions /\ DOMAIN scopes[s].names \subseteq Names
             /\ \A n \in DOMAIN scopes[s].names : scopes[s].names[n] \in BOOLEAN
  <2>1. scopes[s] \in ScopeType
    BY <1>1 DEF Typed
  <2>2. scopes[s].names \in Maps(BOOLEAN)
    BY <2>1 DEF ScopeType
  <2>3. QED BY <1>1, <2>2, MapIs DEF Chain
<1>6. ASSUME NEW f \in DOMAIN functions
      PROVE  /\ functions[f].owner \in 0..(f - 1) /\ functions[f].lowerFunction \in 0..(f - 1)
             /\ \A n \in DOMAIN functions[f].variables : functions[f].variables[n] \in Variable
             /\ ToSet(functions[f].parameters) \subseteq DOMAIN functions[f].variables
             /\ functions[f].captures \subseteq Slots /\ functions[f].uses \subseteq NodeType
             /\ functions[f].initializing \in Initializer \cup {None}
  <2>1. functions[f] \in Memories /\ f \in Nat \ {0}
    BY <1>1, ChainIs
  <2>2. functions[f].variables \in Maps(Variable) /\ functions[f].captures \subseteq Slots
        /\ functions[f].uses \subseteq NodeType /\ functions[f].initializing \in Initializer \cup {None}
    BY <2>1, MemoryIs
  <2>3. \A n \in DOMAIN functions[f].variables : functions[f].variables[n] \in Variable
    BY <2>2, MapIs
  <2>4. functions[f].owner \in 0..(f - 1) /\ functions[f].lowerFunction \in 0..(f - 1)
    <3>1. CASE f = GlobalMemory
      BY <1>1, <2>1, <3>1 DEF Chain
    <3>2. CASE f # GlobalMemory
      BY <1>1, <2>1, <3>2 DEF Chain
    <3>3. QED BY <3>1, <3>2
  <2>5. ToSet(functions[f].parameters) \subseteq DOMAIN functions[f].variables
    BY <1>1 DEF Known, VarsOf
  <2>6. QED BY <2>2, <2>3, <2>4, <2>5
<1>7. QED BY <1>2, <1>4, <1>5, <1>6 DEF TypeOK

\* Every table of the linter keeps its kind of entry and every scope and memory refers
\* to functions that exist, whatever the script does: all habits included.
THEOREM TypeCorrect == Spec => []TypeOK
<1>1. Init => TypeInv
  BY InitTypes
<1>2. TypeInv /\ [Next]_vars => TypeInv'
  BY NextTypes
<1>3. TypeInv => TypeOK
  BY TypeInvImplies
<1>4. QED BY <1>1, <1>2, <1>3, PTL DEF Spec

-----------------------------------------------------------------------------
(* Names and constness.                                                     *)

\* A name of a scope is a variable of the scope's function, as const as the name.
NamesMatch ==
  \A s \in DOMAIN scopes, n \in Names : n \in NamesOf(s) =>
    /\ n \in VarsOf(scopes[s].function)
    /\ functions[scopes[s].function].variables[n].const = scopes[s].names[n]

NamesApart ==
  \A s, t \in DOMAIN scopes, n \in Names : n \in NamesOf(s) /\ n \in NamesOf(t) => s = t

\* No two open functions have a variable of the same name.
Apart == \A f, g \in Open, n \in Names : n \in VarsOf(f) /\ n \in VarsOf(g) => f = g

\* What a function initializes is a name of its innermost scope.
InnermostOf(s) == \A t \in DOMAIN scopes : t > s => scopes[t].function # scopes[s].function

Initializing ==
  \A s \in DOMAIN scopes :
    InnermostOf(s) /\ functions[scopes[s].function].initializing # None =>
      functions[scopes[s].function].initializing.name \in NamesOf(s)

Lexical == NamesMatch /\ NamesApart /\ Apart /\ Initializing

LEMMA NamesOfIs ==
  ASSUME TypeInv
  PROVE  /\ \A s \in DOMAIN scopes : NamesOf(s) \subseteq Names
         /\ \A f \in DOMAIN functions : VarsOf(f) \subseteq Names
<1>1. ASSUME NEW s \in DOMAIN scopes PROVE NamesOf(s) \subseteq Names
  <2>1. scopes \in Seq(ScopeType)
    BY DEF TypeInv, Typed
  <2>4. scopes[s] \in ScopeType
    BY <2>1
  <2>2. scopes[s].names \in Maps(BOOLEAN)
    BY <2>4 DEF ScopeType
  <2>3. QED BY <2>2, MapIs DEF NamesOf
<1>2. ASSUME NEW f \in DOMAIN functions PROVE VarsOf(f) \subseteq Names
  <2>1. functions[f].variables \in Maps(Variable)
    BY ChainIs, MemoryIs DEF TypeInv
  <2>2. QED BY <2>1, MapIs DEF VarsOf
<1>3. QED BY <1>1, <1>2

\* A step that declares nothing: the scopes are old ones or have no names.
LEMMA LexicalKept ==
  ASSUME TypeInv, Lexical, SameShape(functions', functions), Open' \subseteq Open,
         \A s \in DOMAIN scopes' :
            \/ s \in DOMAIN scopes /\ scopes'[s] = scopes[s]
            \/ NamesOf(s)' = {} /\ functions'[scopes'[s].function].initializing = None,
         \A s \in DOMAIN scopes' : s \in DOMAIN scopes => scopes'[s] = scopes[s] /\
            \A n \in NamesOf(s) : functions'[scopes[s].function].variables[n].const =
                                  functions[scopes[s].function].variables[n].const,
         \A s \in DOMAIN scopes' : s \in DOMAIN scopes /\ InnermostOf(s)' =>
            \/ functions'[scopes[s].function].initializing = None
            \/ InnermostOf(s) /\ functions'[scopes[s].function].initializing =
                                 functions[scopes[s].function].initializing
  PROVE  Lexical'
<1>1. \A f \in DOMAIN functions : VarsOf(f)' = VarsOf(f)
  BY DEF SameShape, SameIndices, VarsOf
<1>2. \A s \in DOMAIN scopes : scopes[s].function \in Open
  BY DEF Open
<1>3. \A f \in Open : f \in DOMAIN functions
  BY ChainIs DEF TypeInv
<1>4. ASSUME NEW s \in DOMAIN scopes', NEW n \in Names, n \in NamesOf(s)'
      PROVE  s \in DOMAIN scopes /\ scopes'[s] = scopes[s] /\ n \in NamesOf(s)
  <2>1. NamesOf(s)' # {}
    BY <1>4
  <2>2. s \in DOMAIN scopes /\ scopes'[s] = scopes[s]
    BY <2>1
  <2>3. QED BY <1>4, <2>2 DEF NamesOf
<1>5. NamesMatch'
  <2>1. ASSUME NEW s \in DOMAIN scopes', NEW n \in Names, n \in NamesOf(s)'
        PROVE  /\ n \in DOMAIN functions'[scopes'[s].function].variables
               /\ functions'[scopes'[s].function].variables[n].const = scopes'[s].names[n]
    <3>1. s \in DOMAIN scopes /\ scopes'[s] = scopes[s] /\ n \in NamesOf(s)
      BY <1>4, <2>1
    <3> DEFINE g == scopes[s].function
    <3>2. /\ n \in DOMAIN functions[g].variables
          /\ functions[g].variables[n].const = scopes[s].names[n]
      BY <3>1 DEF Lexical, NamesMatch, VarsOf
    <3>3. DOMAIN functions'[g].variables = DOMAIN functions[g].variables
      BY <1>2, <1>3, <3>1 DEF SameShape, SameIndices
    <3>4. functions'[g].variables[n].const = functions[g].variables[n].const
      BY <3>1
    <3>5. scopes'[s].function = g /\ scopes'[s].names = scopes[s].names
      BY <3>1
    <3>6. QED BY <3>2, <3>3, <3>4, <3>5
  <2>2. QED BY <2>1, Zenon DEF NamesMatch, NamesOf, VarsOf
<1>6. NamesApart'
  BY <1>4 DEF NamesApart, Lexical
<1>7. Apart'
  <2>1. ASSUME NEW f \in Open', NEW g \in Open', NEW n \in Names, n \in VarsOf(f)', n \in VarsOf(g)'
        PROVE  f = g
    BY <1>1, <1>3, <2>1 DEF Lexical, Apart
  <2>2. QED BY <2>1 DEF Apart
<1>8. Initializing'
  <2>1. ASSUME NEW s \in DOMAIN scopes', InnermostOf(s)',
               functions'[scopes'[s].function].initializing # None
        PROVE  functions'[scopes'[s].function].initializing.name \in NamesOf(s)'
    <3>1. s \in DOMAIN scopes /\ scopes'[s] = scopes[s]
      BY <2>1
    <3>2. InnermostOf(s) /\ functions'[scopes[s].function].initializing =
                            functions[scopes[s].function].initializing
      BY <2>1, <3>1
    <3>3. functions[scopes[s].function].initializing.name \in NamesOf(s)
      BY <2>1, <3>1, <3>2 DEF Lexical, Initializing
    <3>4. QED BY <3>1, <3>2, <3>3 DEF NamesOf
  <2>2. QED BY <2>1 DEF Initializing
<1>9. QED BY <1>5, <1>6, <1>7, <1>8 DEF Lexical

LEMMA OwnNone ==
  ASSUME TypeInv, NoInitializer
  PROVE  functions[Current].initializing = None
BY ChainIs DEF TypeInv, NoInitializer

\* A scope is innermost of its function if it was before the chain grew.
LEMMA GrownInnermost ==
  ASSUME TypeInv, DOMAIN scopes' = DOMAIN scopes \cup {Len(scopes) + 1},
         \A s \in DOMAIN scopes : scopes'[s] = scopes[s] /\ s <= Len(scopes)
  PROVE  \A s \in DOMAIN scopes : InnermostOf(s)' =>
           InnermostOf(s) /\ scopes'[Len(scopes) + 1].function # scopes[s].function
<1>1. ASSUME NEW s \in DOMAIN scopes, InnermostOf(s)'
      PROVE  InnermostOf(s) /\ scopes'[Len(scopes) + 1].function # scopes[s].function
  <2>1. DOMAIN scopes \subseteq Nat /\ Len(scopes) \in Nat
    BY ChainIs DEF TypeInv
  <2>2. Len(scopes) + 1 > s /\ Len(scopes) + 1 \in DOMAIN scopes'
    BY <2>1
  <2>3. scopes'[Len(scopes) + 1].function # scopes[s].function
    BY <1>1, <2>2, Zenon DEF InnermostOf
  <2>4. \A t \in DOMAIN scopes : t > s => scopes[t].function # scopes[s].function
    BY <1>1, Zenon DEF InnermostOf
  <2>5. QED BY <2>3, <2>4 DEF InnermostOf
<1>2. QED BY <1>1

LEMMA ShrunkInnermost ==
  ASSUME TypeInv, DOMAIN scopes' = DOMAIN scopes \ {Len(scopes)},
         \A s \in DOMAIN scopes' : scopes'[s] = scopes[s]
  PROVE  \A s \in DOMAIN scopes' : InnermostOf(s)' =>
           InnermostOf(s) \/ scopes[s].function = Current
<1>1. ASSUME NEW s \in DOMAIN scopes', InnermostOf(s)', scopes[s].function # Current
      PROVE  InnermostOf(s)
  <2>1. Current = scopes[Len(scopes)].function
    BY ChainIs DEF TypeInv, Current
  <2>2. ASSUME NEW t \in DOMAIN scopes, t > s PROVE scopes[t].function # scopes[s].function
    <3>1. CASE t = Len(scopes)
      BY <1>1, <2>1, <3>1
    <3>2. CASE t # Len(scopes)
      <4>1. t \in DOMAIN scopes'
        BY <3>2
      <4>2. scopes'[t].function # scopes'[s].function
        BY <1>1, <2>2, <4>1, Zenon DEF InnermostOf
      <4>3. QED BY <4>1, <4>2
    <3>3. QED BY <3>1, <3>2
  <2>3. QED BY <2>2 DEF InnermostOf
<1>2. QED BY <1>1

LEMMA SameFunctionsShape ==
  ASSUME TypeInv, functions' = functions
  PROVE  SameShape(functions', functions)
BY DEF TypeInv, Typed, SameShape, SameMemory, SameIndices, StaysCaptured

LEMMA OpenBlockLexical == ASSUME TypeInv, Lexical, OpenBlock PROVE Lexical'
<1>1. Typed /\ Chain /\ NoInitializer /\ scopes' = Append(scopes, NewScope(Current))
      /\ functions' = functions
  BY DEF TypeInv, OpenBlock
<1>2. Current \in Nat
  BY <1>1, ChainIs
<1>3. NewScope(Current) \in ScopeType /\ NewScope(Current).function = Current
      /\ DOMAIN NewScope(Current).names = {}
  BY <1>2, NewScopeIs
<1>4. /\ Open' = Open /\ DOMAIN scopes' = DOMAIN scopes \cup {Len(scopes) + 1}
      /\ \A s \in DOMAIN scopes : scopes'[s] = scopes[s] /\ s <= Len(scopes)
      /\ scopes'[Len(scopes) + 1] = NewScope(Current)
  BY <1>1, <1>3, BlockOpened
<1>5. functions[Current].initializing = None
  BY <1>1, OwnNone
<1>6. ASSUME NEW s \in DOMAIN scopes'
      PROVE  \/ s \in DOMAIN scopes /\ scopes'[s] = scopes[s]
             \/ NamesOf(s)' = {} /\ functions'[scopes'[s].function].initializing = None
  BY <1>1, <1>3, <1>4, <1>5 DEF NamesOf
<1>7. \A s \in DOMAIN scopes : InnermostOf(s)' => InnermostOf(s)
  BY <1>4, GrownInnermost
<1>8. QED BY <1>1, <1>4, <1>6, <1>7, SameFunctionsShape, LexicalKept

\* A scope ends; the functions lose at most the constness of its names.
LEMMA ScopeEndsLexical ==
  ASSUME TypeInv, Lexical, NoInitializer, Len(scopes) > 1, scopes' = Front(scopes),
         SameShape(functions', functions),
         \A f \in DOMAIN functions :
           /\ functions'[f].initializing = functions[f].initializing
           /\ \A n \in VarsOf(f) : functions'[f].variables[n].const =
                IF f = GlobalMemory /\ n \in DOMAIN CurrentScope.names THEN FALSE
                ELSE functions[f].variables[n].const
  PROVE  Lexical'
<1>1. Typed /\ Chain
  BY DEF TypeInv
<1>2. /\ DOMAIN scopes' = DOMAIN scopes \ {Len(scopes)}
      /\ \A s \in DOMAIN scopes' : scopes'[s] = scopes[s]
      /\ FunctionsOf(scopes') = Open \/ FunctionsOf(scopes') = Open \ {Current}
  BY <1>1, ShrunkFacts
<1>3. Open' \subseteq Open
  BY <1>2 DEF Open, FunctionsOf
<1>4. functions[Current].initializing = None /\ Current \in DOMAIN functions
      /\ CurrentScope = scopes[Len(scopes)] /\ Len(scopes) \in DOMAIN scopes
      /\ (\A s \in DOMAIN scopes : scopes[s].function \in DOMAIN functions)
  BY <1>1, OwnNone, ChainIs DEF Chain
<1>5. ASSUME NEW s \in DOMAIN scopes', NEW n \in NamesOf(s)
      PROVE  functions'[scopes[s].function].variables[n].const =
             functions[scopes[s].function].variables[n].const
  <2>1. s \in DOMAIN scopes /\ s # Len(scopes)
    BY <1>2
  <2>2. n \in Names
    BY <2>1, NamesOfIs
  <2>3. n \notin DOMAIN CurrentScope.names
    BY <1>4, <2>1, <2>2 DEF Lexical, NamesApart, NamesOf
  <2>4. n \in VarsOf(scopes[s].function)
    BY <2>1, <2>2 DEF Lexical, NamesMatch
  <2>5. QED BY <1>4, <2>1, <2>3, <2>4
<1>6. ASSUME NEW s \in DOMAIN scopes', InnermostOf(s)'
      PROVE  \/ functions'[scopes[s].function].initializing = None
             \/ InnermostOf(s) /\ functions'[scopes[s].function].initializing =
                                  functions[scopes[s].function].initializing
  <2>1. InnermostOf(s) \/ scopes[s].function = Current
    BY <1>2, <1>6, ShrunkInnermost
  <2>2. scopes[s].function \in DOMAIN functions
    BY <1>2, <1>4
  <2>3. functions'[scopes[s].function].initializing = functions[scopes[s].function].initializing
    BY <2>2
  <2>4. QED BY <1>4, <2>1, <2>3
<1>7. QED BY <1>2, <1>3, <1>5, <1>6, LexicalKept

LEMMA CloseBlockLexical == ASSUME TypeInv, Lexical, CloseBlock PROVE Lexical'
<1>1. Typed /\ Chain /\ NoInitializer /\ Len(scopes) > 1 /\ scopes' = Front(scopes)
      /\ functions' = ScopeDied(CurrentScope)
  BY DEF TypeInv, CloseBlock
<1>2. /\ SameShape(functions', functions)
      /\ \A f \in DOMAIN functions :
           /\ functions'[f].initializing = functions[f].initializing
           /\ \A n \in VarsOf(f) : functions'[f].variables[n].const =
                IF f = GlobalMemory /\ n \in DOMAIN CurrentScope.names THEN FALSE
                ELSE functions[f].variables[n].const
  BY <1>1, ScopeDiedFacts
<1>3. QED BY <1>1, <1>2, ScopeEndsLexical

LEMMA EndFunctionLexical == ASSUME TypeInv, Lexical, EndFunction PROVE Lexical'
<1>1. Typed /\ Chain /\ NoInitializer /\ Len(scopes) > 1 /\ scopes' = Front(scopes)
  BY DEF TypeInv, EndFunction
<1>2. /\ SameShape(functions', functions)
      /\ \A f \in DOMAIN functions :
           /\ functions'[f].initializing = functions[f].initializing
           /\ \A n \in VarsOf(f) : functions'[f].variables[n].const =
                IF f = GlobalMemory /\ n \in DOMAIN CurrentScope.names THEN FALSE
                ELSE functions[f].variables[n].const
  BY <1>1, EndFunctionFacts
<1>3. QED BY <1>1, <1>2, ScopeEndsLexical

\* A use changes no name and no constness.
LEMMA ResolvesLexical ==
  ASSUME TypeInv, Lexical, NEW n, NEW memory, NEW capturing, Resolves(n, memory, capturing)
  PROVE  /\ SameShape(functions', functions)
         /\ \A s \in DOMAIN scopes :
              /\ functions'[scopes[s].function].initializing = functions[scopes[s].function].initializing
              /\ \A x \in NamesOf(s) : functions'[scopes[s].function].variables[x].const =
                                       functions[scopes[s].function].variables[x].const
<1>1. ASSUME NEW s \in DOMAIN scopes
      PROVE  /\ functions'[scopes[s].function].initializing = functions[scopes[s].function].initializing
             /\ \A x \in NamesOf(s) : functions'[scopes[s].function].variables[x].const =
                                      functions[scopes[s].function].variables[x].const
  <2> DEFINE g == scopes[s].function
  <2>1. g \in DOMAIN functions
    BY DEF TypeInv, Chain
  <2>2. \A x \in NamesOf(s) : x \in DOMAIN functions[g].variables
    BY NamesOfIs DEF Lexical, NamesMatch, VarsOf
  <2> HIDE DEF g
  <2>3. functions'[g].initializing = functions[g].initializing
        /\ \A x \in DOMAIN functions[g].variables :
             functions'[g].variables[x].const = functions[g].variables[x].const
    BY <2>1 DEF Resolves, SameConsts
  <2>4. QED BY <2>2, <2>3 DEF g
<1>2. QED BY <1>1 DEF Resolves

LEMMA UseLexical ==
  ASSUME TypeInv, Lexical, NEW n \in Names, MayUse(n), functions' = Resolve(n), scopes' = scopes
  PROVE  Lexical'
<1>1. /\ SameShape(functions', functions)
      /\ \A s \in DOMAIN scopes :
           /\ functions'[scopes[s].function].initializing = functions[scopes[s].function].initializing
           /\ \A x \in NamesOf(s) : functions'[scopes[s].function].variables[x].const =
                                    functions[scopes[s].function].variables[x].const
  BY UseTypes, ResolvesLexical
<1>2. Open' = Open /\ \A s \in DOMAIN scopes : InnermostOf(s)' => InnermostOf(s)
  BY DEF Open, InnermostOf
<1>3. QED BY <1>1, <1>2, LexicalKept

LEMMA LoopOverLexical ==
  ASSUME TypeInv, Lexical, NEW n \in Names, LoopOver(n)
  PROVE  Lexical'
<1>1. Typed /\ Chain /\ NoInitializer /\ scopes' = Append(scopes, NewScope(Current))
  BY DEF TypeInv, LoopOver
<1>2. /\ SameShape(functions', functions)
      /\ \A s \in DOMAIN scopes :
           /\ functions'[scopes[s].function].initializing = functions[scopes[s].function].initializing
           /\ \A x \in NamesOf(s) : functions'[scopes[s].function].variables[x].const =
                                    functions[scopes[s].function].variables[x].const
  BY LoopOverIs, ResolvesLexical
<1>3. Current \in Nat /\ Current = scopes[Len(scopes)].function /\ Len(scopes) \in DOMAIN scopes
  BY <1>1, ChainIs DEF Current
<1>4. NewScope(Current) \in ScopeType /\ NewScope(Current).function = Current
      /\ DOMAIN NewScope(Current).names = {}
  BY <1>3, NewScopeIs
<1>5. /\ Open' = Open /\ DOMAIN scopes' = DOMAIN scopes \cup {Len(scopes) + 1}
      /\ \A s \in DOMAIN scopes : scopes'[s] = scopes[s] /\ s <= Len(scopes)
      /\ scopes'[Len(scopes) + 1] = NewScope(Current)
  BY <1>1, <1>4, BlockOpened
<1>6. functions'[Current].initializing = None
  BY <1>1, <1>2, <1>3, OwnNone
<1>7. ASSUME NEW s \in DOMAIN scopes'
      PROVE  \/ s \in DOMAIN scopes /\ scopes'[s] = scopes[s]
             \/ NamesOf(s)' = {} /\ functions'[scopes'[s].function].initializing = None
  BY <1>4, <1>5, <1>6 DEF NamesOf
<1>8. \A s \in DOMAIN scopes : InnermostOf(s)' => InnermostOf(s)
  BY <1>5, GrownInnermost
<1>9. QED BY <1>2, <1>5, <1>7, <1>8, LexicalKept

\* Outside the habits nobody redeclares a name that an open function still has.
LEMMA NewName ==
  ASSUME TypeInv, Habits = {}, NEW n \in Names, MayDeclare(n)
  PROVE  /\ \A s \in DOMAIN scopes : n \notin NamesOf(s)
         /\ \A f \in Open : f # Current => n \notin VarsOf(f)
<1>1. \A s \in DOMAIN scopes : n \notin NamesOf(s)
  BY DEF MayDeclare, VariableExists, NamesOf
<1>2. \A f \in Enclosing : ~Has(f, n)
  BY DEF MayDeclare
<1>3. \A f \in Open : f # Current => f \in Enclosing /\ f # 0
  <2>1. Open = Enclosing \cup {Current} /\ \A f \in Open : f \in DOMAIN functions
    BY ChainIs DEF TypeInv
  <2>2. \A f \in DOMAIN functions : f \in Nat \ {0}
    BY ChainIs DEF TypeInv
  <2>3. QED BY <2>1, <2>2
<1>4. QED BY <1>1, <1>2, <1>3 DEF Has, VarsOf

\* A declaration puts n, with constness c, into scope t, the innermost one from now on.
LEMMA DeclaringLexical ==
  ASSUME TypeInv, Lexical, Habits = {}, NEW n \in Names, MayDeclare(n), NEW c, NEW i,
         Declares(n, c, i), i # None => i.name = n, NEW t \in Nat,
         DOMAIN scopes' = DOMAIN scopes \cup {t}, \A s \in DOMAIN scopes : s <= t,
         \A s \in DOMAIN scopes : s # t => scopes'[s] = scopes[s],
         scopes'[t].function = Current, n \in DOMAIN scopes'[t].names,
         t \in DOMAIN scopes => scopes[t].function = Current,
         \A m \in DOMAIN scopes'[t].names : m # n =>
           t \in DOMAIN scopes /\ m \in NamesOf(t) /\ scopes'[t].names[m] = scopes[t].names[m],
         scopes'[t].names[n] = c, Open' = Open
  PROVE  Lexical'
<1>1. /\ \A s \in DOMAIN scopes : n \notin NamesOf(s)
      /\ \A f \in Open : f # Current => n \notin VarsOf(f)
  BY NewName
<1>2. /\ Current \in Open /\ Current \in DOMAIN functions
      /\ \A f \in Open : f \in DOMAIN functions
      /\ DOMAIN scopes \subseteq Nat /\ Len(scopes) \in DOMAIN scopes
      /\ scopes[Len(scopes)].function = Current
  BY ChainIs DEF TypeInv, Current
<1>3. /\ \A f \in DOMAIN functions : f # Current => functions'[f] = functions[f]
      /\ functions'[Current].initializing = i
      /\ DOMAIN functions'[Current].variables = DOMAIN functions[Current].variables \cup {n}
      /\ functions'[Current].variables[n].const = c
  BY DEF Declares, VarsOf
<1>4. \A m \in DOMAIN functions[Current].variables : m # n =>
        functions'[Current].variables[m] = functions[Current].variables[m]
  BY DEF Declares, VarsOf
<1>5. \A s \in DOMAIN scopes : scopes[s].function \in Open
  BY DEF Open
\* Every name but n was a name of the scope before.
<1>6. ASSUME NEW s \in DOMAIN scopes', NEW m \in DOMAIN scopes'[s].names, m # n \/ s # t
      PROVE  /\ s \in DOMAIN scopes /\ m \in NamesOf(s) /\ scopes'[s].names[m] = scopes[s].names[m]
             /\ scopes'[s].function = scopes[s].function /\ m # n
  <2>1. CASE s = t
    BY <1>6, <2>1 DEF NamesOf
  <2>2. CASE s # t
    <3>1. s \in DOMAIN scopes /\ scopes'[s] = scopes[s]
      BY <2>2
    <3>2. m # n
      BY <1>1, <1>6, <3>1 DEF NamesOf
    <3>3. QED BY <1>6, <3>1, <3>2 DEF NamesOf
  <2>3. QED BY <2>1, <2>2
<1>7. NamesMatch'
  <2>1. ASSUME NEW s \in DOMAIN scopes', NEW m \in Names, m \in DOMAIN scopes'[s].names
        PROVE  /\ m \in DOMAIN functions'[scopes'[s].function].variables
               /\ functions'[scopes'[s].function].variables[m].const = scopes'[s].names[m]
    <3>1. CASE m = n /\ s = t
      BY <1>3, <3>1
    <3>2. CASE ~(m = n /\ s = t)
      <4> DEFINE g == scopes[s].function
      <4>1. /\ s \in DOMAIN scopes /\ m \in NamesOf(s) /\ scopes'[s].names[m] = scopes[s].names[m]
            /\ scopes'[s].function = g /\ m # n
        BY <1>6, <2>1, <3>2
      <4>2. /\ m \in DOMAIN functions[g].variables
            /\ functions[g].variables[m].const = scopes[s].names[m]
            /\ g \in DOMAIN functions
        BY <1>2, <1>5, <4>1 DEF Lexical, NamesMatch, VarsOf
      <4> HIDE DEF g
      <4>3. functions'[g].variables[m] = functions[g].variables[m]
            /\ m \in DOMAIN functions'[g].variables
        BY <1>3, <1>4, <4>1, <4>2
      <4>4. QED BY <4>1, <4>2, <4>3
    <3>3. QED BY <3>1, <3>2
  <2>2. QED BY <2>1, Zenon DEF NamesMatch, NamesOf, VarsOf
<1>8. NamesApart'
  <2>1. ASSUME NEW s \in DOMAIN scopes', NEW u \in DOMAIN scopes', NEW m \in Names,
               m \in DOMAIN scopes'[s].names, m \in DOMAIN scopes'[u].names
        PROVE  s = u
    <3>1. CASE m = n
      BY <1>6, <2>1, <3>1
    <3>2. CASE m # n
      <4>1. s \in DOMAIN scopes /\ m \in NamesOf(s) /\ u \in DOMAIN scopes /\ m \in NamesOf(u)
        BY <1>6, <2>1, <3>2
      <4>2. QED BY <4>1 DEF Lexical, NamesApart
    <3>3. QED BY <3>1, <3>2
  <2>2. QED BY <2>1, Zenon DEF NamesApart, NamesOf
<1>9. Apart'
  <2>1. ASSUME NEW f \in Open, NEW g \in Open, NEW m \in Names,
               m \in DOMAIN functions'[f].variables, m \in DOMAIN functions'[g].variables
        PROVE  f = g
    <3>1. CASE m = n
      <4>1. ASSUME NEW h \in Open, n \in DOMAIN functions'[h].variables PROVE h = Current
        BY <1>1, <1>2, <1>3, <4>1 DEF VarsOf
      <4>2. QED BY <2>1, <3>1, <4>1
    <3>2. CASE m # n
      <4>1. ASSUME NEW h \in Open, m \in DOMAIN functions'[h].variables PROVE m \in VarsOf(h)
        BY <1>2, <1>3, <3>2, <4>1 DEF VarsOf
      <4>2. m \in VarsOf(f) /\ m \in VarsOf(g)
        BY <2>1, <4>1
      <4>3. QED BY <4>2 DEF Lexical, Apart
    <3>3. QED BY <3>1, <3>2
  <2>2. QED BY <2>1, Zenon DEF Apart, VarsOf
<1>10. Initializing'
  <2>1. ASSUME NEW s \in DOMAIN scopes', InnermostOf(s)',
               functions'[scopes'[s].function].initializing # None
        PROVE  functions'[scopes'[s].function].initializing.name \in DOMAIN scopes'[s].names
    <3>1. CASE s = t
      BY <1>3, <2>1, <3>1
    <3>2. CASE s # t
      <4> DEFINE g == scopes[s].function
      <4>1. s \in DOMAIN scopes /\ scopes'[s] = scopes[s] /\ s < t
        BY <1>2, <3>2
      <4>2. g # Current
        <5>1. t \in DOMAIN scopes' /\ t > s
          BY <4>1
        <5>2. scopes'[t].function # scopes'[s].function
          BY <2>1, <5>1, Zenon DEF InnermostOf
        <5>3. QED BY <4>1, <5>2
      <4>3. functions'[g] = functions[g]
        BY <1>2, <1>3, <1>5, <4>1, <4>2
      <4>4. InnermostOf(s)
        <5>1. ASSUME NEW u \in DOMAIN scopes, u > s PROVE scopes[u].function # g
          <6>1. CASE u = t
            BY <4>2, <5>1, <6>1
          <6>2. CASE u # t
            <7>1. u \in DOMAIN scopes' /\ scopes'[u] = scopes[u]
              BY <6>2
            <7>2. scopes'[u].function # scopes'[s].function
              BY <2>1, <5>1, <7>1, Zenon DEF InnermostOf
            <7>3. QED BY <4>1, <7>1, <7>2
          <6>3. QED BY <6>1, <6>2
        <5>2. QED BY <5>1 DEF InnermostOf
      <4>5. functions[g].initializing.name \in NamesOf(s)
        BY <2>1, <4>1, <4>3, <4>4 DEF Lexical, Initializing
      <4>6. QED BY <4>1, <4>3, <4>5 DEF NamesOf
    <3>3. QED BY <3>1, <3>2
  <2>2. QED BY <2>1, Zenon DEF Initializing, NamesOf
<1>11. QED BY <1>7, <1>8, <1>9, <1>10 DEF Lexical

\* A declaration in the innermost scope.
LEMMA DeclarationLexical ==
  ASSUME TypeInv, Lexical, Habits = {}, Count, NEW n \in Names, NEW c \in BOOLEAN, MayDeclare(n),
         NEW later \in BOOLEAN, DeclareInMemory(n, c, [name |-> n, const |-> later]),
         scopes' = Append(Front(scopes), WithName(CurrentScope, n, c))
  PROVE  Lexical'
<1> DEFINE i == [name |-> n, const |-> later]
           t == Len(scopes)
<1>1. i \in Initializer \cup {None} /\ i.name = n
  BY DEF Initializer
<1> HIDE DEF i
<1>2. Declares(n, c, i)
  BY <1>1, DeclarationTypes DEF i
<1>3. t \in Nat /\ t \in DOMAIN scopes /\ scopes[t].function = Current /\ DOMAIN scopes = 1..t
  BY ChainIs DEF TypeInv, Current
<1>4. /\ DOMAIN scopes' = DOMAIN scopes
      /\ \A s \in DOMAIN scopes :
           /\ scopes'[s].function = scopes[s].function
           /\ s # t => scopes'[s] = scopes[s]
      /\ DOMAIN scopes'[t].names = NamesOf(t) \cup {n}
      /\ \A m \in NamesOf(t) \cup {n} :
           scopes'[t].names[m] = IF m = n THEN c ELSE scopes[t].names[m]
      /\ FunctionsOf(scopes') = Open
  BY RenamedFacts DEF TypeInv
<1>5. Open' = Open
  BY <1>4 DEF Open, FunctionsOf
<1>6. DOMAIN scopes' = DOMAIN scopes \cup {t} /\ \A s \in DOMAIN scopes : s <= t
  <2>1. \A s \in DOMAIN scopes : s <= t
    BY <1>3
  <2> HIDE DEF t
  <2>2. QED BY <1>3, <1>4, <2>1
<1>7. scopes'[t].function = Current /\ n \in DOMAIN scopes'[t].names /\ scopes'[t].names[n] = c
  BY <1>3, <1>4
<1>8. \A m \in DOMAIN scopes'[t].names : m # n =>
           t \in DOMAIN scopes /\ m \in NamesOf(t) /\ scopes'[t].names[m] = scopes[t].names[m]
  BY <1>3, <1>4
<1> HIDE DEF t
<1>9. QED BY <1>1, <1>2, <1>3, <1>4, <1>5, <1>6, <1>7, <1>8, DeclaringLexical

LEMMA DeclareVariableLexical ==
  ASSUME TypeInv, Lexical, Habits = {}, NEW n \in Names, NEW const \in BOOLEAN,
         DeclareVariable(n, const)
  PROVE  Lexical'
<1>1. FALSE \in BOOLEAN /\ Count /\ MayDeclare(n)
      /\ DeclareInMemory(n, FALSE, [name |-> n, const |-> const])
      /\ scopes' = Append(Front(scopes), WithName(CurrentScope, n, FALSE))
  BY DEF DeclareVariable
<1>2. QED BY <1>1, DeclarationLexical

LEMMA DeclareDestructuredLexical ==
  ASSUME TypeInv, Lexical, Habits = {}, NEW n \in Names, NEW const \in BOOLEAN,
         DeclareDestructured(n, const)
  PROVE  Lexical'
<1>1. Count /\ MayDeclare(n) /\ DeclareInMemory(n, const, [name |-> n, const |-> const])
      /\ scopes' = Append(Front(scopes), WithName(CurrentScope, n, const))
  BY DEF DeclareDestructured
<1>2. QED BY <1>1, DeclarationLexical

\* A declaration in a scope of its own.
LEMMA BlockLexical ==
  ASSUME TypeInv, Lexical, Habits = {}, Count, NEW n \in Names, NEW c \in BOOLEAN, MayDeclare(n),
         DeclareInMemory(n, c, None), scopes' = Append(scopes, WithName(NewScope(Current), n, c))
  PROVE  Lexical'
<1> DEFINE t == Len(scopes) + 1
           S == WithName(NewScope(Current), n, c)
<1>1. None \in Initializer \cup {None}
  OBVIOUS
<1>2. Declares(n, c, None)
  BY <1>1, DeclarationTypes
<1>3. Current \in Nat /\ Len(scopes) \in Nat /\ DOMAIN scopes = 1..Len(scopes) /\ Typed /\ Chain
  BY ChainIs DEF TypeInv
<1>4. S \in ScopeType /\ S.function = Current /\ DOMAIN S.names = {n} /\ S.names[n] = c
  BY <1>3, NamedScopeIs
<1> HIDE DEF S
<1>5. /\ Open' = Open /\ DOMAIN scopes' = DOMAIN scopes \cup {t}
      /\ scopes'[t] = S /\ \A s \in DOMAIN scopes : scopes'[s] = scopes[s] /\ s <= Len(scopes)
  BY <1>3, <1>4, BlockOpened DEF S
<1>6. t \in Nat /\ t \notin DOMAIN scopes /\ \A s \in DOMAIN scopes : s <= t
  BY <1>3
<1>7. scopes'[t].function = Current /\ n \in DOMAIN scopes'[t].names /\ scopes'[t].names[n] = c
      /\ \A m \in DOMAIN scopes'[t].names : m = n
  BY <1>4, <1>5
<1> HIDE DEF t
<1>8. QED BY <1>2, <1>5, <1>6, <1>7, DeclaringLexical

LEMMA CatchBlockLexical ==
  ASSUME TypeInv, Lexical, Habits = {}, NEW n \in Names, CatchBlock(n)
  PROVE  Lexical'
<1>1. FALSE \in BOOLEAN /\ Count /\ MayDeclare(n) /\ WasConst(n) = FALSE
      /\ DeclareInMemory(n, WasConst(n), None)
      /\ scopes' = Append(scopes, WithName(NewScope(Current), n, FALSE))
  <2>1. ~WasConst(n) /\ WasConst(n) \in BOOLEAN
    BY WasConstIs DEF CatchBlock
  <2>2. QED BY <2>1 DEF CatchBlock
<1>2. DeclareInMemory(n, FALSE, None)
  BY <1>1, Zenon
<1>3. QED BY <1>1, <1>2, BlockLexical

LEMMA LoopBlockLexical ==
  ASSUME TypeInv, Lexical, Habits = {}, NEW n \in Names, NEW const \in BOOLEAN, LoopBlock(n, const)
  PROVE  Lexical'
<1>1. FALSE \in BOOLEAN /\ Count /\ MayDeclare(n) /\ DeclareInMemory(n, FALSE, None)
      /\ const = FALSE /\ scopes' = Append(scopes, WithName(NewScope(Current), n, const))
  BY DEF LoopBlock
<1>2. scopes' = Append(scopes, WithName(NewScope(Current), n, FALSE))
  BY <1>1, Zenon
<1>3. QED BY <1>1, <1>2, BlockLexical

LEMMA EndInitializerLexical ==
  ASSUME TypeInv, Lexical, EndInitializer
  PROVE  Lexical'
<1> DEFINE i == Own.initializing
           n == i.name
           t == Len(scopes)
<1>1. /\ Typed /\ Chain /\ ~NoInitializer /\ Current \in Open
      /\ t \in Nat /\ t \in DOMAIN scopes /\ scopes[t].function = Current /\ DOMAIN scopes = 1..t
      /\ Own = functions[Current] /\ Current \in DOMAIN functions
      /\ scopes' = Append(Front(scopes), WithName(CurrentScope, n, i.const))
      /\ \A f \in Open : f \in DOMAIN functions
  BY ChainIs DEF TypeInv, Current, EndInitializer
<1>2. i \in Initializer /\ n \in VarsOf(Current) /\ n \in Names /\ i.const \in BOOLEAN
  BY EndInitializerIs
<1>3. /\ SameShape(functions', functions)
      /\ \A f \in DOMAIN functions :
           /\ functions'[f].initializing = IF f = Current THEN None ELSE functions[f].initializing
           /\ \A x \in VarsOf(f) : functions'[f].variables[x].const =
                IF f = Current /\ x = n THEN i.const ELSE functions[f].variables[x].const
  BY <1>1, <1>2, EndInitializerFacts
<1>4. n \in NamesOf(t)
  <2>1. InnermostOf(t)
    BY <1>1 DEF InnermostOf
  <2>2. i # None
    BY <1>1 DEF NoInitializer
  <2>3. QED BY <1>1, <2>1, <2>2 DEF Lexical, Initializing
<1>5. /\ DOMAIN scopes' = DOMAIN scopes
      /\ \A s \in DOMAIN scopes :
           /\ scopes'[s].function = scopes[s].function
           /\ s # t => scopes'[s] = scopes[s]
      /\ DOMAIN scopes'[t].names = NamesOf(t) \cup {n}
      /\ \A m \in NamesOf(t) \cup {n} :
           scopes'[t].names[m] = IF m = n THEN i.const ELSE scopes[t].names[m]
      /\ FunctionsOf(scopes') = Open
  BY <1>1, <1>2, RenamedFacts
<1> HIDE DEF i, n, t
<1>6. \A f \in DOMAIN functions : DOMAIN functions'[f].variables = DOMAIN functions[f].variables
  BY <1>3 DEF SameShape, SameIndices
<1>7. ASSUME NEW s \in DOMAIN scopes
      PROVE  /\ DOMAIN scopes'[s].names = NamesOf(s) /\ scopes[s].function \in Open
             /\ \A m \in NamesOf(s) : scopes'[s].names[m] = IF m = n THEN i.const
                                                            ELSE scopes[s].names[m]
  <2>1. scopes[s].function \in Open
    BY DEF Open
  <2>2. CASE s = t
    BY <1>4, <1>5, <2>1, <2>2
  <2>3. CASE s # t
    <3>1. n \notin NamesOf(s)
      BY <1>1, <1>2, <1>4, <2>3 DEF Lexical, NamesApart
    <3>2. QED BY <1>5, <2>1, <2>3, <3>1 DEF NamesOf
  <2>4. QED BY <2>2, <2>3
<1>8. NamesMatch'
  <2>1. ASSUME NEW s \in DOMAIN scopes', NEW m \in Names, m \in DOMAIN scopes'[s].names
        PROVE  /\ m \in DOMAIN functions'[scopes'[s].function].variables
               /\ functions'[scopes'[s].function].variables[m].const = scopes'[s].names[m]
    <3> DEFINE g == scopes[s].function
    <3>1. /\ s \in DOMAIN scopes /\ m \in NamesOf(s) /\ scopes'[s].function = g
          /\ g \in DOMAIN functions
          /\ scopes'[s].names[m] = IF m = n THEN i.const ELSE scopes[s].names[m]
      BY <1>1, <1>5, <1>7, <2>1
    <3>2. m \in VarsOf(g) /\ functions[g].variables[m].const = scopes[s].names[m]
      BY <3>1 DEF Lexical, NamesMatch
    <3>3. m = n => g = Current
      <4>1. g \in Open
        BY <1>7, <3>1
      <4>2. QED BY <1>1, <1>2, <3>2, <4>1 DEF Lexical, Apart
    <3>4. m \in DOMAIN functions'[g].variables
      BY <1>6, <3>1, <3>2 DEF VarsOf
    <3> HIDE DEF g
    <3>5. functions'[g].variables[m].const = IF m = n THEN i.const ELSE scopes[s].names[m]
      BY <1>3, <3>1, <3>2, <3>3
    <3>6. QED BY <3>1, <3>4, <3>5
  <2>2. QED BY <2>1, Zenon DEF NamesMatch, NamesOf, VarsOf
<1>9. NamesApart'
  <2>1. ASSUME NEW s \in DOMAIN scopes', NEW u \in DOMAIN scopes', NEW m \in Names,
               m \in DOMAIN scopes'[s].names, m \in DOMAIN scopes'[u].names
        PROVE  s = u
    BY <1>5, <1>7, <2>1 DEF Lexical, NamesApart
  <2>2. QED BY <2>1, Zenon DEF NamesApart, NamesOf
<1>10. Open' = Open
  BY <1>5 DEF Open, FunctionsOf
<1>11. Apart'
  <2>1. ASSUME NEW f \in Open, NEW g \in Open, NEW m \in Names,
               m \in DOMAIN functions'[f].variables, m \in DOMAIN functions'[g].variables
        PROVE  f = g
    BY <1>1, <1>6, <2>1 DEF Lexical, Apart, VarsOf
  <2>2. QED BY <1>10, <2>1, Zenon DEF Apart, VarsOf
<1>12. Initializing'
  <2>1. ASSUME NEW s \in DOMAIN scopes', InnermostOf(s)',
               functions'[scopes'[s].function].initializing # None
        PROVE  functions'[scopes'[s].function].initializing.name \in DOMAIN scopes'[s].names
    <3> DEFINE g == scopes[s].function
    <3>1. s \in DOMAIN scopes /\ scopes'[s].function = g /\ g \in DOMAIN functions
      BY <1>1, <1>5, <1>7
    <3>2. InnermostOf(s)
      <4>1. ASSUME NEW u \in DOMAIN scopes, u > s PROVE scopes[u].function # g
        <5>1. u \in DOMAIN scopes' /\ scopes'[u].function = scopes[u].function
          BY <1>5
        <5>2. scopes'[u].function # scopes'[s].function
          BY <2>1, <4>1, <5>1, Zenon DEF InnermostOf
        <5>3. QED BY <3>1, <5>1, <5>2
      <4>2. QED BY <4>1 DEF InnermostOf
    <3>3. functions'[g].initializing = functions[g].initializing
      BY <1>3, <2>1, <3>1
    <3>4. functions[g].initializing.name \in NamesOf(s)
      BY <2>1, <3>1, <3>2, <3>3 DEF Lexical, Initializing
    <3>5. QED BY <1>7, <3>1, <3>3, <3>4
  <2>2. QED BY <2>1, Zenon DEF Initializing, NamesOf
<1>13. QED BY <1>8, <1>9, <1>11, <1>12 DEF Lexical

\* A function begins; its parameters are new names.
LEMMA BeginLexical ==
  ASSUME TypeInv, Lexical, Habits = {}, Count, NEW params \in Parameters, NEW lower \in Open \cup {0},
         BeginMemory(params, lower)
  PROVE  Lexical'
<1> DEFINE t == Len(scopes) + 1
<1>1. PICK m : Begins(params, lower, m)
  BY BeginFacts
<1>2. /\ functions'[NewFunction] = m /\ DOMAIN m.variables = ToSet(params)
      /\ ToSet(params) \subseteq Names
      /\ DOMAIN scopes' = DOMAIN scopes \cup {t} /\ Open' = Open \cup {NewFunction}
      /\ \A s \in DOMAIN scopes : scopes'[s] = scopes[s] /\ s <= Len(scopes)
      /\ scopes'[t].function = NewFunction /\ scopes'[t].names = [n \in ToSet(params) |-> FALSE]
      /\ \A f \in DOMAIN functions : functions'[f] = functions[f] /\ f < NewFunction
  BY <1>1 DEF Begins
<1>3. m.initializing = None /\ \A n \in DOMAIN m.variables : m.variables[n].const = FALSE
  BY <1>1 DEF Begins, Parametrized
<1>4. /\ \A f \in Open : f \in DOMAIN functions
      /\ Open = Enclosing \cup {Current}
      /\ DOMAIN scopes \subseteq Nat /\ Len(scopes) \in Nat
      /\ (\A f \in DOMAIN functions : f \in Nat \ {0}) /\ NewFunction \in Nat
  BY ChainIs DEF TypeInv, NewFunction
<1>5. NewFunction \notin Open /\ t \notin DOMAIN scopes
  <2>1. NewFunction \notin Open
    <3>1. ASSUME NewFunction \in Open PROVE FALSE
      <4>1. NewFunction < NewFunction
        BY <1>2, <1>4, <3>1
      <4>2. QED BY <1>4, <4>1
    <3>2. QED BY <3>1
  <2>2. QED BY <1>2, <1>4, <2>1
<1>6. ASSUME NEW n \in ToSet(params)
      PROVE  (\A s \in DOMAIN scopes : n \notin NamesOf(s)) /\ \A f \in Open : n \notin VarsOf(f)
  <2>1. PICK k \in DOMAIN params : n = params[k]
    BY DEF ToSet
  <2>2. ~VariableExists(params[k]) /\ \A f \in Enclosing \cup {Current} : ~Has(f, params[k])
    BY DEF BeginMemory
  <2>3. \A s \in DOMAIN scopes : n \notin NamesOf(s)
    BY <2>1, <2>2 DEF VariableExists, NamesOf
  <2>4. \A f \in Open : f # 0 /\ ~Has(f, n)
    BY <1>4, <2>1, <2>2
  <2>5. QED BY <2>3, <2>4 DEF Has, VarsOf
<1> HIDE DEF t
<1>7. \A s \in DOMAIN scopes : scopes[s].function \in Open
  BY DEF Open
<1>8. DOMAIN scopes'[t].names = ToSet(params) /\ \A n \in ToSet(params) : scopes'[t].names[n] = FALSE
  BY <1>2
<1>9. NamesMatch'
  <2>1. ASSUME NEW s \in DOMAIN scopes', NEW n \in Names, n \in DOMAIN scopes'[s].names
        PROVE  /\ n \in DOMAIN functions'[scopes'[s].function].variables
               /\ functions'[scopes'[s].function].variables[n].const = scopes'[s].names[n]
    <3>1. CASE s = t
      BY <1>2, <1>3, <1>8, <2>1, <3>1
    <3>2. CASE s # t
      <4> DEFINE g == scopes[s].function
      <4>1. s \in DOMAIN scopes /\ scopes'[s] = scopes[s] /\ g \in DOMAIN functions
        BY <1>2, <1>4, <1>7, <3>2
      <4>2. /\ n \in DOMAIN functions[g].variables
            /\ functions[g].variables[n].const = scopes[s].names[n]
        BY <2>1, <4>1 DEF Lexical, NamesMatch, VarsOf, NamesOf
      <4>3. functions'[g] = functions[g]
        BY <1>2, <4>1
      <4>4. QED BY <4>1, <4>2, <4>3
    <3>3. QED BY <3>1, <3>2
  <2>2. QED BY <2>1, Zenon DEF NamesMatch, NamesOf, VarsOf
<1>10. NamesApart'
  <2>1. ASSUME NEW s \in DOMAIN scopes', NEW u \in DOMAIN scopes', NEW n \in Names,
               n \in DOMAIN scopes'[s].names, n \in DOMAIN scopes'[u].names
        PROVE  s = u
    <3>1. \A v \in DOMAIN scopes : v # t /\ DOMAIN scopes'[v].names = NamesOf(v)
      BY <1>2, <1>5 DEF NamesOf
    <3>2. CASE n \in ToSet(params)
      BY <1>2, <1>6, <2>1, <3>1, <3>2
    <3>3. CASE n \notin ToSet(params)
      BY <1>2, <1>8, <2>1, <3>1, <3>3 DEF Lexical, NamesApart
    <3>4. QED BY <3>2, <3>3
  <2>2. QED BY <2>1, Zenon DEF NamesApart, NamesOf
<1>11. Apart'
  <2>1. ASSUME NEW f \in Open \cup {NewFunction}, NEW g \in Open \cup {NewFunction}, NEW n \in Names,
               n \in DOMAIN functions'[f].variables, n \in DOMAIN functions'[g].variables
        PROVE  f = g
    <3>1. \A h \in Open : DOMAIN functions'[h].variables = VarsOf(h)
      BY <1>2, <1>4 DEF VarsOf
    <3>2. CASE n \in ToSet(params)
      BY <1>6, <2>1, <3>1, <3>2
    <3>3. CASE n \notin ToSet(params)
      BY <1>2, <2>1, <3>1, <3>3 DEF Lexical, Apart
    <3>4. QED BY <3>2, <3>3
  <2>2. \A f, g \in Open', n \in Names :
          n \in DOMAIN functions'[f].variables /\ n \in DOMAIN functions'[g].variables => f = g
    <3>1. Open' = Open \cup {NewFunction}
      BY <1>2
    <3>2. QED BY <2>1, <3>1, Zenon
  <2>3. QED BY <2>2, Zenon DEF Apart, VarsOf
<1>12. Initializing'
  <2>1. ASSUME NEW s \in DOMAIN scopes', InnermostOf(s)',
               functions'[scopes'[s].function].initializing # None
        PROVE  functions'[scopes'[s].function].initializing.name \in DOMAIN scopes'[s].names
    <3>1. s \in DOMAIN scopes
      BY <1>2, <1>3, <2>1
    <3>2. InnermostOf(s)
      BY <1>2, <2>1, <3>1, GrownInnermost DEF t
    <3> DEFINE g == scopes[s].function
    <3>3. scopes'[s] = scopes[s] /\ functions'[g] = functions[g]
      BY <1>2, <1>4, <1>7, <3>1
    <3>4. functions[g].initializing.name \in NamesOf(s)
      BY <2>1, <3>1, <3>2, <3>3 DEF Lexical, Initializing
    <3>5. QED BY <3>3, <3>4 DEF NamesOf
  <2>2. QED BY <2>1, Zenon DEF Initializing, NamesOf
<1>13. QED BY <1>9, <1>10, <1>11, <1>12 DEF Lexical

LEMMA InitLexical == ASSUME Init PROVE Lexical
<1>1. scopes = <<NewScope(GlobalMemory)>> /\ functions = <<NewMemory(0, 0)>>
  BY DEF Init
<1>2. NewScope(GlobalMemory).function = 1 /\ DOMAIN NewScope(GlobalMemory).names = {}
  BY NewScopeIs DEF GlobalMemory
<1>3. NewMemory(0, 0).initializing = None
  BY NewMemoryIs
<1>4. /\ DOMAIN scopes = {1} /\ scopes[1].function = 1 /\ NamesOf(1) = {}
      /\ functions[1].initializing = None
  BY <1>1, <1>2, <1>3 DEF NamesOf
<1>5. Open = {1}
  BY <1>4 DEF Open
<1>6. QED BY <1>4, <1>5 DEF Lexical, NamesMatch, NamesApart, Apart, Initializing

LEMMA NextLexical == ASSUME TypeInv, Lexical, Habits = {}, [Next]_vars PROVE Lexical'
<1>1. CASE UNCHANGED vars
  BY <1>1 DEF vars, Lexical, NamesMatch, NamesApart, Apart, Initializing, InnermostOf, NamesOf,
     VarsOf, Open
<1>2. CASE Next
  <2>1. CASE OpenBlock \/ CloseBlock \/ EndInitializer \/ EndFunction
    BY <2>1, OpenBlockLexical, CloseBlockLexical, EndInitializerLexical, EndFunctionLexical
  <2>2. CASE \E n \in Names, const \in BOOLEAN :
               DeclareVariable(n, const) \/ DeclareDestructured(n, const) \/ LoopBlock(n, const)
    BY <2>2, DeclareVariableLexical, DeclareDestructuredLexical, LoopBlockLexical
  <2>3. ASSUME NEW n \in Names, CatchBlock(n) \/ Use(n) \/ Assign(n) \/ LoopOver(n)
        PROVE  Lexical'
    <3>1. CASE CatchBlock(n)
      BY <3>1, CatchBlockLexical
    <3>2. CASE Use(n) \/ Assign(n)
      <4>1. MayUse(n) /\ functions' = Resolve(n) /\ scopes' = scopes
        BY <3>2 DEF Use, Assign
      <4>2. QED BY <4>1, UseLexical
    <3>3. CASE LoopOver(n)
      BY <3>3, LoopOverLexical
    <3>4. QED BY <2>3, <3>1, <3>2, <3>3
  <2>4. ASSUME NEW params \in Parameters, BeginFunction(params) \/ BeginLambda(params)
        PROVE  Lexical'
    <3>1. CASE BeginFunction(params)
      BY <3>1, LowerIs, BeginLexical DEF BeginFunction
    <3>2. CASE BeginLambda(params)
      BY <3>2, LowerIs, BeginLexical DEF BeginLambda
    <3>3. QED BY <2>4, <3>1, <3>2
  <2>5. QED BY <1>2, <2>1, <2>2, <2>3, <2>4 DEF Next
<1>3. QED BY <1>1, <1>2

-----------------------------------------------------------------------------
(* Resolution.                                                              *)

\* The linter finds the variable that is visible.
LEMMA ResolvesTheMeaning ==
  ASSUME TypeInv, Lexical, Habits = {}, NEW n \in Names, MayUse(n)
  PROVE  /\ GetVariableByIdentifier(n) = Meant(n)[1] /\ Meant(n)[1] \in Open
         /\ n \in VarsOf(Meant(n)[1])
         /\ functions[Meant(n)[1]].variables[n].const = IsConst(n)
<1> DEFINE g == Meant(n)[1]
<1>1. VariableExists(n) /\ g \in {GlobalMemory, Current, Own.owner}
      /\ (g = Own.owner => Own.owner \in {GlobalMemory, Own.lowerFunction})
  BY DEF MayUse
<1>2. /\ ScopeOf(n) \in DOMAIN scopes /\ n \in NamesOf(ScopeOf(n))
      /\ g = scopes[ScopeOf(n)].function
      /\ g \in Open
  BY <1>1, MeantIs
<1>3. n \in VarsOf(g) /\ functions[g].variables[n].const = IsConst(n)
  BY <1>2 DEF Lexical, NamesMatch, IsConst
<1>4. /\ GlobalMemory \in Open /\ Current \in Open /\ Own = functions[Current]
      /\ \A f \in Open : f # 0
      /\ Own.lowerFunction \in Open \cup {0}
  <2>1. /\ GlobalMemory \in Open /\ Current \in Open /\ Own = functions[Current]
        /\ \A f \in Open : f \in DOMAIN functions
    BY ChainIs DEF TypeInv
  <2>2. \A f \in DOMAIN functions : f # 0
    BY ChainIs DEF TypeInv
  <2>3. Own.lowerFunction \in Open \cup {0}
    BY <2>1 DEF TypeInv, Chain, Locals
  <2>4. QED BY <2>1, <2>2, <2>3
<1> HIDE DEF g
<1>5. \A f \in Open : n \in VarsOf(f) => f = g
  BY <1>2, <1>3 DEF Lexical, Apart
<1>6. g = GlobalMemory => GetVariableByIdentifier(n) = g
  BY <1>3, <1>4 DEF GetVariableByIdentifier, Has, VarsOf
<1>7. ASSUME g # GlobalMemory PROVE GetVariableByIdentifier(n) = g
  <2>1. ~Has(GlobalMemory, n)
    BY <1>4, <1>5, <1>7 DEF Has, VarsOf
  <2>2. g = Own.lowerFunction => GetVariableByIdentifier(n) = g
    BY <1>2, <1>3, <1>4, <2>1 DEF GetVariableByIdentifier, Has, VarsOf
  <2>3. ASSUME g # Own.lowerFunction PROVE GetVariableByIdentifier(n) = g
    <3>1. ~Has(Own.lowerFunction, n)
      BY <1>4, <1>5, <2>3 DEF Has, VarsOf
    <3>2. g = Current
      BY <1>1, <1>7, <2>3
    <3>3. QED BY <1>3, <1>4, <2>1, <3>1, <3>2 DEF GetVariableByIdentifier, Has, VarsOf
  <2>4. QED BY <2>2, <2>3
<1>8. GetVariableByIdentifier(n) = g
  BY <1>6, <1>7
<1>9. QED BY <1>2, <1>3, <1>8 DEF g

LEMMA LoopsOverTheMeaning ==
  ASSUME TypeInv, Lexical, Habits = {}, NEW n \in Names, LoopOver(n)
  PROVE  /\ Has(Current, n) /\ Meant(n)[1] = Current /\ VariableExists(n)
         /\ Own.variables[n].const = IsConst(n)
<1>1. VariableExists(n) /\ Has(Current, n)
  BY DEF LoopOver
<1>2. n \in VarsOf(Current) /\ Current \in Open /\ Own = functions[Current]
  BY <1>1, ChainIs DEF TypeInv, Has, VarsOf
<1>3. /\ ScopeOf(n) \in DOMAIN scopes /\ n \in NamesOf(ScopeOf(n))
      /\ Meant(n)[1] = scopes[ScopeOf(n)].function /\ Meant(n)[1] \in Open
  BY <1>1, MeantIs
<1>4. /\ n \in VarsOf(scopes[ScopeOf(n)].function)
      /\ functions[scopes[ScopeOf(n)].function].variables[n].const = IsConst(n)
  BY <1>3 DEF Lexical, NamesMatch, IsConst
<1>5. scopes[ScopeOf(n)].function = Current
  BY <1>2, <1>3, <1>4 DEF Lexical, Apart
<1>6. QED BY <1>1, <1>2, <1>3, <1>4, <1>5

LEMMA NextKeepsConst ==
  ASSUME TypeInv, Lexical, Habits = {}, ConstIsKept, [Next]_vars
  PROVE  ConstIsKept'
<1>1. CASE assignments' = assignments
  BY <1>1 DEF ConstIsKept
<1>2. ASSUME NEW n \in Names, Assign(n) PROVE ConstIsKept'
  <2> DEFINE memory == GetVariableByIdentifier(n)
             a == [const |-> IsConst(n), refused |-> functions[memory].variables[n].const]
  <2>1. MayUse(n) /\ assignments' = assignments \cup {a}
    BY <1>2 DEF Assign
  <2>2. functions[memory].variables[n].const = IsConst(n)
    BY <2>1, ResolvesTheMeaning
  <2>3. a.refused = a.const
    BY <2>2
  <2> HIDE DEF a
  <2>4. QED BY <2>1, <2>3 DEF ConstIsKept
<1>3. ASSUME NEW n \in Names, LoopOver(n) PROVE ConstIsKept'
  <2> DEFINE a == [const |-> IsConst(n), refused |-> Own.variables[n].const]
  <2>1. assignments' = assignments \/ assignments' = assignments \cup {a}
    BY <1>3 DEF LoopOver
  <2>2. a.refused = a.const
    BY <1>3, LoopsOverTheMeaning
  <2> HIDE DEF a
  <2>3. QED BY <2>1, <2>2 DEF ConstIsKept
<1>4. CASE UNCHANGED vars
  BY <1>1, <1>4 DEF vars
<1>5. CASE Next
  BY <1>1, <1>2, <1>3, <1>5 DEF Next, OpenBlock, CloseBlock, DeclareVariable, DeclareDestructured,
     LoopBlock, EndInitializer, CatchBlock, Use, BeginFunction, BeginLambda, BeginMemory, EndFunction
<1>6. QED BY <1>4, <1>5

\* CheckConstness refuses an assignment exactly when the visible variable is const by then:
\* the flag of the variable and the lexical constness of the name never come apart.
THEOREM ConstnessIsKept ==
  ASSUME Habits = {}
  PROVE  Spec => []ConstIsKept
<1> DEFINE I == TypeInv /\ Lexical /\ ConstIsKept
<1>1. Init => I
  <2>1. Init => ConstIsKept
    BY DEF Init, ConstIsKept
  <2>2. QED BY <2>1, InitTypes, InitLexical
<1>2. I /\ [Next]_vars => I'
  BY NextTypes, NextLexical, NextKeepsConst
<1>3. I => ConstIsKept
  OBVIOUS
<1>4. QED BY <1>1, <1>2, <1>3, PTL DEF Spec

-----------------------------------------------------------------------------
(* Indices.                                                                 *)

\* The tables number the variables of the open functions, outer functions first.
TablesMatch ==
  /\ DOMAIN allGlobalVariables = VarsOf(GlobalMemory)
  /\ \A n \in Names : n \in DOMAIN allVariables <=> \E f \in Locals : n \in VarsOf(f)
  /\ \A f \in Open, n \in Names : n \in VarsOf(f) => IndexOf(f, n) = TableOf(f)[n]

OuterFirst ==
  \A f, g \in Locals, n, m \in Names :
    f < g /\ n \in VarsOf(f) /\ m \in VarsOf(g) => allVariables[n] < allVariables[m]

Indexed == TablesMatch /\ OuterFirst /\ Ranked(allVariables) /\ Ranked(allGlobalVariables)

\* The frames of a function, and the order its parameters are sorted in.
ParametersClimb ==
  \A f \in DOMAIN functions : \A i, j \in DOMAIN functions[f].parameters :
    i < j => IndexOf(f, functions[f].parameters[i]) < IndexOf(f, functions[f].parameters[j])

OpenCapturesNothing == \A f \in Open : functions[f].captures = {}

Framed == FramesLoseNothing /\ OpenCapturesNothing /\ ParametersClimb

\* The memories after a step that declared nothing.
LEMMA SameShapeIndices ==
  ASSUME TypeInv, SameShape(functions', functions), NEW f \in DOMAIN functions
  PROVE  /\ DOMAIN functions'[f].variables = VarsOf(f)
         /\ \A n \in VarsOf(f) : functions'[f].variables[n].index = IndexOf(f, n)
         /\ functions'[f].parameters = functions[f].parameters
BY DEF SameShape, SameIndices, SameMemory, VarsOf, IndexOf

LEMMA IndexedKept ==
  ASSUME TypeInv, Indexed, SameShape(functions', functions), Open' = Open,
         UNCHANGED <<allVariables, allGlobalVariables>>
  PROVE  Indexed'
<1>1. \A f \in Open : f \in DOMAIN functions
  BY ChainIs DEF TypeInv
<1>2. \A f \in Open : /\ DOMAIN functions'[f].variables = VarsOf(f)
                      /\ \A n \in VarsOf(f) : functions'[f].variables[n].index = IndexOf(f, n)
  BY <1>1, SameShapeIndices
<1>3. Locals' = Locals /\ Locals \subseteq Open /\ GlobalMemory \in Open
  BY ChainIs DEF Locals, TypeInv
<1>4. TablesMatch'
  <2>1. DOMAIN allGlobalVariables' = DOMAIN functions'[GlobalMemory].variables
    BY <1>2, <1>3 DEF Indexed, TablesMatch
  <2>2. ASSUME NEW n \in Names
        PROVE  n \in DOMAIN allVariables' <=>
               \E f \in Locals' : n \in DOMAIN functions'[f].variables
    BY <1>2, <1>3 DEF Indexed, TablesMatch
  <2>3. ASSUME NEW f \in Open', NEW n \in Names, n \in DOMAIN functions'[f].variables
        PROVE  functions'[f].variables[n].index = TableOf(f)'[n]
    BY <1>2, <2>3 DEF Indexed, TablesMatch, TableOf
  <2>4. QED BY <2>1, <2>2, <2>3, Zenon DEF TablesMatch, VarsOf, IndexOf
<1>5. OuterFirst'
  <2>1. ASSUME NEW f \in Locals', NEW g \in Locals', NEW n \in Names, NEW m \in Names,
               f < g, n \in DOMAIN functions'[f].variables, m \in DOMAIN functions'[g].variables
        PROVE  allVariables'[n] < allVariables'[m]
    <3>1. f \in Locals /\ g \in Locals /\ n \in VarsOf(f) /\ m \in VarsOf(g)
      BY <1>2, <1>3, <2>1
    <3>2. allVariables[n] < allVariables[m]
      BY <2>1, <3>1 DEF Indexed, OuterFirst
    <3>3. QED BY <3>2
  <2>2. QED BY <2>1, Zenon DEF OuterFirst, VarsOf
<1>6. Ranked(allVariables') /\ Ranked(allGlobalVariables')
  BY DEF Indexed
<1>7. QED BY <1>4, <1>5, <1>6 DEF Indexed

\* A function ends: it had the highest indices.
LEMMA IndexedAfterEnd ==
  ASSUME TypeInv, Apart, Indexed, SameShape(functions', functions), Open' = Open \ {Current},
         Current # GlobalMemory, allVariables' = Erased(allVariables, VarsOf(Current)),
         UNCHANGED allGlobalVariables
  PROVE  Indexed'
<1> DEFINE c == Current
           T == allVariables
           E == VarsOf(c)
<1>1. /\ \A f \in Open : f \in DOMAIN functions /\ f <= c /\ f \in Nat
      /\ c \in Open /\ GlobalMemory \in Open /\ c \in Nat
  BY ChainIs DEF TypeInv
<1>2. /\ Table(T) /\ (\A n \in DOMAIN T : n \in Names)
      /\ \A f \in DOMAIN functions : VarsOf(f) \subseteq Names
  BY TypedIs, NamesOfIs, MapIs DEF Table
<1>3. \A f \in Open : /\ DOMAIN functions'[f].variables = VarsOf(f)
                      /\ \A n \in VarsOf(f) : functions'[f].variables[n].index = IndexOf(f, n)
  BY <1>1, SameShapeIndices
<1>4. /\ Locals' = Locals \ {c} /\ c \in Locals
      /\ \A f \in Locals : f \in Open /\ (f # c => f < c)
  BY <1>1 DEF Locals
<1>5. ASSUME NEW m \in DOMAIN T \ E, NEW e \in E \cap DOMAIN T PROVE T[m] < T[e]
  <2>1. PICK f \in Locals : m \in VarsOf(f)
    BY <1>2 DEF Indexed, TablesMatch
  <2>2. f < c /\ m \in Names /\ e \in Names
    BY <1>2, <1>4, <2>1
  <2>3. QED BY <1>4, <2>1, <2>2 DEF Indexed, OuterFirst
<1>6. /\ DOMAIN Erased(T, E) = DOMAIN T \ E
      /\ \A m \in DOMAIN T \ E : Erased(T, E)[m] = T[m]
  BY <1>2, ErasedFacts
<1>7. Ranked(Erased(T, E))
  BY <1>2, <1>5, ErasedFacts DEF Indexed
<1>8. allVariables' = Erased(T, E)
  OBVIOUS
<1>9. \A f \in Locals' : \A n \in VarsOf(f) : n \in DOMAIN T \ E
  <2>1. ASSUME NEW f \in Locals', NEW n \in VarsOf(f) PROVE n \in DOMAIN T /\ n \notin E
    <3>1. f \in Locals /\ f # c /\ f \in Open /\ n \in Names
      BY <1>1, <1>2, <1>4
    <3>2. n \in DOMAIN T
      BY <3>1 DEF Indexed, TablesMatch
    <3>3. n \notin VarsOf(c)
      BY <1>1, <3>1 DEF Apart
    <3>4. QED BY <3>2, <3>3
  <2>2. QED BY <2>1
<1> HIDE DEF T, E, c
<1>10. TablesMatch'
  <2>1. DOMAIN allGlobalVariables' = DOMAIN functions'[GlobalMemory].variables
    BY <1>1, <1>3 DEF Indexed, TablesMatch
  <2>2. ASSUME NEW n \in Names
        PROVE  n \in DOMAIN allVariables' <=>
               \E f \in Locals' : n \in DOMAIN functions'[f].variables
    <3>1. ASSUME n \in DOMAIN allVariables'
          PROVE  \E f \in Locals' : n \in DOMAIN functions'[f].variables
      <4>1. n \in DOMAIN T /\ n \notin E
        BY <1>6, <1>8, <3>1
      <4>2. PICK f \in Locals : n \in VarsOf(f)
        BY <4>1 DEF Indexed, TablesMatch, T
      <4>3. f # c
        BY <4>1, <4>2 DEF E
      <4>4. QED BY <1>3, <1>4, <4>2, <4>3
    <3>2. ASSUME NEW f \in Locals', n \in DOMAIN functions'[f].variables
          PROVE  n \in DOMAIN allVariables'
      <4>1. n \in VarsOf(f)
        BY <1>3, <1>4, <3>2
      <4>2. QED BY <1>6, <1>8, <1>9, <4>1
    <3>3. QED BY <3>1, <3>2
  <2>3. ASSUME NEW f \in Open', NEW n \in Names, n \in DOMAIN functions'[f].variables
        PROVE  functions'[f].variables[n].index = TableOf(f)'[n]
    <3>1. f \in Open /\ n \in VarsOf(f) /\ functions'[f].variables[n].index = IndexOf(f, n)
      BY <1>3, <2>3
    <3>2. IndexOf(f, n) = TableOf(f)[n]
      BY <3>1 DEF Indexed, TablesMatch
    <3>3. CASE f = GlobalMemory
      BY <3>1, <3>2, <3>3 DEF TableOf
    <3>4. CASE f # GlobalMemory
      <4>1. f \in Locals'
        BY <3>4 DEF Locals
      <4>2. allVariables'[n] = T[n]
        BY <1>6, <1>8, <1>9, <3>1, <4>1
      <4>3. QED BY <3>1, <3>2, <3>4, <4>2 DEF TableOf, T
    <3>5. QED BY <3>3, <3>4
  <2>4. QED BY <2>1, <2>2, <2>3, Zenon DEF TablesMatch, VarsOf, IndexOf
<1>11. OuterFirst'
  <2>1. ASSUME NEW f \in Locals', NEW g \in Locals', NEW n \in Names, NEW m \in Names,
               f < g, n \in DOMAIN functions'[f].variables, m \in DOMAIN functions'[g].variables
        PROVE  allVariables'[n] < allVariables'[m]
    <3>1. f \in Locals /\ g \in Locals /\ n \in VarsOf(f) /\ m \in VarsOf(g)
      BY <1>3, <1>4, <2>1
    <3>2. T[n] < T[m]
      BY <2>1, <3>1 DEF Indexed, OuterFirst, T
    <3>3. allVariables'[n] = T[n] /\ allVariables'[m] = T[m]
      BY <1>6, <1>8, <1>9, <2>1, <3>1
    <3>4. QED BY <3>2, <3>3
  <2>2. QED BY <2>1, Zenon DEF OuterFirst, VarsOf
<1>12. Ranked(allVariables') /\ Ranked(allGlobalVariables')
  BY <1>7, <1>8 DEF Indexed
<1>13. QED BY <1>10, <1>11, <1>12 DEF Indexed

\* A declaration.
LEMMA IndexedAfterDeclaration ==
  ASSUME TypeInv, Apart, Indexed, Habits = {}, NEW n \in Names, MayDeclare(n), NEW c, NEW i,
         Declares(n, c, i), DeclareInMemory(n, c, i), Open' = Open
  PROVE  Indexed'
<1> DEFINE k == Current
           T == TableOf(Current)
           A == TableAfter(Own.variables, T, n)
           U(f) == DOMAIN functions'[f].variables
<1>1. /\ \A f \in Open : f \in DOMAIN functions /\ f <= k /\ f \in Nat
      /\ k \in Open /\ GlobalMemory \in Open /\ k \in Nat /\ k \in DOMAIN functions
      /\ Own = functions[k]
  BY ChainIs DEF TypeInv
<1>2. \A f \in Open : f # k => n \notin VarsOf(f)
  BY NewName
<1>3. /\ \A f \in DOMAIN functions : f # k => functions'[f] = functions[f]
      /\ U(k) = VarsOf(k) \cup {n}
      /\ \A m \in VarsOf(k) : functions'[k].variables[m].index = IndexOf(k, m)
      /\ n \notin VarsOf(k) => functions'[k].variables[n].index = Insert(T, n)
  BY DEF Declares, VarsOf
<1>4. TableAfterIs(Own.variables, T, n) /\ Table(T)
  BY TypedIs, TableAfterIsSo
<1>5. n \notin VarsOf(k) => n \notin DOMAIN T
  <2>1. ASSUME n \notin VarsOf(k) PROVE n \notin DOMAIN T
    <3>1. CASE k = GlobalMemory
      BY <2>1, <3>1 DEF TableOf, Indexed, TablesMatch
    <3>2. CASE k # GlobalMemory
      <4>1. \A f \in Locals : n \notin VarsOf(f)
        BY <1>2, <2>1 DEF Locals
      <4>2. QED BY <3>2, <4>1 DEF TableOf, Indexed, TablesMatch
    <3>3. QED BY <3>1, <3>2
  <2>2. QED BY <2>1
<1>6. n \in VarsOf(k) => n \in DOMAIN T
  <2>1. ASSUME n \in VarsOf(k) PROVE n \in DOMAIN T
    <3>1. CASE k = GlobalMemory
      BY <2>1, <3>1 DEF TableOf, Indexed, TablesMatch
    <3>2. CASE k # GlobalMemory
      BY <1>1, <2>1, <3>2 DEF TableOf, Indexed, TablesMatch, Locals
    <3>3. QED BY <3>1, <3>2
  <2>2. QED BY <2>1
<1>7. Ranked(T)
  BY DEF Indexed, TableOf
  \* The table after the step.
<1>8. /\ DOMAIN A = DOMAIN T \cup {n} /\ Ranked(A)
      /\ (\A m \in DOMAIN T : A[m] = T[m])
      /\ n \notin DOMAIN T => A[n] = Insert(T, n) /\ A[n] = Cardinality(DOMAIN T)
  <2>1. Ranked(A) /\ \A m \in DOMAIN T : A[m] = T[m]
    BY <1>4, <1>7 DEF TableAfterIs
  <2>2. CASE n \in DOMAIN Own.variables
    <3>1. A = T /\ n \in DOMAIN T
      BY <1>1, <1>4, <1>6, <2>2 DEF TableAfterIs, VarsOf
    <3>2. QED BY <2>1, <3>1
  <2>3. CASE n \notin DOMAIN Own.variables
    <3>1. DOMAIN A = DOMAIN T \cup {n} /\ A[n] = Insert(T, n)
      BY <1>4, <2>3 DEF TableAfterIs
    <3>2. QED BY <2>1, <3>1 DEF Insert
  <2>4. QED BY <2>2, <2>3
<1>9. \A m \in DOMAIN T : T[m] < Cardinality(DOMAIN T)
  BY <1>4, <1>7, RankedBelow
<1>10. /\ k = GlobalMemory => allGlobalVariables' = A /\ allVariables' = allVariables
                              /\ T = allGlobalVariables
       /\ k # GlobalMemory => allVariables' = A /\ allGlobalVariables' = allGlobalVariables
                              /\ T = allVariables
  BY DEF DeclareInMemory, TableOf
<1>11. \A f \in Open : f = k => TableOf(f)' = A
  <2>1. ASSUME NEW f \in Open, f = k PROVE TableOf(f)' = A
    <3>1. CASE f = GlobalMemory
      BY <1>10, <2>1, <3>1 DEF TableOf
    <3>2. CASE f # GlobalMemory
      BY <1>10, <2>1, <3>2 DEF TableOf
    <3>3. QED BY <3>1, <3>2
  <2>2. QED BY <2>1
<1> HIDE DEF A, T
<1>12. Locals' = Locals /\ \A f \in Locals : f \in Open
  BY DEF Locals
<1>13. \A f \in Open : f # k => U(f) = VarsOf(f)
  BY <1>1, <1>3 DEF VarsOf
<1>14. TablesMatch'
  <2>1. DOMAIN allGlobalVariables' = U(GlobalMemory)
    <3>0. DOMAIN allGlobalVariables = VarsOf(GlobalMemory)
      BY DEF Indexed, TablesMatch
    <3>1. CASE k = GlobalMemory
      BY <1>3, <1>8, <1>10, <3>0, <3>1
    <3>2. CASE k # GlobalMemory
      BY <1>1, <1>10, <1>13, <3>0, <3>2
    <3>3. QED BY <3>1, <3>2
  <2>2. ASSUME NEW m \in Names
        PROVE  m \in DOMAIN allVariables' <=> \E f \in Locals' : m \in U(f)
    <3>0. m \in DOMAIN allVariables <=> \E f \in Locals : m \in VarsOf(f)
      BY DEF Indexed, TablesMatch
    <3>1. CASE k = GlobalMemory
      <4>1. \A f \in Locals : U(f) = VarsOf(f)
        BY <1>12, <1>13, <3>1 DEF Locals
      <4>2. QED BY <1>10, <1>12, <3>0, <3>1, <4>1
    <3>2. CASE k # GlobalMemory
      <4>1. k \in Locals
        BY <1>1, <3>2 DEF Locals
      <4>2. m \in DOMAIN allVariables' <=> m \in DOMAIN allVariables \/ m = n
        BY <1>8, <1>10, <3>2
      <4>3. (\E f \in Locals : m \in U(f)) <=> (\E f \in Locals : m \in VarsOf(f)) \/ m = n
        <5>1. \A f \in Locals : m \in U(f) <=> m \in VarsOf(f) \/ (f = k /\ m = n)
          BY <1>3, <1>12, <1>13
        <5> HIDE DEF U, k
        <5>2. QED BY <4>1, <5>1
      <4>4. QED BY <1>12, <3>0, <4>2, <4>3
    <3>3. QED BY <3>1, <3>2
  <2>3. ASSUME NEW f \in Open', NEW m \in Names, m \in U(f)
        PROVE  functions'[f].variables[m].index = TableOf(f)'[m]
    <3>1. CASE f = k
      <4>1. CASE m \in VarsOf(k)
        <5>1. IndexOf(k, m) = T[m]
          BY <1>1, <4>1 DEF Indexed, TablesMatch, T
        <5>2. m \in DOMAIN T
          <6>1. k = GlobalMemory => m \in DOMAIN T
            BY <1>10, <4>1 DEF Indexed, TablesMatch
          <6>2. k # GlobalMemory => m \in DOMAIN T
            BY <1>1, <1>10, <4>1 DEF Indexed, TablesMatch, Locals
          <6>3. QED BY <6>1, <6>2
        <5>3. A[m] = T[m]
          BY <1>8, <5>2
        <5>4. QED BY <1>3, <1>11, <3>1, <4>1, <5>1, <5>3
      <4>2. CASE m \notin VarsOf(k)
        <5>1. m = n
          BY <1>3, <2>3, <3>1, <4>2
        <5>2. functions'[k].variables[n].index = Insert(T, n) /\ A[n] = Insert(T, n)
          BY <1>3, <1>5, <1>8, <4>2, <5>1
        <5>3. QED BY <1>11, <3>1, <5>1, <5>2
      <4>3. QED BY <4>1, <4>2
    <3>2. CASE f # k
      <4>1. f \in Open /\ functions'[f] = functions[f] /\ m \in VarsOf(f)
        BY <1>1, <1>3, <1>13, <2>3, <3>2
      <4>2. functions[f].variables[m].index = TableOf(f)[m]
        BY <4>1 DEF Indexed, TablesMatch, IndexOf
      <4>3. TableOf(f)'[m] = TableOf(f)[m]
        <5>1. CASE f = GlobalMemory
          BY <1>10, <3>2, <5>1 DEF TableOf
        <5>2. CASE f # GlobalMemory
          <6>1. f \in Locals /\ m \in DOMAIN allVariables
            BY <4>1, <5>2 DEF Locals, Indexed, TablesMatch
          <6>2. allVariables'[m] = allVariables[m]
            BY <1>8, <1>10, <6>1
          <6>3. QED BY <5>2, <6>2 DEF TableOf
        <5>3. QED BY <5>1, <5>2
      <4>4. QED BY <4>1, <4>2, <4>3
    <3>3. QED BY <3>1, <3>2
  <2>4. QED BY <2>1, <2>2, <2>3, Zenon DEF TablesMatch, VarsOf, IndexOf
<1>15. OuterFirst'
  <2>1. ASSUME NEW f \in Locals', NEW g \in Locals', NEW x \in Names, NEW m \in Names,
               f < g, x \in U(f), m \in U(g)
        PROVE  allVariables'[x] < allVariables'[m]
    <3>0. f \in Locals /\ g \in Locals /\ f \in Open /\ g \in Open
      BY <1>12, <2>1
    <3>1. f \in Locals /\ g \in Locals /\ f \in Open /\ g \in Open /\ f < k
      BY <1>1, <2>1, <3>0
    <3>2. x \in VarsOf(f) /\ f # k
      BY <1>1, <1>13, <2>1, <3>1
    <3>3. x \in DOMAIN allVariables
      BY <3>1, <3>2 DEF Indexed, TablesMatch
    <3>4. allVariables'[x] = allVariables[x]
      BY <1>8, <1>10, <3>3
    <3>5. CASE m \in VarsOf(g)
      <4>1. m \in DOMAIN allVariables
        BY <3>1, <3>5 DEF Indexed, TablesMatch
      <4>2. allVariables'[m] = allVariables[m]
        BY <1>8, <1>10, <4>1
      <4>3. allVariables[x] < allVariables[m]
        BY <2>1, <3>1, <3>2, <3>5 DEF Indexed, OuterFirst
      <4>4. QED BY <3>4, <4>2, <4>3
    <3>6. CASE m \notin VarsOf(g)
      <4>1. g = k /\ m = n
        BY <1>3, <1>13, <2>1, <3>1, <3>6
      <4>2. k # GlobalMemory
        BY <3>1, <4>1 DEF Locals
      <4>3. allVariables'[m] = Cardinality(DOMAIN T) /\ T = allVariables
        BY <1>5, <1>8, <1>10, <3>6, <4>1, <4>2
      <4>4. QED BY <1>9, <3>3, <3>4, <4>3
    <3>7. QED BY <3>5, <3>6
  <2>2. QED BY <2>1, Zenon DEF OuterFirst, VarsOf
<1>16. Ranked(allVariables') /\ Ranked(allGlobalVariables')
  BY <1>8, <1>10 DEF Indexed
<1>17. QED BY <1>14, <1>15, <1>16 DEF Indexed

\* The parameters of a new function are new names.
LEMMA NewParameters ==
  ASSUME TypeInv, Habits = {}, NEW params \in Parameters, NEW lower, BeginMemory(params, lower)
  PROVE  \A n \in ToSet(params), f \in Open : n \notin VarsOf(f)
<1>1. /\ \A f \in Open : f \in DOMAIN functions
      /\ \A f \in DOMAIN functions : f \in Nat \ {0}
      /\ Open = Enclosing \cup {Current}
  BY ChainIs DEF TypeInv
<1>2. ASSUME NEW n \in ToSet(params), NEW f \in Open PROVE n \notin VarsOf(f)
  <2>1. PICK k \in DOMAIN params : n = params[k]
    BY DEF ToSet
  <2>2. \A g \in Enclosing \cup {Current} : ~Has(g, params[k])
    BY DEF BeginMemory
  <2>3. f # 0 /\ ~Has(f, n)
    BY <1>1, <2>1, <2>2
  <2>4. QED BY <2>3 DEF Has, VarsOf
<1>3. QED BY <1>2

\* A function begins: its parameters get the next indices.
LEMMA IndexedAfterBegin ==
  ASSUME TypeInv, Indexed, NEW params, NEW lower, NEW m, Begins(params, lower, m),
         UNCHANGED allGlobalVariables, \A n \in ToSet(params), f \in Open : n \notin VarsOf(f)
  PROVE  Indexed'
<1> DEFINE T == allVariables
           A == allVariables'
           N == NewFunction
           P == ToSet(params)
           U(f) == DOMAIN functions'[f].variables
<1>1. /\ functions'[N] = m /\ U(N) = P /\ P \subseteq Names /\ Open' = Open \cup {N}
      /\ \A f \in DOMAIN functions : functions'[f] = functions[f] /\ f < N
  BY DEF Begins
<1>2. /\ DOMAIN A = DOMAIN T \cup P /\ (\A x \in P : m.variables[x].index = A[x])
      /\ (Ranked(T) => Ranked(A)) /\ \A x \in DOMAIN T : A[x] = T[x]
  BY DEF Begins, Parametrized
<1>3. /\ Table(T) /\ (\A x \in DOMAIN T : x \in Names /\ T[x] \in Nat)
      /\ (\A f \in Open : f \in DOMAIN functions /\ f \in Nat) /\ GlobalMemory \in Open
      /\ (\A f \in DOMAIN functions : VarsOf(f) \subseteq Names) /\ N \in Nat
  BY TypedIs, MapIs, ChainIs, NamesOfIs DEF Table, TypeInv, NewFunction
<1>4. \A x \in P : x \notin DOMAIN T
  BY <1>1 DEF Indexed, TablesMatch, Locals
<1>5. Cardinality(DOMAIN T) \in Nat
      /\ \A x \in P : A[x] >= Cardinality(DOMAIN T) /\ A[x] \in Nat
  <2>1. Cardinality(DOMAIN T) \in Nat
    BY <1>3, FS_CardinalityType DEF Table
  <2>2. ASSUME NEW x \in P PROVE A[x] >= Cardinality(DOMAIN T) /\ A[x] \in Nat
    <3>1. DOMAIN m.variables = {params[i] : i \in 1..Len(params)} /\ DOMAIN m.variables = P
      BY DEF Begins, Parametrized
    <3>2. PICK i \in 1..Len(params) : x = params[i]
      BY <3>1
    <3>3. \A j \in 1..Len(params) : params[j] \notin DOMAIN T
      BY <1>4, <3>1
    <3>4. A[params[i]] = Cardinality(DOMAIN T) + i - 1
      BY <3>3 DEF Begins, Parametrized
    <3>5. QED BY <2>1, <3>2, <3>4
  <2>3. QED BY <2>1, <2>2
<1> HIDE DEF T, A, N, P
<1>6. /\ N \notin Open /\ N # GlobalMemory /\ Locals' = Locals \cup {N}
      /\ \A f \in Locals : f \in Open /\ f # GlobalMemory
  <2>1. \A f \in Open : f < N
    BY <1>1, <1>3
  <2>2. N \notin Open
    BY <1>3, <2>1
  <2>3. QED BY <1>1, <1>3, <2>2 DEF Locals
<1>7. \A f \in Open : U(f) = VarsOf(f) /\ functions'[f] = functions[f]
  BY <1>1, <1>3 DEF VarsOf
<1>8. TablesMatch'
  <2>1. DOMAIN allGlobalVariables' = U(GlobalMemory)
    BY <1>3, <1>7 DEF Indexed, TablesMatch
  <2>2. ASSUME NEW x \in Names
        PROVE  x \in DOMAIN A <=> \E f \in Locals' : x \in U(f)
    <3>1. x \in DOMAIN T <=> \E f \in Locals : x \in VarsOf(f)
      BY DEF Indexed, TablesMatch, T
    <3>2. (\E f \in Locals' : x \in U(f)) <=> (\E f \in Locals : x \in VarsOf(f)) \/ x \in P
      <4>1. \A f \in Locals : U(f) = VarsOf(f)
        BY <1>6, <1>7
      <4>2. U(N) = P
        BY <1>1
      <4> HIDE DEF U
      <4>3. QED BY <1>6, <4>1, <4>2
    <3>3. QED BY <1>2, <3>1, <3>2
  <2>3. ASSUME NEW f \in Open', NEW x \in Names, x \in U(f)
        PROVE  functions'[f].variables[x].index = TableOf(f)'[x]
    <3>1. CASE f = N
      <4>1. x \in P /\ f # GlobalMemory
        BY <1>1, <1>6, <2>3, <3>1
      <4>2. functions'[f].variables[x].index = A[x]
        BY <1>1, <1>2, <3>1, <4>1
      <4>3. QED BY <4>1, <4>2 DEF TableOf, A
    <3>2. CASE f # N
      <4>1. f \in Open /\ x \in VarsOf(f) /\ functions'[f] = functions[f]
        BY <1>1, <1>7, <2>3, <3>2
      <4>2. functions[f].variables[x].index = TableOf(f)[x]
        BY <4>1 DEF Indexed, TablesMatch, IndexOf
      <4>3. CASE f = GlobalMemory
        BY <4>1, <4>2, <4>3 DEF TableOf
      <4>4. CASE f # GlobalMemory
        <5>1. x \in DOMAIN T
          BY <4>1, <4>4 DEF Indexed, TablesMatch, Locals, T
        <5>2. A[x] = T[x]
          BY <1>2, <5>1
        <5>3. QED BY <4>1, <4>2, <4>4, <5>2 DEF TableOf, A, T
      <4>5. QED BY <4>3, <4>4
    <3>3. QED BY <3>1, <3>2
  <2>4. QED BY <2>1, <2>2, <2>3, Zenon DEF TablesMatch, VarsOf, IndexOf, A
<1>9. OuterFirst'
  <2>1. ASSUME NEW f \in Locals', NEW g \in Locals', NEW x \in Names, NEW y \in Names,
               f < g, x \in U(f), y \in U(g)
        PROVE  A[x] < A[y]
    <3>1. g = N \/ g \in Locals
      BY <1>6
    <3>2. f # N
      <4>1. \A h \in Locals : h \in Nat /\ h < N
        BY <1>1, <1>3, <1>6
      <4>2. QED BY <1>3, <2>1, <3>1, <4>1
    <3>3. f \in Locals /\ x \in VarsOf(f)
      BY <1>6, <1>7, <2>1, <3>2
    <3>4. x \in DOMAIN T
      BY <3>3 DEF Indexed, TablesMatch, T
    <3>5. A[x] = T[x] /\ T[x] \in Nat
      BY <1>2, <1>3, <3>4
    <3>6. CASE g = N
      <4>1. y \in P
        BY <1>1, <2>1, <3>6
      <4>2. T[x] < Cardinality(DOMAIN T)
        BY <1>3, <3>4, RankedBelow DEF Indexed, T
      <4>3. QED BY <1>5, <3>5, <4>1, <4>2
    <3>7. CASE g \in Locals
      <4>1. y \in VarsOf(g)
        BY <1>6, <1>7, <2>1, <3>7
      <4>2. y \in DOMAIN T
        BY <3>7, <4>1 DEF Indexed, TablesMatch, T
      <4>3. A[y] = T[y]
        BY <1>2, <4>2
      <4>4. T[x] < T[y]
        BY <2>1, <3>3, <3>7, <4>1 DEF Indexed, OuterFirst, T
      <4>5. QED BY <3>5, <4>3, <4>4
    <3>8. QED BY <3>1, <3>6, <3>7
  <2>2. QED BY <2>1, Zenon DEF OuterFirst, VarsOf, A
<1>10. Ranked(allVariables') /\ Ranked(allGlobalVariables')
  BY <1>2 DEF Indexed, A, T
<1>11. QED BY <1>8, <1>9, <1>10 DEF Indexed

LEMMA InitIndexed == ASSUME Init PROVE Indexed
<1>1. /\ scopes = <<NewScope(GlobalMemory)>> /\ functions = <<NewMemory(0, 0)>>
      /\ allVariables = <<>> /\ allGlobalVariables = <<>>
  BY DEF Init
<1>2. NewScope(GlobalMemory).function = 1
  BY NewScopeIs DEF GlobalMemory
<1>3. DOMAIN NewMemory(0, 0).variables = {}
  BY NewMemoryIs
<1>4. DOMAIN scopes = {1} /\ scopes[1].function = 1 /\ functions[1] = NewMemory(0, 0)
  BY <1>1, <1>2
<1>5. Open = {1} /\ Locals = {} /\ VarsOf(GlobalMemory) = {}
  BY <1>3, <1>4 DEF Open, Locals, GlobalMemory, VarsOf
<1>6. DOMAIN allVariables = {} /\ DOMAIN allGlobalVariables = {}
  BY <1>1
<1>7. QED BY <1>5, <1>6 DEF Indexed, TablesMatch, OuterFirst, Ranked, GlobalMemory

-----------------------------------------------------------------------------
(* What the steps do to the indices and frames.                             *)

\* A step that declares nothing and ends no function.
Quiet ==
  /\ SameShape(functions', functions) /\ Open' = Open
  /\ \A f \in DOMAIN functions : functions'[f].captures = functions[f].captures
  /\ UNCHANGED <<allVariables, allGlobalVariables>>

LEMMA OpenBlockQuiet == ASSUME TypeInv, OpenBlock PROVE Quiet
<1>1. Typed /\ Chain /\ scopes' = Append(scopes, NewScope(Current))
      /\ UNCHANGED <<functions, allVariables, allGlobalVariables>>
  BY DEF TypeInv, OpenBlock
<1>2. Current \in Nat
  BY <1>1, ChainIs
<1>3. NewScope(Current) \in ScopeType /\ NewScope(Current).function = Current
  BY <1>2, NewScopeIs
<1>4. Open' = Open
  BY <1>1, <1>3, BlockOpened
<1>5. QED BY <1>1, <1>4, SameFunctionsShape DEF Quiet

LEMMA CloseBlockQuiet == ASSUME TypeInv, CloseBlock PROVE Quiet
<1>1. Typed /\ Chain /\ Len(scopes) > 1 /\ scopes[Len(scopes) - 1].function = Current
      /\ scopes' = Front(scopes) /\ functions' = ScopeDied(CurrentScope)
      /\ UNCHANGED <<allVariables, allGlobalVariables>>
  BY DEF TypeInv, CloseBlock
<1>2. SameShape(functions', functions)
      /\ \A f \in DOMAIN functions : functions'[f].captures = functions[f].captures
  BY <1>1, ScopeDiedFacts
<1>3. FunctionsOf(scopes') = Open
  BY <1>1, ShrunkFacts
<1>4. QED BY <1>1, <1>2, <1>3 DEF Quiet, Open, FunctionsOf

LEMMA EndInitializerQuiet == ASSUME TypeInv, EndInitializer PROVE Quiet
<1>1. /\ scopes' = Append(Front(scopes),
                          WithName(CurrentScope, Own.initializing.name, Own.initializing.const))
      /\ UNCHANGED <<allVariables, allGlobalVariables>> /\ Typed /\ Chain
  BY DEF TypeInv, EndInitializer
<1>2. /\ Own.initializing \in Initializer /\ Own.initializing.name \in VarsOf(Current)
      /\ Own.initializing.name \in Names /\ Own.initializing.const \in BOOLEAN
  BY EndInitializerIs
<1>3. FunctionsOf(scopes') = Open
  BY <1>1, <1>2, RenamedFacts
<1>4. SameShape(functions', functions)
      /\ \A f \in DOMAIN functions : functions'[f].captures = functions[f].captures
  BY <1>1, <1>2, EndInitializerFacts
<1>5. QED BY <1>1, <1>3, <1>4 DEF Quiet, Open, FunctionsOf

LEMMA UseQuiet ==
  ASSUME TypeInv, NEW n \in Names, Use(n) \/ Assign(n)
  PROVE  Quiet
<1>1. MayUse(n) /\ functions' = Resolve(n) /\ UNCHANGED <<scopes, allVariables, allGlobalVariables>>
  BY DEF Use, Assign
<1>2. QED BY <1>1, UseTypes DEF Quiet, Resolves, Open

LEMMA LoopOverQuiet ==
  ASSUME TypeInv, NEW n \in Names, LoopOver(n)
  PROVE  Quiet
<1>1. Typed /\ Chain /\ scopes' = Append(scopes, NewScope(Current))
      /\ UNCHANGED <<allVariables, allGlobalVariables>>
  BY DEF TypeInv, LoopOver
<1>2. Current \in Nat
  BY <1>1, ChainIs
<1>3. NewScope(Current) \in ScopeType /\ NewScope(Current).function = Current
  BY <1>2, NewScopeIs
<1>4. Open' = Open
  BY <1>1, <1>3, BlockOpened
<1>5. SameShape(functions', functions)
      /\ \A f \in DOMAIN functions : functions'[f].captures = functions[f].captures
  BY LoopOverIs DEF Resolves
<1>6. QED BY <1>1, <1>4, <1>5 DEF Quiet

\* A step that declares n.
Declaring(n) ==
  /\ MayDeclare(n) /\ Open' = Open
  /\ \E c, i : Declares(n, c, i) /\ DeclareInMemory(n, c, i)

LEMMA DeclareVariableDeclares ==
  ASSUME TypeInv, NEW n \in Names, NEW const \in BOOLEAN,
         DeclareVariable(n, const) \/ DeclareDestructured(n, const)
  PROVE  Declaring(n)
<1> DEFINE i == [name |-> n, const |-> const]
<1>1. i \in Initializer \cup {None} /\ i.name = n
  BY DEF Initializer
<1> HIDE DEF i
<1>2. PICK c \in BOOLEAN : /\ Count /\ MayDeclare(n) /\ DeclareInMemory(n, c, i)
                           /\ scopes' = Append(Front(scopes), WithName(CurrentScope, n, c))
  <2>1. CASE DeclareVariable(n, const)
    <3>1. FALSE \in BOOLEAN /\ Count /\ MayDeclare(n) /\ DeclareInMemory(n, FALSE, i)
          /\ scopes' = Append(Front(scopes), WithName(CurrentScope, n, FALSE))
      BY <2>1 DEF DeclareVariable, i
    <3>2. QED BY <3>1
  <2>2. CASE DeclareDestructured(n, const)
    BY <2>2 DEF DeclareDestructured, i
  <2>3. QED BY <2>1, <2>2
<1>3. Declares(n, c, i)
  BY <1>1, <1>2, DeclarationTypes
<1>4. Open' = Open
  <2>1. FunctionsOf(scopes') = Open
    BY <1>2, RenamedFacts DEF TypeInv
  <2>2. QED BY <2>1 DEF Open, FunctionsOf
<1>5. QED BY <1>2, <1>3, <1>4 DEF Declaring

LEMMA BlockDeclares ==
  ASSUME TypeInv, NEW n \in Names, NEW const \in BOOLEAN, CatchBlock(n) \/ LoopBlock(n, const)
  PROVE  Declaring(n)
<1>1. PICK c \in BOOLEAN, d \in BOOLEAN :
             /\ Count /\ MayDeclare(n) /\ DeclareInMemory(n, c, None)
             /\ scopes' = Append(scopes, WithName(NewScope(Current), n, d))
  <2>1. CASE CatchBlock(n)
    <3>1. FALSE \in BOOLEAN /\ WasConst(n) \in BOOLEAN /\ Count /\ MayDeclare(n)
          /\ DeclareInMemory(n, WasConst(n), None)
          /\ scopes' = Append(scopes, WithName(NewScope(Current), n, FALSE))
      BY <2>1, WasConstIs DEF CatchBlock
    <3>2. QED BY <3>1
  <2>2. CASE LoopBlock(n, const)
    <3>1. FALSE \in BOOLEAN /\ Count /\ MayDeclare(n) /\ DeclareInMemory(n, FALSE, None)
          /\ scopes' = Append(scopes, WithName(NewScope(Current), n, const))
      BY <2>2 DEF LoopBlock
    <3>2. QED BY <3>1
  <2>3. QED BY <2>1, <2>2
<1>2. Declares(n, c, None)
  <2>1. None \in Initializer \cup {None}
    OBVIOUS
  <2>2. QED BY <1>1, <2>1, DeclarationTypes
<1>3. Typed /\ Chain /\ Current \in Nat
  BY ChainIs DEF TypeInv
<1> DEFINE S == WithName(NewScope(Current), n, d)
<1>4. S \in ScopeType /\ S.function = Current
  BY <1>3, NamedScopeIs
<1> HIDE DEF S
<1>5. scopes' = Append(scopes, S)
  BY <1>1 DEF S
<1>6. Open' = Open
  BY <1>3, <1>4, <1>5, BlockOpened
<1>7. QED BY <1>1, <1>2, <1>6 DEF Declaring

\* The end of a function.
LEMMA EndFunctionIs ==
  ASSUME TypeInv, EndFunction
  PROVE  /\ Current # GlobalMemory /\ Open' = Open \ {Current}
         /\ SameShape(functions', functions)
         /\ \A f \in DOMAIN functions : f # Current => functions'[f].captures = functions[f].captures
         /\ functions'[Current].captures =
              IF Own.owner = GlobalMemory THEN {} ELSE GetSharedOwnershipVariables(Own.owner)
         /\ allVariables' = Erased(allVariables, VarsOf(Current)) /\ UNCHANGED allGlobalVariables
<1>1. Typed /\ Chain /\ Len(scopes) > 1 /\ scopes[Len(scopes) - 1].function # Current
      /\ scopes' = Front(scopes)
  BY DEF TypeInv, EndFunction
<1>2. FunctionsOf(scopes') = Open \ {Current}
  BY <1>1, ShrunkFacts
<1>3. Open' = Open \ {Current}
  BY <1>2 DEF Open, FunctionsOf
<1>4. Current # GlobalMemory
  <2>1. /\ DOMAIN scopes = 1..Len(scopes) /\ Len(scopes) \in Nat
        /\ Current = scopes[Len(scopes)].function /\ GlobalMemory = 1
    BY <1>1, ChainIs DEF Current, GlobalMemory
  <2>2. Len(scopes) - 1 \in DOMAIN scopes /\ Len(scopes) \in DOMAIN scopes
    BY <1>1, <2>1
  <2>3. scopes[Len(scopes) - 1].function \in Open /\ scopes[Len(scopes) - 1].function # Current
    BY <1>1, <2>2 DEF Open
  <2>4. scopes[Len(scopes) - 1].function <= Current /\ Current \in Nat
        /\ scopes[Len(scopes) - 1].function \in Nat \ {0}
    BY <1>1, <2>3, ChainIs
  <2>5. QED BY <2>1, <2>3, <2>4
<1>5. allVariables' = Erased(allVariables, VarsOf(Current)) /\ UNCHANGED allGlobalVariables
  <2>1. Own = functions[Current]
    BY <1>1, ChainIs
  <2>2. QED BY <2>1 DEF EndFunction, EraseNames, VarsOf
<1>6. QED BY <1>1, <1>3, <1>4, <1>5, EndFunctionFacts

\* Every step is one of four kinds.
Beginning(params, lower, m) ==
  /\ BeginMemory(params, lower) /\ Begins(params, lower, m)

LEMMA StepKinds ==
  ASSUME TypeInv, [Next]_vars
  PROVE  \/ Quiet \/ EndFunction
         \/ \E n \in Names : Declaring(n)
         \/ \E params \in Parameters : \E lower, m : Beginning(params, lower, m)
<1>1. CASE UNCHANGED vars
  <2>1. SameShape(functions', functions)
    BY <1>1, SameFunctionsShape DEF vars
  <2>2. QED BY <1>1, <2>1 DEF vars, Quiet, Open
<1>2. CASE OpenBlock \/ CloseBlock \/ EndInitializer
  BY <1>2, OpenBlockQuiet, CloseBlockQuiet, EndInitializerQuiet
<1>3. CASE EndFunction
  BY <1>3
<1>4. CASE \E n \in Names, const \in BOOLEAN :
             DeclareVariable(n, const) \/ DeclareDestructured(n, const) \/ LoopBlock(n, const)
  BY <1>4, DeclareVariableDeclares, BlockDeclares
<1>5. ASSUME NEW n \in Names, CatchBlock(n) PROVE Declaring(n)
  <2>1. FALSE \in BOOLEAN
    OBVIOUS
  <2>2. QED BY <1>5, <2>1, BlockDeclares
<1>6. CASE \E n \in Names : Use(n) \/ Assign(n) \/ LoopOver(n)
  BY <1>6, UseQuiet, LoopOverQuiet
<1>7. ASSUME NEW params \in Parameters, BeginFunction(params) \/ BeginLambda(params)
      PROVE  \E lower, m : Beginning(params, lower, m)
  <2>1. PICK lower \in Open \cup {0} : BeginMemory(params, lower) /\ Count
    BY <1>7, LowerIs DEF BeginFunction, BeginLambda
  <2>2. PICK m : Begins(params, lower, m)
    BY <2>1, BeginFacts
  <2>3. QED BY <2>1, <2>2 DEF Beginning
<1>8. QED BY <1>1, <1>2, <1>3, <1>4, <1>5, <1>6, <1>7 DEF Next

LEMMA NextIndexed ==
  ASSUME TypeInv, Lexical, Indexed, Habits = {}, [Next]_vars
  PROVE  Indexed'
<1>1. CASE Quiet
  BY <1>1, IndexedKept DEF Quiet
<1>2. CASE EndFunction
  BY <1>2, EndFunctionIs, IndexedAfterEnd DEF Lexical
<1>3. ASSUME NEW n \in Names, Declaring(n) PROVE Indexed'
  <2>1. PICK c, i : Declares(n, c, i) /\ DeclareInMemory(n, c, i)
    BY <1>3 DEF Declaring
  <2>2. MayDeclare(n) /\ Open' = Open /\ Apart
    BY <1>3 DEF Declaring, Lexical
  <2>3. QED BY <2>1, <2>2, IndexedAfterDeclaration
<1>4. ASSUME NEW params \in Parameters, NEW lower, NEW m, Beginning(params, lower, m) PROVE Indexed'
  <2>1. BeginMemory(params, lower) /\ Begins(params, lower, m)
    BY <1>4 DEF Beginning
  <2>2. UNCHANGED allGlobalVariables
    BY <2>1 DEF BeginMemory
  <2>3. \A n \in ToSet(params), f \in Open : n \notin VarsOf(f)
    BY <2>1, NewParameters
  <2>4. QED BY <2>1, <2>2, <2>3, IndexedAfterBegin
<1>5. QED BY <1>1, <1>2, <1>3, <1>4, StepKinds

-----------------------------------------------------------------------------
(* Frames.                                                                  *)

\* An entry of the tables for every variable of an open function.
LEMMA EntryOf ==
  ASSUME TypeInv, Indexed, NEW f \in Open, NEW n \in VarsOf(f)
  PROVE  n \in DOMAIN TableOf(f) /\ IndexOf(f, n) = TableOf(f)[n] /\ n \in Names
<1>1. n \in Names
  BY ChainIs, NamesOfIs DEF TypeInv
<1>2. IndexOf(f, n) = TableOf(f)[n]
  BY <1>1 DEF Indexed, TablesMatch
<1>3. CASE f = GlobalMemory
  BY <1>1, <1>2, <1>3 DEF Indexed, TablesMatch, TableOf
<1>4. CASE f # GlobalMemory
  BY <1>1, <1>2, <1>4 DEF Indexed, TablesMatch, TableOf, Locals
<1>5. QED BY <1>3, <1>4

\* After a step the variables of an open function have indices of their own.
LEMMA NewIndicesDiffer ==
  ASSUME Typed', Indexed', NEW f \in Locals', f \in DOMAIN functions'
  PROVE  \A n, x \in DOMAIN functions'[f].variables :
           functions'[f].variables[n].index = functions'[f].variables[x].index => n = x
<1>1. DOMAIN functions'[f].variables \subseteq Names
  <2>1. functions'[f] \in Memories
    BY DEF Typed
  <2>2. functions'[f].variables \in Maps(Variable)
    BY <2>1, MemoryIs
  <2>3. QED BY <2>2, MapIs
<1>2. \A n \in DOMAIN functions'[f].variables :
        n \in DOMAIN allVariables' /\ functions'[f].variables[n].index = allVariables'[n]
  <2>1. f \in Open' /\ f # GlobalMemory
    BY DEF Locals
  <2>2. QED BY <1>1, <2>1 DEF Indexed, TablesMatch, TableOf, VarsOf, IndexOf
<1>3. Ranked(allVariables')
  BY DEF Indexed
<1>4. QED BY <1>2, <1>3 DEF Ranked

\* One memory loses nothing in its frame.
FrameOf(m) ==
  /\ \A n \in DOMAIN m.variables :
       /\ m.variables[n].index \notin m.captures
       /\ \A x \in DOMAIN m.variables : m.variables[x].index = m.variables[n].index => x = n

Climbs(m) ==
  \A i, j \in DOMAIN m.parameters :
    i < j => m.variables[m.parameters[i]].index < m.variables[m.parameters[j]].index

LEMMA FramedIs ==
  Framed <=> /\ \A f \in DOMAIN functions : f # GlobalMemory => FrameOf(functions[f])
             /\ \A f \in DOMAIN functions : Climbs(functions[f])
             /\ \A f \in Open : functions[f].captures = {}
<1>1. FramesLoseNothing <=> \A f \in DOMAIN functions : f # GlobalMemory => FrameOf(functions[f])
  BY DEF FramesLoseNothing, FrameOf
<1>2. ParametersClimb <=> \A f \in DOMAIN functions : Climbs(functions[f])
  BY DEF ParametersClimb, Climbs, IndexOf
<1>3. QED BY <1>1, <1>2 DEF Framed, OpenCapturesNothing

LEMMA NewFramedIs ==
  ASSUME \A f \in DOMAIN functions' : f # GlobalMemory => FrameOf(functions'[f]),
         \A f \in DOMAIN functions' : Climbs(functions'[f]),
         \A f \in Open' : functions'[f].captures = {}
  PROVE  Framed'
<1>1. FramesLoseNothing'
  BY DEF FramesLoseNothing, FrameOf
<1>2. ParametersClimb'
  BY DEF ParametersClimb, Climbs, IndexOf
<1>3. QED BY <1>1, <1>2 DEF Framed, OpenCapturesNothing

\* Indices and parameters do not change.
LEMMA SameClimb ==
  ASSUME TypeInv, NEW f \in DOMAIN functions, Climbs(functions[f]), NEW m,
         m.parameters = functions[f].parameters,
         \A n \in VarsOf(f) : m.variables[n].index = IndexOf(f, n)
  PROVE  Climbs(m)
<1>1. \A i \in DOMAIN functions[f].parameters : functions[f].parameters[i] \in VarsOf(f)
  BY DEF TypeInv, Known, ToSet
<1>2. QED BY <1>1 DEF Climbs, IndexOf

LEMMA FramedKept ==
  ASSUME TypeInv, Framed, Quiet
  PROVE  Framed'
<1>1. DOMAIN functions' = DOMAIN functions
  BY DEF Quiet, SameShape
<1>2. ASSUME NEW f \in DOMAIN functions
      PROVE  /\ f # GlobalMemory => FrameOf(functions'[f])
             /\ Climbs(functions'[f]) /\ functions'[f].captures = functions[f].captures
  <2>1. /\ DOMAIN functions'[f].variables = VarsOf(f)
        /\ (\A n \in VarsOf(f) : functions'[f].variables[n].index = IndexOf(f, n))
        /\ functions'[f].parameters = functions[f].parameters
    BY SameShapeIndices DEF Quiet
  <2>2. functions'[f].captures = functions[f].captures
    BY DEF Quiet
  <2>3. (f # GlobalMemory => FrameOf(functions[f])) /\ Climbs(functions[f])
    BY FramedIs
  <2>4. Climbs(functions'[f])
    BY <2>1, <2>3, SameClimb
  <2>5. f # GlobalMemory => FrameOf(functions'[f])
    BY <2>1, <2>2, <2>3 DEF FrameOf, VarsOf, IndexOf
  <2>6. QED BY <2>2, <2>4, <2>5
<1>3. \A f \in Open' : functions'[f].captures = {}
  <2>1. \A f \in Open : f \in DOMAIN functions
    BY ChainIs DEF TypeInv
  <2>2. QED BY <1>2, <2>1, FramedIs DEF Quiet
<1>4. QED BY <1>1, <1>2, <1>3, NewFramedIs

\* A function's captures are variables of its owner: they have lower indices.
LEMMA FramedAfterEnd ==
  ASSUME TypeInv, Indexed, Framed, EndFunction
  PROVE  Framed'
<1> DEFINE c == Current
           o == Own.owner
<1>1. /\ c # GlobalMemory /\ Open' = Open \ {c} /\ SameShape(functions', functions)
      /\ (\A f \in DOMAIN functions : f # c => functions'[f].captures = functions[f].captures)
      /\ functions'[c].captures = IF o = GlobalMemory THEN {} ELSE GetSharedOwnershipVariables(o)
  BY EndFunctionIs
<1>2. /\ c \in Open /\ c \in DOMAIN functions /\ Own = functions[c] /\ c \in Nat
      /\ \A f \in Open : f \in DOMAIN functions
  BY ChainIs DEF TypeInv
<1>3. o \in Open /\ o < c /\ o \in Nat
  <2>1. functions[c].owner \in 1..(c - 1) /\ functions[c].owner \in Open
    BY <1>1, <1>2 DEF TypeInv, Chain, Locals
  <2>2. QED BY <1>2, <2>1
<1>4. DOMAIN functions' = DOMAIN functions
  BY <1>1 DEF SameShape
<1> HIDE DEF c, o
<1>5. ASSUME NEW f \in DOMAIN functions
      PROVE  /\ DOMAIN functions'[f].variables = VarsOf(f)
             /\ (\A n \in VarsOf(f) : functions'[f].variables[n].index = IndexOf(f, n))
             /\ functions'[f].parameters = functions[f].parameters
             /\ (f # GlobalMemory => FrameOf(functions[f])) /\ Climbs(functions[f])
  BY <1>1, SameShapeIndices, FramedIs
<1>6. \A f \in DOMAIN functions : Climbs(functions'[f])
  BY <1>5, SameClimb
<1>7. ASSUME NEW f \in DOMAIN functions, f # GlobalMemory PROVE FrameOf(functions'[f])
  <2>1. \A n, x \in VarsOf(f) : IndexOf(f, n) = IndexOf(f, x) => n = x
    BY <1>5, <1>7 DEF FrameOf, VarsOf, IndexOf
  <2>2. \A n \in VarsOf(f) : IndexOf(f, n) \notin functions'[f].captures
    <3>1. CASE f # c
      <4>1. functions'[f].captures = functions[f].captures
        BY <1>1, <3>1
      <4>2. QED BY <1>5, <1>7, <4>1 DEF FrameOf, VarsOf, IndexOf
    <3>2. CASE f = c
      <4>1. ASSUME NEW n \in VarsOf(c), o # GlobalMemory, NEW x \in VarsOf(o)
            PROVE  IndexOf(o, x) # IndexOf(c, n)
        <5>1. /\ n \in DOMAIN allVariables /\ IndexOf(c, n) = allVariables[n] /\ n \in Names
              /\ x \in DOMAIN allVariables /\ IndexOf(o, x) = allVariables[x] /\ x \in Names
          BY <1>1, <1>2, <1>3, <4>1, EntryOf DEF TableOf
        <5>2. c \in Locals /\ o \in Locals
          BY <1>1, <1>2, <1>3, <4>1 DEF Locals
        <5>3. allVariables[x] < allVariables[n]
          BY <1>3, <4>1, <5>1, <5>2 DEF Indexed, OuterFirst
        <5>4. allVariables[x] \in Nat /\ allVariables[n] \in Nat
          BY <5>1, TypedIs, MapIs DEF Table
        <5>5. QED BY <5>1, <5>3, <5>4
      <4>2. \A e \in functions'[c].captures : o # GlobalMemory /\ \E x \in VarsOf(o) : e = IndexOf(o, x)
        BY <1>1 DEF GetSharedOwnershipVariables, VarsOf, IndexOf
      <4>3. QED BY <3>2, <4>1, <4>2
    <3>3. QED BY <3>1, <3>2
  <2>3. QED BY <1>5, <2>1, <2>2 DEF FrameOf
<1>8. \A f \in Open' : functions'[f].captures = {}
  BY <1>1, <1>2, FramedIs
<1>9. QED BY <1>4, <1>6, <1>7, <1>8, NewFramedIs

LEMMA FramedAfterDeclaration ==
  ASSUME TypeInv, Framed, Typed', Indexed', NEW n \in Names, Declaring(n)
  PROVE  Framed'
<1> DEFINE c == Current
<1>1. PICK e, i : Declares(n, e, i)
  BY DEF Declaring
<1>2. /\ c \in Open /\ c \in DOMAIN functions /\ \A f \in Open : f \in DOMAIN functions
  BY ChainIs DEF TypeInv
<1>3. /\ DOMAIN functions' = DOMAIN functions /\ Open' = Open
      /\ (\A f \in DOMAIN functions : /\ functions'[f].captures = functions[f].captures
                                      /\ functions'[f].parameters = functions[f].parameters
                                      /\ f # c => functions'[f] = functions[f])
      /\ \A x \in VarsOf(c) : functions'[c].variables[x].index = IndexOf(c, x)
  BY <1>1 DEF Declares, SameMemory, Declaring
<1> HIDE DEF c
<1>4. \A f \in Open' : functions'[f].captures = {}
  BY <1>2, <1>3, FramedIs
<1>5. ASSUME NEW f \in DOMAIN functions PROVE Climbs(functions'[f])
  <2>1. Climbs(functions[f])
    BY FramedIs
  <2>2. QED BY <1>3, <2>1, SameClimb
<1>6. ASSUME NEW f \in DOMAIN functions, f # GlobalMemory PROVE FrameOf(functions'[f])
  <2>1. CASE f # c
    BY <1>3, <1>6, <2>1, FramedIs
  <2>2. CASE f = c
    <3>1. f \in Locals' /\ functions'[f].captures = {} /\ f \in DOMAIN functions'
      BY <1>2, <1>3, <1>4, <1>6, <2>2 DEF Locals
    <3>2. \A x, y \in DOMAIN functions'[f].variables :
            functions'[f].variables[x].index = functions'[f].variables[y].index => x = y
      BY <3>1, NewIndicesDiffer
    <3>3. QED BY <3>1, <3>2 DEF FrameOf
  <2>3. QED BY <2>1, <2>2
<1>7. QED BY <1>3, <1>4, <1>5, <1>6, NewFramedIs

LEMMA FramedAfterBegin ==
  ASSUME TypeInv, Indexed, Framed, Typed', Indexed', NEW params \in Parameters, NEW lower, NEW m,
         Begins(params, lower, m), \A n \in ToSet(params), f \in Open : n \notin VarsOf(f)
  PROVE  Framed'
<1> DEFINE N == NewFunction
<1>1. /\ functions'[N] = m /\ m.parameters = params /\ DOMAIN m.variables = ToSet(params)
      /\ Open' = Open \cup {N} /\ DOMAIN functions' = DOMAIN functions \cup {N}
      /\ \A f \in DOMAIN functions : functions'[f] = functions[f] /\ f < N
  BY DEF Begins
<1>2. m.captures = {}
  BY DEF Begins, Parametrized
<1>3. /\ \A f \in Open : f \in DOMAIN functions
      /\ GlobalMemory \in DOMAIN functions /\ N \in Nat /\ GlobalMemory \in Nat
  BY ChainIs DEF TypeInv, NewFunction, GlobalMemory
<1> HIDE DEF N
<1>4. N # GlobalMemory
  BY <1>1, <1>3
<1>5. \A f \in Open' : functions'[f].captures = {}
  BY <1>1, <1>2, <1>3, FramedIs
<1>6. \A f \in DOMAIN functions : (f # GlobalMemory => FrameOf(functions'[f])) /\ Climbs(functions'[f])
  BY <1>1, FramedIs
<1>7. FrameOf(m)
  <2>1. N \in Locals' /\ N \in DOMAIN functions'
    BY <1>1, <1>4 DEF Locals
  <2>2. \A x, y \in DOMAIN functions'[N].variables :
            functions'[N].variables[x].index = functions'[N].variables[y].index => x = y
    BY <2>1, NewIndicesDiffer
  <2>3. QED BY <1>1, <1>2, <2>2 DEF FrameOf
<1>8. Climbs(m)
  <2>1. DOMAIN params = 1..Len(params) /\ Len(params) \in Nat
    BY ParametersAre
  <2>2. \A i \in 1..Len(params) : params[i] \in ToSet(params)
    BY <2>1 DEF ToSet
  <2>3. \A i \in 1..Len(params) : params[i] \notin DOMAIN allVariables
    <3>1. ASSUME NEW i \in 1..Len(params) PROVE params[i] \notin DOMAIN allVariables
      <4>1. params[i] \in Names
        BY <2>2 DEF Begins
      <4>2. \A f \in Locals : params[i] \notin VarsOf(f)
        BY <2>2 DEF Locals
      <4>3. QED BY <4>1, <4>2 DEF Indexed, TablesMatch
    <3>2. QED BY <3>1
  <2>4. \A i \in 1..Len(params) : allVariables'[params[i]] = Cardinality(DOMAIN allVariables) + i - 1
    BY <2>3 DEF Begins, Parametrized
  <2>5. \A x \in DOMAIN m.variables : m.variables[x].index = allVariables'[x]
    BY DEF Begins, Parametrized
  <2>6. Cardinality(DOMAIN allVariables) \in Nat
    BY TypedIs, FS_CardinalityType DEF Table
  <2>7. ASSUME NEW i \in 1..Len(params), NEW j \in 1..Len(params), i < j
        PROVE  m.variables[params[i]].index < m.variables[params[j]].index
    <3>1. /\ m.variables[params[i]].index = Cardinality(DOMAIN allVariables) + i - 1
          /\ m.variables[params[j]].index = Cardinality(DOMAIN allVariables) + j - 1
      BY <1>1, <2>2, <2>4, <2>5
    <3>2. QED BY <2>1, <2>6, <2>7, <3>1
  <2>8. QED BY <1>1, <2>1, <2>7 DEF Climbs
<1>9. QED BY <1>1, <1>5, <1>6, <1>7, <1>8, NewFramedIs

LEMMA InitFramed == ASSUME Init PROVE Framed
<1>1. functions = <<NewMemory(0, 0)>>
  BY DEF Init
<1>2. NewMemory(0, 0).captures = {} /\ NewMemory(0, 0).parameters = <<>>
      /\ DOMAIN NewMemory(0, 0).variables = {}
  BY NewMemoryIs
<1>3. DOMAIN functions = {1} /\ functions[1] = NewMemory(0, 0)
  BY <1>1
<1>4. Open \subseteq {1}
  BY InitTypes, ChainIs, <1>3 DEF TypeInv
<1>5. FrameOf(NewMemory(0, 0)) /\ Climbs(NewMemory(0, 0))
  BY <1>2 DEF FrameOf, Climbs
<1>6. QED BY <1>2, <1>3, <1>4, <1>5, FramedIs

LEMMA NextFramed ==
  ASSUME TypeInv, Indexed, Framed, Typed', Indexed', Habits = {}, [Next]_vars
  PROVE  Framed'
<1>1. CASE Quiet
  BY <1>1, FramedKept
<1>2. CASE EndFunction
  BY <1>2, FramedAfterEnd
<1>3. CASE \E n \in Names : Declaring(n)
  BY <1>3, FramedAfterDeclaration
<1>4. ASSUME NEW params \in Parameters, NEW lower, NEW m, Beginning(params, lower, m) PROVE Framed'
  <2>1. BeginMemory(params, lower) /\ Begins(params, lower, m)
    BY <1>4 DEF Beginning
  <2>2. \A n \in ToSet(params), f \in Open : n \notin VarsOf(f)
    BY <2>1, NewParameters
  <2>3. QED BY <2>1, <2>2, FramedAfterBegin
<1>5. QED BY <1>1, <1>2, <1>3, <1>4, StepKinds

LEMMA NamesHaveSlots ==
  ASSUME TypeInv, Lexical, Indexed
  PROVE  VisibleVariablesApart
<1>1. ASSUME NEW s \in DOMAIN scopes, NEW t \in DOMAIN scopes,
             scopes[s].function = GlobalMemory <=> scopes[t].function = GlobalMemory,
             NEW n \in NamesOf(s), NEW m \in NamesOf(t),
             IndexOf(scopes[s].function, n) = IndexOf(scopes[t].function, m)
      PROVE  s = t /\ n = m
  <2> DEFINE f == scopes[s].function
             g == scopes[t].function
             T == TableOf(f)
  <2>1. n \in VarsOf(f) /\ m \in VarsOf(g) /\ n \in Names /\ m \in Names /\ f \in Open /\ g \in Open
    BY NamesOfIs DEF Lexical, NamesMatch, Open
  <2>2. /\ n \in DOMAIN T /\ IndexOf(f, n) = T[n] /\ m \in DOMAIN TableOf(g)
        /\ IndexOf(g, m) = TableOf(g)[m]
    BY <2>1, EntryOf
  <2>3. TableOf(g) = T /\ Ranked(T)
    BY <1>1 DEF TableOf, Indexed
  <2>4. n = m
    BY <1>1, <2>2, <2>3 DEF Ranked
  <2>5. s = t
    BY <2>1, <2>4 DEF Lexical, NamesApart
  <2>6. QED BY <2>4, <2>5
<1>2. QED BY <1>1 DEF VisibleVariablesApart, NamesOf, IndexOf

\* Visible names have slots of their own, and no variable a frame creates is overwritten
\* by a capture or by another variable (CFunction::CFunction).
THEOREM VariablesHaveSlotsOfTheirOwn ==
  ASSUME Habits = {}
  PROVE  Spec => []SlotsStayApart
<1> DEFINE I == TypeInv /\ Lexical /\ Indexed /\ Framed
<1>1. Init => I
  BY InitTypes, InitLexical, InitIndexed, InitFramed
<1>2. I /\ [Next]_vars => I'
  <2>1. ASSUME I, [Next]_vars PROVE I'
    <3>1. TypeInv' /\ Lexical' /\ Indexed'
      BY <2>1, NextTypes, NextLexical, NextIndexed
    <3>2. Typed'
      BY <3>1 DEF TypeInv
    <3>3. Framed'
      BY <2>1, <3>1, <3>2, NextFramed
    <3>4. QED BY <3>1, <3>3
  <2>2. QED BY <2>1
<1>3. I => SlotsStayApart
  BY NamesHaveSlots DEF SlotsStayApart, Framed
<1>4. QED BY <1>1, <1>2, <1>3, PTL DEF Spec

-----------------------------------------------------------------------------
(* Uses.                                                                    *)

\* A node of function f in the memories F, O being open, is the variable it means.
NodeSound(F, O, f, node) ==
  /\ node.meant[1] \in DOMAIN F /\ node.meant[2] \in DOMAIN F[node.meant[1]].variables
  /\ node.global <=> node.meant[1] = GlobalMemory
  /\ node.index = F[node.meant[1]].variables[node.meant[2]].index
  /\ node.meant[1] \in {GlobalMemory, f, F[f].owner}
  /\ node.meant[1] \notin {GlobalMemory, f} =>
       /\ F[node.meant[1]].variables[node.meant[2]].captured
       /\ f \notin O => node.index \in F[f].captures

UsesSound ==
  \A f \in DOMAIN functions : \A node \in functions[f].uses : NodeSound(functions, Open, f, node)

\* Memories F after memories G: no variable, index or capture is lost.
NothingLost(F, G) ==
  /\ DOMAIN G \subseteq DOMAIN F
  /\ \A g \in DOMAIN G :
       /\ F[g].owner = G[g].owner
       /\ \A n \in DOMAIN G[g].variables :
            /\ n \in DOMAIN F[g].variables
            /\ F[g].variables[n].index = G[g].variables[n].index
            /\ G[g].variables[n].captured => F[g].variables[n].captured

LEMMA NodeStaysSound ==
  ASSUME NEW F, NEW G, NothingLost(F, G), NEW O, NEW Q, NEW f \in DOMAIN G, NEW node,
         NodeSound(G, O, f, node),
         f \notin Q => f \notin O /\ F[f].captures = G[f].captures
  PROVE  NodeSound(F, Q, f, node)
<1> DEFINE g == node.meant[1]
           n == node.meant[2]
<1>1. /\ g \in DOMAIN G /\ n \in DOMAIN G[g].variables /\ (node.global <=> g = GlobalMemory)
      /\ node.index = G[g].variables[n].index /\ g \in {GlobalMemory, f, G[f].owner}
      /\ g \notin {GlobalMemory, f} => /\ G[g].variables[n].captured
                                       /\ f \notin O => node.index \in G[f].captures
  BY DEF NodeSound
<1> HIDE DEF g, n
<1>2. /\ g \in DOMAIN F /\ n \in DOMAIN F[g].variables /\ F[f].owner = G[f].owner
      /\ F[g].variables[n].index = G[g].variables[n].index
      /\ G[g].variables[n].captured => F[g].variables[n].captured
  BY <1>1 DEF NothingLost
<1>3. g \notin {GlobalMemory, f} => /\ F[g].variables[n].captured
                                    /\ f \notin Q => node.index \in F[f].captures
  BY <1>1, <1>2
<1>4. g \in {GlobalMemory, f, F[f].owner} /\ node.index = F[g].variables[n].index
  BY <1>1, <1>2
<1>5. QED BY <1>1, <1>2, <1>3, <1>4 DEF NodeSound, g, n

\* The uses of a function that ends: its captures are all its owner has.
LEMMA NodeIsCaptured ==
  ASSUME NEW F, NEW G, NothingLost(F, G), NEW O, NEW Q, NEW f \in DOMAIN G, NEW node,
         NodeSound(G, O, f, node),
         G[f].owner # GlobalMemory => F[f].captures =
           {G[G[f].owner].variables[n].index : n \in {m \in DOMAIN G[G[f].owner].variables :
                                                      G[G[f].owner].variables[m].captured}}
  PROVE  NodeSound(F, Q, f, node)
<1> DEFINE g == node.meant[1]
           n == node.meant[2]
<1>1. /\ g \in DOMAIN G /\ n \in DOMAIN G[g].variables /\ (node.global <=> g = GlobalMemory)
      /\ node.index = G[g].variables[n].index /\ g \in {GlobalMemory, f, G[f].owner}
      /\ g \notin {GlobalMemory, f} => G[g].variables[n].captured
  BY DEF NodeSound
<1> HIDE DEF g, n
<1>2. /\ g \in DOMAIN F /\ n \in DOMAIN F[g].variables /\ F[f].owner = G[f].owner
      /\ F[g].variables[n].index = G[g].variables[n].index
      /\ G[g].variables[n].captured => F[g].variables[n].captured
  BY <1>1 DEF NothingLost
<1>3. ASSUME g \notin {GlobalMemory, f}
      PROVE  F[g].variables[n].captured /\ node.index \in F[f].captures
  <2>1. g = G[f].owner /\ g # GlobalMemory
    BY <1>1, <1>3
  <2>2. F[f].captures = {G[g].variables[x].index : x \in {m \in DOMAIN G[g].variables :
                                                          G[g].variables[m].captured}}
    BY <2>1
  <2>3. n \in {m \in DOMAIN G[g].variables : G[g].variables[m].captured}
    BY <1>1, <1>3
  <2>4. QED BY <1>1, <1>2, <1>3, <2>2, <2>3
<1>4. g \in {GlobalMemory, f, F[f].owner} /\ node.index = F[g].variables[n].index
  BY <1>1, <1>2
<1>5. QED BY <1>1, <1>2, <1>3, <1>4 DEF NodeSound, g, n

LEMMA NothingLostBySameShape ==
  ASSUME TypeInv, SameShape(functions', functions)
  PROVE  NothingLost(functions', functions)
<1>1. ASSUME NEW g \in DOMAIN functions
      PROVE  /\ functions'[g].owner = functions[g].owner
             /\ \A n \in DOMAIN functions[g].variables :
                  /\ n \in DOMAIN functions'[g].variables
                  /\ functions'[g].variables[n].index = functions[g].variables[n].index
                  /\ functions[g].variables[n].captured => functions'[g].variables[n].captured
  <2>1. /\ SameMemory(functions'[g], functions[g])
        /\ SameIndices(functions'[g].variables, functions[g].variables)
        /\ StaysCaptured(functions'[g].variables, functions[g].variables)
    BY DEF SameShape
  <2>2. QED BY <2>1 DEF SameMemory, SameIndices, StaysCaptured
<1>2. DOMAIN functions \subseteq DOMAIN functions'
  BY DEF SameShape
<1>3. QED BY <1>1, <1>2 DEF NothingLost

\* A step that changes no use.
LEMMA UsesKept ==
  ASSUME UsesSound, NothingLost(functions', functions),
         \A f \in DOMAIN functions' : \A node \in functions'[f].uses :
           f \in DOMAIN functions /\ node \in functions[f].uses,
         \A f \in DOMAIN functions : f \notin Open' =>
           f \notin Open /\ functions'[f].captures = functions[f].captures
  PROVE  UsesSound'
<1>1. ASSUME NEW f \in DOMAIN functions', NEW node \in functions'[f].uses
      PROVE  NodeSound(functions', Open', f, node)
  <2>1. f \in DOMAIN functions /\ node \in functions[f].uses
    OBVIOUS
  <2>2. NodeSound(functions, Open, f, node)
    BY <2>1 DEF UsesSound
  <2>3. f \notin Open' => f \notin Open /\ functions'[f].captures = functions[f].captures
    BY <2>1
  <2>4. QED BY <2>1, <2>2, <2>3, NodeStaysSound
<1>2. QED BY <1>1 DEF UsesSound

\* A step that resolves a name.
LEMMA UsesGrow ==
  ASSUME TypeInv, UsesSound, NEW n, NEW memory, NEW capturing, Resolves(n, memory, capturing),
         Open' = Open, NodeSound(functions', Open', Current, Node(n, memory))
  PROVE  UsesSound'
<1> DEFINE new == Node(n, memory)
           c == Current
           P == Open
<1>1. SameShape(functions', functions)
      /\ \A f \in DOMAIN functions :
           /\ functions'[f].captures = functions[f].captures
           /\ functions'[f].uses = IF f = c THEN functions[f].uses \cup {new} ELSE functions[f].uses
  BY DEF Resolves
<1>2. NothingLost(functions', functions) /\ DOMAIN functions' = DOMAIN functions
  BY <1>1, NothingLostBySameShape DEF SameShape
<1>3. NodeSound(functions', P, c, new)
  OBVIOUS
<1> HIDE DEF new, c, P
<1>4. ASSUME NEW f \in DOMAIN functions, NEW node \in functions'[f].uses
      PROVE  NodeSound(functions', P, f, node)
  <2>1. CASE node \in functions[f].uses
    <3>1. NodeSound(functions, P, f, node)
      BY <2>1 DEF UsesSound, P
    <3>2. functions'[f].captures = functions[f].captures
      BY <1>1
    <3>3. QED BY <1>2, <3>1, <3>2, NodeStaysSound
  <2>2. CASE node \notin functions[f].uses
    <3>1. f = c /\ node = new
      BY <1>1, <2>2
    <3>2. QED BY <1>3, <3>1
  <2>3. QED BY <2>1, <2>2
<1>5. \A f \in DOMAIN functions' : \A node \in functions'[f].uses :
        NodeSound(functions', Open', f, node)
  BY <1>2, <1>4 DEF P
<1>6. QED BY <1>5 DEF UsesSound

LEMMA UseIsSound ==
  ASSUME TypeInv, Lexical, UsesSound, Habits = {}, NEW n \in Names, Use(n) \/ Assign(n)
  PROVE  UsesSound'
<1> DEFINE memory == GetVariableByIdentifier(n)
           capturing == memory # 0 /\ memory = Own.lowerFunction
           node == Node(n, memory)
           c == Current
<1>1. MayUse(n) /\ functions' = Resolve(n) /\ Open' = Open
  BY DEF Use, Assign, Open
<1>2. Resolves(n, memory, capturing)
  BY <1>1, UseTypes
<1>3. memory = Meant(n)[1] /\ memory \in Open /\ n \in VarsOf(memory)
  BY <1>1, ResolvesTheMeaning
<1>4. /\ node.meant = Meant(n) /\ Meant(n)[2] = n /\ (node.global <=> memory = GlobalMemory)
      /\ (memory # 0 => node.index = IndexOf(memory, n))
  BY <1>1, MeantIs DEF Node, MayUse, IndexOf
<1>5. /\ memory \in DOMAIN functions /\ memory # 0 /\ c \in DOMAIN functions /\ Own = functions[c]
      /\ c \in Open
  BY <1>3, ChainIs DEF TypeInv
<1>6. /\ memory \in {GlobalMemory, c, Own.owner}
      /\ memory = Own.owner => Own.owner \in {GlobalMemory, Own.lowerFunction}
  BY <1>1, <1>3 DEF MayUse
<1> HIDE DEF node, memory, c
<1>7. memory \notin {GlobalMemory, c} => capturing
  BY <1>5, <1>6
<1>8. capturing => functions'[memory].variables[n].captured
  BY <1>2 DEF Resolves
<1>9. /\ DOMAIN functions' = DOMAIN functions
      /\ n \in DOMAIN functions'[memory].variables
      /\ functions'[memory].variables[n].index = IndexOf(memory, n)
      /\ functions'[c].owner = functions[c].owner
  <2>1. SameShape(functions', functions)
    BY <1>2 DEF Resolves
  <2>2. /\ DOMAIN functions'[memory].variables = VarsOf(memory)
        /\ \A x \in VarsOf(memory) : functions'[memory].variables[x].index = IndexOf(memory, x)
    BY <1>5, <2>1, SameShapeIndices
  <2>3. functions'[c].owner = functions[c].owner
    BY <1>5, <2>1 DEF SameShape, SameMemory
  <2>4. QED BY <1>3, <2>1, <2>2, <2>3 DEF SameShape
<1> HIDE DEF capturing
<1>10. node.meant[1] = memory /\ node.meant[2] = n
  BY <1>3, <1>4
<1>11. NodeSound(functions', Open', c, node)
  BY <1>1, <1>4, <1>5, <1>6, <1>7, <1>8, <1>9, <1>10 DEF NodeSound
<1>12. NodeSound(functions', Open', Current, Node(n, memory))
  BY <1>11 DEF node, c
<1>13. QED BY <1>1, <1>2, <1>12, UsesGrow

LEMMA LoopOverIsSound ==
  ASSUME TypeInv, Lexical, UsesSound, Habits = {}, NEW n \in Names, LoopOver(n)
  PROVE  UsesSound'
<1> DEFINE c == Current
           node == Node(n, c)
<1>1. Has(c, n) /\ Meant(n)[1] = c /\ VariableExists(n)
  BY LoopsOverTheMeaning
<1>2. Resolves(n, c, FALSE)
  BY <1>1, LoopOverIs
<1>3. Open' = Open
  BY LoopOverQuiet DEF Quiet
<1>4. c \in DOMAIN functions /\ c # 0 /\ n \in VarsOf(c)
  BY <1>1, ChainIs DEF TypeInv, Has, VarsOf
<1>5. /\ node.meant = Meant(n) /\ Meant(n)[2] = n /\ (node.global <=> c = GlobalMemory)
      /\ node.index = IndexOf(c, n)
  BY <1>1, <1>4, MeantIs DEF Node, IndexOf
<1>6. /\ DOMAIN functions' = DOMAIN functions /\ n \in DOMAIN functions'[c].variables
      /\ functions'[c].variables[n].index = IndexOf(c, n)
  <2>1. SameShape(functions', functions)
    BY <1>2 DEF Resolves
  <2>2. QED BY <1>4, <2>1, SameShapeIndices DEF SameShape
<1> HIDE DEF node, c
<1>7. NodeSound(functions', Open', c, node)
  BY <1>1, <1>4, <1>5, <1>6 DEF NodeSound
<1>8. NodeSound(functions', Open', Current, Node(n, c))
  BY <1>7 DEF node, c
<1>9. Resolves(n, c, FALSE) /\ NodeSound(functions', Open', Current, Node(n, c))
  BY <1>2, <1>8
<1>10. QED BY <1>3, <1>9, UsesGrow

LEMMA NextUsesSound ==
  ASSUME TypeInv, Lexical, UsesSound, Habits = {}, [Next]_vars
  PROVE  UsesSound'
<1>1. ASSUME Quiet, \A f \in DOMAIN functions : functions'[f].uses = functions[f].uses
      PROVE  UsesSound'
  <2>1. NothingLost(functions', functions) /\ DOMAIN functions' = DOMAIN functions
    BY <1>1, NothingLostBySameShape DEF Quiet, SameShape
  <2>2. QED BY <1>1, <2>1, UsesKept DEF Quiet
<1>2. CASE UNCHANGED vars
  <2>1. SameShape(functions', functions)
    BY <1>2, SameFunctionsShape DEF vars
  <2>2. Quiet
    BY <1>2, <2>1 DEF vars, Quiet, Open
  <2>3. QED BY <1>1, <1>2, <2>2 DEF vars
<1>3. CASE OpenBlock
  BY <1>1, <1>3, OpenBlockQuiet DEF OpenBlock
<1>4. CASE CloseBlock
  <2>1. \A f \in DOMAIN functions : functions'[f].uses = functions[f].uses
    BY <1>4, ScopeDiedFacts DEF CloseBlock, TypeInv
  <2>2. QED BY <1>1, <1>4, <2>1, CloseBlockQuiet
<1>5. CASE EndInitializer
  <2>1. \A f \in DOMAIN functions : functions'[f].uses = functions[f].uses
    BY <1>5, EndInitializerIs, EndInitializerFacts DEF TypeInv
  <2>2. QED BY <1>1, <1>5, <2>1, EndInitializerQuiet
<1>6. CASE EndFunction
  <2> DEFINE c == Current
             o == Own.owner
  <2>1. /\ c # GlobalMemory /\ Open' = Open \ {c} /\ SameShape(functions', functions)
        /\ (\A f \in DOMAIN functions : f # c => functions'[f].captures = functions[f].captures)
        /\ functions'[c].captures = IF o = GlobalMemory THEN {} ELSE GetSharedOwnershipVariables(o)
    BY <1>6, EndFunctionIs
  <2>2. \A f \in DOMAIN functions : functions'[f].uses = functions[f].uses
    BY <1>6, EndFunctionFacts DEF TypeInv
  <2>3. NothingLost(functions', functions) /\ DOMAIN functions' = DOMAIN functions
    BY <2>1, NothingLostBySameShape DEF SameShape
  <2>4. c \in DOMAIN functions /\ o = functions[c].owner
    BY ChainIs DEF TypeInv
  <2>5. functions[c].owner # GlobalMemory => functions'[c].captures =
          {functions[functions[c].owner].variables[n].index :
             n \in {m \in DOMAIN functions[functions[c].owner].variables :
                    functions[functions[c].owner].variables[m].captured}}
    BY <2>1, <2>4 DEF GetSharedOwnershipVariables
  <2> HIDE DEF c, o
  <2>6. ASSUME NEW f \in DOMAIN functions, NEW node \in functions[f].uses
        PROVE  NodeSound(functions', Open', f, node)
    <3>1. NodeSound(functions, Open, f, node)
      BY DEF UsesSound
    <3>2. CASE f # c
      <4>1. f \notin Open' => f \notin Open /\ functions'[f].captures = functions[f].captures
        BY <2>1, <3>2
      <4>2. QED BY <2>3, <3>1, <4>1, NodeStaysSound
    <3>3. CASE f = c
      BY <2>3, <2>5, <3>1, <3>3, NodeIsCaptured
    <3>4. QED BY <3>2, <3>3
  <2>7. QED BY <2>2, <2>3, <2>6 DEF UsesSound
<1>7. ASSUME NEW n \in Names, Declaring(n) PROVE UsesSound'
  <2>1. PICK e, i : Declares(n, e, i)
    BY <1>7 DEF Declaring
  <2>2. Open' = Open /\ DOMAIN functions' = DOMAIN functions
        /\ \A f \in DOMAIN functions : /\ functions'[f].captures = functions[f].captures
                                       /\ functions'[f].uses = functions[f].uses
    BY <1>7, <2>1 DEF Declaring, Declares
  <2>3. NothingLost(functions', functions)
    <3>1. ASSUME NEW g \in DOMAIN functions
          PROVE  /\ functions'[g].owner = functions[g].owner
                 /\ \A x \in DOMAIN functions[g].variables :
                      /\ x \in DOMAIN functions'[g].variables
                      /\ functions'[g].variables[x].index = functions[g].variables[x].index
                      /\ functions[g].variables[x].captured => functions'[g].variables[x].captured
      <4>1. CASE g = Current
        BY <2>1, <4>1 DEF Declares, VarsOf, IndexOf, SameMemory
      <4>2. CASE g # Current
        BY <2>1, <4>2 DEF Declares
      <4>3. QED BY <4>1, <4>2
    <3>2. QED BY <2>2, <3>1 DEF NothingLost
  <2>4. QED BY <2>2, <2>3, UsesKept
<1>8. ASSUME NEW params \in Parameters, NEW lower, NEW m, Beginning(params, lower, m)
      PROVE  UsesSound'
  <2>1. /\ DOMAIN functions' = DOMAIN functions \cup {NewFunction} /\ Open' = Open \cup {NewFunction}
        /\ functions'[NewFunction] = m /\ \A f \in DOMAIN functions : functions'[f] = functions[f]
    BY <1>8 DEF Beginning, Begins
  <2>2. m.uses = {}
    BY <1>8 DEF Beginning, Begins, Parametrized
  <2>3. NothingLost(functions', functions)
    BY <2>1 DEF NothingLost
  <2>4. \A f \in DOMAIN functions' : \A node \in functions'[f].uses :
           f \in DOMAIN functions /\ node \in functions[f].uses
    BY <2>1, <2>2
  <2>5. QED BY <2>1, <2>3, <2>4, UsesKept
<1>9. CASE \E n \in Names : Use(n) \/ Assign(n) \/ LoopOver(n)
  BY <1>9, UseIsSound, LoopOverIsSound
<1>10. CASE \E n \in Names, const \in BOOLEAN :
              DeclareVariable(n, const) \/ DeclareDestructured(n, const) \/ LoopBlock(n, const)
  BY <1>7, <1>10, DeclareVariableDeclares, BlockDeclares
<1>11. ASSUME NEW n \in Names, CatchBlock(n) PROVE UsesSound'
  <2>1. FALSE \in BOOLEAN
    OBVIOUS
  <2>2. QED BY <1>7, <1>11, <2>1, BlockDeclares
<1>12. ASSUME NEW params \in Parameters, BeginFunction(params) \/ BeginLambda(params)
       PROVE  UsesSound'
  <2>1. PICK lower \in Open \cup {0} : BeginMemory(params, lower) /\ Count
    BY <1>12, LowerIs DEF BeginFunction, BeginLambda
  <2>2. PICK m : Begins(params, lower, m)
    BY <2>1, BeginFacts
  <2>3. QED BY <1>8, <2>1, <2>2 DEF Beginning
<1>13. QED BY <1>2, <1>3, <1>4, <1>5, <1>6, <1>9, <1>10, <1>11, <1>12 DEF Next

LEMMA InitUsesSound == ASSUME Init PROVE UsesSound
<1>1. functions = <<NewMemory(0, 0)>>
  BY DEF Init
<1>2. NewMemory(0, 0).uses = {}
  BY NewMemoryIs
<1>3. QED BY <1>1, <1>2 DEF UsesSound

-----------------------------------------------------------------------------
(* What the slots hold.                                                     *)

\* The variable of the function itself that a slot holds.
OwnFrame(f, slot) ==
  LET own == functions[f].variables
      params == ToSet(functions[f].parameters)
      locals == {n \in DOMAIN own \ params : own[n].index = slot}
      place == Cardinality({n \in params : own[n].index <= slot})
  IN IF locals # {} THEN {<<f, n>> : n \in locals}
     ELSE IF \E n \in params : own[n].index = slot
          THEN {<<f, functions[f].parameters[place]>>}
     ELSE {}

LEMMA FrameIs ==
  ASSUME NEW h, NEW f, NEW slot
  PROVE  Frame(h, f, slot) = IF slot \in functions[f].captures THEN h[functions[f].owner][slot]
                             ELSE OwnFrame(f, slot)
BY DEF Frame, OwnFrame

\* What the first k functions hold.
IsHolds(k, h) ==
  h = [f \in 1..k |-> [slot \in Slots |-> IF f = GlobalMemory THEN {} ELSE Frame(h, f, slot)]]

LEMMA HoldsExist ==
  ASSUME TypeInv, NEW k \in Nat, k <= Len(functions)
  PROVE  \E h : IsHolds(k, h)
<1> DEFINE S == {n \in Nat : n <= Len(functions) /\ ~\E h : IsHolds(n, h)}
<1>1. SUFFICES ASSUME S # {} PROVE FALSE
  OBVIOUS
<1>2. PICK n \in S : \A j \in S : n <= j
  BY <1>1, LeastNumber
<1>3. Len(functions) \in Nat /\ DOMAIN functions = 1..Len(functions)
  BY ChainIs DEF TypeInv
<1>4. CASE n = 0
  <2>1. IsHolds(0, [f \in 1..0 |-> {}])
    BY DEF IsHolds
  <2>2. QED BY <1>2, <1>4, <2>1
<1>5. CASE n # 0
  <2>1. /\ n \in Nat /\ n - 1 \in Nat /\ ~(n <= n - 1) /\ n - 1 <= Len(functions)
        /\ n <= Len(functions)
    BY <1>2, <1>3, <1>5
  <2>2. n - 1 \notin S
    BY <1>2, <2>1
  <2>3. PICK h : IsHolds(n - 1, h)
    BY <2>1, <2>2
  <2> DEFINE g == [f \in 1..n |->
                    [slot \in Slots |-> IF f = GlobalMemory THEN {} ELSE Frame(h, f, slot)]]
  <2>4. ASSUME NEW f \in 1..(n - 1) PROVE g[f] = h[f]
    <3>1. f \in 1..n
      BY <2>1
    <3>2. h[f] = [slot \in Slots |-> IF f = GlobalMemory THEN {} ELSE Frame(h, f, slot)]
      BY <2>3 DEF IsHolds
    <3>3. QED BY <3>1, <3>2, Zenon
  <2>5. ASSUME NEW f \in 1..n, f # GlobalMemory PROVE functions[f].owner \in 1..(n - 1)
    <3>1. f \in DOMAIN functions \ {GlobalMemory}
      BY <1>3, <2>1, <2>5
    <3>2. functions[f].owner \in 1..(f - 1)
      BY <3>1 DEF TypeInv, Chain
    <3>3. QED BY <2>1, <3>2
  <2> DEFINE d == g
  <2>6. \A f \in 1..(n - 1) : d[f] = h[f]
    BY <2>4
  <2> HIDE DEF d
  <2>7. ASSUME NEW f \in 1..n, f # GlobalMemory, NEW slot \in Slots
        PROVE  Frame(h, f, slot) = Frame(d, f, slot)
    <3>1. d[functions[f].owner] = h[functions[f].owner]
      BY <2>5, <2>6, <2>7
    <3>2. QED BY <3>1, FrameIs
  <2>8. g = [f \in 1..n |-> [slot \in Slots |-> IF f = GlobalMemory THEN {} ELSE Frame(d, f, slot)]]
    <3>1. \A f \in 1..n : [slot \in Slots |-> IF f = GlobalMemory THEN {} ELSE Frame(h, f, slot)] =
                          [slot \in Slots |-> IF f = GlobalMemory THEN {} ELSE Frame(d, f, slot)]
      BY <2>7
    <3>2. QED BY <3>1, Zenon
  <2>9. IsHolds(n, d)
    BY <2>8, Zenon DEF IsHolds, d
  <2>10. QED BY <1>2, <2>9
<1>6. QED BY <1>4, <1>5

LEMMA HoldsIs ==
  ASSUME TypeInv
  PROVE  \A f \in DOMAIN functions, slot \in Slots :
           Holds[f][slot] = IF f = GlobalMemory THEN {}
                            ELSE IF slot \in functions[f].captures THEN Holds[functions[f].owner][slot]
                            ELSE OwnFrame(f, slot)
<1> DEFINE k == Len(functions)
           H == CHOOSE h : IsHolds(k, h)
<1>1. k \in Nat /\ k <= k /\ DOMAIN functions = 1..k
  BY ChainIs DEF TypeInv
<1>2. \E h : IsHolds(k, h)
  BY <1>1, HoldsExist
<1>3. IsHolds(k, H)
  BY <1>2, Zenon
<1>4. Holds = H
  BY <1>1 DEF Holds, IsHolds
<1> HIDE DEF H
<1>5. H = [f \in 1..k |-> [slot \in Slots |-> IF f = GlobalMemory THEN {} ELSE Frame(H, f, slot)]]
  BY <1>3 DEF IsHolds
<1>6. ASSUME NEW f \in DOMAIN functions, NEW slot \in Slots
      PROVE  H[f][slot] = IF f = GlobalMemory THEN {} ELSE Frame(H, f, slot)
  <2>1. f \in 1..k
    BY <1>1
  <2>2. H[f] = [s \in Slots |-> IF f = GlobalMemory THEN {} ELSE Frame(H, f, s)]
    BY <1>5, <2>1, Zenon
  <2>3. QED BY <2>2, Zenon
<1>7. QED BY <1>4, <1>6, FrameIs

\* The first k of different elements are k.
LEMMA FirstElements ==
  ASSUME NEW p, NEW k \in Nat, \A i, j \in 1..k : p[i] = p[j] => i = j
  PROVE  Cardinality({p[i] : i \in 1..k}) = k
<1> DEFINE S == {p[i] : i \in 1..k}
           b == [i \in 1..k |-> p[i]]
<1>1. b \in Bijection(1..k, S)
  BY DEF Bijection, Injection, Surjection, IsInjective
<1>2. ExistsBijection(1..k, S)
  BY <1>1 DEF ExistsBijection
<1>3. QED BY <1>2, FS_CountingElements

\* A slot that is no capture holds the variable that has it.
LEMMA OwnSlot ==
  ASSUME TypeInv, NEW f \in DOMAIN functions, FrameOf(functions[f]), Climbs(functions[f]),
         NEW n \in VarsOf(f)
  PROVE  OwnFrame(f, IndexOf(f, n)) = {<<f, n>>}
<1> DEFINE own == functions[f].variables
           p == functions[f].parameters
           P == ToSet(p)
           slot == IndexOf(f, n)
           locals == {x \in DOMAIN own \ P : own[x].index = slot}
           place == Cardinality({x \in P : own[x].index <= slot})
<1>1. /\ P \subseteq DOMAIN own /\ n \in DOMAIN own /\ slot = own[n].index
      /\ \A x \in DOMAIN own : own[x].index \in Nat /\ (own[x].index = slot => x = n)
  <2>1. P \subseteq DOMAIN own /\ n \in DOMAIN own /\ slot = own[n].index
    BY DEF TypeInv, Known, VarsOf, IndexOf
  <2>2. ASSUME NEW x \in DOMAIN own PROVE own[x].index \in Nat
    <3>1. own[x] \in Variable
      BY ConstIs DEF VarsOf
    <3>2. own[x].index \in Slots
      BY <3>1 DEF Variable
    <3>3. QED BY <3>2, SlotsAre
  <2>3. \A x \in DOMAIN own : own[x].index = slot => x = n
    BY <2>1 DEF FrameOf
  <2>4. QED BY <2>1, <2>2, <2>3
<1>2. p \in Seq(Names) /\ Len(p) \in Nat /\ DOMAIN p = 1..Len(p) /\ P = {p[i] : i \in 1..Len(p)}
  <2>1. p \in Seq(Names)
    BY ChainIs, MemoryIs DEF TypeInv
  <2>2. QED BY <2>1 DEF ToSet
<1>3. \A i, j \in 1..Len(p) : i < j => own[p[i]].index < own[p[j]].index
  BY <1>2 DEF Climbs
<1>4. OwnFrame(f, slot) =
        IF locals # {} THEN {<<f, x>> : x \in locals}
        ELSE IF \E x \in P : own[x].index = slot THEN {<<f, p[place]>>} ELSE {}
  BY DEF OwnFrame
<1> HIDE DEF own, p, P, slot
<1>5. CASE n \notin P
  <2>1. locals = {n}
    BY <1>1, <1>5
  <2> HIDE DEF locals
  <2>2. QED BY <1>4, <2>1 DEF slot
<1>6. CASE n \in P
  <2>1. locals = {} /\ \E x \in P : own[x].index = slot
    BY <1>1, <1>6
  <2>2. PICK k \in 1..Len(p) : p[k] = n
    BY <1>2, <1>6
  <2>3. \A i \in 1..Len(p) : own[p[i]].index \in Nat
    BY <1>1, <1>2
  <2>4. \A i \in 1..Len(p) : own[p[i]].index <= slot <=> i <= k
    <3>1. ASSUME NEW i \in 1..Len(p) PROVE own[p[i]].index <= slot <=> i <= k
      <4>1. slot = own[p[k]].index /\ slot \in Nat /\ i \in Nat /\ k \in Nat
        BY <1>1, <1>2, <2>2
      <4>2. i < k => own[p[i]].index < slot
        BY <1>3, <2>2, <4>1
      <4>3. k < i => slot < own[p[i]].index
        BY <1>3, <2>2, <4>1
      <4>4. i = k => own[p[i]].index = slot
        BY <4>1
      <4>5. QED BY <2>3, <4>1, <4>2, <4>3, <4>4
    <3>2. QED BY <3>1
  <2>5. {x \in P : own[x].index <= slot} = {p[i] : i \in 1..k}
    <3>1. ASSUME NEW x, x \in P, own[x].index <= slot PROVE x \in {p[i] : i \in 1..k}
      <4>1. PICK i \in 1..Len(p) : x = p[i]
        BY <1>2, <3>1
      <4>2. i \in 1..k
        BY <1>2, <2>4, <3>1, <4>1
      <4>3. QED BY <4>1, <4>2
    <3>2. ASSUME NEW i \in 1..k PROVE p[i] \in P /\ own[p[i]].index <= slot
      <4>1. i \in 1..Len(p) /\ i <= k
        BY <1>2, <2>2
      <4>2. QED BY <1>2, <2>4, <4>1
    <3>3. QED BY <3>1, <3>2
  <2>6. \A i, j \in 1..k : p[i] = p[j] => i = j
    <3>1. ASSUME NEW i \in 1..k, NEW j \in 1..k, p[i] = p[j] PROVE i = j
      <4>1. i \in 1..Len(p) /\ j \in 1..Len(p)
        BY <1>2, <2>2
      <4>2. ~(i < j) /\ ~(j < i)
        BY <1>3, <2>3, <3>1, <4>1
      <4>3. QED BY <4>1, <4>2
    <3>2. QED BY <3>1
  <2>7. place = k
    <3>1. k \in Nat
      BY <1>2, <2>2
    <3>2. QED BY <2>5, <2>6, <3>1, FirstElements
  <2> HIDE DEF locals, place
  <2>8. QED BY <1>4, <2>1, <2>2, <2>7 DEF slot
<1>7. QED BY <1>5, <1>6

LEMMA SlotHolds ==
  ASSUME TypeInv, Framed, NEW f \in DOMAIN functions, f # GlobalMemory, NEW n \in VarsOf(f)
  PROVE  Holds[f][IndexOf(f, n)] = {<<f, n>>}
<1>1. FrameOf(functions[f]) /\ Climbs(functions[f])
  BY FramedIs
<1>2. IndexOf(f, n) \in Slots
  BY ConstIs DEF Variable, IndexOf
<1>3. IndexOf(f, n) \notin functions[f].captures
  BY <1>1 DEF FrameOf, IndexOf, VarsOf
<1>4. OwnFrame(f, IndexOf(f, n)) = {<<f, n>>}
  BY <1>1, OwnSlot
<1>5. QED BY <1>2, <1>3, <1>4, HoldsIs

\* What a use reaches in a function that has ended, or in the file.
LEMMA UseReaches ==
  ASSUME TypeInv, Indexed, Framed, UsesSound, NEW f \in DOMAIN functions,
         f = GlobalMemory \/ f \notin Open, NEW node \in functions[f].uses
  PROVE  Reached(Holds, f, node) = {node.meant}
<1> DEFINE g == node.meant[1]
           n == node.meant[2]
<1>1. node.meant = <<g, n>>
  <2>1. node \in NodeType
    BY ChainIs, MemoryIs DEF TypeInv
  <2>2. QED BY <2>1 DEF NodeType
<1>2. /\ g \in DOMAIN functions /\ n \in VarsOf(g) /\ (node.global <=> g = GlobalMemory)
      /\ node.index = IndexOf(g, n) /\ g \in {GlobalMemory, f, functions[f].owner}
      /\ (g \notin {GlobalMemory, f} /\ f \notin Open => node.index \in functions[f].captures)
  BY DEF UsesSound, NodeSound, VarsOf, IndexOf
<1> HIDE DEF g, n
<1>3. node.index \in Slots /\ node.index # None
  <2>1. node.index \in Slots
    BY <1>2, ConstIs DEF Variable, IndexOf
  <2>2. QED BY <2>1, SlotsAre, ScopesAssumption
<1>4. CASE g = GlobalMemory
  <2> DEFINE V == functions[GlobalMemory].variables
             X == {m \in DOMAIN V : V[m].index = node.index}
  <2>1. Reached(Holds, f, node) = {<<GlobalMemory, x>> : x \in X}
    BY <1>2, <1>3, <1>4 DEF Reached
  <2>2. GlobalMemory \in Open
    BY ChainIs DEF TypeInv
  <2>3. \A x \in DOMAIN V : x \in DOMAIN allGlobalVariables /\ V[x].index = allGlobalVariables[x]
    BY <2>2, EntryOf DEF TableOf, VarsOf, IndexOf
  <2>4. \A x \in DOMAIN V : V[x].index = V[n].index => x = n
    BY <1>2, <1>4, <2>3 DEF Indexed, Ranked, VarsOf
  <2>5. X = {n}
    BY <1>2, <1>4, <2>4 DEF VarsOf, IndexOf
  <2> HIDE DEF X
  <2>6. QED BY <1>1, <1>4, <2>1, <2>5
<1>5. CASE g # GlobalMemory
  <2>1. f # GlobalMemory
    <3>1. ASSUME f = GlobalMemory PROVE FALSE
      <4>1. functions[f].owner = 0
        BY <3>1 DEF TypeInv, Chain
      <4>2. g = 0
        BY <1>2, <1>5, <3>1, <4>1
      <4>3. QED BY <1>2, <4>2, ChainIs DEF TypeInv
    <3>2. QED BY <3>1
  <2>2. f \notin Open
    BY <2>1
  <2>3. Reached(Holds, f, node) = Holds[f][node.index]
    BY <1>2, <1>3, <1>5 DEF Reached
  <2>4. Holds[g][node.index] = {<<g, n>>}
    BY <1>2, <1>5, SlotHolds
  <2>5. Holds[f][node.index] = Holds[g][node.index]
    <3>1. CASE g = f
      BY <3>1
    <3>2. CASE g # f
      <4>1. g = functions[f].owner /\ node.index \in functions[f].captures
        BY <1>2, <1>5, <2>2, <3>2
      <4>2. QED BY <1>3, <2>1, <4>1, HoldsIs
    <3>3. QED BY <3>1, <3>2
  <2>6. QED BY <1>1, <2>3, <2>4, <2>5
<1>6. QED BY <1>4, <1>5

\* Every identifier reaches, through the index its node copied and the frame of the
\* function it runs in, the variable that was visible where it stands.
THEOREM UsesReachTheirVariables ==
  ASSUME Habits = {}
  PROVE  Spec => []EveryUseReachesItsVariable
<1> DEFINE I == TypeInv /\ Lexical /\ Indexed /\ Framed /\ UsesSound
<1>1. Init => I
  BY InitTypes, InitLexical, InitIndexed, InitFramed, InitUsesSound
<1>2. I /\ [Next]_vars => I'
  <2>1. ASSUME I, [Next]_vars PROVE I'
    <3>1. TypeInv' /\ Lexical' /\ Indexed' /\ UsesSound'
      BY <2>1, NextTypes, NextLexical, NextIndexed, NextUsesSound
    <3>2. Typed'
      BY <3>1 DEF TypeInv
    <3>3. Framed'
      BY <2>1, <3>1, <3>2, NextFramed
    <3>4. QED BY <3>1, <3>3
  <2>2. QED BY <2>1
<1>3. I => EveryUseReachesItsVariable
  <2>1. ASSUME I, NEW f \in DOMAIN functions, f = GlobalMemory \/ ~IsOpen(f),
               NEW node \in functions[f].uses
        PROVE  Reached(Holds, f, node) = {node.meant}
    <3>1. f = GlobalMemory \/ f \notin Open
      BY <2>1 DEF IsOpen, Open
    <3>2. QED BY <2>1, <3>1, UseReaches
  <2>2. QED BY <2>1 DEF EveryUseReachesItsVariable
<1>4. QED BY <1>1, <1>2, <1>3, PTL DEF Spec

=============================================================================
