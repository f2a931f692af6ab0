------------------------------- MODULE Scopes -------------------------------
(***************************************************************************)
(* The linter's scopes and memories (src/linter/scopes, functions,         *)
(* declarations, expressions/identifier.cpp): how a name in a script is    *)
(* resolved to a variable, and how that variable gets its slot in the      *)
(* frames the runtime builds (rtfunction.cpp).                             *)
(*                                                                         *)
(* The state is what the linter knows in the middle of a file: the chain   *)
(* of scopes and one memory per function met so far.  Every action is one  *)
(* construct of the language the linter may meet next, so a behaviour is a *)
(* script.  A scope remembers which function declared a name and whether   *)
(* it is const by then: that is the lexical meaning the properties compare *)
(* the code's tables with; no action reads it.                             *)
(***************************************************************************)
EXTENDS Naturals, Sequences, FiniteSets, SequencesExt

CONSTANTS Names,         \* identifiers of the script
          MaxEvents,     \* bound: constructs of a script
          MaxScopes,     \* bound: length of the scope chain
          MaxParameters, \* bound: parameters of a function
          None,          \* no variable, no initializer
          Habits         \* what scripts do although the linter gets it wrong

ASSUME ScopesAssumption ==
  /\ MaxEvents \in Nat /\ MaxScopes \in Nat /\ MaxParameters \in Nat
  /\ None \notin Names /\ None \notin Nat
  /\ Habits \subseteq {"reusedName", "nestedCapture", "catchAfterConst",
                       "constLoop", "loopOverOuter"}

VARIABLES
  scopes,             \* CScope: the chain, global scope first
  functions,          \* CMemory: global memory first, then functions and lambdas
  allVariables,       \* CFileContext::m_oAllVariables, name -> index
  allGlobalVariables, \* CFileContext::m_oAllGlobalVariables
  assignments,        \* outcomes of assignments: declared const, refused
  events              \* constructs linted so far

vars == <<scopes, functions, allVariables, allGlobalVariables, assignments, events>>

GlobalMemory == 1
CurrentScope == Last(scopes)
Current == CurrentScope.function
Own == functions[Current]

\* The enclosing functions whose linting has not ended, the global memory included.
Enclosing == {scopes[s].function : s \in DOMAIN scopes} \ {Current}

NewScope(f) == [function |-> f, names |-> <<>>]

NewMemory(owner, lower) ==
  [owner |-> owner, lowerFunction |-> lower, variables |-> <<>>, parameters |-> <<>>,
   captures |-> {}, uses |-> {}, initializing |-> None]

Init ==
  /\ scopes = <<NewScope(GlobalMemory)>>
  /\ functions = <<NewMemory(0, 0)>>
  /\ allVariables = <<>> /\ allGlobalVariables = <<>>
  /\ assignments = {}
  /\ events = 0

-----------------------------------------------------------------------------
(* Tables *)

\* A name is known to a scope when any scope below declared it: no shadowing.
VariableExists(n) == \E s \in DOMAIN scopes : n \in DOMAIN scopes[s].names

\* The index a name has in a table, or gets: the table's size at that moment.
Insert(table, n) == IF n \in DOMAIN table THEN table[n] ELSE Cardinality(DOMAIN table)

Inserted(table, n) == [m \in DOMAIN table \cup {n} |-> Insert(table, m)]

Erased(table, names) == [m \in DOMAIN table \ names |-> table[m]]

TableOf(f) == IF f = GlobalMemory THEN allGlobalVariables ELSE allVariables

\* Mutant: indices count the variables of each function.
IndexedPerFunction(variables, table, n) ==
  IF n \in DOMAIN variables THEN variables
  ELSE [m \in DOMAIN variables \cup {n} |->
          IF m = n THEN [index |-> Cardinality(DOMAIN variables), captured |-> FALSE, const |-> FALSE]
          ELSE variables[m]]

\* A function has one variable per name; declaring it again returns the old one.
Declared(variables, table, n) ==
  IF n \in DOMAIN variables THEN variables
  ELSE [m \in DOMAIN variables \cup {n} |->
          IF m = n THEN [index |-> Insert(table, n), captured |-> FALSE, const |-> FALSE]
          ELSE variables[m]]

\* The table changes only when the variable is new to its function.
TableAfter(variables, table, n) ==
  IF n \in DOMAIN variables THEN table ELSE Inserted(table, n)

\* Mutant: the new memory is asked for its lowest function, not the one around it.
GetGlobalFunctionOfNew(f) == IF f = GlobalMemory THEN 0 ELSE Len(functions) + 1

\* The function a lambda takes its captures from; 0 when it has none.
GetGlobalFunction(f) ==
  IF f = GlobalMemory THEN 0
  ELSE IF functions[f].lowerFunction = 0 THEN f ELSE functions[f].lowerFunction

Has(f, n) == f # 0 /\ n \in DOMAIN functions[f].variables

\* Which memory the variable is taken from: global first, then the enclosing
\* function of a lambda, then the function itself.  0: undefined identifier.
GetVariableByIdentifier(n) ==
  IF Has(GlobalMemory, n) THEN GlobalMemory
  ELSE IF Has(Own.lowerFunction, n) THEN Own.lowerFunction
  ELSE IF Has(Current, n) THEN Current ELSE 0

-----------------------------------------------------------------------------
(* The lexical meaning *)

ScopeOf(n) == CHOOSE s \in DOMAIN scopes : n \in DOMAIN scopes[s].names

Meant(n) == <<scopes[ScopeOf(n)].function, n>>

IsConst(n) == scopes[ScopeOf(n)].names[n]

-----------------------------------------------------------------------------
(* Helpers of the actions *)

WithName(scope, n, const) ==
  [scope EXCEPT !.names = [m \in DOMAIN @ \cup {n} |-> IF m = n THEN const ELSE @[m]]]

NoInitializer == Own.initializing = None

\* Outside these habits a name belongs to one open function at a time.
MayDeclare(n) ==
  /\ ~VariableExists(n)
  /\ \/ "reusedName" \in Habits
     \/ \A f \in Enclosing : ~Has(f, n)

WasConst(n) == Has(Current, n) /\ Own.variables[n].const

\* Declares n in the memory of the current function, and its constness.
DeclareInMemory(n, const, initializing) ==
  /\ functions' = [functions EXCEPT
       ![Current].variables =
          LET declared == Declared(@, TableOf(Current), n)
          IN [declared EXCEPT ![n].const = const],
       ![Current].initializing = initializing]
  /\ IF Current = GlobalMemory
     THEN /\ allGlobalVariables' = TableAfter(Own.variables, allGlobalVariables, n)
          /\ UNCHANGED allVariables
     ELSE /\ allVariables' = TableAfter(Own.variables, allVariables, n)
          /\ UNCHANGED allGlobalVariables

\* The node of a use: it copies the index of the variable.
Node(n, memory) ==
  [meant |-> Meant(n), global |-> memory = GlobalMemory,
   index |-> IF memory = 0 THEN None ELSE functions[memory].variables[n].index]

\* Resolves n: a lambda marks the enclosing function's variable as captured.
Resolve(n) ==
  LET memory == GetVariableByIdentifier(n)
      capturing == memory # 0 /\ memory = Own.lowerFunction
      using == [functions EXCEPT ![Current].uses = @ \cup {Node(n, memory)}]
  IN IF capturing THEN [using EXCEPT ![memory].variables[n].captured = TRUE] ELSE using

\* An arrow function below another lambda reaches its own and global variables only.
MayUse(n) ==
  /\ VariableExists(n)
  /\ \/ "nestedCapture" \in Habits
     \/ Meant(n)[1] \in {GlobalMemory, Current, Own.owner}
        /\ (Meant(n)[1] = Own.owner => Own.owner \in {GlobalMemory, Own.lowerFunction})

Parameters == {p \in UNION {[1..k -> Names] : k \in 0..MaxParameters} :
                 \A i, j \in DOMAIN p : p[i] = p[j] => i = j}

\* One parameter more: a variable of its own.
WithParameter(state, n) ==
  [memory |-> [state.memory EXCEPT !.variables = Declared(@, state.table, n),
                                   !.parameters = Append(@, n)],
   table |-> TableAfter(state.memory.variables, state.table, n)]

\* The memory of a new function, its parameters declared one after another.
WithParameters(memory, table, params) ==
  LET after[k \in 0..Len(params)] ==
        IF k = 0 THEN [memory |-> memory, table |-> table]
        ELSE WithParameter(after[k - 1], params[k])
  IN after[Len(params)]

\* A function's memory and scope; its end erases its names from the table.
BeginMemory(params, lower) ==
  LET new == Len(functions) + 1
      declared == WithParameters(NewMemory(Current, lower), allVariables, params)
  IN /\ Len(scopes) < MaxScopes
     /\ \A k \in DOMAIN params :
          /\ ~VariableExists(params[k])
          /\ "reusedName" \in Habits \/ \A f \in Enclosing \cup {Current} : ~Has(f, params[k])
     /\ functions' = Append(functions, declared.memory)
     /\ allVariables' = declared.table
     /\ scopes' = Append(scopes, [function |-> new,
                                  names |-> [n \in ToSet(params) |-> FALSE]])
     /\ UNCHANGED <<allGlobalVariables, assignments>>

\* The captures of a lambda: every variable of its owner any lambda captured.
GetSharedOwnershipVariables(f) ==
  {functions[f].variables[n].index : n \in {m \in DOMAIN functions[f].variables :
                                              functions[f].variables[m].captured}}

\* Mutant: the names of a function stay in the table.
NothingErased(f) == allVariables

EraseNames(f) == Erased(allVariables, DOMAIN functions[f].variables)

\* A scope that dies clears the constness of its names in the global memory,
\* the owner every scope inherits.
ScopeDied(scope) ==
  [functions EXCEPT ![GlobalMemory].variables =
     [n \in DOMAIN @ |-> IF n \in DOMAIN scope.names THEN [@[n] EXCEPT !.const = FALSE] ELSE @[n]]]

Count == events < MaxEvents /\ events' = events + 1

-----------------------------------------------------------------------------
(* Constructs *)

\* A block, or the statement it belongs to.
OpenBlock ==
  /\ Count /\ NoInitializer /\ Len(scopes) < MaxScopes
  /\ scopes' = Append(scopes, NewScope(Current))
  /\ UNCHANGED <<functions, allVariables, allGlobalVariables, assignments>>

CloseBlock ==
  /\ Count /\ NoInitializer
  /\ Len(scopes) > 1 /\ scopes[Len(scopes) - 1].function = Current
  /\ scopes' = Front(scopes)
  /\ functions' = ScopeDied(CurrentScope)
  /\ UNCHANGED <<allVariables, allGlobalVariables, assignments>>

\* Mutant: the variable is const from its name on.
DeclareConstAtOnce(n, const) ==
  /\ Count /\ NoInitializer /\ MayDeclare(n)
  /\ DeclareInMemory(n, const, [name |-> n, const |-> const])
  /\ scopes' = Append(Front(scopes), WithName(CurrentScope, n, FALSE))
  /\ UNCHANGED assignments

\* let n / const n, up to the initializer: the name is known, and not const yet.
DeclareVariable(n, const) ==
  /\ Count /\ NoInitializer /\ MayDeclare(n)
  /\ DeclareInMemory(n, FALSE, [name |-> n, const |-> const])
  /\ scopes' = Append(Front(scopes), WithName(CurrentScope, n, FALSE))
  /\ UNCHANGED assignments

\* let [n] / const [n]: const from here on, the initializer included.
DeclareDestructured(n, const) ==
  /\ Count /\ NoInitializer /\ MayDeclare(n)
  /\ DeclareInMemory(n, const, [name |-> n, const |-> const])
  /\ scopes' = Append(Front(scopes), WithName(CurrentScope, n, const))
  /\ UNCHANGED assignments

EndInitializer ==
  /\ Count /\ ~NoInitializer
  /\ LET declared == Own.initializing
     IN /\ functions' = [functions EXCEPT
              ![Current].variables[declared.name].const = declared.const,
              ![Current].initializing = None]
        /\ scopes' = Append(Front(scopes), WithName(CurrentScope, declared.name, declared.const))
  /\ UNCHANGED <<allVariables, allGlobalVariables, assignments>>

\* catch (n) { : the variable keeps the constness an earlier n left behind.
CatchBlock(n) ==
  /\ Count /\ NoInitializer /\ Len(scopes) < MaxScopes /\ MayDeclare(n)
  /\ "catchAfterConst" \in Habits \/ ~WasConst(n)
  /\ DeclareInMemory(n, WasConst(n), None)
  /\ scopes' = Append(scopes, WithName(NewScope(Current), n, FALSE))
  /\ UNCHANGED assignments

\* for (let n : xs) { and for (const n : xs) { : the variable is never made const.
LoopBlock(n, const) ==
  /\ Count /\ NoInitializer /\ Len(scopes) < MaxScopes /\ MayDeclare(n)
  /\ "constLoop" \in Habits \/ ~const
  /\ DeclareInMemory(n, FALSE, None)
  /\ scopes' = Append(scopes, WithName(NewScope(Current), n, const))
  /\ UNCHANGED assignments

\* fn f(params) {, in the global scope only.
BeginFunction(params) ==
  /\ Count /\ NoInitializer /\ Len(scopes) = 1
  /\ BeginMemory(params, 0)

\* fn(params) { or (params) => inside an expression; the first form not in a lambda.
BeginLambda(params) ==
  /\ Count
  /\ BeginMemory(params, GetGlobalFunction(Current))

\* The end of a function: its captures are collected, its names erased.
EndFunction ==
  /\ Count /\ NoInitializer
  /\ Len(scopes) > 1 /\ scopes[Len(scopes) - 1].function # Current
  /\ scopes' = Front(scopes)
  /\ functions' = [ScopeDied(CurrentScope) EXCEPT
       ![Current].captures =
          IF Own.owner = GlobalMemory THEN {} ELSE GetSharedOwnershipVariables(Own.owner)]
  /\ allVariables' = EraseNames(Current)
  /\ UNCHANGED <<allGlobalVariables, assignments>>

Use(n) ==
  /\ Count /\ MayUse(n)
  /\ functions' = Resolve(n)
  /\ UNCHANGED <<scopes, allVariables, allGlobalVariables, assignments>>

\* n = ...: refused when the variable is const at that moment.
Assign(n) ==
  /\ Count /\ MayUse(n)
  /\ LET memory == GetVariableByIdentifier(n)
     IN /\ memory # 0
        /\ assignments' = assignments \cup
             {[const |-> IsConst(n), refused |-> functions[memory].variables[n].const]}
  /\ functions' = Resolve(n)
  /\ UNCHANGED <<scopes, allVariables, allGlobalVariables>>

\* for (n : xs) { over a variable declared before: looked up in the own memory only.
LoopOver(n) ==
  /\ Count /\ NoInitializer /\ Len(scopes) < MaxScopes
  /\ VariableExists(n)
  /\ "loopOverOuter" \in Habits \/ Has(Current, n)
  /\ LET memory == IF Has(Current, n) THEN Current ELSE 0
     IN /\ functions' = [functions EXCEPT ![Current].uses = @ \cup {Node(n, memory)}]
        /\ assignments' = IF memory = 0 THEN assignments ELSE
             assignments \cup {[const |-> IsConst(n), refused |-> Own.variables[n].const]}
  /\ scopes' = Append(scopes, NewScope(Current))
  /\ UNCHANGED <<allVariables, allGlobalVariables>>

Next ==
  \/ OpenBlock \/ CloseBlock
  \/ \E n \in Names, const \in BOOLEAN :
       DeclareVariable(n, const) \/ DeclareDestructured(n, const) \/ LoopBlock(n, const)
  \/ EndInitializer
  \/ \E n \in Names : CatchBlock(n) \/ Use(n) \/ Assign(n) \/ LoopOver(n)
  \/ \E params \in Parameters : BeginFunction(params) \/ BeginLambda(params)
  \/ EndFunction

Spec == Init /\ [][Next]_vars

-----------------------------------------------------------------------------
(* The frames of the runtime *)

\* The variables a slot of f's frame may hold: a capture first, then a variable,
\* then the argument whose place among the sorted parameter indices it has.
Frame(holds, f, slot) ==
  LET own == functions[f].variables
      params == ToSet(functions[f].parameters)
      locals == {n \in DOMAIN own \ params : own[n].index = slot}
      place == Cardinality({n \in params : own[n].index <= slot})
  IN IF slot \in functions[f].captures THEN holds[functions[f].owner][slot]
     ELSE IF locals # {} THEN {<<f, n>> : n \in locals}
     ELSE IF \E n \in params : own[n].index = slot
          THEN {<<f, functions[f].parameters[place]>>}
     ELSE {}

Slots == 0..(MaxEvents * (MaxParameters + 1))

Holds ==
  LET holds[f \in DOMAIN functions] ==
        [slot \in Slots |-> IF f = GlobalMemory THEN {} ELSE Frame(holds, f, slot)]
  IN holds

\* The variables a node reaches when the function around it runs.
Reached(holds, f, node) ==
  IF node.index = None THEN {}
  ELSE IF node.global
       THEN {<<GlobalMemory, n>> : n \in
               {m \in DOMAIN functions[GlobalMemory].variables :
                  functions[GlobalMemory].variables[m].index = node.index}}
       ELSE holds[f][node.index]

IsOpen(f) == \E s \in DOMAIN scopes : scopes[s].function = f

-----------------------------------------------------------------------------
(* Properties *)

Variable == [index : Slots, captured : BOOLEAN, const : BOOLEAN]
NodeType == [meant : (1..(MaxEvents + 1)) \X Names, global : BOOLEAN, index : Slots \cup {None}]
Initializer == [name : Names, const : BOOLEAN]

\* Every table of the linter maps names to its kind of entry, every scope belongs
\* to a function that exists, and a memory's owner and lower function are older
\* than itself, so that the walk down (stack.cpp:54) ends.
TypeOK ==
  /\ events \in 0..MaxEvents
  /\ assignments \subseteq [const : BOOLEAN, refused : BOOLEAN]
  /\ \A table \in {allVariables, allGlobalVariables} :
       DOMAIN table \subseteq Names /\ \A n \in DOMAIN table : table[n] \in Slots
  /\ \A s \in DOMAIN scopes :
       /\ scopes[s].function \in DOMAIN functions
       /\ DOMAIN scopes[s].names \subseteq Names
       /\ \A n \in DOMAIN scopes[s].names : scopes[s].names[n] \in BOOLEAN
  /\ \A f \in DOMAIN functions :
       /\ functions[f].owner \in 0..(f - 1) /\ functions[f].lowerFunction \in 0..(f - 1)
       /\ \A n \in DOMAIN functions[f].variables : functions[f].variables[n] \in Variable
       /\ ToSet(functions[f].parameters) \subseteq DOMAIN functions[f].variables
       /\ functions[f].captures \subseteq Slots /\ functions[f].uses \subseteq NodeType
       /\ functions[f].initializing \in Initializer \cup {None}

\* When the script runs, every identifier in it reaches the variable that is
\* visible there and no other: resolution, indices, sorted parameters, captures
\* and the frame (CFunction::CFunction) agree about every use that was linted.
EveryUseReachesItsVariable ==
  LET holds == Holds
  IN \A f \in DOMAIN functions : f = GlobalMemory \/ ~IsOpen(f) =>
       \A node \in functions[f].uses : Reached(holds, f, node) = {node.meant}

\* The frame a function runs with has the slot of every local variable it uses:
\* what GetVariableByRef asserts before it reads the slot (rtfunction.cpp:163).
FrameHasEverySlot ==
  LET holds == Holds
  IN \A f \in DOMAIN functions : f = GlobalMemory \/ ~IsOpen(f) =>
       \A node \in functions[f].uses :
         ~node.global /\ node.index # None => Reached(holds, f, node) # {}

\* An assignment is refused exactly when the variable visible there is const by
\* then (CheckConstness): no constness is lost, and none outlives its scope.
ConstIsKept == \A a \in assignments : a.refused = a.const

\* Two names that are visible at once never share a slot of one frame.
VisibleVariablesApart ==
  \A s, t \in DOMAIN scopes :
    LET f == scopes[s].function
        g == scopes[t].function
    IN (f = GlobalMemory <=> g = GlobalMemory) =>
       \A n \in DOMAIN scopes[s].names, m \in DOMAIN scopes[t].names :
         functions[f].variables[n].index = functions[g].variables[m].index => s = t /\ n = m

\* No variable a frame creates is overwritten by another one of the frame: what
\* is overwritten is never released (rtfunction.cpp:142-159).
FramesLoseNothing ==
  \A f \in DOMAIN functions \ {GlobalMemory} :
    LET own == functions[f].variables
    IN \A n \in DOMAIN own :
         /\ own[n].index \notin functions[f].captures
         /\ \A m \in DOMAIN own : own[m].index = own[n].index => m = n

\* Slots are told apart where the linter looks names up and where a frame is built.
SlotsStayApart == VisibleVariablesApart /\ FramesLoseNothing

=============================================================================
