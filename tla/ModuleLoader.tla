---------------------------- MODULE ModuleLoader ----------------------------
(***************************************************************************)
(* Loading a project: the entry file is parsed, every import statement     *)
(* parses the imported file on the spot (CImportLinter::ParseFile inside   *)
(* CBufferLinter::Parse), and the modules that result are set up in the    *)
(* order of their creation when the program runs.                          *)
(*                                                                         *)
(* A file is gone through twice, hoisting and then linting, and its import *)
(* statements take effect in both passes; its module is created between    *)
(* the passes.  The call stack of nested parses is the variable "stack".   *)
(* What a file imports is chosen initially, so that one run covers every   *)
(* project of the bounded size.  Names imported, and syntax errors, are    *)
(* left out.                                                               *)
(***************************************************************************)
EXTENDS Naturals, Sequences, FiniteSets, Functions

CONSTANTS Files,       \* the files of the project
          Main,        \* the one given to LoadScriptFromFile
          MaxImports,  \* import statements per file
          MaxDepth     \* nesting of parses; the C++ stack is bounded as well

ASSUME ModuleLoaderAssumption ==
  /\ IsFiniteSet(Files) /\ Main \in Files
  /\ MaxImports \in Nat /\ MaxDepth \in Nat \ {0}

VARIABLES imports,   \* file -> the targets of its import statements, in order
          visited,   \* CProjectModules::m_oVisitedModules
          graph,     \* CProjectModules::m_oDependencyGraph
          modules,   \* CProjectModules::m_oAllModules, the index is the order
          stack,     \* parses under way: file, pass, next import statement
          outcome,   \* "loading", "rejected", "loaded" or "running"
          evaluated  \* modules whose global expressions have been evaluated

vars == <<imports, visited, graph, modules, stack, outcome, evaluated>>

Top == stack[Len(stack)]
Parse(file) == [file |-> file, pass |-> "hoist", at |-> 1]
Cached == Range(modules)

\* Bug: a dependency listed twice is taken for a cycle.
NoRepeatedDependency(src, g) == \A i, j \in 1 .. Len(g[src]) : g[src][i] = g[src][j] => i = j

\* The walk of CheckCircularDependencies.  It visits a file by returning the
\* result for its first dependency that is on the path (a conflict) or not
\* visited; as nothing but the path has been visited, that is the first one.
NoConflict(src, g) ==
  LET DFS[path \in Seq(Files)] ==
        LET dependencies == g[path[Len(path)]]
        IN  dependencies # <<>> =>
              /\ Head(dependencies) \notin Range(path)
              /\ DFS[Append(path, Head(dependencies))]
  IN  DFS[<<src>>]

-----------------------------------------------------------------------------
Init ==
  /\ imports \in [Files -> UNION {[1 .. n -> Files] : n \in 0 .. MaxImports}]
  /\ visited = {}
  /\ graph = [f \in Files |-> <<>>]
  /\ modules = <<>>
  /\ stack = <<Parse(Main)>>
  /\ outcome = "loading"
  /\ evaluated = 0

\* Bug: the last import statement of a file is taken for its end.
PendingButLast ==
  outcome = "loading" /\ stack # <<>> /\ Top.at < Len(imports[Top.file])

Pending == outcome = "loading" /\ stack # <<>> /\ Top.at <= Len(imports[Top.file])
Target == imports[Top.file][Top.at]
NextStatement(s) == [s EXCEPT ![Len(s)].at = @ + 1]

\* m_oDependencyGraph[sourceFile].push_back(m_oTargetFile)
WithDependency == [graph EXCEPT ![Top.file] = Append(@, Target)]

\* ParseFile gets past its checks: the target is new or its module is there
\* or no conflict is found, and none is found with the dependency added.
Accepted ==
  /\ Target # Top.file
  /\ Target \in visited \ Cached => NoConflict(Top.file, graph)
  /\ NoConflict(Top.file, WithDependency)

\* PushError throws, out of every parse under way.
RejectImport ==
  /\ Pending /\ ~Accepted
  /\ outcome' = "rejected" /\ stack' = <<>>
  /\ UNCHANGED <<imports, visited, graph, modules, evaluated>>

\* GetFileModule finds the module in m_oCachedModules.
ReuseModule ==
  /\ Pending /\ Accepted /\ Target \in Cached
  /\ visited' = visited \cup {Target}
  /\ graph' = WithDependency
  /\ stack' = NextStatement(stack)
  /\ UNCHANGED <<imports, modules, outcome, evaluated>>

\* Bug: m_oCachedModules is not asked.
ParseImportedAnew ==
  /\ Pending /\ Accepted
  /\ Len(stack) < MaxDepth
  /\ visited' = visited \cup {Target}
  /\ graph' = WithDependency
  /\ stack' = Append(stack, Parse(Target))
  /\ UNCHANGED <<imports, modules, outcome, evaluated>>

\* GetFileModule starts a CBufferLinter of its own on the target.
ParseImported ==
  /\ Pending /\ Accepted /\ Target \notin Cached
  /\ Len(stack) < MaxDepth
  /\ visited' = visited \cup {Target}
  /\ graph' = WithDependency
  /\ stack' = Append(stack, Parse(Target))
  /\ UNCHANGED <<imports, modules, outcome, evaluated>>

EndOfBuffer == outcome = "loading" /\ stack # <<>> /\ ~Pending

\* Bug: the newest module comes first.
FinishHoistPrepending ==
  /\ EndOfBuffer /\ Top.pass = "hoist"
  /\ modules' = <<Top.file>> \o modules
  /\ stack' = [stack EXCEPT ![Len(stack)] = [@ EXCEPT !.pass = "lint", !.at = 1]]
  /\ UNCHANGED <<imports, visited, graph, outcome, evaluated>>

\* HoistFile is done: LintFile creates the module and starts over.
FinishHoist ==
  /\ EndOfBuffer /\ Top.pass = "hoist"
  /\ modules' = Append(modules, Top.file)
  /\ stack' = [stack EXCEPT ![Len(stack)] = [@ EXCEPT !.pass = "lint", !.at = 1]]
  /\ UNCHANGED <<imports, visited, graph, outcome, evaluated>>

\* LintFile is done: the importing file goes on, or the script is loaded.
FinishLint ==
  /\ EndOfBuffer /\ Top.pass = "lint"
  /\ LET rest == SubSeq(stack, 1, Len(stack) - 1)
     IN  IF rest = <<>>
         THEN stack' = <<>> /\ outcome' = "loaded"
         ELSE stack' = NextStatement(rest) /\ UNCHANGED outcome
  /\ UNCHANGED <<imports, visited, graph, modules, evaluated>>

\* CProgramRuntime::Execute, one module: SetupGlobalVariables, then
\* EvaluateGlobalExpressions, before the next module has any variable.
EvaluateModule ==
  /\ outcome = "loaded" /\ evaluated < Len(modules)
  /\ evaluated' = evaluated + 1
  /\ outcome' = IF evaluated' = Len(modules) THEN "running" ELSE "loaded"
  /\ UNCHANGED <<imports, visited, graph, modules, stack>>

Next ==
  \/ RejectImport \/ ReuseModule \/ ParseImported
  \/ FinishHoist \/ FinishLint \/ EvaluateModule

\* The loader is one thread that only stops when it is done.
Spec == Init /\ [][Next]_vars /\ WF_vars(Next)

-----------------------------------------------------------------------------
(* What a project is, independently of how it is loaded. *)

\* Files reached from S by one or more import statements.
Imported(S) == UNION {Range(imports[f]) : f \in S}
Dependencies(f) ==
  LET within[n \in 0 .. Cardinality(Files)] ==
        IF n = 0 THEN {} ELSE within[n - 1] \cup Imported({f} \cup within[n - 1])
  IN  within[Cardinality(Files)]
Project == {Main} \cup Dependencies(Main)
Cyclic == \E f \in Project : f \in Dependencies(f)

TypeOK ==
  /\ visited \subseteq Files
  /\ graph \in [Files -> Seq(Files)]
  /\ modules \in Seq(Files)
  /\ Len(stack) <= MaxDepth
  /\ \A i \in 1 .. Len(stack) :
       /\ stack[i].file \in Files /\ stack[i].pass \in {"hoist", "lint"}
       /\ stack[i].at \in 1 .. Len(imports[stack[i].file]) + 1
  /\ outcome \in {"loading", "rejected", "loaded", "running"}
  /\ evaluated \in 0 .. Len(modules)

\* "circular dependency detected" is only said of projects that have one:
\* neither diamonds nor importing a file twice is an error, although every
\* import statement is seen twice.
OnlyCyclesRejected == outcome = "rejected" => Cyclic

\* No file becomes two modules: its globals exist once, whoever imports them.
OneModulePerFile == \A i, j \in 1 .. Len(modules) : modules[i] = modules[j] => i = j

\* When a module's global expressions are evaluated, every module they can
\* name was set up before (GetGlobalVariableByIndex asserts that the index
\* is below the number of variables, which is zero until then).
ImportsEvaluatedFirst ==
  \A i \in 1 .. evaluated : \A f \in Range(imports[modules[i]]) :
    \E j \in 1 .. (i - 1) : modules[j] = f

\* The program that runs consists of the files of the project, all of them.
WholeProjectRuns == outcome = "running" => Cached = Project

\* A project without circular imports is loaded and run.
AcyclicProjectsRun == (outcome = "loading" /\ ~Cyclic) ~> (outcome = "running")

\* A file whose module is not cached "hasn't been parsed yet" (ParseFile), so
\* that no file is parsed while a parse of it is under way.
NeverParsedWithinItself ==
  \A i, j \in 1 .. Len(stack) : stack[i].file = stack[j].file => i = j
=============================================================================
