-------------------------- MODULE ModuleLoader_proof --------------------------
(***************************************************************************)
(* Proofs about ModuleLoader for every project: any number of files, any   *)
(* import statements, cycles included, and any depth of nested parses.     *)
(***************************************************************************)
EXTENDS ModuleLoader, SequenceTheorems, FiniteSetTheorems, WellFoundedInduction, TLAPS

Entries == [file : Files, pass : {"hoist", "lint"}, at : Nat \ {0}]

Types ==
  /\ imports \in [Files -> Seq(Files)]
  /\ visited \subseteq Files /\ graph \in [Files -> Seq(Files)] /\ modules \in Seq(Files)
  /\ stack \in Seq(Entries) /\ Len(stack) <= MaxDepth
  /\ outcome \in {"loading", "rejected", "loaded", "running"}
  /\ evaluated \in 0 .. Len(modules)

ImportsCached(file) == \A j \in 1 .. Len(imports[file]) : imports[file][j] \in Cached

\* A file that is hoisted has no module yet, and every import it is done with has one;
\* only the innermost parse can be linting, when all its imports have one.
Parsing(e, innermost) ==
  /\ e.at <= Len(imports[e.file]) + 1
  /\ e.pass = "hoist" => /\ e.file \notin Cached
                         /\ \A j \in 1 .. e.at - 1 : imports[e.file][j] \in Cached
  /\ e.pass = "lint" => innermost /\ e.file \in Cached /\ ImportsCached(e.file)

\* A parse is at the import statement whose target the next parse is about.
Nested(s) ==
  \A i \in 1 .. Len(s) - 1 :
    s[i].at <= Len(imports[s[i].file]) /\ s[i + 1].file = imports[s[i].file][s[i].at]

Parses(s) == (\A i \in 1 .. Len(s) : Parsing(s[i], i = Len(s))) /\ Nested(s)

\* The modules a module imports were created before it.
ImportsAreEarlier ==
  \A i \in 1 .. Len(modules) : \A k \in 1 .. Len(imports[modules[i]]) :
    \E j \in 1 .. (i - 1) : modules[j] = imports[modules[i]][k]

IInv == Types /\ Parses(stack) /\ ImportsAreEarlier /\ OneModulePerFile

-----------------------------------------------------------------------------
(* Sequences.                                                               *)

LEMMA NonEmpty ==
  ASSUME NEW S, NEW s \in Seq(S), s # <<>>
  PROVE  Len(s) \in Nat \ {0} /\ Len(s) \in 1 .. Len(s) /\ s[Len(s)] \in S
<1>1. Len(s) \in Nat /\ Len(s) > 0
  BY EmptySeq
<1>2. QED BY <1>1

LEMMA LastReplaced ==
  ASSUME NEW S, NEW s \in Seq(S), s # <<>>, NEW g \in S
  PROVE  LET t == [s EXCEPT ![Len(s)] = g]
         IN  /\ t \in Seq(S) /\ Len(t) = Len(s) /\ t[Len(s)] = g
             /\ \A i \in 1 .. Len(s) : i # Len(s) => t[i] = s[i]
BY NonEmpty

LEMMA AllButLast ==
  ASSUME NEW S, NEW s \in Seq(S), s # <<>>
  PROVE  LET t == SubSeq(s, 1, Len(s) - 1)
         IN  /\ t \in Seq(S) /\ Len(t) = Len(s) - 1
             /\ \A i \in 1 .. Len(s) - 1 : t[i] = s[i]
<1> DEFINE n == Len(s) - 1
           t == SubSeq(s, 1, n)
<1>1. n \in Nat /\ \A i \in 1 .. n : s[i] \in S
  BY NonEmpty
<1> HIDE DEF n
<1>2. /\ t \in Seq(S)
      /\ Len(t) = IF 1 <= n THEN n - 1 + 1 ELSE 0
      /\ \A i \in 1 .. n - 1 + 1 : t[i] = s[1 + i - 1]
  BY <1>1, SubSeqProperties
<1> HIDE DEF t
<1>3. Len(t) = n
  BY <1>1, <1>2
<1>4. ASSUME NEW i \in 1 .. n PROVE t[i] = s[i]
  <2>1. i \in 1 .. n - 1 + 1 /\ 1 + i - 1 = i
    BY <1>1
  <2>2. QED BY <1>2, <2>1
<1>5. QED BY <1>2, <1>3, <1>4 DEF n, t

LEMMA RangeOfSequence ==
  ASSUME NEW S, NEW s \in Seq(S)
  PROVE  Range(s) = {s[i] : i \in 1 .. Len(s)}
BY DEF Range

LEMMA RangeOfAppend ==
  ASSUME NEW S, NEW s \in Seq(S), NEW x \in S
  PROVE  Range(Append(s, x)) = Range(s) \cup {x}
<1> DEFINE t == Append(s, x)
<1>1. /\ t \in Seq(S) /\ Len(t) = Len(s) + 1 /\ Len(s) \in Nat
      /\ \A i \in 1 .. Len(s) : t[i] = s[i]
      /\ t[Len(s) + 1] = x
  BY AppendProperties
<1> HIDE DEF t
<1>2. Range(t) = {t[i] : i \in 1 .. Len(s) + 1} /\ Range(s) = {s[i] : i \in 1 .. Len(s)}
  BY <1>1, RangeOfSequence
<1>3. ASSUME NEW y PROVE y \in Range(t) <=> y \in Range(s) \cup {x}
  <2>1. ASSUME y \in Range(t) PROVE y \in Range(s) \cup {x}
    <3>1. PICK i \in 1 .. Len(s) + 1 : y = t[i]
      BY <1>2, <2>1
    <3>2. CASE i = Len(s) + 1
      BY <1>1, <3>1, <3>2
    <3>3. CASE i # Len(s) + 1
      <4>1. i \in 1 .. Len(s)
        BY <1>1, <3>3
      <4>2. QED BY <1>1, <1>2, <3>1, <4>1
    <3>4. QED BY <3>2, <3>3
  <2>2. ASSUME y \in Range(s) PROVE y \in Range(t)
    <3>1. PICK i \in 1 .. Len(s) : y = s[i]
      BY <1>2, <2>2
    <3>2. i \in 1 .. Len(s) + 1 /\ y = t[i]
      BY <1>1, <3>1
    <3>3. QED BY <1>2, <3>2
  <2>3. x \in Range(t)
    <3>1. Len(s) + 1 \in 1 .. Len(s) + 1
      BY <1>1
    <3>2. QED BY <1>1, <1>2, <3>1
  <2>4. QED BY <2>1, <2>2, <2>3
<1>4. QED BY <1>3 DEF t

LEMMA StepOver ==
  ASSUME NEW s \in Seq(Entries), s # <<>>
  PROVE  /\ NextStatement(s) \in Seq(Entries) /\ Len(NextStatement(s)) = Len(s)
         /\ \A i \in 1 .. Len(s) : i # Len(s) => NextStatement(s)[i] = s[i]
         /\ NextStatement(s)[Len(s)].file = s[Len(s)].file
         /\ NextStatement(s)[Len(s)].pass = s[Len(s)].pass
         /\ NextStatement(s)[Len(s)].at = s[Len(s)].at + 1
<1> DEFINE e == s[Len(s)]
           h == [e EXCEPT !.at = @ + 1]
<1>1. e \in Entries /\ Len(s) \in 1 .. Len(s)
  BY NonEmpty
<1> HIDE DEF e
<1>2. h \in Entries /\ h.file = e.file /\ h.pass = e.pass /\ h.at = e.at + 1
  BY <1>1 DEF Entries
<1>3. PICK g \in Entries : g = h /\ g.file = e.file /\ g.pass = e.pass /\ g.at = e.at + 1
  <2> HIDE DEF h
  <2>1. QED BY <1>2
<1>4. NextStatement(s) = [s EXCEPT ![Len(s)] = g]
  BY <1>1, <1>3 DEF NextStatement, e
<1>5. QED BY <1>3, <1>4, LastReplaced DEF e

LEMMA ParseIsAnEntry ==
  ASSUME NEW f \in Files
  PROVE  Parse(f) \in Entries /\ Parse(f).file = f /\ Parse(f).pass = "hoist" /\ Parse(f).at = 1
BY DEF Parse, Entries

-----------------------------------------------------------------------------
(* The stack of parses, while no module is created.                         *)

\* What is cached, and so every conjunct about modules, stays.
LEMMA SameModules ==
  ASSUME UNCHANGED <<imports, modules>>
  PROVE  /\ Cached' = Cached
         /\ ImportsAreEarlier => ImportsAreEarlier'
         /\ OneModulePerFile => OneModulePerFile'
BY DEF Cached, ImportsAreEarlier, OneModulePerFile

LEMMA SameModulesParse ==
  ASSUME UNCHANGED <<imports, modules>>, NEW t, t = stack', Parses(t)
  PROVE  Parses(stack)'
<1>1. Cached' = Cached
  BY SameModules
<1>2. ASSUME NEW i \in 1 .. Len(t) PROVE Parsing(stack[i], i = Len(stack))'
  BY <1>1, <1>2 DEF Parses, Parsing, ImportsCached
<1>3. Nested(stack)'
  BY DEF Parses, Nested
<1>4. QED BY <1>2, <1>3 DEF Parses

LEMMA NothingParsed == Parses(<<>>)
BY EmptySeq DEF Parses, Nested

\* The parse below the innermost one goes on hoisting.
LEMMA Shortened ==
  ASSUME NEW s \in Seq(Entries), s # <<>>, Parses(s)
  PROVE  Parses(SubSeq(s, 1, Len(s) - 1))
<1> DEFINE t == SubSeq(s, 1, Len(s) - 1)
<1>1. /\ Len(t) = Len(s) - 1 /\ Len(s) \in Nat \ {0}
      /\ \A i \in 1 .. Len(s) - 1 : t[i] = s[i]
  BY AllButLast, NonEmpty
<1> HIDE DEF t
<1>2. ASSUME NEW i \in 1 .. Len(t) PROVE Parsing(t[i], i = Len(t))
  <2>1. i \in 1 .. Len(s) /\ i # Len(s) /\ t[i] = s[i]
    BY <1>1
  <2>2. Parsing(t[i], FALSE)
    <3>1. Parsing(s[i], i = Len(s)) /\ (i = Len(s)) = FALSE
      BY <2>1 DEF Parses
    <3>2. QED BY <2>1, <3>1
  <2>3. QED BY <2>2 DEF Parsing
<1>3. Nested(t)
  <2>1. ASSUME NEW i \in 1 .. Len(t) - 1
        PROVE  i \in 1 .. Len(s) - 1 /\ t[i] = s[i] /\ t[i + 1] = s[i + 1]
    BY <1>1
  <2>2. QED BY <2>1 DEF Nested, Parses
<1>4. QED BY <1>2, <1>3 DEF Parses, t

\* The innermost parse may go past an import whose target has a module.
LEMMA Advanced ==
  ASSUME imports \in [Files -> Seq(Files)],
         NEW s \in Seq(Entries), s # <<>>, Parses(s),
         s[Len(s)].at <= Len(imports[s[Len(s)].file]),
         imports[s[Len(s)].file][s[Len(s)].at] \in Cached
  PROVE  Parses(NextStatement(s))
<1> DEFINE t == NextStatement(s)
           n == Len(s)
           e == s[n]
           h == t[n]
<1>1. /\ Len(t) = n /\ n \in Nat \ {0} /\ n \in 1 .. n
      /\ e \in Entries /\ h.file = e.file /\ h.pass = e.pass /\ h.at = e.at + 1
      /\ \A i \in 1 .. n : i # n => t[i] = s[i]
  BY NonEmpty, StepOver
<1>2. Parsing(e, TRUE) /\ Nested(s)
  BY <1>1 DEF Parses
<1>3. /\ e.file \in Files /\ e.at \in Nat \ {0} /\ Len(imports[e.file]) \in Nat
      /\ e.at <= Len(imports[e.file]) /\ imports[e.file][e.at] \in Cached
  BY <1>1 DEF Entries
<1>4. \A i \in 1 .. n - 1 : s[i].at \in Nat /\ t[i] = s[i] /\ t[i + 1].file = s[i + 1].file
  <2>1. ASSUME NEW i \in 1 .. n - 1 PROVE i \in 1 .. n /\ i # n /\ i + 1 \in 1 .. n
    BY <1>1
  <2>2. \A i \in 1 .. n : s[i] \in Entries
    OBVIOUS
  <2>3. \A f \in Entries : f.at \in Nat
    BY DEF Entries
  <2>4. QED BY <1>1, <2>1, <2>2, <2>3
<1>5. Parsing(h, TRUE)
  <2>1. h.at <= Len(imports[h.file]) + 1
    BY <1>1, <1>3
  <2>2. ASSUME h.pass = "hoist", NEW j \in 1 .. h.at - 1 PROVE imports[h.file][j] \in Cached
    <3>1. j = e.at \/ j \in 1 .. e.at - 1
      BY <1>1, <1>3
    <3>2. QED BY <1>1, <1>2, <1>3, <2>2, <3>1 DEF Parsing
  <2>3. QED BY <1>1, <1>2, <2>1, <2>2 DEF Parsing
<1>6. \A i \in 1 .. n : Parsing(t[i], i = n)
  <2>1. ASSUME NEW i \in 1 .. n, i # n PROVE Parsing(t[i], i = n)
    <3>1. Parsing(s[i], i = n) /\ t[i] = s[i]
      BY <1>1, <2>1 DEF Parses
    <3>2. QED BY <3>1
  <2>2. ASSUME NEW i \in 1 .. n, i = n PROVE Parsing(t[i], i = n)
    <3>1. t[i] = h /\ (i = n) = TRUE
      BY <2>2
    <3>2. QED BY <1>5, <3>1
  <2>3. QED BY <2>1, <2>2
<1>7. Nested(t)
  BY <1>1, <1>2, <1>4 DEF Nested
<1>8. QED BY <1>1, <1>6, <1>7 DEF Parses

-----------------------------------------------------------------------------
(* The steps.                                                               *)

LEMMA InitIInv ==
  ASSUME Init
  PROVE  IInv
<1>1. imports \in [Files -> Seq(Files)]
  <2>1. \A n \in Nat : [1 .. n -> Files] \subseteq Seq(Files)
    OBVIOUS
  <2>2. \A n \in 0 .. MaxImports : n \in Nat
    BY ModuleLoaderAssumption
  <2>3. UNION {[1 .. n -> Files] : n \in 0 .. MaxImports} \subseteq Seq(Files)
    BY <2>1, <2>2
  <2>4. imports \in [Files -> UNION {[1 .. n -> Files] : n \in 0 .. MaxImports}]
    BY DEF Init
  <2> HIDE DEF Init
  <2>5. QED BY <2>3, <2>4, Zenon
<1>2. Cached = {}
  BY DEF Cached, Range, Init
<1>3. PICK e \in Entries : e = Parse(Main) /\ e.file = Main /\ e.pass = "hoist" /\ e.at = 1
  BY ParseIsAnEntry, ModuleLoaderAssumption
<1>4. stack = <<e>> /\ Len(stack) = 1 /\ stack[1] = e /\ stack \in Seq(Entries)
  BY <1>3 DEF Init
<1>5. Types
  <2>1. modules = <<>> /\ modules \in Seq(Files) /\ Len(modules) = 0
    BY DEF Init
  <2>2. graph \in [Files -> Seq(Files)]
    BY DEF Init
  <2>3. QED BY <1>1, <1>4, <2>1, <2>2, ModuleLoaderAssumption DEF Types, Init
<1>6. Parses(stack)
  <2>1. Len(imports[Main]) \in Nat
    BY <1>1, ModuleLoaderAssumption
  <2>2. Parsing(e, TRUE)
    BY <1>2, <1>3, <2>1 DEF Parsing
  <2>3. \A i \in 1 .. Len(stack) : stack[i] = e /\ (i = Len(stack)) = TRUE
    BY <1>4
  <2>4. Nested(stack)
    BY <1>4 DEF Nested
  <2>5. QED BY <2>2, <2>3, <2>4 DEF Parses
<1>7. ImportsAreEarlier /\ OneModulePerFile
  BY DEF ImportsAreEarlier, OneModulePerFile, Init
<1>8. QED BY <1>5, <1>6, <1>7 DEF IInv

\* What an import statement finds.
LEMMA AtAnImport ==
  ASSUME IInv, Pending
  PROVE  /\ Top \in Entries /\ Top.file \in Files /\ Top.at \in 1 .. Len(imports[Top.file])
         /\ Target \in Files /\ WithDependency \in [Files -> Seq(Files)]
         /\ Parsing(Top, TRUE)
<1>1. stack # <<>> /\ stack \in Seq(Entries) /\ Parses(stack)
  BY DEF IInv, Types, Pending
<1>2. Len(stack) \in 1 .. Len(stack) /\ Top \in Entries
  BY <1>1, NonEmpty DEF Top
<1>3. Parsing(Top, TRUE)
  BY <1>1, <1>2 DEF Parses, Top
<1>4. Top.file \in Files /\ Top.at \in Nat \ {0}
  BY <1>2 DEF Entries
<1>5. imports[Top.file] \in Seq(Files) /\ Top.at <= Len(imports[Top.file])
  BY <1>4 DEF IInv, Types, Pending
<1>6. Top.at \in 1 .. Len(imports[Top.file]) /\ Target \in Files
  BY <1>4, <1>5 DEF Target
<1>7. WithDependency \in [Files -> Seq(Files)]
  BY <1>4, <1>6 DEF WithDependency, IInv, Types
<1>8. QED BY <1>2, <1>3, <1>4, <1>6, <1>7

LEMMA ReuseIInv ==
  ASSUME IInv, ReuseModule
  PROVE  IInv'
<1>1. /\ stack # <<>> /\ stack \in Seq(Entries) /\ Parses(stack)
      /\ imports \in [Files -> Seq(Files)]
      /\ UNCHANGED <<imports, modules, outcome, evaluated>>
      /\ Pending /\ Target \in Cached
  BY DEF IInv, Types, ReuseModule, Pending
<1>2. /\ Top.at <= Len(imports[Top.file]) /\ Target \in Files
      /\ WithDependency \in [Files -> Seq(Files)]
  BY <1>1, AtAnImport
<1>3. PICK t : t = NextStatement(stack)
  OBVIOUS
<1>4. t \in Seq(Entries) /\ Len(t) = Len(stack) /\ Parses(t)
  BY <1>1, <1>2, <1>3, StepOver, Advanced DEF Top, Target, Pending
<1>5. stack' = t /\ visited' \subseteq Files /\ graph' \in [Files -> Seq(Files)]
  BY <1>2, <1>3 DEF ReuseModule, IInv, Types
<1>6. Parses(stack)'
  BY <1>1, <1>4, <1>5, SameModulesParse
<1>7. Types'
  BY <1>1, <1>4, <1>5 DEF IInv, Types
<1>8. QED BY <1>1, <1>6, <1>7, SameModules DEF IInv

LEMMA ParseIInv ==
  ASSUME IInv, ParseImported
  PROVE  IInv'
<1> DEFINE n == Len(stack)
<1>1. /\ stack # <<>> /\ stack \in Seq(Entries) /\ Parses(stack)
      /\ imports \in [Files -> Seq(Files)]
      /\ UNCHANGED <<imports, modules, outcome, evaluated>>
      /\ Pending /\ Target \notin Cached /\ Len(stack) < MaxDepth
  BY DEF IInv, Types, ParseImported, Pending
<1>2. /\ Top \in Entries /\ Top.file \in Files /\ Top.at \in 1 .. Len(imports[Top.file])
      /\ Target \in Files /\ WithDependency \in [Files -> Seq(Files)] /\ Parsing(Top, TRUE)
  BY <1>1, AtAnImport
<1>3. PICK e \in Entries : e = Parse(Target) /\ e.file = Target /\ e.pass = "hoist" /\ e.at = 1
  BY <1>2, ParseIsAnEntry
<1>4. PICK t : t = Append(stack, e)
  OBVIOUS
<1>5. /\ n \in Nat \ {0} /\ t \in Seq(Entries) /\ Len(t) = n + 1 /\ t[n + 1] = e
      /\ \A i \in 1 .. n : t[i] = stack[i]
  BY <1>1, <1>4, NonEmpty, AppendProperties
<1>6. Parses(t)
  <2>1. Parsing(e, TRUE)
    <3>1. Len(imports[e.file]) \in Nat
      BY <1>1, <1>3
    <3>2. QED BY <1>1, <1>3, <3>1 DEF Parsing
  <2>2. Parsing(Top, FALSE)
    <3>1. Top.pass # "lint"
      BY <1>1, <1>2 DEF Parsing, ImportsCached, Target
    <3>2. QED BY <1>2, <3>1 DEF Parsing
  <2>3. ASSUME NEW i \in 1 .. n + 1 PROVE Parsing(t[i], i = n + 1)
    <3>1. CASE i = n + 1
      <4>1. t[i] = e /\ (i = n + 1) = TRUE
        BY <1>5, <3>1
      <4>2. QED BY <2>1, <4>1
    <3>2. CASE i = n
      <4>1. t[i] = Top /\ (i = n + 1) = FALSE
        BY <1>5, <3>2 DEF Top
      <4>2. QED BY <2>2, <4>1
    <3>3. CASE i < n
      <4>1. /\ i \in 1 .. n /\ t[i] = stack[i]
            /\ (i = n + 1) = FALSE /\ (i = n) = FALSE
        BY <1>5, <3>3
      <4>2. Parsing(stack[i], i = n)
        BY <1>1, <4>1 DEF Parses
      <4>3. QED BY <4>1, <4>2
    <3>4. QED BY <1>5, <3>1, <3>2, <3>3
  <2>4. Nested(t)
    <3>1. ASSUME NEW i \in 1 .. n, i # n PROVE i \in 1 .. n - 1 /\ i + 1 \in 1 .. n
      BY <1>5, <3>1
    <3>2. ASSUME NEW i \in 1 .. n
          PROVE  t[i].at <= Len(imports[t[i].file]) /\ t[i + 1].file = imports[t[i].file][t[i].at]
      <4>1. CASE i = n
        BY <1>2, <1>3, <1>5, <4>1 DEF Top, Target
      <4>2. CASE i # n
        BY <1>1, <1>5, <3>1, <4>2 DEF Parses, Nested
      <4>3. QED BY <4>1, <4>2
    <3>3. Len(t) - 1 = n
      BY <1>5
    <3>4. QED BY <3>2, <3>3 DEF Nested
  <2>5. QED BY <1>5, <2>3, <2>4 DEF Parses
<1>7. stack' = t /\ visited' \subseteq Files /\ graph' \in [Files -> Seq(Files)]
  BY <1>2, <1>3, <1>4 DEF ParseImported, IInv, Types
<1>8. Parses(stack)'
  BY <1>1, <1>6, <1>7, SameModulesParse
<1>9. Types'
  <2>1. Len(t) <= MaxDepth
    BY <1>1, <1>5, ModuleLoaderAssumption
  <2>2. QED BY <1>1, <1>5, <1>7, <2>1 DEF IInv, Types
<1>10. QED BY <1>1, <1>8, <1>9, SameModules DEF IInv

\* At the end of a file's buffer all of its imports have a module.
LEMMA AtTheEnd ==
  ASSUME IInv, EndOfBuffer
  PROVE  /\ stack # <<>> /\ stack \in Seq(Entries) /\ Parses(stack)
         /\ imports \in [Files -> Seq(Files)]
         /\ Len(stack) \in Nat \ {0} /\ Len(stack) \in 1 .. Len(stack)
         /\ Top \in Entries /\ Top.file \in Files
         /\ Top.pass \in {"hoist", "lint"} /\ Parsing(Top, TRUE)
         /\ ImportsCached(Top.file)
<1>1. /\ stack # <<>> /\ stack \in Seq(Entries) /\ Parses(stack)
      /\ imports \in [Files -> Seq(Files)]
  BY DEF IInv, Types, EndOfBuffer
<1>2. /\ Len(stack) \in Nat \ {0} /\ Len(stack) \in 1 .. Len(stack) /\ Top \in Entries
      /\ Top.file \in Files /\ Top.at \in Nat \ {0} /\ Top.pass \in {"hoist", "lint"}
  <2>1. Len(stack) \in Nat \ {0} /\ Len(stack) \in 1 .. Len(stack) /\ Top \in Entries
    BY <1>1, NonEmpty DEF Top
  <2>2. \A e \in Entries : e.file \in Files /\ e.at \in Nat \ {0} /\ e.pass \in {"hoist", "lint"}
    BY DEF Entries
  <2>3. QED BY <2>1, <2>2
<1>3. Parsing(Top, TRUE)
  BY <1>1, <1>2 DEF Parses, Top
<1>4. ~(Top.at <= Len(imports[Top.file])) /\ Len(imports[Top.file]) \in Nat
  BY <1>1, <1>2 DEF EndOfBuffer, Pending
<1>5. ImportsCached(Top.file)
  <2>1. ASSUME Top.pass = "hoist", NEW j \in 1 .. Len(imports[Top.file])
        PROVE  imports[Top.file][j] \in Cached
    <3>1. j \in 1 .. Top.at - 1
      BY <1>2, <1>4
    <3>2. QED BY <1>3, <2>1, <3>1 DEF Parsing
  <2>2. QED BY <1>2, <1>3, <2>1 DEF Parsing, ImportsCached
<1>6. QED BY <1>1, <1>2, <1>3, <1>5

\* No parse below the innermost one is of its file, when all its imports have a module.
LEMMA ParsedOnce ==
  ASSUME IInv, EndOfBuffer, Top.pass = "hoist",
         NEW i \in 1 .. Len(stack), i # Len(stack)
  PROVE  /\ stack[i].pass = "hoist" /\ stack[i].file # Top.file
         /\ Parsing(stack[i], FALSE)
<1> DEFINE n == Len(stack)
<1>1. /\ stack \in Seq(Entries) /\ Parses(stack) /\ n \in Nat
      /\ imports \in [Files -> Seq(Files)] /\ ImportsCached(Top.file)
  BY AtTheEnd
<1>2. \A k \in 1 .. n : stack[k].pass = "hoist"
  <2>1. ASSUME NEW k \in 1 .. n PROVE Parsing(stack[k], k = n) /\ stack[k] \in Entries
    BY <1>1 DEF Parses
  <2>2. \A f \in Entries : f.pass \in {"hoist", "lint"}
    BY DEF Entries
  <2>3. QED BY <2>1, <2>2 DEF Parsing, Top
<1>3. \A k \in 1 .. n : stack[k].file \notin Cached
  BY <1>1, <1>2 DEF Parses, Parsing
<1>4. i \in 1 .. n - 1 /\ i + 1 \in 1 .. n
  BY <1>1
<1>5. /\ stack[i].at <= Len(imports[stack[i].file])
      /\ stack[i + 1].file = imports[stack[i].file][stack[i].at]
  BY <1>1, <1>4 DEF Parses, Nested
<1>6. stack[i] \in Entries /\ stack[i].file \in Files /\ stack[i].at \in Nat \ {0}
  <2>1. stack[i] \in Entries
    BY <1>1
  <2>2. \A e \in Entries : e.file \in Files /\ e.at \in Nat \ {0}
    BY DEF Entries
  <2>3. QED BY <2>1, <2>2
<1>7. stack[i].file # Top.file
  <2> SUFFICES ASSUME stack[i].file = Top.file PROVE FALSE
    OBVIOUS
  <2>1. stack[i].at \in 1 .. Len(imports[Top.file])
    BY <1>1, <1>5, <1>6
  <2>2. stack[i + 1].file \in Cached
    BY <1>1, <1>5, <2>1 DEF ImportsCached
  <2>3. QED BY <1>3, <1>4, <2>2
<1>8. Parsing(stack[i], FALSE)
  <2>1. Parsing(stack[i], i = n) /\ (i = n) = FALSE
    BY <1>1 DEF Parses
  <2>2. QED BY <2>1
<1>9. QED BY <1>2, <1>7, <1>8

LEMMA HoistIInv ==
  ASSUME IInv, FinishHoist
  PROVE  IInv'
<1> DEFINE n == Len(stack)
           f == Top.file
           m == Len(modules)
<1>1. /\ EndOfBuffer /\ Top.pass = "hoist"
      /\ modules' = Append(modules, f)
      /\ stack' = [stack EXCEPT ![n] = [@ EXCEPT !.pass = "lint", !.at = 1]]
      /\ UNCHANGED <<imports, visited, graph, outcome, evaluated>>
  BY DEF FinishHoist
<1>2. /\ stack # <<>> /\ stack \in Seq(Entries) /\ Parses(stack)
      /\ imports \in [Files -> Seq(Files)]
      /\ n \in Nat \ {0} /\ n \in 1 .. n
      /\ Top \in Entries /\ f \in Files /\ Parsing(Top, TRUE) /\ ImportsCached(f)
  BY <1>1, AtTheEnd
<1>3. /\ modules \in Seq(Files) /\ m \in Nat
      /\ modules' \in Seq(Files) /\ Len(modules') = m + 1 /\ modules'[m + 1] = f
      /\ \A i \in 1 .. m : modules'[i] = modules[i]
  BY <1>1, <1>2, AppendProperties DEF IInv, Types
<1>4. Cached' = Cached \cup {f} /\ f \notin Cached
  <2>1. Range(Append(modules, f)) = Range(modules) \cup {f}
    BY <1>2, <1>3, RangeOfAppend
  <2>2. f \notin Cached
    BY <1>1, <1>2 DEF Parsing
  <2>3. QED BY <1>1, <2>1, <2>2 DEF Cached
<1>5. PICK e \in Entries : /\ e = [Top EXCEPT !.pass = "lint", !.at = 1]
                           /\ e.file = f /\ e.pass = "lint" /\ e.at = 1
  <2> DEFINE g == [Top EXCEPT !.pass = "lint", !.at = 1]
  <2>1. g \in Entries /\ g.file = f /\ g.pass = "lint" /\ g.at = 1
    <3>1. PICK p \in Entries : p = Top
      BY <1>2
    <3>2. PICK q : q = [p EXCEPT !.pass = "lint"]
      OBVIOUS
    <3>3. q \in Entries /\ q.file = p.file /\ q.pass = "lint"
      BY <3>2 DEF Entries
    <3>4. PICK r : r = [q EXCEPT !.at = 1]
      OBVIOUS
    <3>5. r \in Entries /\ r.file = p.file /\ r.pass = "lint" /\ r.at = 1
      BY <3>3, <3>4 DEF Entries
    <3>6. QED BY <3>1, <3>2, <3>4, <3>5
  <2> HIDE DEF g
  <2>2. g = [Top EXCEPT !.pass = "lint", !.at = 1]
    BY DEF g
  <2>3. QED BY <2>1, <2>2
<1>6. /\ stack' \in Seq(Entries) /\ Len(stack') = n /\ stack'[n] = e
      /\ \A i \in 1 .. n : i # n => stack'[i] = stack[i]
  <2>1. stack' = [stack EXCEPT ![n] = e]
    BY <1>1, <1>2, <1>5 DEF Top
  <2>2. QED BY <1>2, <2>1, LastReplaced
<1> HIDE DEF f, m
<1>7. Types'
  BY <1>1, <1>2, <1>3, <1>6 DEF IInv, Types, m
<1>8. Parses(stack)'
  <2>1. ASSUME NEW i \in 1 .. n PROVE Parsing(stack[i], i = Len(stack))'
    <3>1. CASE i = n
      <4>1. Len(imports[f]) \in Nat
        BY <1>2
      <4>2. stack'[i] = e /\ (i = Len(stack')) = TRUE
        BY <1>6, <3>1
      <4>3. e.file \in Cached' /\ ImportsCached(e.file)'
        BY <1>1, <1>2, <1>4, <1>5 DEF ImportsCached
      <4>4. e.at <= Len(imports'[e.file]) + 1
        BY <1>1, <1>5, <4>1
      <4>5. QED BY <1>5, <4>2, <4>3, <4>4 DEF Parsing
    <3>2. CASE i # n
      <4>1. /\ stack[i].pass = "hoist" /\ stack[i].file # f /\ Parsing(stack[i], FALSE)
        BY <1>1, <3>2, ParsedOnce DEF f
      <4>2. stack'[i] = stack[i] /\ (i = Len(stack')) = FALSE
        BY <1>6, <3>2
      <4>3. QED BY <1>1, <1>4, <4>1, <4>2 DEF Parsing
    <3>3. QED BY <3>1, <3>2
  <2>2. Nested(stack)'
    <3>1. ASSUME NEW i \in 1 .. n - 1
          PROVE  stack'[i] = stack[i] /\ stack'[i + 1].file = stack[i + 1].file
      <4>1. i \in 1 .. n /\ i # n /\ i + 1 \in 1 .. n
        BY <1>2
      <4>2. stack'[n].file = stack[n].file
        BY <1>5, <1>6 DEF f, Top
      <4>3. QED BY <1>6, <4>1, <4>2
    <3>2. QED BY <1>1, <1>2, <1>6, <3>1 DEF Parses, Nested
  <2>3. QED BY <1>6, <2>1, <2>2 DEF Parses
<1>9. ImportsAreEarlier'
  <2>1. ASSUME NEW i \in 1 .. m + 1, NEW k \in 1 .. Len(imports[modules'[i]])
        PROVE  \E j \in 1 .. (i - 1) : modules'[j] = imports[modules'[i]][k]
    <3>1. CASE i = m + 1
      <4>1. imports[f][k] \in Cached
        BY <1>2, <1>3, <2>1, <3>1 DEF ImportsCached
      <4>2. PICK j \in 1 .. m : modules[j] = imports[f][k]
        BY <1>3, <4>1, RangeOfSequence DEF Cached, m
      <4>3. QED BY <1>3, <3>1, <4>2
    <3>2. CASE i # m + 1
      <4>1. i \in 1 .. m /\ modules'[i] = modules[i]
        BY <1>3, <3>2
      <4>2. PICK j \in 1 .. (i - 1) : modules[j] = imports[modules[i]][k]
        BY <2>1, <4>1 DEF IInv, ImportsAreEarlier, m
      <4>3. j \in 1 .. m
        BY <1>3, <4>1
      <4>4. QED BY <1>3, <4>1, <4>2, <4>3
    <3>3. QED BY <3>1, <3>2
  <2>2. QED BY <1>1, <1>3, <2>1 DEF ImportsAreEarlier
<1>10. OneModulePerFile'
  <2>1. \A j \in 1 .. m : modules[j] # f
    BY <1>3, <1>4, RangeOfSequence DEF Cached, m
  <2>2. ASSUME NEW i \in 1 .. m + 1, NEW j \in 1 .. m + 1, modules'[i] = modules'[j]
        PROVE  i = j
    <3>1. CASE i \in 1 .. m /\ j \in 1 .. m
      BY <1>3, <2>2, <3>1 DEF IInv, OneModulePerFile, m
    <3>2. CASE ~(i \in 1 .. m /\ j \in 1 .. m)
      BY <1>3, <2>1, <2>2, <3>2
    <3>3. QED BY <3>1, <3>2
  <2>3. QED BY <1>3, <2>2 DEF OneModulePerFile
<1>11. QED BY <1>7, <1>8, <1>9, <1>10 DEF IInv

LEMMA LintIInv ==
  ASSUME IInv, FinishLint
  PROVE  IInv'
<1> DEFINE n == Len(stack)
           rest == SubSeq(stack, 1, n - 1)
<1>1. /\ EndOfBuffer /\ Top.pass = "lint"
      /\ UNCHANGED <<imports, visited, graph, modules, evaluated>>
      /\ \/ rest = <<>> /\ stack' = <<>> /\ outcome' = "loaded"
         \/ rest # <<>> /\ stack' = NextStatement(rest) /\ outcome' = outcome
  BY DEF FinishLint
<1>2. /\ stack # <<>> /\ stack \in Seq(Entries) /\ Parses(stack)
      /\ imports \in [Files -> Seq(Files)] /\ n \in Nat \ {0}
      /\ Top.file \in Cached
  BY <1>1, AtTheEnd DEF Parsing
<1>3. /\ rest \in Seq(Entries) /\ Len(rest) = n - 1 /\ Parses(rest)
      /\ \A i \in 1 .. n - 1 : rest[i] = stack[i]
  BY <1>2, AllButLast, Shortened
<1> HIDE DEF rest
<1>4. PICK t \in Seq(Entries) : t = stack' /\ Parses(t) /\ Len(t) <= MaxDepth
  <2>0. Len(stack) <= MaxDepth /\ MaxDepth \in Nat
    BY ModuleLoaderAssumption DEF IInv, Types
  <2>1. CASE rest = <<>>
    <3>1. stack' = <<>>
      BY <1>1, <2>1
    <3>2. <<>> \in Seq(Entries) /\ Len(<<>>) <= MaxDepth
      BY <2>0, EmptySeq
    <3>3. QED BY <3>1, <3>2, NothingParsed, Zenon
  <2>2. CASE rest # <<>>
    <3>1. Len(rest) \in Nat \ {0}
      BY <1>3, <2>2, NonEmpty
    <3>2. n - 1 \in 1 .. n - 1 /\ rest[n - 1] = stack[n - 1] /\ (n - 1) + 1 = n
      BY <1>2, <1>3, <3>1
    <3>3. /\ stack[n - 1].at <= Len(imports[stack[n - 1].file])
          /\ stack[n].file = imports[stack[n - 1].file][stack[n - 1].at]
      BY <1>2, <3>2 DEF Parses, Nested
    <3>4. Parses(NextStatement(rest))
      BY <1>2, <1>3, <2>2, <3>2, <3>3, Advanced DEF Top
    <3>5. NextStatement(rest) \in Seq(Entries) /\ Len(NextStatement(rest)) = n - 1
      BY <1>3, <2>2, StepOver
    <3>6. QED BY <1>1, <1>2, <2>0, <2>2, <3>4, <3>5
  <2>3. QED BY <2>1, <2>2
<1>5. Parses(stack)'
  BY <1>1, <1>4, SameModulesParse
<1>6. Types'
  BY <1>1, <1>4 DEF IInv, Types
<1>7. QED BY <1>1, <1>5, <1>6, SameModules DEF IInv

LEMMA NextIInv ==
  ASSUME IInv, [Next]_vars
  PROVE  IInv'
<1>1. CASE RejectImport
  <2>1. UNCHANGED <<imports, visited, graph, modules, evaluated>> /\ outcome' = "rejected"
    BY <1>1 DEF RejectImport
  <2>2. PICK t \in Seq(Entries) : t = stack' /\ Parses(t) /\ Len(t) <= MaxDepth
    <3>1. stack' = <<>>
      BY <1>1 DEF RejectImport
    <3>2. <<>> \in Seq(Entries) /\ Len(<<>>) <= MaxDepth
      BY EmptySeq, ModuleLoaderAssumption
    <3>3. QED BY <3>1, <3>2, NothingParsed, Zenon
  <2>3. Parses(stack)'
    BY <2>1, <2>2, SameModulesParse
  <2>4. Types'
    BY <2>1, <2>2 DEF IInv, Types
  <2>5. QED BY <2>1, <2>3, <2>4, SameModules DEF IInv
<1>2. CASE ReuseModule
  BY <1>2, ReuseIInv
<1>3. CASE ParseImported
  BY <1>3, ParseIInv
<1>4. CASE FinishHoist
  BY <1>4, HoistIInv
<1>5. CASE FinishLint
  BY <1>5, LintIInv
<1>6. CASE EvaluateModule \/ UNCHANGED vars
  <2>1. UNCHANGED <<imports, visited, graph, modules, stack>>
    BY <1>6 DEF EvaluateModule, vars
  <2>2. PICK t : t = stack /\ t = stack' /\ Parses(t)
    BY <2>1 DEF IInv
  <2>3. Parses(stack)'
    BY <2>1, <2>2, SameModulesParse
  <2>4. outcome' \in {"loading", "rejected", "loaded", "running"} /\ evaluated' \in 0 .. Len(modules)
    BY <1>6 DEF EvaluateModule, vars, IInv, Types
  <2>5. Types'
    BY <2>1, <2>4 DEF IInv, Types
  <2>6. QED BY <2>1, <2>3, <2>5, SameModules DEF IInv
<1>7. QED BY <1>1, <1>2, <1>3, <1>4, <1>5, <1>6 DEF Next

-----------------------------------------------------------------------------
LEMMA Invariance == Spec => []IInv
<1>1. Init => IInv
  BY InitIInv
<1>2. IInv /\ [Next]_vars => IInv'
  BY NextIInv
<1>3. QED BY <1>1, <1>2, PTL DEF Spec

\* The types, for every project; above all a parse never leaves its file's imports.
THEOREM TypeCorrect == Spec => []TypeOK
<1>1. IInv => TypeOK
  <2> SUFFICES ASSUME IInv PROVE TypeOK
    OBVIOUS
  <2>1. ASSUME NEW i \in 1 .. Len(stack)
        PROVE  /\ stack[i].file \in Files /\ stack[i].pass \in {"hoist", "lint"}
               /\ stack[i].at \in 1 .. Len(imports[stack[i].file]) + 1
    <3>1. stack \in Seq(Entries) /\ imports \in [Files -> Seq(Files)]
      BY DEF IInv, Types
    <3>2. stack[i] \in Entries
      BY <3>1
    <3>3. /\ stack[i].file \in Files /\ stack[i].pass \in {"hoist", "lint"}
          /\ stack[i].at \in Nat \ {0}
      BY <3>2 DEF Entries
    <3>4. Len(imports[stack[i].file]) \in Nat
      BY <3>1, <3>3
    <3>5. stack[i].at <= Len(imports[stack[i].file]) + 1
      BY DEF IInv, Parses, Parsing
    <3>6. QED BY <3>3, <3>4, <3>5
  <2>2. QED BY <2>1 DEF IInv, Types, TypeOK
<1>2. QED BY <1>1, Invariance, PTL

\* A file becomes one module in every project, with any number of imports of it,
\* in diamonds, and although every import statement is met in two passes.
THEOREM OneModuleEach == Spec => []OneModulePerFile
<1>1. IInv => OneModulePerFile
  BY DEF IInv
<1>2. QED BY <1>1, Invariance, PTL

\* The order in which nested parses end is an order in which globals can be evaluated.
THEOREM ImportsComeFirst == Spec => []ImportsEvaluatedFirst
<1>1. IInv => ImportsEvaluatedFirst
  <2> SUFFICES ASSUME IInv, NEW i \in 1 .. evaluated, NEW f \in Range(imports[modules[i]])
               PROVE  \E j \in 1 .. (i - 1) : modules[j] = f
    BY DEF ImportsEvaluatedFirst
  <2>1. /\ modules \in Seq(Files) /\ imports \in [Files -> Seq(Files)]
        /\ evaluated \in 0 .. Len(modules)
    BY DEF IInv, Types
  <2>2. i \in 1 .. Len(modules) /\ modules[i] \in Files
    BY <2>1
  <2>3. imports[modules[i]] \in Seq(Files)
    BY <2>1, <2>2
  <2>4. PICK k \in 1 .. Len(imports[modules[i]]) : f = imports[modules[i]][k]
    BY <2>3, RangeOfSequence
  <2>5. QED BY <2>2, <2>4 DEF IInv, ImportsAreEarlier
<1>2. QED BY <1>1, Invariance, PTL

-----------------------------------------------------------------------------
(* The files of the project.                                                *)

LEMMA LeastNumber ==
  ASSUME NEW S, S \subseteq Nat, S # {}
  PROVE  \E n \in S : \A m \in S : n <= m
<1>1. \E n \in S : \A m \in S : <<m, n>> \notin OpToRel(<, Nat)
  BY NatLessThanWellFounded, WFMin
<1>2. PICK n \in S : \A m \in S : <<m, n>> \notin OpToRel(<, Nat)
  BY <1>1
<1>3. ASSUME NEW m \in S PROVE n <= m
  <2>1. m \in Nat /\ n \in Nat
    OBVIOUS
  <2>2. ~(m < n)
    BY <1>2, <2>1 DEF OpToRel
  <2>3. QED BY <2>1, <2>2
<1>4. QED BY <1>3

IsWithin(f, m, w) ==
  w = [n \in 0 .. m |-> IF n = 0 THEN {} ELSE w[n - 1] \cup Imported({f} \cup w[n - 1])]

LEMMA WithinExists ==
  ASSUME NEW f, NEW m \in Nat
  PROVE  \E w : IsWithin(f, m, w)
<1> DEFINE S == {k \in Nat : ~\E w : IsWithin(f, k, w)}
<1>1. SUFFICES ASSUME S # {} PROVE FALSE
  OBVIOUS
<1>2. PICK k \in S : \A j \in S : k <= j
  BY <1>1, LeastNumber
<1>3. CASE k = 0
  <2>1. IsWithin(f, 0, [n \in 0 .. 0 |-> {}])
    BY DEF IsWithin
  <2>2. QED BY <1>2, <1>3, <2>1
<1>4. CASE k # 0
  <2>1. k \in Nat /\ k - 1 \in Nat /\ ~(k <= k - 1)
    BY <1>2, <1>4
  <2>2. k - 1 \notin S
    BY <1>2, <2>1
  <2>3. PICK g : IsWithin(f, k - 1, g)
    BY <2>1, <2>2
  <2> DEFINE h == [n \in 0 .. k |-> IF n = 0 THEN {} ELSE g[n - 1] \cup Imported({f} \cup g[n - 1])]
  <2>4. \A n \in 0 .. (k - 1) : g[n] = h[n]
    <3>1. ASSUME NEW n \in 0 .. (k - 1)
          PROVE  g[n] = IF n = 0 THEN {} ELSE g[n - 1] \cup Imported({f} \cup g[n - 1])
      BY <2>3 DEF IsWithin
    <3>2. \A n \in 0 .. (k - 1) : n \in 0 .. k
      BY <2>1
    <3>3. QED BY <3>1, <3>2, Zenon
  <2>5. \A n \in 0 .. k : n # 0 => n - 1 \in 0 .. (k - 1)
    BY <2>1
  <2>6. IsWithin(f, k, h)
    <3>1. \A n \in 0 .. k : n # 0 => h[n - 1] = g[n - 1]
      BY <2>4, <2>5, Zenon
    <3>2. [n \in 0 .. k |-> IF n = 0 THEN {} ELSE h[n - 1] \cup Imported({f} \cup h[n - 1])] = h
      <4> DEFINE x == h
      <4>1. \A n \in 0 .. k : n # 0 => x[n - 1] = g[n - 1]
        BY <3>1
      <4> HIDE DEF x
      <4>2. [n \in 0 .. k |-> IF n = 0 THEN {} ELSE x[n - 1] \cup Imported({f} \cup x[n - 1])] = h
        BY <4>1
      <4>3. QED BY <4>2 DEF x
    <3>3. QED BY <3>2, Zenon DEF IsWithin
  <2>7. QED BY <1>2, <2>6
<1>5. QED BY <1>3, <1>4

Grows(f, m, w) ==
  /\ w[0] = {}
  /\ \A n \in 0 .. m : n # 0 => w[n] = w[n - 1] \cup Imported({f} \cup w[n - 1])

LEMMA DependenciesAre ==
  ASSUME NEW f, NEW m \in Nat, m = Cardinality(Files)
  PROVE  \E w : Dependencies(f) = w[m] /\ Grows(f, m, w)
<1> DEFINE w == CHOOSE within : IsWithin(f, m, within)
<1>1. IsWithin(f, m, w)
  BY WithinExists, Zenon
<1>2. Dependencies(f) = w[m]
  BY DEF Dependencies, IsWithin
<1> HIDE DEF w
<1>3. \A n \in 0 .. m : w[n] = IF n = 0 THEN {} ELSE w[n - 1] \cup Imported({f} \cup w[n - 1])
  BY <1>1 DEF IsWithin
<1>4. Grows(f, m, w)
  <2>1. 0 \in 0 .. m
    OBVIOUS
  <2>2. w[0] = {}
    BY <1>3, <2>1
  <2>3. QED BY <1>3, <2>2 DEF Grows
<1>5. QED BY <1>2, <1>4

LEMMA ImportedFiles ==
  ASSUME imports \in [Files -> Seq(Files)]
  PROVE  /\ \A S \in SUBSET Files : Imported(S) \subseteq Files
         /\ \A S, T : S \subseteq T => Imported(S) \subseteq Imported(T)
<1>1. ASSUME NEW f \in Files PROVE Range(imports[f]) \subseteq Files
  <2>1. imports[f] \in Seq(Files)
    OBVIOUS
  <2>2. Range(imports[f]) = {imports[f][i] : i \in 1 .. Len(imports[f])}
    BY <2>1, RangeOfSequence
  <2>3. \A i \in 1 .. Len(imports[f]) : imports[f][i] \in Files
    BY <2>1
  <2>4. QED BY <2>2, <2>3
<1>2. QED BY <1>1 DEF Imported

Closed(S) == Imported({Main} \cup S) \subseteq S

\* As many steps as there are files close the dependencies: each step before adds a file.
LEMMA ProjectIsClosed ==
  ASSUME imports \in [Files -> Seq(Files)]
  PROVE  Main \in Project /\ Project \subseteq Files /\ Imported(Project) \subseteq Project
<1> DEFINE N == Cardinality(Files)
<1>0. IsFiniteSet(Files) /\ Main \in Files /\ N \in Nat
  BY ModuleLoaderAssumption, FS_CardinalityType
<1>a. PICK w : Dependencies(Main) = w[N] /\ Grows(Main, N, w)
  BY <1>0, DependenciesAre
<1>1. /\ Dependencies(Main) = w[N] /\ w[0] = {}
      /\ \A n \in 0 .. N : n # 0 => w[n] = w[n - 1] \cup Imported({Main} \cup w[n - 1])
  BY <1>a DEF Grows
<1> HIDE DEF N
<1> DEFINE Good(n) == w[n] \subseteq Files /\ (Closed(w[n]) \/ n <= Cardinality(w[n]))
           S == {n \in 0 .. N : ~Good(n)}
<1>2. ASSUME S # {} PROVE FALSE
  <2>0. S \subseteq Nat
    OBVIOUS
  <2>1. PICK k \in S : \A j \in S : k <= j
    <3> HIDE DEF S
    <3>1. QED BY <1>2, <2>0, LeastNumber
  <2>2. k \in 0 .. N /\ ~Good(k)
    BY <2>1
  <2>3. k # 0
    <3>1. Good(0)
      BY <1>1, FS_EmptySet
    <3>2. QED BY <2>2, <3>1
  <2>4. k - 1 \in 0 .. N /\ k - 1 \in Nat /\ ~(k <= k - 1)
    BY <1>0, <2>2, <2>3
  <2>5. Good(k - 1)
    BY <2>1, <2>4
  <2> DEFINE D == w[k - 1]
             E == Imported({Main} \cup D)
  <2>6. w[k] = D \cup E
    BY <1>1, <2>2, <2>3
  <2>7. D \subseteq Files /\ (Closed(D) \/ k - 1 <= Cardinality(D))
    BY <2>5
  <2>8. E \subseteq Files
    BY <1>0, <2>7, ImportedFiles
  <2>9. CASE Closed(D)
    <3>1. w[k] = D
      BY <2>6, <2>9 DEF Closed
    <3>2. QED BY <2>2, <2>7, <2>9, <3>1
  <2>10. CASE ~Closed(D)
    <3>1. D \in SUBSET w[k] /\ D # w[k] /\ w[k] \in SUBSET Files
      BY <2>6, <2>7, <2>8, <2>10 DEF Closed
    <3>2. IsFiniteSet(w[k]) /\ Cardinality(w[k]) \in Nat
      BY <1>0, <3>1, FS_Subset, FS_CardinalityType
    <3>3. /\ Cardinality(D) <= Cardinality(w[k]) /\ Cardinality(D) # Cardinality(w[k])
          /\ Cardinality(D) \in Nat
      BY <3>1, <3>2, FS_Subset, FS_CardinalityType
    <3>4. k <= Cardinality(w[k])
      BY <2>4, <2>7, <2>10, <3>2, <3>3
    <3>5. QED BY <2>2, <3>1, <3>4
  <2>11. QED BY <2>9, <2>10
<1>3. Good(N)
  BY <1>0, <1>2
<1> DEFINE D == w[N]
<1> HIDE DEF S
<1>4. D \subseteq Files /\ Closed(D)
  <2>1. CASE ~Closed(D)
    <3>1. D \in SUBSET Files /\ N <= Cardinality(D)
      BY <1>3, <2>1
    <3>2. Cardinality(D) <= N /\ Cardinality(D) \in Nat /\ (N = Cardinality(D) => D = Files)
      BY <1>0, <3>1, FS_Subset, FS_CardinalityType DEF N
    <3>3. D = Files
      BY <1>0, <3>1, <3>2
    <3>4. QED BY <1>0, <2>1, <3>3, ImportedFiles DEF Closed
  <2>2. QED BY <1>3, <2>1
<1>5. Project = {Main} \cup D
  BY <1>1 DEF Project
<1>6. QED BY <1>0, <1>4, <1>5 DEF Closed

\* Nothing but the project is closed.
LEMMA ProjectIsLeast ==
  ASSUME NEW T, Main \in T, Imported(T) \subseteq T, imports \in [Files -> Seq(Files)]
  PROVE  Project \subseteq T
<1> DEFINE N == Cardinality(Files)
<1>0. N \in Nat
  BY ModuleLoaderAssumption, FS_CardinalityType
<1>a. PICK w : Dependencies(Main) = w[N] /\ Grows(Main, N, w)
  BY <1>0, DependenciesAre
<1>1. /\ Dependencies(Main) = w[N] /\ w[0] = {}
      /\ \A n \in 0 .. N : n # 0 => w[n] = w[n - 1] \cup Imported({Main} \cup w[n - 1])
  BY <1>a DEF Grows
<1> HIDE DEF N
<1> DEFINE S == {n \in 0 .. N : ~(w[n] \subseteq T)}
<1>2. ASSUME S # {} PROVE FALSE
  <2>0. S \subseteq Nat
    OBVIOUS
  <2>1. PICK k \in S : \A j \in S : k <= j
    <3> HIDE DEF S
    <3>1. QED BY <1>2, <2>0, LeastNumber
  <2>2. k \in 0 .. N /\ ~(w[k] \subseteq T) /\ k # 0
    BY <1>1, <2>1
  <2>3. k - 1 \in 0 .. N /\ ~(k <= k - 1)
    BY <1>0, <2>2
  <2>4. {Main} \cup w[k - 1] \subseteq T
    BY <2>1, <2>3
  <2>5. Imported({Main} \cup w[k - 1]) \subseteq T
    BY <2>4, ImportedFiles
  <2>6. QED BY <1>1, <2>2, <2>4, <2>5
<1>3. w[N] \subseteq T
  BY <1>0, <1>2
<1>4. QED BY <1>1, <1>3 DEF Project

LEMMA ProjectStays ==
  ASSUME imports' = imports
  PROVE  Project' = Project
<1> DEFINE P(i) ==
      LET within[n \in 0 .. Cardinality(Files)] ==
            IF n = 0 THEN {}
            ELSE within[n - 1] \cup UNION {Range(i[f]) : f \in {Main} \cup within[n - 1]}
      IN  {Main} \cup within[Cardinality(Files)]
<1>1. Project = P(imports)
  BY DEF Project, Dependencies, Imported
<1>2. Project' = P(imports')
  BY DEF Project, Dependencies, Imported
<1> HIDE DEF P
<1>3. P(imports') = P(imports)
  OBVIOUS
<1>4. QED BY <1>1, <1>2, <1>3

\* Only files of the project are parsed, and the module of the entry file is there in
\* the end.
OfTheProject ==
  /\ Cached \subseteq Project
  /\ \A i \in 1 .. Len(stack) : stack[i].file \in Project
  /\ stack # <<>> => stack[1].file = Main
  /\ outcome \in {"loaded", "running"} => Main \in Cached

LEMMA InitOfTheProject ==
  ASSUME Init
  PROVE  OfTheProject
<1>1. Cached = {}
  BY DEF Cached, Range, Init
<1>2. imports \in [Files -> Seq(Files)]
  BY InitIInv DEF IInv, Types
<1>3. Len(stack) = 1 /\ stack[1].file = Main
  BY DEF Init, Parse
<1>4. outcome = "loading"
  BY DEF Init
<1>5. QED BY <1>1, <1>2, <1>3, <1>4, ProjectIsClosed DEF OfTheProject

LEMMA TargetOfTheProject ==
  ASSUME IInv, OfTheProject, Pending
  PROVE  Target \in Project
<1>1. /\ imports \in [Files -> Seq(Files)] /\ stack \in Seq(Entries) /\ stack # <<>>
  BY DEF IInv, Types, Pending
<1>2. Len(stack) \in 1 .. Len(stack)
  BY <1>1, NonEmpty
<1>3. Top.file \in Project /\ Top.file \in Files /\ Top.at \in 1 .. Len(imports[Top.file])
  BY <1>2, AtAnImport DEF OfTheProject, Top
<1>4. Target \in Range(imports[Top.file])
  BY <1>1, <1>3, RangeOfSequence DEF Target
<1>5. Range(imports[Top.file]) \subseteq Imported(Project)
  BY <1>3 DEF Imported
<1>6. QED BY <1>1, <1>4, <1>5, ProjectIsClosed

LEMMA NextOfTheProject ==
  ASSUME IInv, OfTheProject, [Next]_vars
  PROVE  OfTheProject'
<1>0. /\ imports \in [Files -> Seq(Files)] /\ stack \in Seq(Entries) /\ modules \in Seq(Files)
      /\ outcome \in {"loading", "rejected", "loaded", "running"}
  BY DEF IInv, Types
<1>a. imports' = imports /\ Project' = Project
  <2>1. imports' = imports
    BY DEF Next, RejectImport, ReuseModule, ParseImported, FinishHoist, FinishLint,
       EvaluateModule, vars
  <2>2. QED BY <2>1, ProjectStays
<1>1. CASE RejectImport
  <2>1. stack' = <<>> /\ outcome' = "rejected" /\ modules' = modules
    BY <1>1 DEF RejectImport
  <2>2. Len(stack') = 0
    BY <2>1
  <2>3. QED BY <1>a, <2>1, <2>2 DEF OfTheProject, Cached
<1>2. CASE ReuseModule
  <2>1. /\ stack' = NextStatement(stack) /\ stack # <<>>
        /\ UNCHANGED <<modules, outcome>>
    BY <1>2 DEF ReuseModule, Pending
  <2>2. /\ Len(stack') = Len(stack) /\ stack' # <<>> /\ Len(stack) \in Nat \ {0}
        /\ \A i \in 1 .. Len(stack) : stack'[i].file = stack[i].file
    BY <1>0, <2>1, StepOver, NonEmpty, EmptySeq
  <2>3. QED BY <1>a, <2>1, <2>2 DEF OfTheProject, Cached
<1>3. CASE ParseImported
  <2> DEFINE e == Parse(Target)
             n == Len(stack)
  <2>1. /\ stack' = Append(stack, e) /\ stack # <<>> /\ Pending
        /\ UNCHANGED <<modules, outcome>>
    BY <1>3 DEF ParseImported, Pending
  <2>2. e \in Entries /\ e.file = Target /\ Target \in Project
    BY <2>1, AtAnImport, ParseIsAnEntry, TargetOfTheProject
  <2> HIDE DEF e
  <2>3. /\ n \in Nat \ {0} /\ Len(stack') = n + 1 /\ stack'[n + 1] = e
        /\ \A i \in 1 .. n : stack'[i] = stack[i]
    BY <1>0, <2>1, <2>2, NonEmpty, AppendProperties
  <2>4. ASSUME NEW i \in 1 .. n + 1 PROVE stack'[i].file \in Project
    <3>1. CASE i = n + 1
      BY <2>2, <2>3, <3>1
    <3>2. CASE i # n + 1
      <4>1. i \in 1 .. n
        BY <2>3, <3>2
      <4>2. QED BY <2>3, <4>1 DEF OfTheProject
    <3>3. QED BY <3>1, <3>2
  <2>5. stack'[1].file = Main
    BY <2>1, <2>3 DEF OfTheProject
  <2>6. QED BY <1>a, <2>1, <2>3, <2>4, <2>5 DEF OfTheProject, Cached
<1>4. CASE FinishHoist
  <2> DEFINE n == Len(stack)
             f == Top.file
  <2>1. /\ EndOfBuffer /\ modules' = Append(modules, f) /\ outcome' = outcome /\ stack # <<>>
        /\ stack' = [stack EXCEPT ![n] = [@ EXCEPT !.pass = "lint", !.at = 1]]
    BY <1>4 DEF FinishHoist, EndOfBuffer
  <2>2. n \in Nat \ {0} /\ n \in 1 .. n /\ stack[n] \in Entries /\ DOMAIN stack = 1 .. n
    BY <1>0, <2>1, NonEmpty
  <2>3. f \in Project /\ f \in Files
    BY <2>2 DEF OfTheProject, Top, Entries
  <2>4. Cached' = Cached \cup {f}
    BY <1>0, <2>1, <2>3, RangeOfAppend DEF Cached
  <2>5. DOMAIN stack' = 1 .. n /\ Len(stack') = n /\ stack' # <<>>
    BY <1>0, <2>1, <2>2
  <2>6. ASSUME NEW i \in 1 .. n PROVE stack'[i].file = stack[i].file
    BY <1>0, <2>1, <2>2 DEF Entries
  <2>7. QED BY <1>a, <2>1, <2>2, <2>3, <2>4, <2>5, <2>6 DEF OfTheProject
<1>5. CASE FinishLint
  <2> DEFINE n == Len(stack)
             rest == SubSeq(stack, 1, n - 1)
  <2>1. /\ EndOfBuffer /\ Top.pass = "lint" /\ modules' = modules /\ stack # <<>>
        /\ \/ rest = <<>> /\ stack' = <<>> /\ outcome' = "loaded"
           \/ rest # <<>> /\ stack' = NextStatement(rest) /\ outcome' = outcome
    BY <1>5 DEF FinishLint, EndOfBuffer
  <2>2. /\ rest \in Seq(Entries) /\ Len(rest) = n - 1 /\ n \in Nat \ {0}
        /\ \A i \in 1 .. n - 1 : rest[i] = stack[i]
    BY <1>0, <2>1, AllButLast, NonEmpty
  <2>3. Top.file \in Cached
    BY <2>1, AtTheEnd DEF Parsing
  <2>4. Cached' = Cached
    BY <2>1 DEF Cached
  <2> HIDE DEF rest
  <2>5. CASE rest = <<>>
    <3>1. n = 1 /\ Len(stack') = 0 /\ stack' = <<>> /\ outcome' = "loaded"
      BY <2>1, <2>2, <2>5
    <3>2. Main \in Cached
      BY <2>1, <2>3, <3>1 DEF OfTheProject, Top
    <3>3. QED BY <1>a, <2>4, <3>1, <3>2 DEF OfTheProject
  <2>6. CASE rest # <<>>
    <3>1. /\ Len(stack') = n - 1 /\ n - 1 \in Nat \ {0} /\ stack' # <<>>
          /\ \A i \in 1 .. n - 1 : stack'[i].file = stack[i].file
      <4>1. stack' = NextStatement(rest) /\ n - 1 \in Nat \ {0}
        BY <2>1, <2>2, <2>6, NonEmpty
      <4>2. Len(stack') = n - 1
        BY <2>2, <2>6, <4>1, StepOver
      <4>3. ASSUME NEW i \in 1 .. n - 1 PROVE stack'[i].file = stack[i].file
        <5>1. NextStatement(rest)[i].file = rest[i].file
          BY <2>2, <2>6, StepOver
        <5>2. QED BY <2>2, <4>1, <5>1
      <4>4. stack' # <<>>
        BY <4>1, <4>2
      <4>5. QED BY <4>1, <4>2, <4>3, <4>4
    <3>2. \A i \in 1 .. n - 1 : i \in 1 .. n
      BY <2>2
    <3>3. outcome' = outcome
      BY <2>1, <2>6
    <3>4. QED BY <1>a, <2>1, <2>4, <3>1, <3>2, <3>3 DEF OfTheProject
  <2>7. QED BY <2>5, <2>6
<1>6. CASE EvaluateModule
  <2>1. outcome = "loaded" /\ UNCHANGED <<modules, stack>>
    BY <1>6 DEF EvaluateModule
  <2>2. QED BY <1>a, <2>1 DEF OfTheProject, Cached
<1>7. CASE UNCHANGED vars
  BY <1>a, <1>7 DEF OfTheProject, Cached, vars
<1>8. QED BY <1>1, <1>2, <1>3, <1>4, <1>5, <1>6, <1>7 DEF Next

\* What runs is the project: every file that import statements lead to from the entry
\* file has become a module, and no other file has.
THEOREM TheWholeProjectRuns == Spec => []WholeProjectRuns
<1>1. Init => IInv /\ OfTheProject
  BY InitIInv, InitOfTheProject
<1>2. IInv /\ OfTheProject /\ [Next]_vars => (IInv /\ OfTheProject)'
  BY NextIInv, NextOfTheProject
<1>3. IInv /\ OfTheProject => WholeProjectRuns
  <2> SUFFICES ASSUME IInv, OfTheProject, outcome = "running" PROVE Cached = Project
    BY DEF WholeProjectRuns
  <2>1. imports \in [Files -> Seq(Files)] /\ modules \in Seq(Files)
    BY DEF IInv, Types
  <2>2. Cached = {modules[i] : i \in 1 .. Len(modules)} /\ Cached \subseteq Files
    BY <2>1, RangeOfSequence DEF Cached
  <2>3. ASSUME NEW f \in Cached, NEW g \in Range(imports[f]) PROVE g \in Cached
    <3>1. PICK i \in 1 .. Len(modules) : f = modules[i]
      BY <2>2
    <3>2. imports[f] \in Seq(Files)
      BY <2>1, <2>2
    <3>3. PICK k \in 1 .. Len(imports[f]) : g = imports[f][k]
      BY <3>2, RangeOfSequence
    <3>4. PICK j \in 1 .. (i - 1) : modules[j] = g
      BY <3>1, <3>3 DEF IInv, ImportsAreEarlier
    <3>5. j \in 1 .. Len(modules)
      BY <2>1, <3>1
    <3>6. QED BY <2>2, <3>4, <3>5
  <2>4. Imported(Cached) \subseteq Cached
    BY <2>3 DEF Imported
  <2>5. Main \in Cached
    BY DEF OfTheProject
  <2>6. Project \subseteq Cached
    BY <2>1, <2>4, <2>5, ProjectIsLeast
  <2>7. QED BY <2>6 DEF OfTheProject
<1>4. QED BY <1>1, <1>2, <1>3, PTL DEF Spec
=============================================================================
