-------------------------- MODULE ExpressionParser --------------------------
(***************************************************************************)
(* How the linter reads an expression statement: CLinterExpression cuts    *)
(* the tokens into operands and operators, AbstractSyntaxTree folds these  *)
(* into a tree by splitting at the operator of lowest priority, and        *)
(* LintExpression refuses a tree it believes to do nothing.                *)
(*                                                                         *)
(* A token is its text; "x" stands for any literal or name.  Parse         *)
(* operators take the index of a token and return what they read and the   *)
(* index after it; Failed is a PushError, which ends the load.  Texts end  *)
(* with a semicolon, so that no iterator runs off the buffer.  Member      *)
(* access, lambdas and object literals are left out: they are operands     *)
(* like "x" here.                                                          *)
(***************************************************************************)
EXTENDS Naturals, Sequences, FiniteSets, FiniteSetsExt

CONSTANT Texts   \* the statements to read, sequences of tokens up to the ";"

VARIABLES text,      \* the tokens of one statement
          verdict,   \* "unread", "rejected", "discarded" or "kept"
          tree       \* AbstractSyntaxTree of the statement
vars == <<text, verdict, tree>>

Node(op, kids) == [op |-> op, kids |-> kids]
NoTree == Node("none", <<>>)
Failed == [pos |-> 0, read |-> <<>>]
Read(x, i) == [pos |-> i, read |-> x]

\* OperatorPriority of the tokens that are punctuation.
Priority == [t \in {"=", "?", ":", "||", "+", "-", "*"} |->
               CASE t = "=" -> 1 [] t = "?" -> 2 [] t = ":" -> 3 [] t = "||" -> 4
                 [] t \in {"+", "-"} -> 12 [] t = "*" -> 13]
Highest == 13
IsOperator(t) == t \in DOMAIN Priority
\* IsUnaryOperator lets "+" through, for which ParseUnary has no case.
IsUnaryOperator(t) == t \in {"++", "-", "+"}

Init ==
  /\ text \in Texts
  /\ verdict = "unread"
  /\ tree = NoTree

-----------------------------------------------------------------------------
(* AbstractSyntaxTree: operands and operators become a tree. *)

\* Mutant: "<" instead of "<=".
FindFirstOperator(ops) ==
  CHOOSE i \in DOMAIN ops :
    \A j \in DOMAIN ops : /\ Priority[ops[j]] >= Priority[ops[i]]
                          /\ j < i => Priority[ops[j]] > Priority[ops[i]]

\* FindLowestPriorityOperator: the "<=" takes the last of equals.
FindLowestPriorityOperator(ops) ==
  CHOOSE i \in DOMAIN ops :
    \A j \in DOMAIN ops : /\ Priority[ops[j]] >= Priority[ops[i]]
                          /\ j > i => Priority[ops[j]] > Priority[ops[i]]

\* std::find over the operators right of a "?"; 0 if there is none.
FirstColon(ops) ==
  IF \E i \in DOMAIN ops : ops[i] = ":"
  THEN CHOOSE i \in DOMAIN ops : ops[i] = ":" /\ \A j \in 1..(i - 1) : ops[j] # ":"
  ELSE 0

\* CreateAST with CreateRecursively and CreateTernary.
RECURSIVE CreateAST(_, _)
CreateAST(operands, ops) ==
  IF Len(operands) = 1 THEN operands[1]
  ELSE LET i == FindLowestPriorityOperator(ops)
           rightOperands == SubSeq(operands, i + 1, Len(operands))
           rightOps == SubSeq(ops, i + 1, Len(ops))
           left == CreateAST(SubSeq(operands, 1, i), SubSeq(ops, 1, i - 1))
           c == FirstColon(rightOps)
           kids == CASE ops[i] = ":" -> <<NoTree>>
                     [] ops[i] = "?" /\ c = 0 -> <<NoTree>>
                     [] ops[i] = "?" /\ c # 0 ->
                          <<left,
                            CreateAST(SubSeq(rightOperands, 1, c), SubSeq(rightOps, 1, c - 1)),
                            CreateAST(SubSeq(rightOperands, c + 1, Len(rightOperands)),
                                      SubSeq(rightOps, c + 1, Len(rightOps)))>>
                     [] OTHER -> <<left, CreateAST(rightOperands, rightOps)>>
       IN IF \E k \in DOMAIN kids : kids[k] = NoTree THEN NoTree ELSE Node(ops[i], kids)

\* CExpressionList::ToMergedAST: a list in parentheses is a sequence.
RECURSIVE ToMergedAST(_)
ToMergedAST(list) ==
  IF Len(list) = 1 THEN list[1] ELSE Node(",", <<list[1], ToMergedAST(Tail(list))>>)

-----------------------------------------------------------------------------
(* CLinterExpression: tokens become operands and operators. *)

RECURSIVE ParseInternal(_, _), ParseSubExpressions(_, _, _, _)
RECURSIVE ParseOperand(_), ParsePostfix(_, _)

\* ParseUnary: the first token that is no unary operator.
EndOfUnary(i) == CHOOSE j \in i..Len(text) : /\ ~IsUnaryOperator(text[j])
                                            /\ \A k \in i..(j - 1) : IsUnaryOperator(text[k])

\* Expressions up to a closing token, as a list; an empty one only if allowed.
ParsePair(i, closing, mayBeEmpty) ==
  IF mayBeEmpty /\ text[i] = closing THEN Read(<<>>, i + 1) ELSE ParseInternal(i, closing)

ParseParentheses(i) ==
  LET list == ParsePair(i + 1, ")", FALSE)
  IN IF list = Failed THEN Failed ELSE Read(ToMergedAST(list.read), list.pos)

ParseArray(i) ==
  LET list == ParsePair(i + 1, "]", TRUE)
  IN IF list = Failed THEN Failed ELSE Read(Node("list", list.read), list.pos)

\* The choice in ParseOperand; ParseIdentifier refuses what is no name.
ParsePrimary(i) ==
  CASE text[i] = "x" -> Read(Node("x", <<>>), i + 1)
    [] text[i] = "(" -> ParseParentheses(i)
    [] text[i] = "[" -> ParseArray(i)
    [] OTHER -> Failed

\* The last postfix is the root, and the operand its leftmost leaf.
ParsePostfix(i, operand) ==
  CASE text[i] = "++" -> ParsePostfix(i + 1, Node("x++", <<operand>>))
    [] text[i] = "(" -> LET e == ParsePair(i + 1, ")", TRUE)
                        IN IF e = Failed THEN Failed
                           ELSE ParsePostfix(e.pos, Node("call", <<operand>> \o e.read))
    [] text[i] = "[" -> LET e == ParsePair(i + 1, "]", FALSE)
                        IN IF e = Failed THEN Failed
                           ELSE ParsePostfix(e.pos, Node("index", <<operand, ToMergedAST(e.read)>>))
    [] OTHER -> Read(operand, i)

\* UnariesToAST: the first unary is the root.
RECURSIVE Unaries(_, _, _)
Unaries(i, j, operand) ==
  IF i = j THEN operand
  ELSE Node(IF text[i] = "-" THEN "neg" ELSE "++x", <<Unaries(i + 1, j, operand)>>)

ParseOperand(i) ==
  LET j == EndOfUnary(i)
      primary == ParsePrimary(j)
      operand == IF primary = Failed THEN Failed ELSE ParsePostfix(primary.pos, primary.read)
  IN IF operand = Failed \/ \E k \in i..(j - 1) : text[k] = "+" THEN Failed
     ELSE Read(Unaries(i, j, operand.read), operand.pos)

\* The list goes on behind the comma at i.
ParseSequence(ast, i, eoe) ==
  LET next == ParseInternal(i + 1, eoe)
  IN IF next = Failed THEN Failed ELSE Read(<<ast>> \o next.read, next.pos)

\* The rounds of ParseInternal, each with ParseSubExpression and ParseOperator.
ParseSubExpressions(i, eoe, operands, ops) ==
  LET operand == IF text[i] = eoe THEN Failed ELSE ParseOperand(i)
      all == Append(operands, operand.read)
      after == text[operand.pos]
      ast == CreateAST(all, ops)
  IN IF operand = Failed THEN Failed
     ELSE IF after \in {eoe, ","} THEN
       CASE ast = NoTree -> Failed
         [] ast # NoTree /\ after = "," -> ParseSequence(ast, operand.pos, eoe)
         [] OTHER -> Read(<<ast>>, IF eoe = ";" THEN operand.pos ELSE operand.pos + 1)
     ELSE IF IsOperator(after) THEN
       ParseSubExpressions(operand.pos + 1, eoe, all, Append(ops, after))
     ELSE Failed

\* ParseInternal: the trees of a list up to eoe, which is skipped unless it is ";".
ParseInternal(i, eoe) == ParseSubExpressions(i, eoe, <<>>, <<>>)

-----------------------------------------------------------------------------
(* LintExpression *)

IsMeaningful(node) == node.op \in {"=", "++x", "x++", "call"}
\* Operators, unaries and postfixes; ternaries and lists keep their parts elsewhere.
HasLeft(node) == node.op \notin {"x", "list", "?"}

\* Mutant: only the root is looked at.
RootIsDiscarded(node) == ~IsMeaningful(node)

\* No operator has a right branch and no left one.
RECURSIVE CanBeDiscarded(_)
CanBeDiscarded(node) ==
  ~IsMeaningful(node) /\ (HasLeft(node) => CanBeDiscarded(node.kids[1]))

LintExpression ==
  /\ verdict = "unread"
  /\ LET list == ParseInternal(1, ";") IN
       IF list = Failed THEN verdict' = "rejected" /\ tree' = NoTree
       ELSE /\ tree' = ToMergedAST(list.read)
            /\ verdict' = IF CanBeDiscarded(tree') THEN "discarded" ELSE "kept"
  /\ UNCHANGED text

Next == LintExpression
Spec == Init /\ [][Next]_vars

-----------------------------------------------------------------------------
(* The grammar the code implements, as the trees a stretch of the text has. *)

Joined(op, lefts, rights) == {Node(op, <<l, r>>) : l \in lefts, r \in rights}

\* Trees of text[i..j] whose operators bind at least as tightly as p.
\* Assignments and ternaries associate to the left, as all the others do.
RECURSIVE Trees(_, _, _), Unary(_, _), Postfix(_, _), Lists(_, _)

Ternaries(i, j, p) ==
  UNION {{Node("?", <<c, t, f>>) : c \in Trees(i, q - 1, p), t \in Trees(q + 1, k - 1, p + 2),
                                   f \in Trees(k + 1, j, p + 2)} :
         <<q, k>> \in {qk \in (i..j) \X (i..j) : /\ qk[1] < qk[2]
                                               /\ text[qk[1]] = "?" /\ text[qk[2]] = ":"}}

Trees(i, j, p) ==
  IF i > j THEN {}
  ELSE IF p > Highest THEN Unary(i, j)
  ELSE LET places == {k \in i..j : /\ text[k] \in DOMAIN Priority \ {"?", ":"}
                                   /\ Priority[text[k]] = p}
       IN Trees(i, j, p + 1)
          \cup UNION {Joined(text[k], Trees(i, k - 1, p), Trees(k + 1, j, p + 1)) : k \in places}
          \cup (IF p = Priority["?"] THEN Ternaries(i, j, p) ELSE {})

Unary(i, j) ==
  Postfix(i, j)
  \cup (IF text[i] = "-" /\ i < j THEN {Node("neg", <<t>>) : t \in Unary(i + 1, j)} ELSE {})
  \cup (IF text[i] = "++" /\ i < j THEN {Node("++x", <<t>>) : t \in Unary(i + 1, j)} ELSE {})

\* What stands between a pair of brackets at k and at j, perhaps nothing.
Between(k, j, mayBeEmpty) ==
  Lists(k + 1, j - 1) \cup (IF mayBeEmpty /\ j = k + 1 THEN {<<>>} ELSE {})

Postfix(i, j) ==
  (IF i = j /\ text[i] = "x" THEN {Node("x", <<>>)} ELSE {})
  \cup (IF text[i] = "(" /\ text[j] = ")" THEN {ToMergedAST(l) : l \in Between(i, j, FALSE)} ELSE {})
  \cup (IF text[i] = "[" /\ text[j] = "]" THEN {Node("list", l) : l \in Between(i, j, TRUE)} ELSE {})
  \cup (IF text[j] = "++" /\ i < j THEN {Node("x++", <<t>>) : t \in Postfix(i, j - 1)} ELSE {})
  \cup UNION {{Node("call", <<t>> \o l) : t \in Postfix(i, k - 1), l \in Between(k, j, TRUE)} :
              k \in {k \in (i + 1)..j : text[k] = "(" /\ text[j] = ")"}}
  \cup UNION {{Node("index", <<t, ToMergedAST(l)>>) : t \in Postfix(i, k - 1), l \in Between(k, j, FALSE)} :
              k \in {k \in (i + 1)..j : text[k] = "[" /\ text[j] = "]"}}

Lists(i, j) ==
  {<<t>> : t \in Trees(i, j, Priority["="])}
  \cup UNION {{<<t>> \o l : t \in Trees(i, k - 1, Priority["="]), l \in Lists(k + 1, j)} :
              k \in {k \in i..j : text[k] = ","}}

-----------------------------------------------------------------------------

(* Where the evaluation of a statement starts, read off its text alone. *)

BracketsIn(i, j, brackets) == Cardinality({k \in i..j : text[k] \in brackets})
IsBalanced(i, j) == BracketsIn(i, j, {"(", "["}) = BracketsIn(i, j, {")", "]"})

\* Tokens of text[i..j] outside of its brackets, the opening ones included.
Outside(i, j) == {k \in i..j : IsBalanced(i, k - 1)}

ClosingBracket(i, j) == Min({k \in (i + 1)..j : text[k] \in {")", "]"} /\ IsBalanced(i, k)})

\* The tokens outside of brackets up to the first comma.
FirstPart(i, j) ==
  {k \in Outside(i, j) : \A m \in Outside(i, j) : text[m] = "," => k < m}

\* An assignment, an increment or a call that is executed whatever the operands
\* are, and before anything else of that kind but what stands inside of it.
RECURSIVE StartsWithEffect(_, _)
StartsWithEffect(i, j) ==
  LET part == FirstPart(i, j)
      Has(t) == \E k \in part : text[k] = t
      primary == Min({k \in part : text[k] \in {"x", "(", "["}})
      operand == {k \in part : \A m \in part : m > primary /\ IsOperator(text[m]) => k < m}
  IN \/ Has("=")
     \/ /\ ~Has("?")
        /\ \/ \E k \in operand : text[k] = "++" \/ (text[k] = "(" /\ k > primary)
           \/ /\ text[primary] = "("
              /\ StartsWithEffect(primary + 1, ClosingBracket(primary, j) - 1)

-----------------------------------------------------------------------------

\* An assignment, an increment or a call somewhere in the tree.
RECURSIVE DoesSomething(_)
DoesSomething(node) ==
  \/ node.op \in {"=", "++x", "x++", "call"}
  \/ \E k \in DOMAIN node.kids : DoesSomething(node.kids[k])

\* Cutting at the last operator of lowest priority, the postfix and unary chains
\* and the lists that continue behind a comma (CreateAST, ParseOperand,
\* ParseSequence) give every text the one tree the grammar gives it, and refuse
\* the texts that have none.
ReadsAsTheGrammar ==
  verdict # "unread" =>
    {ToMergedAST(l) : l \in Lists(1, Len(text) - 1)} = (IF verdict = "rejected" THEN {} ELSE {tree})

\* Of the statements that can be read, those are kept whose text starts with an
\* effect, through every unary, postfix, binary operator and pair of parentheses
\* around it, and the others are refused (CanBeDiscarded): nothing that stands
\* further to the right, in a ternary or in a list saves or condemns a statement.
KeptByItsStart ==
  verdict \in {"kept", "discarded"} =>
    (verdict = "kept" <=> StartsWithEffect(1, Len(text) - 1))

\* "this expression doesn't do anything" (linter.cpp:65) is said of nothing else.
DiscardedDoNothing == verdict = "discarded" => ~DoesSomething(tree)
=============================================================================
