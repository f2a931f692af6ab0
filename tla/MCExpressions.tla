---------------------------- MODULE MCExpressions ----------------------------
(* All expressions of two operators over these leaves, and those of three    *)
(* with a constant part that is folded.                                      *)
EXTENDS Expressions

Operands == {Node("const", Value("int", 1), <<>>), Node("const", True, <<>>),
             Node("var", "x", <<>>), Node("var", "b", <<>>),
             Node("call", "get", <<>>), Node("call", "set", <<>>), Node("call", "fail", <<>>)}
Over(A, B) ==
  {Node(op, None, <<a>>) : op \in Unary, a \in A}
  \cup {Node(op, None, <<a, b>>) : op \in Binary, a \in A, b \in B}
Folding == {Node(op, None, <<a, a>>) : op \in {"+", "||"}, a \in {Node("const", True, <<>>)}}
Small == Operands \cup Over(Operands, Operands)
         \cup {Node("?", None, <<a, b, c>>) : a \in Operands, b \in Operands, c \in Operands}
         \cup {Node(op, None, <<a, b>>) : op \in Binary, a \in Operands, b \in Folding}
         \cup {Node("?", None, <<a, b, a>>) : a \in Operands, b \in Folding}
\* One set: TLC takes long over the union of two that are large.
Place(op, a, b, swapped) ==
  Node(op, None, IF op \in Unary THEN <<a>> ELSE IF swapped THEN <<b, a>> ELSE <<a, b>>)
AllSources == {Place(op, a, b, swapped) : op \in Unary \cup Binary, a \in Small, b \in Operands,
                                         swapped \in BOOLEAN}
=============================================================================
