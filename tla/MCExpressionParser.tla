------------------------- MODULE MCExpressionParser -------------------------
(* Every text of up to four tokens, every four operators between plain       *)
(* operands, and every two operators between operands of all the kinds.      *)
EXTENDS ExpressionParser

Tokens == DOMAIN Priority \cup {"x", "++", "(", ")", "[", "]", ","}
Short == UNION {[1..n -> Tokens] : n \in 1..4}
Binary == {"=", "?", ":", "||", "+", "*"}
Flat == {<<"x", a, "x", b, "x", c, "x", d, "x">> : a \in Binary, b \in Binary, c \in Binary, d \in Binary}
Operands == {<<"x">>, <<"-", "x">>, <<"x", "++">>, <<"x", "(", ")">>, <<"(", "x", "=", "x", ")">>,
             <<"[", "x", ",", "x", "]">>, <<"-", "x", "[", "x", "]">>,
             <<"x", "(", "x", ",", "x", ")", "++">>}
Chained == {o1 \o <<a>> \o o2 \o <<b>> \o o3 :
              o1 \in Operands, o2 \in Operands, o3 \in Operands,
              a \in Binary \cup {","}, b \in Binary \cup {","}}
AllTexts == {Append(t, ";") : t \in Short \cup Flat \cup Chained}
=============================================================================
