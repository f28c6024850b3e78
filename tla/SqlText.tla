-------------------------------- MODULE SqlText --------------------------------
(***************************************************************************)
(* How a query is written: the tokens of a statement that means a given    *)
(* tree, by the grammar (parser.py:3-13) and with no more parentheses than *)
(* the usual precedence needs.  AND and OR associate to the left.          *)
(***************************************************************************)
EXTENDS QueryParser

Words(keywords) == [i \in DOMAIN keywords |-> Keyword(keywords[i])]
Word(kw) == Words(<<kw>>)
Identifier(name) == <<Token("IDENTIFIER", name)>>
Integer(n) == <<Token("INTEGER", n)>>
Enclosed(toks) == <<Token("LPAREN", "(")>> \o toks \o <<Token("RPAREN", ")")>>

WrittenItem(item) ==
  CASE ~IsAgg(item) -> Identifier(item.arg)
    [] IsAgg(item) /\ item.arg = NoColumn -> Word(item.func) \o Enclosed(<<Token("STAR", "*")>>)
    [] OTHER -> Word(item.func) \o Enclosed(Identifier(item.arg))

WithCommas(parts) ==
  FoldLeft(LAMBDA toks, part : IF toks = <<>> THEN part ELSE toks \o <<Token("COMMA", ",")>> \o part,
           <<>>, parts)

\* The octets of an address, the highest first.
OctetsOf(address) ==
  [k \in 1 .. Octets |-> (address \div Base ^ (Octets - k)) % Base]

\* An operand; an address is written in quotes where it meets an address column.
WrittenOperand(e, other) ==
  CASE e.op = "column" -> Identifier(e.name)
    [] e.op = "aggregate" -> WrittenItem(e.agg)
    [] e.op = "pattern" -> <<Token("STRING", e.octets)>>
    [] e.op = "literal" /\ other.op = "column" /\ other.name = "src_ip" ->
         <<Token("STRING", OctetsOf(e.value))>>
    [] OTHER -> Integer(e.value)

Binding(e) == CASE e.op = "OR" -> 1 [] e.op = "AND" -> 2 [] e.op = "NOT" -> 3 [] OTHER -> 4

RECURSIVE WrittenExpr(_, _)
WrittenExpr(e, binding) ==
  LET toks ==
        CASE e.op \in {"AND", "OR"} ->
               WrittenExpr(e.left, Binding(e)) \o Word(e.op) \o WrittenExpr(e.right, Binding(e) + 1)
          [] e.op = "NOT" -> Word("NOT") \o WrittenExpr(e.operand, Binding(e))
          [] OTHER ->
               WrittenOperand(e.left, e.right)
                 \o (IF e.op = "LIKE" THEN Word("LIKE") ELSE <<Token("OPERATOR", e.op)>>)
                 \o WrittenOperand(e.right, e.left)
  IN  IF Binding(e) < binding THEN Enclosed(toks) ELSE toks

When(there, toks) == IF there THEN toks ELSE <<>>

Written(select) ==
  LET columns == [i \in DOMAIN select.columns |-> WrittenItem(select.columns[i])]
      names == [i \in DOMAIN select.group_by |-> Identifier(select.group_by[i])]
  IN  Word("SELECT") \o When(select.distinct, Word("DISTINCT"))
        \o (IF select.star THEN <<Token("STAR", "*")>> ELSE WithCommas(columns))
        \o Word("FROM") \o Identifier("packets")
        \o When(select.where # NoExpr, Word("WHERE") \o WrittenExpr(select.where, 1))
        \o When(select.group_by # <<>>, Words(<<"GROUP", "BY">>) \o WithCommas(names))
        \o When(select.having # NoExpr, Word("HAVING") \o WrittenExpr(select.having, 1))
        \o When(HasOrder(select), Words(<<"ORDER", "BY">>) \o WrittenItem(select.order_by)
                                    \o When(select.descending, Word("DESC")))
        \o When(HasLimit(select), Word("LIMIT") \o Integer(select.limit))
        \o <<EndOfInput>>
===============================================================================
