------------------------------ MODULE QueryParser ------------------------------
(***************************************************************************)
(* The recursive descent of packetql/query/parser.py, from the tokens that *)
(* the lexer makes of a statement to the tree that QueryPlanner and        *)
(* QueryExecutor work with.  A token is its type and its lexeme; that of a *)
(* string is the octets of the address or the pattern in it.  EXPLAIN and  *)
(* the name of the table are left out.                                     *)
(*                                                                         *)
(* Each operator returns the node it has parsed and the tokens that are    *)
(* left, or Stuck where the parser raises.                                 *)
(***************************************************************************)
EXTENDS QueryExecutor

Token(type, lexeme) == [type |-> type, lexeme |-> lexeme]
Keyword(kw) == Token("KEYWORD", kw)
EndOfInput == Token("EOF", "")

Took(node, rest) == [ok |-> TRUE, node |-> node, rest |-> rest]
Stuck == [ok |-> FALSE]
Then(result, Go(_, _)) == IF result.ok THEN Go(result.node, result.rest) ELSE Stuck

\* _is_kw, and a look at the types of the tokens that come next.
IsKw(toks, kw) == Head(toks).type = "KEYWORD" /\ Head(toks).lexeme = kw
Comes(toks, types) == Len(toks) >= Len(types) /\ \A i \in DOMAIN types : toks[i].type = types[i]

Skip(toks, n) == SubSeq(toks, n + 1, Len(toks))
Expect(toks, type) == IF Comes(toks, <<type>>) THEN Took(Head(toks).lexeme, Tail(toks)) ELSE Stuck
ExpectKw(toks, kw) == IF IsKw(toks, kw) THEN Took(kw, Tail(toks)) ELSE Stuck

-----------------------------------------------------------------------------
(* Items.                                                                  *)

\* _try_aggregate begins with the name of a function.
IsFunction(toks) == \E func \in {"COUNT", "SUM", "MIN", "MAX"} : IsKw(toks, func)

Aggregate(toks) ==
  IF IsKw(toks, "COUNT") /\ Comes(Tail(toks), <<"LPAREN", "STAR", "RPAREN">>)
  THEN Took(Agg("COUNT", NoColumn), Skip(toks, 4))
  ELSE IF Comes(Tail(toks), <<"LPAREN", "IDENTIFIER", "RPAREN">>)
  THEN Took(Agg(toks[1].lexeme, toks[3].lexeme), Skip(toks, 4)) ELSE Stuck

Name(toks) == Expect(toks, "IDENTIFIER")

Item(toks) ==
  IF IsFunction(toks) THEN Aggregate(toks)
  ELSE Then(Name(toks), LAMBDA name, rest : Took(Plain(name), rest))

\* Items or names, with commas between.
RECURSIVE More(_, _, _)
More(kind, entries, toks) ==
  IF Comes(toks, <<"COMMA">>)
  THEN Then(IF kind = "items" THEN Item(Tail(toks)) ELSE Name(Tail(toks)), LAMBDA e, rest :
         More(kind, Append(entries, e), rest))
  ELSE Took(entries, toks)

-----------------------------------------------------------------------------
(* Expressions, from OR, which binds least, to the operands.               *)

\* _ip_fix, ip_to_int: an address in quotes that is compared with an address column.
IsAddress(column, e) == column = Col("src_ip") /\ e.op = "pattern"
Compared(op, left, right, rest) ==
  LET Fixed(column, e) == IF IsAddress(column, e) THEN Lit(PrefixValue(e.octets)) ELSE e
      NoInt(column, e) == IsAddress(column, e) /\ Len(e.octets) # Octets
  IN  IF NoInt(left, right) \/ NoInt(right, left) THEN Stuck
      ELSE Took(Bin(op, Fixed(right, left), Fixed(left, right)), rest)

RECURSIVE Expr(_)

Primary(toks) ==
  CASE IsFunction(toks) -> Then(Aggregate(toks), LAMBDA agg, rest : Took(Of(agg), rest))
    [] Comes(toks, <<"LPAREN">>) ->
         Then(Expr(Tail(toks)), LAMBDA e, rest :
           Then(Expect(rest, "RPAREN"), LAMBDA paren, more : Took(e, more)))
    [] Comes(toks, <<"INTEGER">>) -> Took(Lit(Head(toks).lexeme), Tail(toks))
    [] Comes(toks, <<"STRING">>) -> Took(Prefix(Head(toks).lexeme), Tail(toks))
    [] Comes(toks, <<"IDENTIFIER">>) -> Took(Col(Head(toks).lexeme), Tail(toks))
    [] OTHER -> Stuck

Comparison(toks) ==
  Then(Primary(toks), LAMBDA left, rest :
    CASE Comes(rest, <<"OPERATOR">>) ->
           Then(Primary(Tail(rest)), LAMBDA right, more : Compared(rest[1].lexeme, left, right, more))
      [] IsKw(rest, "LIKE") ->
           Then(Primary(Tail(rest)), LAMBDA right, more : Took(Bin("LIKE", left, right), more))
      [] OTHER -> Took(left, rest))

RECURSIVE NotExpr(_)
NotExpr(toks) ==
  IF IsKw(toks, "NOT")
  THEN Then(NotExpr(Tail(toks)), LAMBDA e, rest : Took(Not(e), rest)) ELSE Comparison(toks)

\* The loops of _and_expr and _or_expr, which associate to the left.
RECURSIVE Chain(_, _, _), AndExpr(_)
Chain(kw, left, toks) ==
  IF IsKw(toks, kw)
  THEN Then(IF kw = "AND" THEN NotExpr(Tail(toks)) ELSE AndExpr(Tail(toks)), LAMBDA right, rest :
         Chain(kw, Bin(kw, left, right), rest))
  ELSE Took(left, toks)

AndExpr(toks) == Then(NotExpr(toks), LAMBDA e, rest : Chain("AND", e, rest))
Expr(toks) == Then(AndExpr(toks), LAMBDA e, rest : Chain("OR", e, rest))

-----------------------------------------------------------------------------
(* _select, clause after clause.                                           *)

NoClauses == [columns |-> <<>>, star |-> FALSE, where |-> NoExpr, distinct |-> FALSE,
            group_by |-> <<>>, having |-> NoExpr, order_by |-> NoItem, descending |-> FALSE,
            limit |-> NoLimit]

Columns(distinct, toks) ==
  IF Comes(toks, <<"STAR">>) THEN Took([NoClauses EXCEPT !.distinct = distinct, !.star = TRUE], Tail(toks))
  ELSE Then(Item(toks), LAMBDA item, rest :
         Then(More("items", <<item>>, rest), LAMBDA items, more :
           Took([NoClauses EXCEPT !.distinct = distinct, !.columns = items], more)))

SelectClause(toks) ==
  Then(ExpectKw(toks, "SELECT"), LAMBDA kw, rest :
    IF IsKw(rest, "DISTINCT") THEN Columns(TRUE, Tail(rest)) ELSE Columns(FALSE, rest))

FromClause(select, toks) ==
  Then(ExpectKw(toks, "FROM"), LAMBDA kw, rest :
    Then(Expect(rest, "IDENTIFIER"), LAMBDA table, more : Took(select, more)))

WhereClause(select, toks) ==
  IF ~IsKw(toks, "WHERE") THEN Took(select, toks)
  ELSE Then(Expr(Tail(toks)), LAMBDA e, rest : Took([select EXCEPT !.where = e], rest))

\* Only a GROUP BY can have a HAVING.
HavingClause(select, toks) ==
  IF ~IsKw(toks, "HAVING") THEN Took(select, toks)
  ELSE Then(Expr(Tail(toks)), LAMBDA e, rest : Took([select EXCEPT !.having = e], rest))

GroupClause(select, toks) ==
  IF ~IsKw(toks, "GROUP") THEN Took(select, toks)
  ELSE Then(ExpectKw(Tail(toks), "BY"), LAMBDA kw, rest :
         Then(Name(rest), LAMBDA name, more :
           Then(More("names", <<name>>, more), LAMBDA names, others :
             HavingClause([select EXCEPT !.group_by = names], others))))

Direction(select, toks) ==
  IF IsKw(toks, "ASC") THEN Took(select, Tail(toks))
  ELSE IF IsKw(toks, "DESC") THEN Took([select EXCEPT !.descending = TRUE], Tail(toks))
  ELSE Took(select, toks)

OrderClause(select, toks) ==
  IF ~IsKw(toks, "ORDER") THEN Took(select, toks)
  ELSE Then(ExpectKw(Tail(toks), "BY"), LAMBDA kw, rest :
         Then(Item(rest), LAMBDA item, more : Direction([select EXCEPT !.order_by = item], more)))

LimitClause(select, toks) ==
  IF ~IsKw(toks, "LIMIT") THEN Took(select, toks)
  ELSE Then(Expect(Tail(toks), "INTEGER"), LAMBDA n, rest : Took([select EXCEPT !.limit = n], rest))

\* parse: all the tokens are used up.
Parse(toks) ==
  LET select == Then(Then(Then(Then(Then(SelectClause(toks), FromClause), WhereClause),
                               GroupClause), OrderClause), LimitClause)
  IN  Then(select, LAMBDA s, rest : IF Comes(rest, <<"EOF">>) THEN Took(s, rest) ELSE Stuck)
===============================================================================
