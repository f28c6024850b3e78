------------------------------ MODULE QueryPlanner ------------------------------
(***************************************************************************)
(* How the rows of a query are found: packetql/query/planner.py, the mask  *)
(* and the scan of executor.py, PacketIndexes.choose and index/access.py.  *)
(* A query is the tree that the SQL parser builds (query/ast.py):          *)
(*                                                                         *)
(*   Col(name), Lit(value), Prefix(octets)  operands; the last is the      *)
(*                           pattern of a LIKE                             *)
(*   Bin(op, left, right), Not(operand), NoExpr                            *)
(*   Plain(name), Agg(func, arg)  the items of a SELECT; an aggregate of   *)
(*                           all rows has the argument NoColumn            *)
(*   Of(agg)                 an aggregate as an operand, in a HAVING       *)
(*                                                                         *)
(* Rows are records of the columns that a query reads.  Literals are in    *)
(* the range of their column, and a LIKE's pattern has at most the octets  *)
(* of an address.                                                          *)
(***************************************************************************)
EXTENDS IndexStructures, TopN

\* COLUMN_NAMES, of which the model has four, and the narrowest.
ColumnNames == <<"src_ip", "dst_port", "proto", "size">>
Narrowest == "proto"
NoColumn == "*"

Col(name) == [op |-> "column", name |-> name]
Lit(value) == [op |-> "literal", value |-> value]
Prefix(octets) == [op |-> "pattern", octets |-> octets]
Bin(op, left, right) == [op |-> op, left |-> left, right |-> right]
Not(operand) == [op |-> "NOT", operand |-> operand]
NoExpr == [op |-> "none"]

Comparisons == {"=", "!=", "<", ">", "<=", ">="}

Plain(name) == [func |-> "none", arg |-> name]
Agg(func, arg) == [func |-> func, arg |-> arg]
IsAgg(item) == item.func # "none"
NoItem == Plain(NoColumn)
Of(agg) == [op |-> "aggregate", agg |-> agg]

IsAggregated(select) ==
  select.group_by # <<>> \/ \E i \in DOMAIN select.columns : IsAgg(select.columns[i])

\* The items of the result.
OutItems(select) ==
  IF select.star THEN [i \in DOMAIN ColumnNames |-> Plain(ColumnNames[i])] ELSE select.columns

-----------------------------------------------------------------------------
(* Which columns a query reads.                                            *)

ItemColumns(items) == {item.arg : item \in items} \ {NoColumn}

\* columns_in and having_columns; in a WHERE there are no aggregates.
RECURSIVE ColumnsIn(_)
ColumnsIn(e) ==
  CASE e.op = "column" -> {e.name}
    [] e.op = "aggregate" -> ItemColumns({e.agg})
    [] e.op \in Comparisons \cup {"AND", "OR", "LIKE"} -> ColumnsIn(e.left) \cup ColumnsIn(e.right)
    [] e.op = "NOT" -> ColumnsIn(e.operand)
    [] OTHER -> {}

\* The label of an aggregate is no column: ordering plain rows by one is an error.
Referenced(select) ==
  UNION {ItemColumns(ToSet(OutItems(select))), ColumnsIn(select.where),
         ToSet(select.group_by), ColumnsIn(select.having),
         IF select.order_by = NoItem \/ IsAggregated(select) THEN {}
         ELSE IF IsAgg(select.order_by) THEN {"label"} ELSE {select.order_by.arg}}

ReadColumns(select) ==
  IF Referenced(select) = {} THEN {Narrowest} ELSE Referenced(select)

-----------------------------------------------------------------------------
(* WHERE.  A pattern is a range of addresses for the mask, a value and a   *)
(* number of bits for the trie.                                            *)

Base == 2 ^ OctetBits

\* ip_prefix_range
RangeOf(octets) ==
  LET Filled(rest) ==
        FoldLeft(LAMBDA v, k : v * Base + (IF k <= Len(octets) THEN octets[k] ELSE rest),
                 0, [k \in 1 .. Octets |-> k])
  IN  Filled(0) .. Filled(Base - 1)

\* _like_to_prefix
PrefixValue(octets) ==
  FoldLeft(LAMBDA v, k : v * Base + At(octets, k, 0), 0, [k \in 1 .. Octets |-> k])
PrefixBits(octets) == Len(octets) * OctetBits

Compare(op, a, b) ==
  CASE op = "=" -> a = b   [] op = "!=" -> a # b
    [] op = "<" -> a < b   [] op = ">" -> a > b
    [] op = "<=" -> a <= b [] op = ">=" -> a >= b

\* evaluate_mask, for one row of the batch.
RECURSIVE Holds(_, _)
Holds(e, row) ==
  LET Operand(x) == IF x.op = "column" THEN row[x.name] ELSE x.value
  IN  CASE e.op = "none" -> TRUE
        [] e.op \in Comparisons -> Compare(e.op, Operand(e.left), Operand(e.right))
        [] e.op = "AND" -> Holds(e.left, row) /\ Holds(e.right, row)
        [] e.op = "OR" -> Holds(e.left, row) \/ Holds(e.right, row)
        [] e.op = "LIKE" -> row[e.left.name] \in RangeOf(e.right.octets)
        [] e.op = "NOT" -> ~Holds(e.operand, row)

-----------------------------------------------------------------------------
(* PacketIndexes.choose.                                                   *)

RECURSIVE Conjuncts(_)
Conjuncts(e) ==
  CASE e.op = "none" -> <<>>
    [] e.op = "AND" -> Conjuncts(e.left) \o Conjuncts(e.right)
    [] OTHER -> <<e>>

\* Only the first of what is left over.
RebuildFirst(parts) == IF parts = <<>> THEN NoExpr ELSE parts[1]

RebuildAnd(parts) ==
  IF parts = <<>> THEN NoExpr
  ELSE FoldLeft(LAMBDA e, part : Bin("AND", e, part), parts[1], Tail(parts))

\* _resolve: a column and a literal, in either order, or a pattern for the trie's column.
Sides(e) == {<<e.left, e.right>>, <<e.right, e.left>>}
IsLookup(e) ==
  e.op = "=" /\ \E s \in Sides(e) : s[1].op = "column" /\ s[1].name # "size" /\ s[2].op = "literal"
Resolves(e) == \/ IsLookup(e)
               \/ e.op = "LIKE" /\ e.left.name = "src_ip"

RowsFor(ix, e) ==
  IF e.op = "LIKE" THEN PrefixRows(ix.trie, PrefixValue(e.right.octets), PrefixBits(e.right.octets))
  ELSE LET s == CHOOSE s \in Sides(e) : s[1].op = "column"
       IN  CASE s[1].name = "proto" -> BitmapRows(ix.bitmap, s[2].value)
             [] s[1].name = "dst_port" -> PortRows(ix.hash, s[2].value)
             [] s[1].name = "src_ip" -> ExactRows(ix.trie, s[2].value)

NoIndexes == [rows |-> -1]
Scan(where) == [access |-> "scan", where |-> where]

\* plan_query: an index is taken if it leaves out some row of the store.
Plan(where, store, ix) ==
  LET parts == Conjuncts(where)
      indexed == SelectSeq(parts, Resolves)
      residual == SelectSeq(parts, LAMBDA e : ~Resolves(e))
      found == {ToSet(RowsFor(ix, indexed[i])) : i \in DOMAIN indexed}
      candidates == {row \in UNION found : \A rows \in found : row \in rows}
  IN  IF ix = NoIndexes \/ indexed = <<>> THEN Scan(where)
      ELSE IF Cardinality(candidates) >= Len(store) THEN Scan(where)
      ELSE [access |-> "index", candidates |-> Ascending(candidates),
            where |-> RebuildAnd(residual)]

\* _scan_rows and filtered_rows: the rows that a plan yields, of the columns read.
PlannedRows(plan, store, read) ==
  LET Part(i) == [c \in read |-> store[i][c]]
      source == IF plan.access = "scan" THEN [i \in DOMAIN store |-> Part(i)]
                ELSE [k \in DOMAIN plan.candidates |-> Part(plan.candidates[k] + 1)]
  IN  SelectSeq(source, LAMBDA row : Holds(plan.where, row))
===============================================================================
