----------------------------- MODULE QueryExecutor -----------------------------
(***************************************************************************)
(* What packetql/query/executor.py makes of the rows that a plan yields:   *)
(* groups and aggregates with HAVING, or a projection, then DISTINCT,      *)
(* ORDER BY and LIMIT.  AVG is left out.                                   *)
(***************************************************************************)
EXTENDS QueryPlanner

NoLimit == -1
Error == [error |-> TRUE]
Answer(rows) == [error |-> FALSE, rows |-> rows]

HasLimit(select) == select.limit # NoLimit
HasOrder(select) == select.order_by # NoItem

\* _dedup: the first of each.
Dedup(s) == FoldLeft(LAMBDA out, r : IF Contains(out, r) THEN out ELSE Append(out, r), <<>>, s)

Limited(select, s) == IF HasLimit(select) THEN SubSeq(s, 1, Min({select.limit, Len(s)})) ELSE s

\* The column of the result that has the label of item.
Place(items, item) == CHOOSE i \in DOMAIN items : items[i] = item

\* sorted(rows, key = lambda r: r[place], reverse = descending)
SortedBy(rows, place, descending) ==
  LET sorted == StableSort([i \in DOMAIN rows |-> [key |-> rows[i][place], row |-> rows[i]]],
                           descending)
  IN  [i \in DOMAIN rows |-> sorted[i].row]

\* _order_limit_labeled, and the same for DISTINCT.
OrderLimit(select, out) ==
  LET items == OutItems(select)
  IN  IF HasOrder(select) /\ ~Contains(items, select.order_by) THEN Error
      ELSE Answer(Limited(select,
             IF HasOrder(select)
             THEN SortedBy(out, Place(items, select.order_by), select.descending) ELSE out))

-----------------------------------------------------------------------------
(* _aggregate_finish.                                                      *)

Values(rows, column) == {rows[i][column] : i \in DOMAIN rows}

\* _compute_agg; the value of a plain item is that of the group's first row.
ValueOf(item, rows) ==
  CASE item.func = "none" -> rows[1][item.arg]
    [] item.func = "COUNT" -> Len(rows)
    [] item.func = "SUM" -> FoldLeft(LAMBDA sum, r : sum + r[item.arg], 0, rows)
    [] item.func = "MIN" -> IF rows = <<>> THEN 0 ELSE Min(Values(rows, item.arg))
    [] item.func = "MAX" -> IF rows = <<>> THEN 0 ELSE Max(Values(rows, item.arg))

Row(select, rows) ==
  [i \in DOMAIN select.columns |-> ValueOf(select.columns[i], rows)]

Key(select, row) == [i \in DOMAIN select.group_by |-> row[select.group_by[i]]]

\* The groups in the order of their first rows; without GROUP BY there is one
\* group even if there is no row.
Groups(select, rows) ==
  LET keys == Dedup([i \in DOMAIN rows |-> Key(select, rows[i])])
  IN  IF select.group_by = <<>> THEN <<rows>>
      ELSE [i \in DOMAIN keys |-> SelectSeq(rows, LAMBDA r : Key(select, r) = keys[i])]

Ungrouped(select, item) == ~IsAgg(item) /\ ~Contains(select.group_by, item.arg)

\* _eval_having: each side is looked at only if the other does not decide.
RECURSIVE HavingHolds(_, _)
HavingHolds(e, rows) ==
  LET Side(x) == CASE x.op = "literal" -> x.value
                   [] x.op = "column" -> ValueOf(Plain(x.name), rows)
                   [] x.op = "aggregate" -> ValueOf(x.agg, rows)
  IN  CASE e.op = "none" -> TRUE
        [] e.op \in Comparisons -> Compare(e.op, Side(e.left), Side(e.right))
        [] e.op = "AND" -> HavingHolds(e.left, rows) /\ HavingHolds(e.right, rows)
        [] e.op = "OR" -> HavingHolds(e.left, rows) \/ HavingHolds(e.right, rows)
        [] e.op = "NOT" -> ~HavingHolds(e.operand, rows)

\* What _having_value and _eval_having raise for a group: a column that is not
\* grouped, an operand or an expression that is none.
RECURSIVE HavingRaises(_, _, _)
HavingRaises(select, e, rows) ==
  LET Bad(x) == \/ x.op \notin {"literal", "column", "aggregate"}
                \/ x.op = "column" /\ Ungrouped(select, Plain(x.name))
      Decided(x) == IF e.op = "AND" THEN ~HavingHolds(x, rows) ELSE HavingHolds(x, rows)
  IN  CASE e.op = "none" -> FALSE
        [] e.op \in Comparisons -> Bad(e.left) \/ Bad(e.right)
        [] e.op \in {"AND", "OR"} ->
             IF HavingRaises(select, e.left, rows) THEN TRUE
             ELSE ~Decided(e.left) /\ HavingRaises(select, e.right, rows)
        [] e.op = "NOT" -> HavingRaises(select, e.operand, rows)
        [] OTHER -> TRUE

\* Raised before the rows are read, and when HAVING looks at a group.
GroupingError(select, groups) ==
  \/ select.star
  \/ \E i \in DOMAIN select.columns : Ungrouped(select, select.columns[i])
  \/ \E i \in DOMAIN groups : HavingRaises(select, select.having, groups[i])

AggregateFinish(select, rows) ==
  LET groups == Groups(select, rows)
      kept == SelectSeq(groups, LAMBDA g : HavingHolds(select.having, g))
      out == [i \in DOMAIN kept |-> Row(select, kept[i])]
  IN  IF GroupingError(select, groups) THEN Error
      ELSE OrderLimit(select, IF select.distinct THEN Dedup(out) ELSE out)

-----------------------------------------------------------------------------
(* _finish.                                                                *)

\* ORDER BY on the columns read, through the heap if there is a LIMIT.
OrderedRows(select, rows) ==
  LET column == select.order_by.arg
      items == [i \in DOMAIN rows |-> [key |-> rows[i][column], row |-> rows[i]]]
      kept == IF HasLimit(select) THEN TopOf(items, select.limit, select.descending)
              ELSE StableSort(items, select.descending)
  IN  IF HasOrder(select) THEN [i \in DOMAIN kept |-> kept[i].row]
      ELSE Limited(select, rows)

Projected(select, rows) ==
  [i \in DOMAIN rows |-> [j \in DOMAIN OutItems(select) |-> rows[i][OutItems(select)[j].arg]]]

Finish(select, rows) ==
  IF IsAggregated(select) THEN AggregateFinish(select, rows)
  ELSE IF select.distinct THEN OrderLimit(select, Dedup(Projected(select, rows)))
  ELSE Answer(Projected(select, OrderedRows(select, rows)))

\* run_query
RunQuery(select, store, ix) ==
  LET read == ReadColumns(select)
  IN  IF ~(read \subseteq ToSet(ColumnNames)) THEN Error
      ELSE Finish(select, PlannedRows(Plan(select.where, store, ix), store, read))
===============================================================================
