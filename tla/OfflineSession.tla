---------------------------- MODULE OfflineSession ----------------------------
(***************************************************************************)
(* What demo.py and query.py put together: captures into a store, and      *)
(* queries of it between them, without indexes, with those that grew with  *)
(* the store and with those built from it.                                 *)
(***************************************************************************)
EXTENDS CaptureSession, SqlText

CONSTANT Queries        \* what the queries mean, a sequence of trees

VARIABLE answer         \* the answer to the query that was asked last

vars == <<captureVars, asked, answer>>

Nothing == 0

Init == CaptureInit /\ asked = NoQuery /\ answer = Nothing

Indexes(access) ==
  CASE access = "none" -> NoIndexes
    [] access = "grown" -> grown
    [] access = "built" -> Build(table)

\* A query is written, and parse makes a tree of it.
Trees == [q \in DOMAIN Queries |-> Parse(Written(Queries[q]))]

\* parse and run_query; access says with which indexes.
Ask(q, access) ==
  /\ Idle
  /\ asked' = q
  /\ answer' = IF Trees[q].ok THEN RunQuery(Trees[q].node, table, Indexes(access)) ELSE Error
  /\ UNCHANGED captureVars

\* The result is printed.
Show ==
  /\ asked # NoQuery
  /\ asked' = NoQuery /\ answer' = Nothing
  /\ UNCHANGED captureVars

AskSome == \E q \in DOMAIN Queries, access \in {"none", "grown", "built"} : Ask(q, access)

Next == (CaptureNext /\ UNCHANGED <<asked, answer>>) \/ AskSome \/ Show

Spec == Init /\ [][Next]_vars

-----------------------------------------------------------------------------
(* Properties, beside those of CaptureSession.                             *)

\* What a query answers is what it means for the whole rows of the store, however
\* its operators nest and whichever indexes it may use: the parser groups as the
\* grammar does (parser.py:131-160) and makes numbers of addresses, the candidates
\* of the indexes and the predicates left over (indexes.py:125-165) select what the
\* scan selects, and no column is missing that a clause needs (planner.py:62-96).
AnswersAgree ==
  LET select == Queries[asked]
  IN  asked # NoQuery /\ ReadColumns(select) \subseteq ToSet(ColumnNames) =>
        answer = Finish(select, SelectSeq(table, LAMBDA row : Holds(select.where, row)))

\* A query with a LIMIT answers the first rows of the same query without it; where
\* rows tie in the order the heap (topn.py) may keep others than the sort, but as
\* many, of the same keys, and only rows that there are.
LimitKeepsTheTop ==
  LET select == Queries[asked]
      all == RunQuery([select EXCEPT !.limit = NoLimit], table, NoIndexes).rows
      items == OutItems(select)
  IN  asked # NoQuery /\ ~answer.error /\ HasLimit(select) =>
        /\ Len(answer.rows) = Min({select.limit, Len(all)})
        /\ ToBag(answer.rows) \sqsubseteq ToBag(all)
        /\ IF ~HasOrder(select) THEN IsPrefix(answer.rows, all)
           ELSE Contains(items, select.order_by) =>
                  LET place == Place(items, select.order_by)
                  IN  \A i \in DOMAIN answer.rows : answer.rows[i][place] = all[i][place]
===============================================================================
