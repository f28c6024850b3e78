--------------------------- MODULE MCOfflineSession ---------------------------
(* Addresses of two octets of two bits, four ports; three good frames, one of *)
(* them with IP options, and one whose checksum is blank.                     *)
EXTENDS OfflineSession

Tcp == [size |-> 54, ipv4 |-> TRUE, version |-> 4, ihl |-> 5, words |-> 2 * 65535,
        proto |-> TCP, src |-> 5, port |-> 1, total |-> 2]
Udp == [Tcp EXCEPT !.size = 46, !.ihl = 6, !.proto = UDP, !.src = 6, !.port = 2, !.total = 3]
Icmp == [Tcp EXCEPT !.size = 42, !.proto = 1, !.src = 9, !.port = 0]
Blank == [Tcp EXCEPT !.words = 65535 + 77]

MCFrames == {Tcp, Udp, Icmp, Blank}

\* Cut to any length, with any length of the header; not IPv4; an empty sum.
MCOddFrames ==
  {[f EXCEPT !.size = n, !.ihl = h] : f \in {Tcp, Udp, Icmp}, n \in 0 .. 88, h \in {0, 4, 5, 6, 15}}
  \cup {[Tcp EXCEPT !.version = 6], [Tcp EXCEPT !.ipv4 = FALSE], [Tcp EXCEPT !.words = 0]}

\* Nothing is there; a header is torn; a record ends, has begun, has no frame.
MCCuts == {-24, -1, 0, 1, 15, 16}

Is(name, value) == Bin("=", Col(name), Lit(value))
Like(octets) == Bin("LIKE", Col("src_ip"), Prefix(octets))
And(a, b) == Bin("AND", a, b)
Or(a, b) == Bin("OR", a, b)
Big == Bin(">", Col("size"), Lit(2))

Wheres ==
  << NoExpr,
     Is("proto", TCP),
     Bin("=", Lit(2), Col("dst_port")),
     Is("src_ip", 9),
     Like(<<1>>),
     And(Is("proto", UDP), Like(<<1>>)),
     And(And(Is("dst_port", 1), Big), Bin("!=", Col("src_ip"), Lit(6))),
     And(And(Bin("<=", Col("size"), Lit(3)), Like(<<1>>)), Bin("!=", Col("dst_port"), Lit(2))),
     Or(Is("proto", 1), And(Big, Not(Is("dst_port", 1)))),
     And(Not(Is("proto", TCP)), Is("dst_port", 2)),
     Not(Or(Like(<<1>>), Is("dst_port", 3))),
     Bin("=", Col("dst_port"), Col("size")) >>

All == [columns |-> <<>>, star |-> TRUE, where |-> NoExpr, distinct |-> FALSE, group_by |-> <<>>,
        having |-> NoExpr,
        order_by |-> NoItem, descending |-> FALSE, limit |-> NoLimit]
Select(columns) == [All EXCEPT !.star = FALSE, !.columns = columns]
Distinct(s) == [s EXCEPT !.distinct = TRUE]
Order(s, item, descending) == [s EXCEPT !.order_by = item, !.descending = descending]
Limit(s, n) == [s EXCEPT !.limit = n]
GroupBy(s, names) == [s EXCEPT !.group_by = names]
Having(s, e) == [s EXCEPT !.having = e]

Count == Agg("COUNT", NoColumn)
Largest == Agg("MAX", "size")
Sum == Agg("SUM", "size")
PerProto == GroupBy(Select(<<Plain("proto"), Count, Sum>>), <<"proto">>)

Shapes ==
  << All,
     Order(Select(<<Plain("dst_port"), Plain("size")>>), Plain("size"), TRUE),
     Limit(Order(Select(<<Plain("src_ip"), Plain("size")>>), Plain("src_ip"), TRUE), 3),
     Limit(Order(Select(<<Plain("src_ip"), Plain("dst_port")>>), Plain("dst_port"), FALSE), 3),
     Limit(Order(Select(<<Plain("proto")>>), Plain("size"), FALSE), 2),
     Limit(Select(<<Plain("size")>>), 2),
     Limit(Order(All, Plain("size"), TRUE), 0),
     Limit(Order(Distinct(Select(<<Plain("size"), Plain("proto")>>)), Plain("size"), TRUE), 1),
     Order(Distinct(Select(<<Plain("dst_port")>>)), Plain("size"), FALSE),
     Select(<<Count>>),
     Select(<<Sum, Agg("MIN", "src_ip"), Agg("MAX", "src_ip")>>),
     Order(PerProto, Count, TRUE),
     Limit(Order(Having(PerProto, Bin(">", Of(Sum), Lit(2))), Sum, FALSE), 1),
     Having(GroupBy(Select(<<Count>>), <<"dst_port", "proto">>),
            And(Or(Is("proto", TCP), Bin(">", Of(Count), Lit(1))), Not(Bin("=", Of(Largest), Lit(3))))),
     Having(GroupBy(Select(<<Count>>), <<"proto">>),
            Or(Bin("<", Of(Count), Lit(2)), Is("size", 2))),
     Distinct(GroupBy(Select(<<Count>>), <<"dst_port", "proto">>)),
     Select(<<Plain("size"), Count>>),
     Order(Select(<<Plain("size")>>), Count, FALSE) >>

\* Every shape with every WHERE.
MCQueries ==
  [i \in 1 .. Len(Wheres) * Len(Shapes) |->
     [Shapes[((i - 1) % Len(Shapes)) + 1] EXCEPT !.where = Wheres[((i - 1) \div Len(Shapes)) + 1]]]
===============================================================================
