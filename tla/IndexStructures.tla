---------------------------- MODULE IndexStructures ----------------------------
(***************************************************************************)
(* The indexes of packetql/index: the bit trie of an address column        *)
(* (trie.py), the direct-address table of a port column (hash_index.py)    *)
(* and the bitmaps of a column with few values (bitmap.py), and one of     *)
(* each put together (indexes.py).                                         *)
(*                                                                         *)
(* A node of the trie is the number of bits on the way to it and their     *)
(* value; the trie is the counts of the nodes there are and the rows at    *)
(* the leaves.  An address has Octets octets of OctetBits bits, in the     *)
(* program 4 of 8.  A bitmap is the set of its one bits.                   *)
(***************************************************************************)
EXTENDS Integers, Sequences, SequencesExt, FiniteSetsExt, InOrder

CONSTANTS Octets, OctetBits,    \* the shape of an address
          NumPorts              \* the buckets of the table, 65536 in the program

ASSUME AddressAssumption == Octets \in Nat \ {0} /\ OctetBits \in Nat \ {0}
ASSUME PortsAssumption == NumPorts \in Nat \ {0}

Depth == Octets * OctetBits

\* f with e at x, where f need not be defined; what f has at x, or none.
Put(f, x, e) == [y \in {x} \cup DOMAIN f |-> IF y = x THEN e ELSE f[y]]
At(f, x, none) == IF x \in DOMAIN f THEN f[x] ELSE none

-----------------------------------------------------------------------------
(* BitTrie.                                                                *)

EmptyTrie == [count |-> [root \in {<<0, 0>>} |-> 0], rows |-> <<>>]

\* The node that bits levels of value lead to, shifted by one bit too many.
NodeShifted(value, bits) == <<bits, value \div 2 ^ (Depth - bits + 1)>>

\* The node that the first bits bits of value lead to.
Node(value, bits) == <<bits, value \div 2 ^ (Depth - bits)>>

\* Creates the nodes that are missing on the way and counts the row in each.
TrieAdd(trie, value, row) ==
  LET path == {Node(value, bits) : bits \in 0 .. Depth}
      leaf == Node(value, Depth)
  IN  [count |-> [node \in path \cup DOMAIN trie.count |->
                   At(trie.count, node, 0) + (IF node \in path THEN 1 ELSE 0)],
       rows  |-> Put(trie.rows, leaf, Append(At(trie.rows, leaf, <<>>), row))]

\* The leaves that bits levels of value lead to, none if a node is missing.
Below(trie, value, bits) ==
  {leaf \in DOMAIN trie.rows : Node(leaf[2], bits) = Node(value, bits)}

\* Where the rows of these leaves are: a leaf, and a place in its list.
Entries(trie, value, bits) ==
  UNION {{leaf} \X DOMAIN trie.rows[leaf] : leaf \in Below(trie, value, bits)}

PrefixRows(trie, value, bits) ==
  Sorted([e \in Entries(trie, value, bits) |-> trie.rows[e[1]][e[2]]])

PrefixCount(trie, value, bits) == At(trie.count, Node(value, bits), 0)

ExactRows(trie, value) == PrefixRows(trie, value, Depth)

-----------------------------------------------------------------------------
(* PortHash.                                                               *)

EmptyTable == [port \in 0 .. NumPorts - 1 |-> <<>>]

PortAdd(table, port, row) == [table EXCEPT ![port] = Append(@, row)]

PortRows(table, port) == At(table, port, <<>>)

PortCount(table, port) == Len(PortRows(table, port))

-----------------------------------------------------------------------------
(* BitmapIndex.  A store that was read whole has as many values as rows, so *)
(* no bit lies beyond the buffer that the bulk build makes.                 *)

BulkBitmaps(values) ==
  [value \in ToSet(values) |-> {row \in 0 .. Len(values) - 1 : values[row + 1] = value}]

BitmapAdd(bitmaps, value, row) == Put(bitmaps, value, At(bitmaps, value, {}) \cup {row})

BitmapRows(bitmaps, value) == Ascending(At(bitmaps, value, {}))

BitmapCount(bitmaps, value) == Cardinality(At(bitmaps, value, {}))

-----------------------------------------------------------------------------
(* PacketIndexes over rows with the columns src_ip, dst_port and proto; the *)
(* program has a second trie and a second table, for dst_ip and src_port.   *)

Empty == [trie |-> EmptyTrie, hash |-> EmptyTable, bitmap |-> <<>>, rows |-> 0]

\* add: one more record, of row row.
AddRecord(ix, rec, row) ==
  [trie |-> TrieAdd(ix.trie, rec.src_ip, row),
   hash |-> PortAdd(ix.hash, rec.dst_port, row),
   bitmap |-> BitmapAdd(ix.bitmap, rec.proto, row),
   rows |-> Max({ix.rows, row + 1})]

\* The index after each of the records, the first of which is row first.
Growing(ix, records, first) ==
  LET grown[k \in 0 .. Len(records)] ==
        IF k = 0 THEN ix ELSE AddRecord(grown[k - 1], records[k], first + k - 1)
  IN  grown

\* The trie and the table after each row of a store.
Filling(store) ==
  LET filled[k \in 0 .. Len(store)] ==
        IF k = 0 THEN [trie |-> EmptyTrie, hash |-> EmptyTable]
        ELSE LET before == filled[k - 1]
             IN  [trie |-> TrieAdd(before.trie, store[k].src_ip, k - 1),
                  hash |-> PortAdd(before.hash, store[k].dst_port, k - 1)]
  IN  filled

\* build: each index from its column of a store.
Build(store) ==
  [trie |-> Filling(store)[Len(store)].trie,
   hash |-> Filling(store)[Len(store)].hash,
   bitmap |-> BulkBitmaps([i \in DOMAIN store |-> store[i].proto]),
   rows |-> Len(store)]
===============================================================================
