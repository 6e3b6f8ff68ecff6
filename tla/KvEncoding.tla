----------------------------- MODULE KvEncoding -----------------------------
(* The byte keys of src/tpcc_kv.c, written into FoundationDB's ordered key  *)
(* space.  A byte has Base values (256 in the code), an id four bytes.      *)
(* Prefixes are kept without the "tpcc/" that all of them share.            *)
EXTENDS Integers, Sequences, FiniteSets

CONSTANTS Base,       \* values of a byte
          Rows,       \* the rows a run may write: [table, ids, last, first]
          MaxRows,    \* bound on the rows written
          Counters    \* the order counters a run may write

\* A uint32_t has four bytes; the prefixes are ASCII.
Word == Base * Base * Base * Base
U32 == 0..Word-1
Byte == 0..Base-1
Char == Byte \ {0}

Arity == [w |-> 1, d |-> 2, c |-> 3, cn |-> 3, h |-> 5, i |-> 1, s |-> 2, o |-> 3,
          no |-> 3, ol |-> 4, nid |-> 2]

ASSUME BaseAssumption == Base \in Nat /\ Base >= 128 /\ Base % 2 = 0

\* last and first are the C strings of a customer_name row and empty otherwise.
ASSUME RowsAssumption ==
  /\ Rows \subseteq [table : DOMAIN Arity, ids : Seq(U32),
                     last : Seq(Char), first : Seq(Char)]
  /\ \A row \in Rows : /\ Len(row.ids) = Arity[row.table]
                       /\ row.table # "cn" => row.last = <<>> /\ row.first = <<>>

ASSUME BoundsAssumption ==
  /\ MaxRows \in Nat
  /\ \A v \in Counters : v \in Int /\ 2 * v >= -Word /\ 2 * v < Word

VARIABLES rows,       \* the rows written
          counter     \* the last next_o_id written, and its bytes

vars == <<rows, counter>>

----------------------------------------------------------------------------
(* Integers *)

\* The least significant byte first.
kv_encode_u32_le(v) ==
  LET s1 == v \div Base
      s2 == s1 \div Base
      s3 == s2 \div Base
  IN  <<v % Base, s1 % Base, s2 % Base, s3 % Base>>

kv_encode_u32_be(v) ==
  LET s1 == v \div Base
      s2 == s1 \div Base
      s3 == s2 \div Base
  IN  <<s3 % Base, s2 % Base, s1 % Base, v % Base>>

kv_decode_u32_be(b) == ((b[1] * Base + b[2]) * Base + b[3]) * Base + b[4]

\* int32_t to int64_t, most significant byte first.
kv_encode_next_o_id(v) ==
  LET sign == IF v < 0 THEN Base - 1 ELSE 0
  IN  <<sign, sign, sign, sign>> \o kv_encode_u32_be(v)

\* The low word is not taken as signed.
kv_decode_next_o_id_unsigned(b, len) ==
  IF len < 8 THEN 0 ELSE kv_decode_u32_be(SubSeq(b, 5, 8))

\* (int32_t) keeps the low four bytes.
kv_decode_next_o_id(b, len) ==
  LET low == kv_decode_u32_be(SubSeq(b, 5, 8))
  IN  IF len < 8 THEN 0 ELSE IF 2 * low >= Word THEN low - Word ELSE low

----------------------------------------------------------------------------
(* Keys *)

slash == 47
NUL == <<0>>

\* New orders share the prefix of orders.
SubspaceShared ==
  [w |-> <<119, slash>>, d |-> <<100, slash>>, c |-> <<99, slash>>, cn |-> <<99, 110, slash>>,
   h |-> <<104, slash>>, i |-> <<105, slash>>, s |-> <<115, slash>>, o |-> <<111, slash>>,
   no |-> <<111, slash>>, ol |-> <<111, 108, slash>>, nid |-> <<110, 105, 100, slash>>]

Subspace ==
  [w |-> <<119, slash>>, d |-> <<100, slash>>, c |-> <<99, slash>>, cn |-> <<99, 110, slash>>,
   h |-> <<104, slash>>, i |-> <<105, slash>>, s |-> <<115, slash>>, o |-> <<111, slash>>,
   no |-> <<110, 111, slash>>, ol |-> <<111, 108, slash>>, nid |-> <<110, 105, 100, slash>>]

IdBytes(ids) ==
  [p \in 1..4 * Len(ids) |-> kv_encode_u32_be(ids[((p - 1) \div 4) + 1])[((p - 1) % 4) + 1]]

\* The builders without names: a prefix and the ids, one after the other.
IdKey(table, ids) == Subspace[table] \o IdBytes(ids)

\* w_id, d_id, the two strings with their NUL, c_id.
kv_customer_name_key(ids, last, first) ==
  IdKey("cn", <<ids[1], ids[2]>>) \o last \o NUL \o first \o NUL \o kv_encode_u32_be(ids[3])

KeyOf(row) ==
  IF row.table = "cn" THEN kv_customer_name_key(row.ids, row.last, row.first)
  ELSE IdKey(row.table, row.ids)

RangeBegin(table, ids) == IdKey(table, Append(ids, 0))

\* The end is the begin of the next id.
RangeEndNext(table, ids) == IdKey(table, Append(ids, 1))

RangeEnd(table, ids) == IdKey(table, Append(ids, Word - 1))

----------------------------------------------------------------------------
(* FoundationDB: keys are ordered bytewise *)

Less(s, t) ==
  \E n \in 1..Len(t) :
    /\ n <= Len(s) + 1
    /\ \A m \in 1..n-1 : s[m] = t[m]
    /\ n = Len(s) + 1 \/ s[n] < t[n]

\* fdb_async_get_range passes both ends as "last less than": from the last of
\* the store's keys before begin up to, and without, the last one before end.
InRead(keys, key, begin, end) ==
  /\ \A k \in keys : Less(k, begin) => ~Less(key, k)
  /\ \E k \in keys : Less(k, end) /\ Less(key, k)

----------------------------------------------------------------------------

Init ==
  /\ rows = {}
  /\ counter = [value |-> 0, bytes |-> kv_encode_next_o_id(0)]

WriteRow(row) ==
  /\ Cardinality(rows) < MaxRows
  /\ rows' = rows \union {row}
  /\ UNCHANGED counter

WriteCounter(v) ==
  /\ counter' = [value |-> v, bytes |-> kv_encode_next_o_id(v)]
  /\ UNCHANGED rows

Next == (\E row \in Rows : WriteRow(row)) \/ (\E v \in Counters : WriteCounter(v))

Spec == Init /\ [][Next]_vars

----------------------------------------------------------------------------
(* Properties *)

\* Only rows the code can build a key for are written.
TypeOK == rows \subseteq Rows /\ counter.value \in Counters \union {0}

TupleLess(a, b) ==
  \E n \in 1..Len(a) : a[n] < b[n] /\ \A m \in 1..n-1 : a[m] = b[m]

\* No two rows, of one table or of two, have the same key; also customer_name
\* rows, whose names have any length.
KeysDistinct == \A r, q \in rows : KeyOf(r) = KeyOf(q) => r = q

\* tpcc_kv.h:15 "big-endian integer encoding for correct lexicographic
\* ordering": within a table the keys are in the order of the ids.
KeysOrdered ==
  \A r, q \in rows : r.table = q.table /\ r.table # "cn" =>
    (Less(KeyOf(r), KeyOf(q)) <=> TupleLess(r.ids, q.ids))

\* The rows whose table and first ids are as given.
Under(row, table, ids) ==
  row.table = table /\ \A n \in 1..Len(ids) : row.ids[n] = ids[n]

\* The rows from kv_..._range_begin up to kv_..._range_end: those of that
\* warehouse, district or order, but for one with the largest id.
Within(row, table, ids) == Under(row, table, ids) /\ row.ids[Len(ids) + 1] # Word - 1

\* No row is between this one and the begin of the range.
LastBefore(row, begin) ==
  /\ Less(KeyOf(row), begin)
  /\ \A x \in rows : Less(KeyOf(x), begin) => ~Less(KeyOf(row), KeyOf(x))

\* fdb_async_get_range over kv_stock_range, kv_new_order_range or
\* kv_order_line_range: of everything in the store the read returns the rows of
\* that warehouse, district or order and no other, but one row early: the last of
\* them is missing, and the row before the range, of whatever table, comes first.
RangeReadsOneEarly ==
  \A r, q \in rows : q.table \in {"s", "no", "ol"} =>
    LET ids == SubSeq(q.ids, 1, Len(q.ids) - 1)
        begin == RangeBegin(q.table, ids)
    IN  InRead({KeyOf(x) : x \in rows}, KeyOf(r), begin, RangeEnd(q.table, ids))
          <=> /\ Within(r, q.table, ids) \/ LastBefore(r, begin)
              /\ \E x \in rows : Within(x, q.table, ids) /\ Less(KeyOf(r), KeyOf(x))

\* An int32_t counter, negative ones included, comes back from its eight bytes.
CounterRoundTrip == kv_decode_next_o_id(counter.bytes, Len(counter.bytes)) = counter.value
=============================================================================
