---------------------------- MODULE MCKvEncoding ----------------------------
EXTENDS KvEncoding

\* The ends of the range, a carry into the second byte, and a '/' byte.
FiveIds == {0, 1, 47, 128, Word - 1}
ThreeIds == {1, 128, Word - 1}
TwoIds == {1, Word - 1}

IdsOf == [w |-> FiveIds, d |-> FiveIds, c |-> ThreeIds, cn |-> {1}, h |-> TwoIds,
          i |-> FiveIds, s |-> FiveIds, o |-> ThreeIds, no |-> ThreeIds, ol |-> ThreeIds,
          nid |-> FiveIds]

Names == {<<>>, <<65>>, <<65, 66>>}

PlainRows ==
  UNION {[table : {t}, ids : [1..Arity[t] -> IdsOf[t]], last : {<<>>}, first : {<<>>}] :
           t \in DOMAIN Arity \ {"cn"}}
NameRows ==
  [table : {"cn"}, ids : {<<1, 1, c>> : c \in FiveIds}, last : Names, first : Names]

MCRows == PlainRows \union NameRows

\* The bound on the third row: stock of any warehouse, and some new orders, whose
\* keys come before it.
ThreeRows ==
  {row \in PlainRows : \/ row.table = "s"
                       \/ row.table = "no" /\ 128 \notin {row.ids[n] : n \in 1..3}}

MayWrite == IF Cardinality(rows) < 2 THEN Rows ELSE {row \in ThreeRows : rows \subseteq ThreeRows}

BoundedNext == (\E row \in MayWrite : WriteRow(row)) \/ (\E v \in Counters : WriteCounter(v))

BoundedSpec == Init /\ [][BoundedNext]_vars

\* The ends of int32_t, and around zero.
MCCounters == {-(Word \div 2), -1, 3001, (Word \div 2) - 1}
=============================================================================
