-------------------------- MODULE KvEncodingProofs --------------------------
(* The order of the keys is the order of the ids, and what a range read     *)
(* returns of any store, for every Base and every set of rows.              *)
EXTENDS KvEncoding, SequenceTheorems, TLAPS

\* A number is its quotient and its remainder.
LEMMA DivMod ==
  ASSUME NEW a \in Nat
  PROVE  /\ a \div Base \in Nat
         /\ a % Base \in 0..Base-1
         /\ a = Base * (a \div Base) + (a % Base)
  BY BaseAssumption

\* Comparing numbers is comparing quotients, then remainders.
LEMMA DigitOrder ==
  ASSUME NEW a \in Nat, NEW b \in Nat, a < b
  PROVE  \/ a \div Base < b \div Base
         \/ a \div Base = b \div Base /\ a % Base < b % Base
<1>1. PICK q \in Nat, r \in 0..Base-1 : q = a \div Base /\ r = a % Base /\ a = Base * q + r
  BY DivMod
<1>2. PICK s \in Nat, t \in 0..Base-1 : s = b \div Base /\ t = b % Base /\ b = Base * s + t
  BY DivMod
<1>3. ASSUME s < q PROVE FALSE
  <2>1. q >= s + 1
    BY <1>3
  <2>2. Base * q >= Base * (s + 1)
    BY <2>1, BaseAssumption
  <2> QED BY <2>2, <1>1, <1>2, BaseAssumption
<1> QED BY <1>1, <1>2, <1>3, BaseAssumption

\* A number below n bases has a quotient below n.
LEMMA DivBound ==
  ASSUME NEW a \in Nat, NEW n \in Nat, a < Base * n
  PROVE  a \div Base < n
<1>1. PICK q \in Nat, r \in 0..Base-1 : q = a \div Base /\ a = Base * q + r
  BY DivMod
<1>2. ASSUME q >= n PROVE FALSE
  <2>1. Base * q >= Base * n
    BY <1>2, BaseAssumption
  <2> QED BY <2>1, <1>1, BaseAssumption
<1> QED BY <1>1, <1>2

----------------------------------------------------------------------------
(* One id *)

\* The encoding of an id is four bytes.
LEMMA EncodeBytes ==
  ASSUME NEW v \in U32
  PROVE  /\ kv_encode_u32_be(v) \in Seq(Byte)
         /\ Len(kv_encode_u32_be(v)) = 4
<1> DEFINE s1 == v \div Base
           s2 == s1 \div Base
           s3 == s2 \div Base
<1>1. v \in Nat
  BY BaseAssumption DEF U32, Word
<1>2. s1 \in Nat /\ v % Base \in Byte
  BY <1>1, DivMod DEF Byte
<1>3. s2 \in Nat /\ s1 % Base \in Byte
  BY <1>2, DivMod DEF Byte
<1>4. s3 \in Nat /\ s2 % Base \in Byte
  BY <1>3, DivMod DEF Byte
<1>5. s3 % Base \in Byte
  BY <1>4, DivMod DEF Byte
<1>6. kv_encode_u32_be(v) = <<s3 % Base, s2 % Base, s1 % Base, v % Base>>
  BY DEF kv_encode_u32_be
<1> QED BY <1>2, <1>3, <1>4, <1>5, <1>6

\* The most significant digit of an id is what three divisions leave of it.
LEMMA TopDigit ==
  ASSUME NEW v \in U32
  PROVE  ((v \div Base) \div Base) \div Base \in 0..Base-1
<1>1. PICK b2 \in Nat : b2 = Base * Base
  BY BaseAssumption
<1>2. PICK b3 \in Nat : b3 = Base * b2
  BY BaseAssumption
<1>3. v \in Nat /\ v < Base * b3
  BY <1>1, <1>2, BaseAssumption DEF U32, Word
<1>4. PICK s1 \in Nat : s1 = v \div Base
  BY <1>3, DivMod
<1>5. s1 < Base * b2
  BY <1>2, <1>3, <1>4, DivBound
<1>6. PICK s2 \in Nat : s2 = s1 \div Base
  BY <1>4, DivMod
<1>7. s2 < Base * Base
  BY <1>1, <1>5, <1>6, DivBound
<1>8. PICK s3 \in Nat : s3 = s2 \div Base
  BY <1>6, DivMod
<1>9. s3 < Base
  BY <1>7, <1>8, BaseAssumption, DivBound
<1> QED BY <1>4, <1>6, <1>8, <1>9, BaseAssumption

\* The first byte in which the encodings of a smaller and a larger id differ is
\* the smaller in the smaller's.
LEMMA EncodeOrder ==
  ASSUME NEW a \in U32, NEW b \in U32, a < b
  PROVE  \E j \in 1..4 :
           /\ kv_encode_u32_be(a)[j] < kv_encode_u32_be(b)[j]
           /\ \A m \in 1..j-1 : kv_encode_u32_be(a)[m] = kv_encode_u32_be(b)[m]
<1>1. a \in Nat /\ b \in Nat
  BY BaseAssumption DEF U32, Word
<1>2. PICK a1 \in Nat, b1 \in Nat : a1 = a \div Base /\ b1 = b \div Base
  BY <1>1, DivMod
<1>3. PICK a2 \in Nat, b2 \in Nat : a2 = a1 \div Base /\ b2 = b1 \div Base
  BY DivMod
<1>4. PICK a3 \in Nat, b3 \in Nat : a3 = a2 \div Base /\ b3 = b2 \div Base
  BY DivMod
<1>5. a3 \in 0..Base-1 /\ b3 \in 0..Base-1
  BY <1>2, <1>3, <1>4, TopDigit
<1>6. a3 % Base = a3 /\ b3 % Base = b3
  BY <1>5, BaseAssumption
<1>7. kv_encode_u32_be(a) = <<a3, a2 % Base, a1 % Base, a % Base>>
  BY <1>2, <1>3, <1>4, <1>6 DEF kv_encode_u32_be
<1>8. kv_encode_u32_be(b) = <<b3, b2 % Base, b1 % Base, b % Base>>
  BY <1>2, <1>3, <1>4, <1>6 DEF kv_encode_u32_be
<1>9. a1 < b1 \/ (a1 = b1 /\ a % Base < b % Base)
  BY <1>1, <1>2, DigitOrder
<1>10. a1 < b1 => a2 < b2 \/ (a2 = b2 /\ a1 % Base < b1 % Base)
  BY <1>3, DigitOrder
<1>11. a2 < b2 => a3 < b3 \/ (a3 = b3 /\ a2 % Base < b2 % Base)
  BY <1>4, DigitOrder
<1>12. CASE a3 < b3
  <2> WITNESS 1 \in 1..4
  <2> QED BY <1>7, <1>8, <1>12
<1>13. CASE a3 = b3 /\ a2 % Base < b2 % Base
  <2> WITNESS 2 \in 1..4
  <2> QED BY <1>7, <1>8, <1>13
<1>14. CASE a2 = b2 /\ a1 % Base < b1 % Base
  <2>1. a3 = b3
    BY <1>4, <1>14
  <2> WITNESS 3 \in 1..4
  <2> QED BY <1>7, <1>8, <1>14, <2>1
<1>15. CASE a1 = b1 /\ a % Base < b % Base
  <2>1. a2 = b2 /\ a3 = b3
    BY <1>3, <1>4, <1>15
  <2> WITNESS 4 \in 1..4
  <2> QED BY <1>7, <1>8, <1>15, <2>1
<1> QED BY <1>9, <1>10, <1>11, <1>12, <1>13, <1>14, <1>15

\* Decoding gives the id back.
THEOREM DecodeEncode ==
  ASSUME NEW v \in U32
  PROVE  kv_decode_u32_be(kv_encode_u32_be(v)) = v
<1>1. v \in Nat
  BY BaseAssumption DEF U32, Word
<1>2. PICK s1 \in Nat, d0 \in Nat : s1 = v \div Base /\ d0 = v % Base /\ v = Base * s1 + d0
  BY <1>1, DivMod
<1>3. PICK s2 \in Nat, d1 \in Nat : s2 = s1 \div Base /\ d1 = s1 % Base /\ s1 = Base * s2 + d1
  BY DivMod
<1>4. PICK s3 \in Nat, d2 \in Nat : s3 = s2 \div Base /\ d2 = s2 % Base /\ s2 = Base * s3 + d2
  BY DivMod
<1>5. s3 % Base = s3
  BY <1>2, <1>3, <1>4, TopDigit, BaseAssumption
<1>6. kv_encode_u32_be(v) = <<s3, d2, d1, d0>>
  BY <1>2, <1>3, <1>4, <1>5, Zenon DEF kv_encode_u32_be
<1>7. kv_decode_u32_be(<<s3, d2, d1, d0>>) = ((s3 * Base + d2) * Base + d1) * Base + d0
  BY DEF kv_decode_u32_be
<1>8. s3 * Base + d2 = s2
  BY <1>4, BaseAssumption
<1>9. s2 * Base + d1 = s1
  BY <1>3, BaseAssumption
<1>10. s1 * Base + d0 = v
  BY <1>2, BaseAssumption
<1> QED BY <1>6, <1>7, <1>8, <1>9, <1>10

----------------------------------------------------------------------------
(* Keys *)

Tables == DOMAIN Arity

\* Prefixes are bytes, and none is empty.
LEMMA SubspaceBytes ==
  ASSUME NEW t \in Tables
  PROVE  Subspace[t] \in Seq(Byte) /\ Len(Subspace[t]) \in 2..4
<1>1. Tables = {"w", "d", "c", "cn", "h", "i", "s", "o", "no", "ol", "nid"}
  BY DEF Tables, Arity
<1>2. ASSUME NEW x \in 0..127, NEW y \in 0..127
      PROVE  <<x, y>> \in Seq(Byte) /\ Len(<<x, y>>) = 2
  BY BaseAssumption DEF Byte
<1>4. CASE t = "nid"
  <2>1. Subspace[t] = <<110, 105, 100, 47>>
    BY <1>4 DEF Subspace, slash
  <2> QED BY <2>1, BaseAssumption DEF Byte
<1>5. CASE t \in {"cn", "no", "ol"}
  <2>1. CASE t = "cn"
    <3>1. Subspace[t] = <<99, 110, 47>>
      BY <2>1 DEF Subspace, slash
    <3> QED BY <3>1, BaseAssumption DEF Byte
  <2>2. CASE t = "no"
    <3>1. Subspace[t] = <<110, 111, 47>>
      BY <2>2 DEF Subspace, slash
    <3> QED BY <3>1, BaseAssumption DEF Byte
  <2>3. CASE t = "ol"
    <3>1. Subspace[t] = <<111, 108, 47>>
      BY <2>3 DEF Subspace, slash
    <3> QED BY <3>1, BaseAssumption DEF Byte
  <2> QED BY <1>5, <2>1, <2>2, <2>3
<1>6. CASE t \notin {"cn", "no", "ol", "nid"}
  <2>1. PICK x \in 0..127 : Subspace[t] = <<x, 47>>
    <3>1. /\ t = "w" => Subspace[t] = <<119, 47>>
          /\ t = "d" => Subspace[t] = <<100, 47>>
          /\ t = "c" => Subspace[t] = <<99, 47>>
          /\ t = "h" => Subspace[t] = <<104, 47>>
          /\ t = "i" => Subspace[t] = <<105, 47>>
          /\ t = "s" => Subspace[t] = <<115, 47>>
          /\ t = "o" => Subspace[t] = <<111, 47>>
      BY DEF Subspace, slash
    <3> QED BY <1>1, <1>6, <3>1
  <2>2. <<x, 47>> \in Seq(Byte) /\ Len(<<x, 47>>) = 2
    BY BaseAssumption DEF Byte
  <2> QED BY <2>1, <2>2, SMTT(60)
<1> QED BY <1>4, <1>5, <1>6

\* The bytes of a key: those of the prefix, then four for each id.
LEMMA KeyShape ==
  ASSUME NEW t \in Tables, NEW n \in Nat, NEW a \in [1..n -> U32]
  PROVE  /\ IdKey(t, a) \in Seq(Byte)
         /\ Len(IdKey(t, a)) = Len(Subspace[t]) + 4 * n
         /\ \A p \in 1..Len(Subspace[t]) : IdKey(t, a)[p] = Subspace[t][p]
         /\ \A p \in 1..4*n : IdKey(t, a)[Len(Subspace[t]) + p] = IdBytes(a)[p]
<1>1. a \in Seq(U32) /\ Len(a) = n
  OBVIOUS
<1>2. ASSUME NEW p \in 1..4*n
      PROVE  IdBytes(a)[p] = kv_encode_u32_be(a[((p - 1) \div 4) + 1])[((p - 1) % 4) + 1]
  BY <1>1 DEF IdBytes
<1>3. ASSUME NEW p \in 1..4*n
      PROVE  IdBytes(a)[p] \in Byte
  <2>1. PICK k \in 1..n : k = ((p - 1) \div 4) + 1
    OBVIOUS
  <2>2. PICK j \in 1..4 : j = ((p - 1) % 4) + 1
    OBVIOUS
  <2>3. kv_encode_u32_be(a[k])[j] \in Byte
    <3>1. a[k] \in U32
      OBVIOUS
    <3>2. PICK e \in Seq(Byte) : e = kv_encode_u32_be(a[k]) /\ Len(e) = 4
      BY <3>1, EncodeBytes
    <3>3. e[j] \in Byte
      BY <3>2, ElementOfSeq, Zenon
    <3> QED BY <3>2, <3>3
  <2> QED BY <1>2, <2>1, <2>2, <2>3
<1>4. IdBytes(a) \in Seq(Byte) /\ Len(IdBytes(a)) = 4 * n
  <2>1. IdBytes(a) = [p \in 1..4*n |-> IdBytes(a)[p]]
    BY <1>1 DEF IdBytes
  <2>2. PICK len \in Nat : len = 4 * n
    OBVIOUS
  <2>3. IdBytes(a) \in [1..len -> Byte]
    BY <1>3, <2>1, <2>2
  <2>4. ASSUME NEW f \in [1..len -> Byte] PROVE f \in Seq(Byte) /\ Len(f) = len
    OBVIOUS
  <2> QED BY <2>2, <2>3, <2>4
<1>5. ASSUME NEW x \in Seq(Byte), NEW y \in Seq(Byte)
      PROVE  /\ x \o y \in Seq(Byte)
             /\ Len(x \o y) = Len(x) + Len(y)
             /\ \A p \in 1..Len(x) : (x \o y)[p] = x[p]
             /\ \A p \in 1..Len(y) : (x \o y)[Len(x) + p] = y[p]
  BY ConcatProperties
<1>6. IdKey(t, a) = Subspace[t] \o IdBytes(a)
  BY DEF IdKey
<1>7. Subspace[t] \in Seq(Byte)
  BY SubspaceBytes
<1>8. PICK x \in Seq(Byte), y \in Seq(Byte) :
        x = Subspace[t] /\ y = IdBytes(a) /\ Len(y) = 4 * n /\ IdKey(t, a) = x \o y
  BY <1>4, <1>6, <1>7, Zenon
<1>9. /\ x \o y \in Seq(Byte)
      /\ Len(x \o y) = Len(x) + Len(y)
      /\ \A p \in 1..Len(x) : (x \o y)[p] = x[p]
      /\ \A p \in 1..Len(y) : (x \o y)[Len(x) + p] = y[p]
  BY <1>5
<1> QED BY <1>8, <1>9

\* Byte j of the n-th id.
LEMMA IdByte ==
  ASSUME NEW n \in Nat, NEW a \in [1..n -> U32], NEW k \in 1..n, NEW j \in 1..4
  PROVE  IdBytes(a)[4 * (k - 1) + j] = kv_encode_u32_be(a[k])[j]
<1>1. Len(a) = n
  OBVIOUS
<1>2. PICK p \in 1..4*n : p = 4 * (k - 1) + j
  OBVIOUS
<1>3. ((p - 1) \div 4) + 1 = k /\ ((p - 1) % 4) + 1 = j
  BY <1>2
<1> QED BY <1>1, <1>2, <1>3 DEF IdBytes

\* Tuples of ids in order have keys in order.
LEMMA KeyOrder ==
  ASSUME NEW t \in Tables, NEW n \in Nat, NEW a \in [1..n -> U32], NEW b \in [1..n -> U32],
         TupleLess(a, b)
  PROVE  Less(IdKey(t, a), IdKey(t, b))
<1>1. Len(a) = n
  OBVIOUS
<1>2. PICK k \in 1..n : a[k] < b[k] /\ \A m \in 1..k-1 : a[m] = b[m]
  BY <1>1 DEF TupleLess
<1>3. PICK j \in 1..4 :
        /\ kv_encode_u32_be(a[k])[j] < kv_encode_u32_be(b[k])[j]
        /\ \A m \in 1..j-1 : kv_encode_u32_be(a[k])[m] = kv_encode_u32_be(b[k])[m]
  BY <1>2, EncodeOrder
<1>4. PICK l \in Nat : l = Len(Subspace[t])
  BY SubspaceBytes
<1>5. PICK p \in 1..4*n : p = 4 * (k - 1) + j
  OBVIOUS
<1>a. /\ Len(IdKey(t, a)) = l + 4 * n
      /\ \A q \in 1..l : IdKey(t, a)[q] = Subspace[t][q]
      /\ \A q \in 1..4*n : IdKey(t, a)[l + q] = IdBytes(a)[q]
  BY <1>4, KeyShape, ZenonT(60)
<1>b. /\ Len(IdKey(t, b)) = l + 4 * n
      /\ \A q \in 1..l : IdKey(t, b)[q] = Subspace[t][q]
      /\ \A q \in 1..4*n : IdKey(t, b)[l + q] = IdBytes(b)[q]
  BY <1>4, KeyShape, Zenon
<1>6. IdKey(t, a)[l + p] < IdKey(t, b)[l + p]
  <2>1. IdBytes(a)[p] = kv_encode_u32_be(a[k])[j] /\ IdBytes(b)[p] = kv_encode_u32_be(b[k])[j]
    BY <1>5, IdByte, Zenon
  <2> QED BY <1>3, <1>a, <1>b, <2>1
<1>7. ASSUME NEW q \in 1..p-1 PROVE IdBytes(a)[q] = IdBytes(b)[q]
  <2>1. PICK h \in 1..k, g \in 1..4 : q = 4 * (h - 1) + g
    <3>1. ((q - 1) \div 4) + 1 \in 1..k /\ ((q - 1) % 4) + 1 \in 1..4
      BY <1>5
    <3>2. q = 4 * ((((q - 1) \div 4) + 1) - 1) + (((q - 1) % 4) + 1)
      OBVIOUS
    <3> QED BY <3>1, <3>2
  <2>2. IdBytes(a)[q] = kv_encode_u32_be(a[h])[g] /\ IdBytes(b)[q] = kv_encode_u32_be(b[h])[g]
    <3>1. h \in 1..n
      OBVIOUS
    <3> QED BY <2>1, <3>1, IdByte, ZenonT(60)
  <2>3. CASE h < k
    BY <1>2, <2>2, <2>3
  <2>4. CASE h = k
    BY <1>3, <1>5, <2>1, <2>2, <2>4
  <2> QED BY <2>3, <2>4
<1>8. ASSUME NEW m \in 1..(l + p)-1 PROVE IdKey(t, a)[m] = IdKey(t, b)[m]
  <2>1. CASE m <= l
    BY <1>a, <1>b, <2>1, SMTT(60)
  <2>2. CASE m > l
    <3>1. PICK q \in 1..p-1 : m = l + q
      BY <2>2
    <3>2. q \in 1..4*n
      OBVIOUS
    <3>3. IdKey(t, a)[l + q] = IdBytes(a)[q] /\ IdKey(t, b)[l + q] = IdBytes(b)[q]
      BY <1>a, <1>b, <3>2
    <3> QED BY <1>7, <3>1, <3>3
  <2> QED BY <1>4, <2>1, <2>2
<1>9. l + p \in 1..Len(IdKey(t, b)) /\ l + p <= Len(IdKey(t, a)) + 1
  BY <1>a, <1>b
<1> QED BY <1>6, <1>8, <1>9 DEF Less

\* Bytewise order is asymmetric.
LEMMA LessAsymmetric ==
  ASSUME NEW s \in Seq(Byte), NEW t \in Seq(Byte), Less(s, t), Less(t, s)
  PROVE  FALSE
<1>1. PICK n \in 1..Len(t) :
        n <= Len(s) + 1 /\ (\A m \in 1..n-1 : s[m] = t[m]) /\ (n = Len(s) + 1 \/ s[n] < t[n])
  BY DEF Less
<1>2. PICK k \in 1..Len(s) :
        k <= Len(t) + 1 /\ (\A m \in 1..k-1 : t[m] = s[m]) /\ (k = Len(t) + 1 \/ t[k] < s[k])
  BY Zenon DEF Less
<1>3. Len(s) \in Nat /\ Len(t) \in Nat
  OBVIOUS
<1>4. \A m \in 1..Len(s) : s[m] \in Int
  BY ElementOfSeq, BaseAssumption, SMTT(60) DEF Byte
<1>5. \A m \in 1..Len(t) : t[m] \in Int
  BY ElementOfSeq, BaseAssumption, SMTT(60) DEF Byte
<1>6. CASE n < k
  BY <1>1, <1>2, <1>3, <1>4, <1>5, <1>6
<1>7. CASE k < n
  BY <1>1, <1>2, <1>3, <1>4, <1>5, <1>7
<1>8. CASE k = n
  BY <1>1, <1>2, <1>3, <1>4, <1>5, <1>8
<1> QED BY <1>3, <1>6, <1>7, <1>8

\* A tuple has at most five ids, and two tuples differ somewhere first.
LEMMA TupleTotal ==
  ASSUME NEW n \in 1..5, NEW a \in [1..n -> U32], NEW b \in [1..n -> U32], a # b
  PROVE  TupleLess(a, b) \/ TupleLess(b, a)
<1>1. Len(a) = n /\ Len(b) = n
  OBVIOUS
<1>2. \A m \in 1..n : a[m] \in Int /\ b[m] \in Int
  BY BaseAssumption DEF U32, Word
<1>3. PICK k \in 1..n : a[k] # b[k]
  OBVIOUS
<1>4. \E j \in 1..n : a[j] # b[j] /\ \A m \in 1..j-1 : a[m] = b[m]
  <2>1. CASE a[1] # b[1]
    BY <2>1
  <2>2. CASE n >= 2 /\ a[1] = b[1] /\ a[2] # b[2]
    BY <2>2
  <2>3. CASE n >= 3 /\ a[1] = b[1] /\ a[2] = b[2] /\ a[3] # b[3]
    BY <2>3
  <2>4. CASE n >= 4 /\ a[1] = b[1] /\ a[2] = b[2] /\ a[3] = b[3] /\ a[4] # b[4]
    BY <2>4
  <2>5. CASE n = 5 /\ a[1] = b[1] /\ a[2] = b[2] /\ a[3] = b[3] /\ a[4] = b[4]
    BY <1>3, <2>5
  <2> QED BY <1>3, <2>1, <2>2, <2>3, <2>4, <2>5
<1>5. PICK j \in 1..n : a[j] # b[j] /\ \A m \in 1..j-1 : a[m] = b[m]
  BY <1>4
<1>6. a[j] < b[j] \/ b[j] < a[j]
  BY <1>2, <1>5
<1> QED BY <1>1, <1>5, <1>6 DEF TupleLess

\* Within a table, the order of the keys is the order of the ids.
LEMMA KeyOrderIff ==
  ASSUME NEW t \in Tables, NEW n \in 1..5, NEW a \in [1..n -> U32], NEW b \in [1..n -> U32]
  PROVE  Less(IdKey(t, a), IdKey(t, b)) <=> TupleLess(a, b)
<1>1. IdKey(t, a) \in Seq(Byte) /\ IdKey(t, b) \in Seq(Byte)
  <2>1. n \in Nat
    OBVIOUS
  <2> QED BY <2>1, KeyShape, Zenon
<1>2. ASSUME Less(IdKey(t, a), IdKey(t, b)) PROVE TupleLess(a, b)
  <2>1. CASE a = b
    BY <1>1, <1>2, <2>1, LessAsymmetric
  <2>2. CASE TupleLess(b, a)
    <3>1. Less(IdKey(t, b), IdKey(t, a))
      BY <2>2, KeyOrder
    <3> QED BY <1>1, <1>2, <3>1, LessAsymmetric
  <2> QED BY <2>1, <2>2, TupleTotal, Zenon
<1>3. ASSUME TupleLess(a, b) PROVE Less(IdKey(t, a), IdKey(t, b))
  BY <1>3, KeyOrder
<1> QED BY <1>2, <1>3

----------------------------------------------------------------------------
(* The specification *)

\* Only rows of Rows are ever written.
LEMMA TypeCorrect == Spec => []TypeOK
<1>1. Init => TypeOK
  BY DEF Init, TypeOK
<1>2. TypeOK /\ [Next]_vars => TypeOK'
  BY DEF TypeOK, Next, WriteRow, WriteCounter, vars
<1> QED BY <1>1, <1>2, PTL DEF Spec

\* What is known of a row, its ids as a tuple.
LEMMA RowShape ==
  ASSUME NEW row \in Rows
  PROVE  /\ row.table \in Tables
         /\ Arity[row.table] \in 1..5
         /\ row.ids \in [1..Arity[row.table] -> U32]
         /\ row.last \in Seq(Char) /\ row.first \in Seq(Char)
<1>1. row \in [table : DOMAIN Arity, ids : Seq(U32),
                last : Seq(Char), first : Seq(Char)]
  BY RowsAssumption
<1>2. Len(row.ids) = Arity[row.table]
  BY RowsAssumption
<1>3. row.table \in Tables
  BY <1>1 DEF Tables
<1>4. Arity[row.table] \in 1..5
  BY <1>3 DEF Tables, Arity
<1>5. row.ids \in [1..Arity[row.table] -> U32]
  BY <1>1, <1>2, LenProperties
<1> QED BY <1>1, <1>3, <1>4, <1>5

\* The keys of each table are ordered as the ids they are built from
\* (tpcc_kv.h:15), for every Base and every set of rows.
THEOREM OrderedKeys == Spec => []KeysOrdered
<1>1. TypeOK => KeysOrdered
  <2> SUFFICES ASSUME TypeOK, NEW r \in rows, NEW q \in rows,
                      r.table = q.table, r.table # "cn"
               PROVE  Less(KeyOf(r), KeyOf(q)) <=> TupleLess(r.ids, q.ids)
    BY DEF KeysOrdered
  <2>1. r \in Rows /\ q \in Rows
    BY DEF TypeOK
  <2>2. KeyOf(r) = IdKey(r.table, r.ids) /\ KeyOf(q) = IdKey(r.table, q.ids)
    BY DEF KeyOf
  <2> QED BY <2>1, <2>2, RowShape, KeyOrderIff, Zenon
<1> QED BY <1>1, TypeCorrect, PTL

----------------------------------------------------------------------------
(* Ranges *)

\* A key between two that begin alike begins like them.
LEMMA Between ==
  ASSUME NEW k \in Seq(Byte), NEW s \in Seq(Byte), NEW e \in Seq(Byte), NEW m \in Nat,
         m <= Len(s), m <= Len(e), \A p \in 1..m : s[p] = e[p],
         ~Less(k, s), Less(k, e)
  PROVE  m <= Len(k) /\ \A p \in 1..m : k[p] = s[p]
<1>1. PICK n \in 1..Len(e) :
        n <= Len(k) + 1 /\ (\A p \in 1..n-1 : k[p] = e[p]) /\ (n = Len(k) + 1 \/ k[n] < e[n])
  BY DEF Less
<1>2. Len(k) \in Nat /\ Len(s) \in Nat /\ Len(e) \in Nat
  OBVIOUS
<1>3. ASSUME n <= m PROVE FALSE
  <2>1. n \in 1..Len(s) /\ s[n] = e[n] /\ \A p \in 1..n-1 : k[p] = s[p]
    BY <1>1, <1>2, <1>3
  <2> QED BY <1>1, <2>1 DEF Less
<1> QED BY <1>1, <1>2, <1>3

\* The byte that ends a string.
LEMMA NulByte == NUL \in Seq(Byte) /\ Len(NUL) = 1 /\ NUL[1] = 0
<1>1. 0 \in Byte
  BY BaseAssumption DEF Byte
<1> QED BY <1>1 DEF NUL

\* A C string is bytes other than NUL.
LEMMA CharSeq ==
  ASSUME NEW x \in Seq(Char)
  PROVE  x \in Seq(Byte) /\ \A p \in 1..Len(x) : x[p] # 0
<1>1. Char \subseteq Byte /\ 0 \notin Char
  BY DEF Char
<1>2. x \in Seq(Byte)
  BY <1>1, SeqMonotonic
<1>3. \A p \in 1..Len(x) : x[p] \in Char
  BY ElementOfSeq
<1> QED BY <1>1, <1>2, <1>3

\* Every key begins with the prefix of its table.
LEMMA RowKey ==
  ASSUME NEW row \in Rows
  PROVE  /\ KeyOf(row) \in Seq(Byte)
         /\ Len(Subspace[row.table]) <= Len(KeyOf(row))
         /\ \A p \in 1..Len(Subspace[row.table]) : KeyOf(row)[p] = Subspace[row.table][p]
<1> DEFINE Begins(x, y) == y \in Seq(Byte) /\ Len(x) <= Len(y) /\ \A p \in 1..Len(x) : y[p] = x[p]
<1>1. PICK u \in Seq(Byte) : u = Subspace[row.table]
  BY RowShape, SubspaceBytes
<1>2. ASSUME NEW x \in Seq(Byte), NEW y \in Seq(Byte), Begins(u, x)
      PROVE  Begins(u, x \o y)
  <2>1. Len(x) \in Nat /\ Len(y) \in Nat /\ Len(u) \in Nat
    OBVIOUS
  <2> QED BY <1>2, <2>1, ConcatProperties
<1>3. ASSUME NEW n \in Nat, NEW a \in [1..n -> U32]
      PROVE  Begins(u, IdKey(row.table, a))
  <2>1. row.table \in Tables
    BY RowShape
  <2>2. /\ IdKey(row.table, a) \in Seq(Byte)
        /\ Len(IdKey(row.table, a)) = Len(u) + 4 * n
        /\ \A p \in 1..Len(u) : IdKey(row.table, a)[p] = u[p]
    BY <1>1, <2>1, KeyShape, Zenon
  <2>3. Len(u) \in Nat
    OBVIOUS
  <2> QED BY <2>2, <2>3
<1>4. CASE row.table # "cn"
  <2>1. KeyOf(row) = IdKey(row.table, row.ids)
    BY <1>4 DEF KeyOf
  <2>2. PICK n \in Nat : row.ids \in [1..n -> U32]
    <3>1. Arity[row.table] \in Nat
      BY RowShape
    <3> QED BY <3>1, RowShape, Zenon
  <2>3. Begins(u, IdKey(row.table, row.ids))
    BY <1>3, <2>2
  <2> QED BY <1>1, <2>1, <2>3
<1>5. CASE row.table = "cn"
  <2>1. row.ids \in [1..3 -> U32] /\ row.last \in Seq(Byte) /\ row.first \in Seq(Byte)
    <3>1. Arity[row.table] = 3
      BY <1>5 DEF Arity
    <3>2. row.last \in Seq(Char) /\ row.first \in Seq(Char)
      BY RowShape
    <3> QED BY <3>1, <3>2, RowShape, CharSeq, Zenon
  <2>2. PICK a \in [1..2 -> U32] : a = <<row.ids[1], row.ids[2]>>
    <3>1. row.ids[1] \in U32 /\ row.ids[2] \in U32
      BY <2>1
    <3>2. <<row.ids[1], row.ids[2]>> \in [1..2 -> U32]
      BY <3>1
    <3> QED BY <3>2, Zenon
  <2>3. PICK k1 \in Seq(Byte) : k1 = IdKey("cn", a) /\ Begins(u, k1)
    BY <1>3, <1>5, Zenon
  <2>4. PICK nul \in Seq(Byte) : nul = NUL
    BY NulByte
  <2>5. PICK k2 \in Seq(Byte) : k2 = k1 \o row.last /\ Begins(u, k2)
    BY <1>2, <2>1, <2>3, ZenonT(60)
  <2>6. PICK k3 \in Seq(Byte) : k3 = k2 \o nul /\ Begins(u, k3)
    BY <1>2, <2>4, <2>5, ZenonT(60)
  <2>7. PICK k4 \in Seq(Byte) : k4 = k3 \o row.first /\ Begins(u, k4)
    BY <1>2, <2>1, <2>6, ZenonT(60)
  <2>8. PICK k5 \in Seq(Byte) : k5 = k4 \o nul /\ Begins(u, k5)
    BY <1>2, <2>4, <2>7, ZenonT(60)
  <2>9. PICK id \in Seq(Byte) : id = kv_encode_u32_be(row.ids[3])
    BY <2>1, EncodeBytes, SMTT(60)
  <2>10. Begins(u, k5 \o id)
    BY <1>2, <2>8, <2>9, Zenon
  <2>11. KeyOf(row) = k5 \o id
    BY <1>5, <2>2, <2>3, <2>4, <2>5, <2>6, <2>7, <2>8, <2>9, Zenon
       DEF KeyOf, kv_customer_name_key
  <2> QED BY <1>1, <2>10, <2>11, Zenon
<1> QED BY <1>4, <1>5

\* No prefix begins another: two prefixes differ within two bytes.
LEMMA PrefixFree ==
  ASSUME NEW t \in Tables, NEW u \in Tables, u # t
  PROVE  \E p \in 1..2 : Subspace[t][p] # Subspace[u][p]
<1>1. u \in {"w", "d", "c", "cn", "h", "i", "s", "o", "no", "ol", "nid"}
  BY DEF Tables, Arity
<1>2. t \in {"w", "d", "c", "cn", "h", "i", "s", "o", "no", "ol", "nid"}
  BY DEF Tables, Arity
<1>3. CASE t \in {"w", "d"}
  BY <1>1, <1>3 DEF Subspace, slash
<1>4. CASE t \in {"c", "cn"}
  BY <1>1, <1>4, SMTT(60) DEF Subspace, slash
<1>5. CASE t \in {"h", "i", "s"}
  BY <1>1, <1>5 DEF Subspace, slash
<1>6. CASE t \in {"o", "ol"}
  BY <1>1, <1>6 DEF Subspace, slash
<1>7. CASE t \in {"no", "nid"}
  BY <1>1, <1>7 DEF Subspace, slash
<1> QED BY <1>2, <1>3, <1>4, <1>5, <1>6, <1>7

\* The ids of a range, and one more.
LEMMA AppendedTuple ==
  ASSUME NEW n \in 1..5, NEW ids \in Seq(U32), Len(ids) = n - 1, NEW v \in U32
  PROVE  /\ Append(ids, v) \in [1..n -> U32]
         /\ Append(ids, v)[n] = v
         /\ \A m \in 1..n-1 : Append(ids, v)[m] = ids[m]
<1>1. PICK a \in Seq(U32) : a = Append(ids, v)
  BY AppendProperties, Zenon
<1>2. Len(a) = n /\ a[n] = v /\ \A m \in 1..n-1 : a[m] = ids[m]
  BY <1>1, AppendProperties
<1>3. a \in [1..n -> U32]
  BY <1>2, LenProperties, ZenonT(60)
<1> QED BY <1>1, <1>2, <1>3

\* From begin up to, and without, end.
InRange(key, begin, end) == ~Less(key, begin) /\ Less(key, end)

\* Between the begin and the end of the range of a warehouse's stock, a
\* district's new orders or an order's lines there are exactly those rows, but
\* for one with the largest id.
LEMMA RangeHolds ==
  ASSUME NEW r \in Rows, NEW q \in Rows, q.table \in {"s", "no", "ol"},
         NEW ids, ids = SubSeq(q.ids, 1, Len(q.ids) - 1)
  PROVE  /\ InRange(KeyOf(r), RangeBegin(q.table, ids), RangeEnd(q.table, ids))
              <=> Within(r, q.table, ids)
         /\ RangeBegin(q.table, ids) \in Seq(Byte)
         /\ RangeEnd(q.table, ids) \in Seq(Byte)
<1>2. PICK n \in 1..5 : n = Arity[q.table] /\ q.ids \in [1..n -> U32] /\ Len(q.ids) = n
  <2>1. Arity[q.table] \in 1..5 /\ q.ids \in [1..Arity[q.table] -> U32]
    BY RowShape
  <2>2. Len(q.ids) = Arity[q.table]
    BY RowsAssumption
  <2> QED BY <2>1, <2>2, Zenon
<1>3. /\ Len(ids) = n - 1
      /\ \A m \in 1..n-1 : ids[m] = q.ids[m] /\ ids[m] \in U32
      /\ ids \in Seq(U32)
  <2>1. \A m \in 1..n-1 : q.ids[m] \in U32
    <3>1. PICK f \in [1..n -> U32] : f = q.ids
      BY <1>2
    <3>2. \A m \in 1..n-1 : f[m] \in U32
      OBVIOUS
    <3> QED BY <3>1, <3>2
  <2>2. ids = SubSeq(q.ids, 1, n - 1)
    BY <1>2
  <2> QED BY <2>1, <2>2, SubSeqProperties
<1>4. 0 \in U32 /\ Word - 1 \in U32
  BY BaseAssumption, SMTT(60) DEF U32, Word
<1>5. PICK lo \in [1..n -> U32] :
        lo = Append(ids, 0) /\ lo[n] = 0 /\ \A m \in 1..n-1 : lo[m] = ids[m]
  <2>1. /\ Append(ids, 0) \in [1..n -> U32]
        /\ Append(ids, 0)[n] = 0
        /\ \A m \in 1..n-1 : Append(ids, 0)[m] = ids[m]
    BY <1>3, <1>4, AppendedTuple, ZenonT(60)
  <2> QED BY <2>1, Zenon
<1>6. PICK hi \in [1..n -> U32] :
        hi = Append(ids, Word - 1) /\ hi[n] = Word - 1 /\ \A m \in 1..n-1 : hi[m] = ids[m]
  <2>1. /\ Append(ids, Word - 1) \in [1..n -> U32]
        /\ Append(ids, Word - 1)[n] = Word - 1
        /\ \A m \in 1..n-1 : Append(ids, Word - 1)[m] = ids[m]
    BY <1>3, <1>4, AppendedTuple, ZenonT(60)
  <2> QED BY <2>1, Zenon
<1>7. /\ RangeBegin(q.table, ids) = IdKey(q.table, lo)
      /\ RangeEnd(q.table, ids) = IdKey(q.table, hi)
  BY <1>5, <1>6 DEF RangeBegin, RangeEnd
<1>8. q.table \in Tables /\ r.table \in Tables
  BY RowShape
<1>9. ASSUME r.table = q.table
      PROVE  InRange(KeyOf(r), IdKey(q.table, lo), IdKey(q.table, hi))
               <=> (\A m \in 1..n-1 : r.ids[m] = ids[m]) /\ r.ids[n] # Word - 1
  <2>1. r.ids \in [1..n -> U32]
    BY <1>2, <1>9, RowShape
  <2>2. KeyOf(r) = IdKey(q.table, r.ids)
    BY <1>9 DEF KeyOf
  <2>3. /\ Less(KeyOf(r), IdKey(q.table, lo)) <=> TupleLess(r.ids, lo)
        /\ Less(KeyOf(r), IdKey(q.table, hi)) <=> TupleLess(r.ids, hi)
    BY <1>8, <2>1, <2>2, KeyOrderIff, Zenon
  <2>4. \A m \in 1..n : r.ids[m] \in 0..Word-1 /\ r.ids[m] \in Int
    BY <2>1, BaseAssumption, SMTT(60) DEF U32, Word
  <2>5. Len(r.ids) = n
    BY <2>1
  <2>8. hi[n] = Word - 1 /\ \A m \in 1..n-1 : hi[m] = ids[m]
    BY <1>6, Zenon
  <2>9. PICK top \in Int : top = Word - 1
    BY BaseAssumption DEF Word
  <2>10. PICK v \in Int : v = r.ids[n] /\ v <= top
    BY <2>4, <2>9
  <2>6. ASSUME TupleLess(r.ids, hi), ~TupleLess(r.ids, lo)
        PROVE  (\A m \in 1..n-1 : r.ids[m] = ids[m]) /\ r.ids[n] # Word - 1
    <3>1. PICK k \in 1..n : r.ids[k] < hi[k] /\ \A m \in 1..k-1 : r.ids[m] = hi[m]
      BY <2>5, <2>6, Zenon DEF TupleLess
    <3>2. ASSUME k < n PROVE FALSE
      <4>1. r.ids[k] < lo[k] /\ \A m \in 1..k-1 : r.ids[m] = lo[m]
        BY <1>5, <1>6, <3>1, <3>2, SMTT(60)
      <4> QED BY <2>5, <2>6, <4>1, ZenonT(60) DEF TupleLess
    <3>3. k = n
      BY <3>2
    <3>4. \A m \in 1..n-1 : r.ids[m] = ids[m]
      BY <2>8, <3>1, <3>3, Zenon
    <3>5. v < top
      BY <2>8, <2>9, <2>10, <3>1, <3>3
    <3>6. v # top
      BY <3>5
    <3>7. r.ids[n] # Word - 1
      BY <2>9, <2>10, <3>6, Zenon
    <3> QED BY <3>4, <3>7, Zenon
  <2>7. ASSUME \A m \in 1..n-1 : r.ids[m] = ids[m], r.ids[n] # Word - 1
        PROVE  TupleLess(r.ids, hi) /\ ~TupleLess(r.ids, lo)
    <3>1. PICK w \in Int : w = Word
      BY BaseAssumption DEF Word
    <3>2. r.ids[n] < hi[n] /\ \A m \in 1..n-1 : r.ids[m] = hi[m]
      <4>1. \A m \in 1..n-1 : r.ids[m] = hi[m]
        BY <2>7, <2>8, Zenon
      <4>2. v # top
        BY <2>7, <2>9, <2>10
      <4>3. v < top
        BY <2>10, <4>2
      <4> QED BY <2>8, <2>9, <2>10, <4>1, <4>3
    <3>3. \A m \in 1..n : ~(r.ids[m] < lo[m])
      <4>1. \A m \in 1..n-1 : r.ids[m] = lo[m] /\ r.ids[m] \in Int
        BY <1>5, <2>4, <2>7, SMTT(60)
      <4>2. r.ids[n] >= lo[n] /\ r.ids[n] \in Int /\ lo[n] \in Int
        BY <1>5, <2>4, <3>1, SMTT(60)
      <4> QED BY <4>1, <4>2, SMTT(60)
    <3> QED BY <2>5, <3>2, <3>3 DEF TupleLess
  <2> QED BY <2>3, <2>6, <2>7, Zenon DEF InRange
<1>10. ASSUME r.table # q.table, InRange(KeyOf(r), IdKey(q.table, lo), IdKey(q.table, hi))
       PROVE  FALSE
  <2>1. PICK l \in 2..4 : l = Len(Subspace[q.table])
    BY <1>8, SubspaceBytes
  <2>2. PICK g \in 2..4 : g = Len(Subspace[r.table])
    BY <1>8, SubspaceBytes
  <2>3. n \in Nat
    OBVIOUS
  <2>4. /\ IdKey(q.table, lo) \in Seq(Byte) /\ l <= Len(IdKey(q.table, lo))
        /\ \A p \in 1..l : IdKey(q.table, lo)[p] = Subspace[q.table][p]
    <3>1. /\ IdKey(q.table, lo) \in Seq(Byte)
          /\ Len(IdKey(q.table, lo)) = l + 4 * n
          /\ \A p \in 1..l : IdKey(q.table, lo)[p] = Subspace[q.table][p]
      BY <1>8, <2>1, <2>3, KeyShape, Zenon
    <3>2. l <= l + 4 * n
      OBVIOUS
    <3> QED BY <3>1, <3>2
  <2>5. /\ IdKey(q.table, hi) \in Seq(Byte) /\ l <= Len(IdKey(q.table, hi))
        /\ \A p \in 1..l : IdKey(q.table, hi)[p] = Subspace[q.table][p]
    <3>1. /\ IdKey(q.table, hi) \in Seq(Byte)
          /\ Len(IdKey(q.table, hi)) = l + 4 * n
          /\ \A p \in 1..l : IdKey(q.table, hi)[p] = Subspace[q.table][p]
      BY <1>8, <2>1, <2>3, KeyShape, ZenonT(60)
    <3>2. l <= l + 4 * n
      OBVIOUS
    <3> QED BY <3>1, <3>2
  <2>6. /\ KeyOf(r) \in Seq(Byte)
        /\ \A p \in 1..g : KeyOf(r)[p] = Subspace[r.table][p]
    BY <2>2, RowKey
  <2>7. \A p \in 1..l : KeyOf(r)[p] = IdKey(q.table, lo)[p]
    <3>1. PICK k \in Seq(Byte), s \in Seq(Byte), e \in Seq(Byte) :
            k = KeyOf(r) /\ s = IdKey(q.table, lo) /\ e = IdKey(q.table, hi)
      BY <2>4, <2>5, <2>6
    <3>2. l \in Nat /\ l <= Len(s) /\ l <= Len(e) /\ \A p \in 1..l : s[p] = e[p]
      <4>0. l \in Nat
        OBVIOUS
      <4>1. l <= Len(s) /\ l <= Len(e)
        BY <2>4, <2>5, <3>1, Zenon
      <4>2. ASSUME NEW p \in 1..l PROVE s[p] = Subspace[q.table][p] /\ e[p] = Subspace[q.table][p]
        BY <2>4, <2>5, <3>1, Zenon
      <4> QED BY <4>0, <4>1, <4>2, Zenon
    <3>3. ~Less(k, s) /\ Less(k, e)
      BY <1>10, <3>1 DEF InRange
    <3>4. \A p \in 1..l : k[p] = s[p]
      BY <3>2, <3>3, Between, SMTT(60)
    <3> QED BY <3>1, <3>4, Zenon
  <2>8. \A p \in 1..2 : Subspace[r.table][p] = Subspace[q.table][p]
    BY <2>4, <2>6, <2>7
  <2> QED BY <1>8, <1>10, <2>8, PrefixFree, Zenon
<1>11. Under(r, q.table, ids) <=> r.table = q.table /\ \A m \in 1..n-1 : r.ids[m] = ids[m]
  BY <1>3 DEF Under
<1>12. Within(r, q.table, ids) <=> Under(r, q.table, ids) /\ r.ids[n] # Word - 1
  <2>1. Len(ids) + 1 = n
    BY <1>3
  <2> QED BY <2>1, Zenon DEF Within
<1>13. IdKey(q.table, lo) \in Seq(Byte) /\ IdKey(q.table, hi) \in Seq(Byte)
  <2>1. n \in Nat
    OBVIOUS
  <2> QED BY <1>8, <2>1, KeyShape, Zenon
<1>14. InRange(KeyOf(r), IdKey(q.table, lo), IdKey(q.table, hi)) <=> Within(r, q.table, ids)
  BY <1>9, <1>10, <1>11, <1>12, Zenon
<1> QED BY <1>7, <1>13, <1>14, Zenon

\* The order of the keys is transitive.
LEMMA LessTransitive ==
  ASSUME NEW s \in Seq(Byte), NEW t \in Seq(Byte), NEW u \in Seq(Byte), Less(s, t), Less(t, u)
  PROVE  Less(s, u)
<1>1. PICK n \in 1..Len(t) :
        n <= Len(s) + 1 /\ (\A m \in 1..n-1 : s[m] = t[m]) /\ (n = Len(s) + 1 \/ s[n] < t[n])
  BY DEF Less
<1>2. PICK k \in 1..Len(u) :
        k <= Len(t) + 1 /\ (\A m \in 1..k-1 : t[m] = u[m]) /\ (k = Len(t) + 1 \/ t[k] < u[k])
  BY Zenon DEF Less
<1>3. Len(s) \in Nat /\ Len(t) \in Nat /\ Len(u) \in Nat
  OBVIOUS
<1>4. /\ \A m \in 1..Len(s) : s[m] \in Int
      /\ \A m \in 1..Len(t) : t[m] \in Int
      /\ \A m \in 1..Len(u) : u[m] \in Int
  BY ElementOfSeq, BaseAssumption, SMTT(60) DEF Byte
<1>5. CASE n < k
  <2>1. n \in 1..Len(u) /\ t[n] = u[n] /\ \A m \in 1..n-1 : s[m] = u[m]
    BY <1>1, <1>2, <1>3, <1>5, SMTT(60)
  <2>2. n = Len(s) + 1 \/ s[n] < u[n]
    BY <1>1, <2>1, SMTT(60)
  <2> QED BY <1>1, <2>1, <2>2, Zenon DEF Less
<1>6. CASE k <= n
  <2>1. /\ k \in 1..Len(t) /\ k # Len(t) + 1 /\ k <= Len(s) + 1
        /\ \A m \in 1..k-1 : s[m] = u[m]
    BY <1>1, <1>2, <1>3, <1>6, SMTT(60)
  <2>2. t[k] < u[k]
    BY <1>2, <2>1, Zenon
  <2>3. k = Len(s) + 1 \/ s[k] < u[k]
    <3>1. CASE k < n
      <4>1. s[k] = t[k]
        BY <1>1, <1>2, <1>3, <3>1, SMTT(60)
      <4> QED BY <2>2, <4>1, SMTT(60)
    <3>2. CASE k = n /\ k # Len(s) + 1
      <4>1. s[k] < t[k] /\ k \in 1..Len(s)
        BY <1>1, <1>3, <2>1, <3>2, SMTT(60)
      <4> QED BY <1>2, <1>4, <2>1, <2>2, <4>1, SMTT(60)
    <3> QED BY <1>1, <1>2, <1>6, <3>1, <3>2, SMTT(60)
  <2> QED BY <1>2, <2>1, <2>3, Zenon DEF Less
<1> QED BY <1>1, <1>2, <1>5, <1>6, SMTT(60)

\* fdb_database.c:133: a range read of a warehouse's stock, a district's new orders
\* or an order's lines returns, of any store, those rows without the last of them,
\* after the row that comes before them.
THEOREM RangesReadOneEarly == Spec => []RangeReadsOneEarly
<1>1. TypeOK => RangeReadsOneEarly
  <2> SUFFICES ASSUME TypeOK, NEW r \in rows, NEW q \in rows, q.table \in {"s", "no", "ol"},
                      NEW ids, ids = SubSeq(q.ids, 1, Len(q.ids) - 1),
                      NEW begin, begin = RangeBegin(q.table, ids)
               PROVE  InRead({KeyOf(x) : x \in rows}, KeyOf(r), begin, RangeEnd(q.table, ids))
                        <=> /\ Within(r, q.table, ids) \/ LastBefore(r, begin)
                            /\ \E x \in rows : Within(x, q.table, ids) /\ Less(KeyOf(r), KeyOf(x))
    BY Zenon DEF RangeReadsOneEarly
  <2>1. PICK end : end = RangeEnd(q.table, ids)
    OBVIOUS
  <2>2. \A x \in rows : x \in Rows
    BY DEF TypeOK
  <2>3. /\ begin \in Seq(Byte) /\ end \in Seq(Byte)
        /\ \A x \in rows : /\ KeyOf(x) \in Seq(Byte)
                           /\ Within(x, q.table, ids) <=> ~Less(KeyOf(x), begin) /\ Less(KeyOf(x), end)
    BY <2>1, <2>2, RangeHolds, RowKey, ZenonT(60) DEF InRange
  <2>4. InRead({KeyOf(x) : x \in rows}, KeyOf(r), begin, end)
          <=> /\ \A x \in rows : Less(KeyOf(x), begin) => ~Less(KeyOf(r), KeyOf(x))
              /\ \E x \in rows : Less(KeyOf(x), end) /\ Less(KeyOf(r), KeyOf(x))
    BY ZenonT(60) DEF InRead
  <2>5. ASSUME NEW x \in rows, Less(KeyOf(r), KeyOf(x))
        PROVE  /\ Less(KeyOf(x), begin) => Less(KeyOf(r), begin)
               /\ Less(KeyOf(x), end) => Less(KeyOf(r), end)
    BY <2>3, <2>5, LessTransitive, ZenonT(60)
  <2>6. ASSUME InRead({KeyOf(x) : x \in rows}, KeyOf(r), begin, end)
        PROVE  /\ Within(r, q.table, ids) \/ LastBefore(r, begin)
               /\ \E x \in rows : Within(x, q.table, ids) /\ Less(KeyOf(r), KeyOf(x))
    <3>1. PICK x \in rows : Less(KeyOf(x), end) /\ Less(KeyOf(r), KeyOf(x))
      BY <2>4, <2>6, Zenon
    <3>2. ~Less(KeyOf(x), begin)
      BY <2>4, <2>6, <3>1, Zenon
    <3>3. Within(x, q.table, ids)
      BY <2>3, <3>1, <3>2, Zenon
    <3>4. Less(KeyOf(r), end)
      BY <2>5, <3>1, Zenon
    <3>5. Within(r, q.table, ids) \/ LastBefore(r, begin)
      BY <2>3, <2>4, <2>6, <3>4, ZenonT(60) DEF LastBefore
    <3> QED BY <3>1, <3>3, <3>5, Zenon
  <2>7. ASSUME Within(r, q.table, ids) \/ LastBefore(r, begin),
               NEW x \in rows, Within(x, q.table, ids), Less(KeyOf(r), KeyOf(x))
        PROVE  InRead({KeyOf(y) : y \in rows}, KeyOf(r), begin, end)
    <3>1. \A y \in rows : Less(KeyOf(y), begin) => ~Less(KeyOf(r), KeyOf(y))
      BY <2>3, <2>5, <2>7, ZenonT(60) DEF LastBefore
    <3>2. Less(KeyOf(x), end)
      BY <2>3, <2>7, Zenon
    <3> QED BY <2>4, <2>7, <3>1, <3>2, Zenon
  <2> QED BY <2>1, <2>6, <2>7, Zenon
<1> QED BY <1>1, TypeCorrect, PTL

----------------------------------------------------------------------------
(* Different rows have different keys *)

\* Concatenation, kept closed for the provers.
Cat(x, y) == x \o y

\* The length and the bytes of a concatenation.
LEMMA CatProperties ==
  ASSUME NEW s \in Seq(Byte), NEW t \in Seq(Byte)
  PROVE  /\ Cat(s, t) \in Seq(Byte)
         /\ Len(Cat(s, t)) = Len(s) + Len(t)
         /\ \A p \in 1..Len(s) + Len(t) :
              Cat(s, t)[p] = IF p <= Len(s) THEN s[p] ELSE t[p - Len(s)]
  BY ConcatProperties DEF Cat

\* Concatenation is associative.
LEMMA CatAssociative ==
  ASSUME NEW s \in Seq(Byte), NEW t \in Seq(Byte), NEW u \in Seq(Byte)
  PROVE  Cat(Cat(s, t), u) = Cat(s, Cat(t, u))
  BY ConcatAssociative, SMTT(60) DEF Cat

\* Equal concatenations with equal lengths in front are equal part by part.
LEMMA SplitAtLength ==
  ASSUME NEW x \in Seq(Byte), NEW y \in Seq(Byte), NEW u \in Seq(Byte), NEW v \in Seq(Byte),
         Len(x) = Len(u), Cat(x, y) = Cat(u, v)
  PROVE  x = u /\ y = v
<1>1. Len(x) \in Nat /\ Len(y) \in Nat /\ Len(v) \in Nat
  OBVIOUS
<1>2. Len(y) = Len(v)
  <2>1. Len(Cat(x, y)) = Len(x) + Len(y)
    BY CatProperties, Zenon
  <2>2. Len(Cat(u, v)) = Len(u) + Len(v)
    BY CatProperties
  <2> QED BY <1>1, <2>1, <2>2
<1>3. \A p \in 1..Len(x) + Len(y) :
        Cat(x, y)[p] = IF p <= Len(x) THEN x[p] ELSE y[p - Len(x)]
  BY CatProperties, Zenon
<1>4. \A p \in 1..Len(x) + Len(y) :
        Cat(x, y)[p] = IF p <= Len(x) THEN u[p] ELSE v[p - Len(x)]
  <2>1. \A p \in 1..Len(u) + Len(v) :
          Cat(u, v)[p] = IF p <= Len(u) THEN u[p] ELSE v[p - Len(u)]
    BY CatProperties, Zenon
  <2> QED BY <1>2, <2>1
<1>5. \A p \in 1..Len(x) : x[p] = u[p]
  BY <1>1, <1>3, <1>4
<1>6. ASSUME NEW p \in 1..Len(y) PROVE y[p] = v[p]
  <2>1. PICK k \in 1..Len(x) + Len(y) : k = Len(x) + p
    <3>1. Len(x) + p \in 1..Len(x) + Len(y)
      BY <1>1
    <3> QED BY <3>1, Zenon
  <2>2. ~(k <= Len(x)) /\ k - Len(x) = p
    BY <1>1, <2>1
  <2> QED BY <1>3, <1>4, <2>2
<1>7. x = u
  BY <1>5, SeqEqual
<1>8. y = v
  BY <1>2, <1>6, SeqEqual
<1> QED BY <1>7, <1>8

\* A C string ends at its NUL, so what follows cannot be taken for a part of it.
LEMMA SplitAtNul ==
  ASSUME NEW x \in Seq(Char), NEW y \in Seq(Byte),
         NEW u \in Seq(Char), NEW v \in Seq(Byte),
         Cat(x, Cat(NUL, y)) = Cat(u, Cat(NUL, v))
  PROVE  x = u /\ y = v
<1>1. x \in Seq(Byte) /\ u \in Seq(Byte)
  BY CharSeq
<1>2. NUL \in Seq(Byte) /\ Len(NUL) = 1 /\ NUL[1] = 0
  BY NulByte
<1>3. ASSUME NEW a \in Seq(Byte), NEW b \in Seq(Byte)
      PROVE  /\ Cat(NUL, b) \in Seq(Byte)
             /\ Len(a) + 1 <= Len(Cat(a, Cat(NUL, b)))
             /\ Cat(a, Cat(NUL, b))[Len(a) + 1] = 0
             /\ \A p \in 1..Len(a) : Cat(a, Cat(NUL, b))[p] = a[p]
  <2>1. Len(a) \in Nat /\ Len(b) \in Nat
    OBVIOUS
  <2>2. PICK c \in Seq(Byte) : c = Cat(NUL, b) /\ Len(c) = 1 + Len(b) /\ c[1] = 0
    <3>1. Cat(NUL, b) \in Seq(Byte) /\ Len(Cat(NUL, b)) = Len(NUL) + Len(b)
      BY <1>2, CatProperties, Zenon
    <3>2. 1 \in 1..Len(NUL) + Len(b) /\ 1 <= Len(NUL)
      BY <1>2, <2>1
    <3>3. Cat(NUL, b)[1] = NUL[1]
      BY <1>2, <3>2, CatProperties, Zenon
    <3>4. Len(Cat(NUL, b)) = 1 + Len(b)
      BY <1>2, <3>1
    <3> QED BY <1>2, <3>1, <3>3, <3>4, Zenon
  <2>3. PICK l \in Nat : l = Len(a)
    BY <2>1
  <2>4. /\ Len(Cat(a, c)) = l + (1 + Len(b))
        /\ \A p \in 1..l + (1 + Len(b)) : Cat(a, c)[p] = IF p <= l THEN a[p] ELSE c[p - l]
    <3>1. /\ Len(Cat(a, c)) = Len(a) + Len(c)
          /\ \A p \in 1..Len(a) + Len(c) :
               Cat(a, c)[p] = IF p <= Len(a) THEN a[p] ELSE c[p - Len(a)]
      BY CatProperties
    <3> QED BY <2>2, <2>3, <3>1
  <2>5. l + 1 \in 1..l + (1 + Len(b)) /\ ~(l + 1 <= l) /\ (l + 1) - l = 1
    BY <2>1
  <2>6. Cat(a, c)[l + 1] = 0
    BY <2>2, <2>4, <2>5, Zenon
  <2> QED BY <2>1, <2>2, <2>3, <2>4, <2>6, SMTT(60)
<1>4. Len(x) \in Nat /\ Len(u) \in Nat
  OBVIOUS
<1>5. (\A p \in 1..Len(x) : x[p] # 0) /\ \A p \in 1..Len(u) : u[p] # 0
  BY CharSeq
<1>6. PICK k : k = Cat(x, Cat(NUL, y)) /\ k = Cat(u, Cat(NUL, v))
  OBVIOUS
<1>7. k[Len(x) + 1] = 0 /\ \A p \in 1..Len(x) : k[p] = x[p]
  <2>1. /\ Cat(x, Cat(NUL, y))[Len(x) + 1] = 0
        /\ \A p \in 1..Len(x) : Cat(x, Cat(NUL, y))[p] = x[p]
    BY <1>1, <1>3, Zenon
  <2> QED BY <1>6, <2>1
<1>8. k[Len(u) + 1] = 0 /\ \A p \in 1..Len(u) : k[p] = u[p]
  <2>1. /\ Cat(u, Cat(NUL, v))[Len(u) + 1] = 0
        /\ \A p \in 1..Len(u) : Cat(u, Cat(NUL, v))[p] = u[p]
    BY <1>1, <1>3
  <2> QED BY <1>6, <2>1
<1>9. Len(x) = Len(u)
  <2>1. CASE Len(x) < Len(u)
    <3>1. Len(x) + 1 \in 1..Len(u)
      BY <1>4, <2>1
    <3> QED BY <1>5, <1>7, <1>8, <3>1
  <2>2. CASE Len(u) < Len(x)
    <3>1. Len(u) + 1 \in 1..Len(x)
      BY <1>4, <2>2
    <3> QED BY <1>5, <1>7, <1>8, <3>1
  <2> QED BY <1>4, <2>1, <2>2
<1>10. x = u /\ Cat(NUL, y) = Cat(NUL, v)
  BY <1>1, <1>3, <1>9, SplitAtLength, ZenonT(60)
<1>11. y = v
  BY <1>2, <1>10, SplitAtLength
<1> QED BY <1>10, <1>11

\* The same table and key, the same ids.
LEMMA IdKeyInjective ==
  ASSUME NEW t \in Tables, NEW n \in 1..5, NEW a \in [1..n -> U32], NEW b \in [1..n -> U32],
         IdKey(t, a) = IdKey(t, b)
  PROVE  a = b
<1>1. n \in Nat
  OBVIOUS
<1>2. IdKey(t, a) \in Seq(Byte)
  BY <1>1, KeyShape, Zenon
<1>3. ASSUME a # b PROVE Less(IdKey(t, a), IdKey(t, a))
  BY <1>1, <1>3, TupleTotal, KeyOrder, Zenon
<1> QED BY <1>2, <1>3, LessAsymmetric

\* A customer_name key is its ids, its names up to their NUL, and the customer.
LEMMA NameKeyShape ==
  ASSUME NEW row \in Rows, row.table = "cn"
  PROVE  \E a \in [1..2 -> U32], id \in Seq(Byte), x \in Seq(Byte), y \in Seq(Byte) :
           /\ a = <<row.ids[1], row.ids[2]>> /\ id = kv_encode_u32_be(row.ids[3])
           /\ y = Cat(row.first, Cat(NUL, id))
           /\ x = Cat(row.last, Cat(NUL, y))
           /\ KeyOf(row) = Cat(IdKey("cn", a), x)
<1>1. row.ids \in [1..3 -> U32] /\ row.last \in Seq(Byte) /\ row.first \in Seq(Byte)
  <2>1. Arity[row.table] = 3
    BY DEF Arity
  <2>2. row.last \in Seq(Char) /\ row.first \in Seq(Char)
    BY RowShape
  <2> QED BY <2>1, <2>2, RowShape, CharSeq, Zenon
<1>2. row.ids[1] \in U32 /\ row.ids[2] \in U32 /\ row.ids[3] \in U32
  BY <1>1
<1>3. <<row.ids[1], row.ids[2]>> \in [1..2 -> U32]
  BY <1>2
<1>4. PICK a \in [1..2 -> U32] : a = <<row.ids[1], row.ids[2]>>
  BY <1>3, Zenon
<1>5. PICK id \in Seq(Byte) : id = kv_encode_u32_be(row.ids[3])
  BY <1>2, EncodeBytes
<1>6. PICK nul \in Seq(Byte) : nul = NUL
  BY NulByte
<1>7. PICK k \in Seq(Byte) : k = IdKey("cn", a)
  <2>1. "cn" \in Tables
    BY DEF Tables, Arity
  <2> QED BY <2>1, KeyShape, Zenon
<1>8. PICK l \in Seq(Byte), f \in Seq(Byte) : l = row.last /\ f = row.first
  BY <1>1
<1>9. KeyOf(row) = Cat(Cat(Cat(Cat(Cat(k, l), nul), f), nul), id)
  BY <1>4, <1>5, <1>6, <1>7, <1>8 DEF KeyOf, kv_customer_name_key, Cat
<1>10. PICK k2 \in Seq(Byte) : k2 = Cat(k, l)
  BY CatProperties
<1>11. PICK k3 \in Seq(Byte) : k3 = Cat(k2, nul)
  BY CatProperties
<1>12. PICK k4 \in Seq(Byte) : k4 = Cat(k3, f)
  BY CatProperties
<1>13. PICK z \in Seq(Byte) : z = Cat(nul, id)
  BY CatProperties
<1>14. PICK y \in Seq(Byte) : y = Cat(f, z)
  BY CatProperties
<1>15. PICK n \in Seq(Byte) : n = Cat(nul, y)
  BY CatProperties
<1>16. PICK x \in Seq(Byte) : x = Cat(l, n)
  BY CatProperties
<1>17. Cat(Cat(k4, nul), id) = Cat(k4, z) /\ Cat(k4, z) = Cat(k3, y)
  BY <1>12, <1>13, <1>14, CatAssociative, SMTT(60)
<1>18. Cat(k3, y) = Cat(k2, n) /\ Cat(k2, n) = Cat(k, x)
  BY <1>10, <1>11, <1>15, <1>16, CatAssociative, SMTT(60)
<1>19. KeyOf(row) = Cat(k, x)
  BY <1>9, <1>10, <1>11, <1>12, <1>17, <1>18, Zenon
<1>20. y = Cat(row.first, Cat(NUL, id)) /\ x = Cat(row.last, Cat(NUL, y))
  BY <1>6, <1>8, <1>13, <1>14, <1>15, <1>16, SMTT(60)
<1> QED BY <1>4, <1>5, <1>7, <1>19, <1>20, Zenon

\* No two rows share a key, whatever the names in them.
THEOREM DistinctKeys == Spec => []KeysDistinct
<1>1. TypeOK => KeysDistinct
  <2> SUFFICES ASSUME TypeOK, NEW r \in rows, NEW q \in rows, KeyOf(r) = KeyOf(q)
               PROVE  r = q
    BY DEF KeysDistinct
  <2>1. r \in Rows /\ q \in Rows
    BY DEF TypeOK
  <2>2. r.table = q.table
    <3>1. r.table \in Tables /\ q.table \in Tables
      BY <2>1, RowShape
    <3>2. PICK g \in 2..4, l \in 2..4 : g = Len(Subspace[r.table]) /\ l = Len(Subspace[q.table])
      BY <3>1, SubspaceBytes
    <3>3. /\ \A p \in 1..g : KeyOf(r)[p] = Subspace[r.table][p]
          /\ \A p \in 1..l : KeyOf(q)[p] = Subspace[q.table][p]
      BY <2>1, <3>2, RowKey, SMTT(60)
    <3>4. \A p \in 1..2 : Subspace[r.table][p] = Subspace[q.table][p]
      BY <3>3
    <3> QED BY <3>1, <3>4, PrefixFree
  <2>3. ASSUME r.ids = q.ids, r.last = q.last, r.first = q.first PROVE r = q
    <3>1. /\ r \in [table : DOMAIN Arity, ids : Seq(U32),
                    last : Seq(Char), first : Seq(Char)]
          /\ q \in [table : DOMAIN Arity, ids : Seq(U32),
                    last : Seq(Char), first : Seq(Char)]
      BY <2>1, RowsAssumption
    <3> QED BY <2>2, <2>3, <3>1, SMTT(60)
  <2>4. CASE r.table # "cn"
    <3>1. r.last = q.last /\ r.first = q.first
      BY <2>1, <2>2, <2>4, RowsAssumption
    <3>2. IdKey(r.table, r.ids) = IdKey(r.table, q.ids)
      BY <2>2, <2>4 DEF KeyOf
    <3>3. r.ids = q.ids
      BY <2>1, <2>2, <3>2, RowShape, IdKeyInjective, Zenon
    <3> QED BY <2>3, <3>1, <3>3
  <2>5. CASE r.table = "cn"
    <3>1. PICK a \in [1..2 -> U32], c \in Seq(Byte), x \in Seq(Byte), y \in Seq(Byte) :
            /\ a = <<r.ids[1], r.ids[2]>> /\ c = kv_encode_u32_be(r.ids[3])
            /\ y = Cat(r.first, Cat(NUL, c))
            /\ x = Cat(r.last, Cat(NUL, y))
            /\ KeyOf(r) = Cat(IdKey("cn", a), x)
      BY <2>1, <2>5, NameKeyShape
    <3>2. PICK b \in [1..2 -> U32], d \in Seq(Byte), u \in Seq(Byte), v \in Seq(Byte) :
            /\ b = <<q.ids[1], q.ids[2]>> /\ d = kv_encode_u32_be(q.ids[3])
            /\ v = Cat(q.first, Cat(NUL, d))
            /\ u = Cat(q.last, Cat(NUL, v))
            /\ KeyOf(q) = Cat(IdKey("cn", b), u)
      BY <2>1, <2>2, <2>5, NameKeyShape, ZenonT(60)
    <3>3. "cn" \in Tables
      BY DEF Tables, Arity
    <3>4. /\ IdKey("cn", a) \in Seq(Byte) /\ IdKey("cn", b) \in Seq(Byte)
          /\ Len(IdKey("cn", a)) = Len(IdKey("cn", b))
      BY <3>3, KeyShape, ZenonT(60)
    <3>5. IdKey("cn", a) = IdKey("cn", b) /\ x = u
      <4>1. Cat(IdKey("cn", a), x) = Cat(IdKey("cn", b), u)
        BY <3>1, <3>2, Zenon
      <4> QED BY <3>4, <4>1, SplitAtLength
    <3>6. a = b
      BY <3>3, <3>5, IdKeyInjective
    <3>7. /\ r.last \in Seq(Char) /\ r.first \in Seq(Char)
          /\ q.last \in Seq(Char) /\ q.first \in Seq(Char)
      BY <2>1, RowShape
    <3>8. r.last = q.last /\ y = v
      <4>1. Cat(r.last, Cat(NUL, y)) = Cat(q.last, Cat(NUL, v))
        BY <3>1, <3>2, <3>5
      <4>2. PICK e \in Seq(Char), f \in Seq(Char) : e = r.last /\ f = q.last
        BY <3>7, Zenon
      <4>3. Cat(e, Cat(NUL, y)) = Cat(f, Cat(NUL, v))
        BY <4>1, <4>2
      <4>4. e = f /\ y = v
        BY <4>3, SplitAtNul
      <4> QED BY <4>2, <4>4
    <3>9. r.first = q.first /\ c = d
      <4>1. Cat(r.first, Cat(NUL, c)) = Cat(q.first, Cat(NUL, d))
        BY <3>1, <3>2, <3>8
      <4>2. PICK e \in Seq(Char), f \in Seq(Char) : e = r.first /\ f = q.first
        BY <3>7, Zenon
      <4>3. Cat(e, Cat(NUL, c)) = Cat(f, Cat(NUL, d))
        BY <4>1, <4>2
      <4>4. e = f /\ c = d
        BY <4>3, SplitAtNul
      <4> QED BY <4>2, <4>4, SMTT(60)
    <3>10. r.ids \in [1..3 -> U32] /\ q.ids \in [1..3 -> U32]
      <4>1. Arity[r.table] = 3 /\ Arity[q.table] = 3
        BY <2>2, <2>5, SMTT(60) DEF Arity
      <4> QED BY <2>1, <4>1, RowShape, ZenonT(60)
    <3>11. r.ids[3] = q.ids[3]
      <4>1. r.ids[3] \in U32 /\ q.ids[3] \in U32
        BY <3>10, SMTT(60)
      <4>2. kv_encode_u32_be(r.ids[3]) = kv_encode_u32_be(q.ids[3])
        BY <3>1, <3>2, <3>9, Zenon
      <4> QED BY <4>1, <4>2, DecodeEncode, SMTT(60)
    <3>12. r.ids[1] = q.ids[1] /\ r.ids[2] = q.ids[2]
      <4>1. <<r.ids[1], r.ids[2]>> = <<q.ids[1], q.ids[2]>>
        BY <3>1, <3>2, <3>6, Zenon
      <4> QED BY <4>1
    <3>13. r.ids = q.ids
      <4>1. ASSUME NEW f \in [1..3 -> U32], NEW g \in [1..3 -> U32],
                   f[1] = g[1], f[2] = g[2], f[3] = g[3]
            PROVE  f = g
        <5>1. \A m \in 1..3 : f[m] = g[m]
          BY <4>1
        <5>2. f = [m \in 1..3 |-> f[m]] /\ g = [m \in 1..3 |-> g[m]]
          OBVIOUS
        <5>3. [m \in 1..3 |-> f[m]] = [m \in 1..3 |-> g[m]]
          BY <5>1, Zenon
        <5> QED BY <5>2, <5>3, Zenon
      <4> QED BY <3>10, <3>11, <3>12, <4>1, Zenon
    <3> QED BY <2>3, <3>8, <3>9, <3>13, ZenonT(60)
  <2> QED BY <2>4, <2>5
<1> QED BY <1>1, TypeCorrect, PTL

----------------------------------------------------------------------------
(* The order counter *)

\* Adding a multiple of Base changes the quotient only.
LEMMA ShiftedDigit ==
  ASSUME NEW a \in Int, NEW k \in Int, NEW b \in Int, b = a + Base * k
  PROVE  a \div Base \in Int /\ b % Base = a % Base /\ b \div Base = (a \div Base) + k
<1>1. PICK q \in Int, r \in 0..Base-1 : q = a \div Base /\ r = a % Base /\ a = Base * q + r
  BY BaseAssumption
<1>2. PICK s \in Int, t \in 0..Base-1 : s = b \div Base /\ t = b % Base /\ b = Base * s + t
  BY BaseAssumption
<1>3. PICK d \in Int : d = s - (q + k)
  OBVIOUS
<1>4. Base * d = r - t
  <2>1. Base * d = Base * s - (Base * q + Base * k)
    BY <1>3, BaseAssumption
  <2> QED BY <1>1, <1>2, <2>1, BaseAssumption
<1>5. d = 0
  <2>1. CASE d >= 1
    <3>1. Base * d >= Base
      BY <2>1, BaseAssumption
    <3> QED BY <1>4, <3>1, BaseAssumption
  <2>2. CASE d <= -1
    <3>1. Base * d <= -Base
      BY <2>2, BaseAssumption
    <3> QED BY <1>4, <3>1, BaseAssumption
  <2> QED BY <2>1, <2>2
<1>6. r = t
  BY <1>4, <1>5, BaseAssumption
<1>7. s = q + k
  BY <1>3, <1>5, SMTT(60)
<1> QED BY <1>1, <1>2, <1>6, <1>7, Zenon

\* The four low bytes of a negative number are those of its complement.
LEMMA NegativeBytes ==
  ASSUME NEW v \in Int
  PROVE  kv_encode_u32_be(v) = kv_encode_u32_be(v + Word)
<1>1. PICK b2 \in Int : b2 = Base * Base
  BY BaseAssumption
<1>2. PICK b3 \in Int : b3 = Base * b2
  BY BaseAssumption
<1>3. PICK w \in Int : w = v + Word /\ w = v + Base * b3
  BY <1>1, <1>2, BaseAssumption DEF Word
<1>4. PICK s1 \in Int, t1 \in Int :
        s1 = v \div Base /\ t1 = w \div Base /\ t1 = s1 + b3 /\ w % Base = v % Base
  BY <1>3, ShiftedDigit
<1>5. PICK s2 \in Int, t2 \in Int :
        s2 = s1 \div Base /\ t2 = t1 \div Base /\ t2 = s2 + b2 /\ t1 % Base = s1 % Base
  BY <1>2, <1>4, ShiftedDigit
<1>6. PICK s3 \in Int, t3 \in Int :
        s3 = s2 \div Base /\ t3 = t2 \div Base /\ t3 = s3 + Base /\ t2 % Base = s2 % Base
  <2>1. PICK k \in Int : k = Base /\ t2 = s2 + Base * k
    BY <1>1, <1>5, BaseAssumption
  <2>2. s2 \div Base \in Int /\ t2 % Base = s2 % Base /\ t2 \div Base = (s2 \div Base) + k
    BY <2>1, ShiftedDigit, Zenon
  <2> QED BY <2>1, <2>2
<1>7. t3 % Base = s3 % Base
  <2>1. t3 = s3 + Base * 1
    BY <1>6, BaseAssumption, SMTT(60)
  <2> QED BY <2>1, ShiftedDigit
<1>8. kv_encode_u32_be(v) = <<s3 % Base, s2 % Base, s1 % Base, v % Base>>
  BY <1>4, <1>5, <1>6, SMTT(60) DEF kv_encode_u32_be
<1>9. kv_encode_u32_be(w) = <<t3 % Base, t2 % Base, t1 % Base, w % Base>>
  BY <1>4, <1>5, <1>6 DEF kv_encode_u32_be
<1> QED BY <1>3, <1>4, <1>5, <1>6, <1>7, <1>8, <1>9, SMTT(60)

\* An int32_t comes back from its eight bytes.
LEMMA CounterBytes ==
  ASSUME NEW v \in Int, 2 * v >= -Word, 2 * v < Word
  PROVE  kv_decode_next_o_id(kv_encode_next_o_id(v), Len(kv_encode_next_o_id(v))) = v
<1>1. PICK w \in Int : w = Word /\ w > 0
  BY BaseAssumption DEF Word
<1>2. PICK sign \in Int : sign = IF v < 0 THEN Base - 1 ELSE 0
  BY BaseAssumption
<1>3. PICK u \in U32 : u = IF v < 0 THEN v + w ELSE v
  BY <1>1 DEF U32
<1>4. kv_encode_u32_be(v) = kv_encode_u32_be(u)
  BY <1>1, <1>3, NegativeBytes
<1>5. PICK y \in Seq(Int) : y = kv_encode_u32_be(u) /\ Len(y) = 4
  <2>1. Byte \subseteq Int
    BY BaseAssumption DEF Byte
  <2> QED BY <2>1, EncodeBytes, SeqMonotonic, Zenon
<1>6. PICK x \in Seq(Int) : x = <<sign, sign, sign, sign>> /\ Len(x) = 4
  <2>1. <<sign, sign, sign, sign>> \in Seq(Int) /\ Len(<<sign, sign, sign, sign>>) = 4
    OBVIOUS
  <2> QED BY <2>1, Zenon
<1>7. PICK e \in Seq(Int) : e = kv_encode_next_o_id(v) /\ e = x \o y
  BY <1>2, <1>4, <1>5, <1>6, ConcatProperties, Zenon DEF kv_encode_next_o_id
<1>8. Len(e) = 8 /\ kv_decode_u32_be(SubSeq(e, 5, 8)) = u
  <2>1. /\ Len(e) = 8
        /\ \A p \in 1..8 : e[p] = IF p <= 4 THEN x[p] ELSE y[p - 4]
    <3>1. /\ Len(x \o y) = Len(x) + Len(y)
          /\ \A p \in 1..Len(x) + Len(y) :
               (x \o y)[p] = IF p <= Len(x) THEN x[p] ELSE y[p - Len(x)]
      BY ConcatProperties
    <3>2. Len(x) + Len(y) = 8
      BY <1>5, <1>6
    <3> QED BY <1>6, <1>7, <3>1, <3>2, Zenon
  <2>2. \A p \in 5..8 : e[p] \in Int
    <3>1. ASSUME NEW p \in 5..8 PROVE e[p] \in Int
      <4>1. p \in 1..Len(e)
        BY <2>1
      <4> QED BY <4>1, ElementOfSeq
    <3> QED BY <3>1, Zenon
  <2>3. PICK z \in Seq(Int) : z = SubSeq(e, 5, 8) /\ Len(z) = 4 /\ \A p \in 1..4 : z[p] = e[5 + p - 1]
    <3>1. PICK m \in Int, n \in Int : m = 5 /\ n = 8
      OBVIOUS
    <3>2. /\ SubSeq(e, m, n) \in Seq(Int)
          /\ Len(SubSeq(e, m, n)) = IF m <= n THEN n - m + 1 ELSE 0
          /\ \A i \in 1..n - m + 1 : SubSeq(e, m, n)[i] = e[m + i - 1]
      BY <2>2, <3>1, SubSeqProperties
    <3>3. m <= n /\ n - m + 1 = 4
      BY <3>1
    <3>4. Len(SubSeq(e, 5, 8)) = 4 /\ \A p \in 1..4 : SubSeq(e, 5, 8)[p] = e[5 + p - 1]
      BY <3>1, <3>2, <3>3
    <3>5. SubSeq(e, 5, 8) \in Seq(Int)
      BY <3>1, <3>2
    <3> QED BY <3>4, <3>5, Zenon
  <2>4. \A p \in 1..4 : z[p] = y[p]
    <3>1. \A p \in 1..4 : 5 + p - 1 \in 1..8 /\ ~(5 + p - 1 <= 4) /\ (5 + p - 1) - 4 = p
      OBVIOUS
    <3> QED BY <2>1, <2>3, <3>1, Zenon
  <2>5. z = y
    BY <1>5, <2>3, <2>4, SeqEqual, ZenonT(60)
  <2> QED BY <1>5, <2>1, <2>3, <2>5, DecodeEncode, Zenon
<1>9. kv_decode_next_o_id(e, Len(e)) = IF 2 * u >= w THEN u - w ELSE u
  BY <1>1, <1>8 DEF kv_decode_next_o_id
<1>10. u \in Int
  BY <1>1 DEF U32
<1> QED BY <1>1, <1>3, <1>7, <1>9, <1>10

\* The counter that is read is the counter that was written, for every Base.
THEOREM CounterReadBack == Spec => []CounterRoundTrip
<1> DEFINE Inv == counter.value \in Counters \union {0}
                    /\ counter.bytes = kv_encode_next_o_id(counter.value)
<1>1. Init => Inv
  BY DEF Init
<1>2. Inv /\ [Next]_vars => Inv'
  BY DEF Next, WriteRow, WriteCounter, vars
<1>3. Inv => CounterRoundTrip
  <2> SUFFICES ASSUME Inv PROVE CounterRoundTrip
    OBVIOUS
  <2>1. Word \in Int /\ Word > 0
    BY BaseAssumption DEF Word
  <2>2. PICK v \in Int : v = counter.value /\ 2 * v >= -Word /\ 2 * v < Word
    BY <2>1, BoundsAssumption
  <2> QED BY <2>2, CounterBytes DEF CounterRoundTrip
<1> QED BY <1>1, <1>2, <1>3, PTL DEF Spec
=============================================================================
