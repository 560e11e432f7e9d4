---------------------------- MODULE LogFileProofs ---------------------------
(***************************************************************************)
(* What FileHandler and FileLog write is read back.  First LogCodec:       *)
(* numbers, CRCs, Base64 and the body of a record, for strings of any      *)
(* length; all ways to compute a CRC give the same one, and two strings    *)
(* that differ in one byte have two.  Then LogFile: for every size of the  *)
(* buffer, every number of records and every content of theirs, wherever   *)
(* the process dies and however pwrite splits what it is given.            *)
(***************************************************************************)
EXTENDS LogFile, SequenceLemmas, FiniteSetTheorems

-----------------------------------------------------------------------------
(***************************************************************************)
(* Numbers.                                                                *)
(***************************************************************************)
Below2To32(n) == n < 4294967296

LEMMA htonlType ==
  ASSUME NEW n \in Nat
  PROVE  htonl(n) \in Seq(Byte) /\ Len(htonl(n)) = 4
<1>1. htonl(n) \in [1..4 -> Byte]
  <2>1. ASSUME NEW j \in 1..4 PROVE (n \div 256^(4 - j)) % 256 \in Byte
    <3>1. 256^(4 - j) \in Nat \ {0}
      <4>1. CASE j = 1
        BY <4>1, SMT
      <4>2. CASE j = 2
        BY <4>2, SMT
      <4>3. CASE j = 3
        BY <4>3, SMT
      <4>4. CASE j = 4
        BY <4>4, SMT
      <4> QED
        BY <4>1, <4>2, <4>3, <4>4
    <3> DEFINE d == 256^(4 - j)
    <3> HIDE DEF d
    <3>2. n \div d \in Int
      BY <3>1 DEF d
    <3>3. (n \div d) % 256 \in 0..255
      BY <3>2
    <3> QED
      BY <3>3 DEF d, Byte
  <2> QED
    BY <2>1 DEF htonl
<1> QED
  BY <1>1, FunctionIsSeq

LEMMA htonlBytes ==
  ASSUME NEW n \in Nat
  PROVE  /\ htonl(n)[1] = (n \div 16777216) % 256 /\ htonl(n)[2] = (n \div 65536) % 256
         /\ htonl(n)[3] = (n \div 256) % 256 /\ htonl(n)[4] = n % 256
<1>1. 256^3 = 16777216 /\ 256^2 = 65536 /\ 256^1 = 256 /\ 256^0 = 1
  BY SMT
<1>2. \A j \in 1..4 : htonl(n)[j] = (n \div 256^(4 - j)) % 256
  BY SMT DEF htonl
<1>3. n \div 1 = n
  BY SMT
<1> QED
  BY <1>1, <1>2, <1>3, SMT

\* A number below 2^32 comes back.
LEMMA ntohlOfhtonl ==
  ASSUME NEW n \in Nat, Below2To32(n), NEW b, \A j \in 1..4 : b[j] = htonl(n)[j]
  PROVE  ntohl(b) = n
<1>1. 256^3 = 16777216 /\ 256^2 = 65536
  BY SMT
<1>2. ntohl(b) = ((n \div 16777216) % 256) * 16777216 + ((n \div 65536) % 256) * 65536
                   + ((n \div 256) % 256) * 256 + (n % 256)
  <2>1. /\ b[1] = (n \div 16777216) % 256 /\ b[2] = (n \div 65536) % 256
        /\ b[3] = (n \div 256) % 256 /\ b[4] = n % 256
    BY htonlBytes, SMT
  <2> QED
    BY <1>1, <2>1, SMT DEF ntohl
<1> QED
  BY <1>2, SMT DEF Below2To32

-----------------------------------------------------------------------------
(***************************************************************************)
(* Words.                                                                  *)
(***************************************************************************)
Bit(w, i) == IF i \in w THEN 1 ELSE 0

LEMMA ByteOfBits ==
  ASSUME NEW w, NEW j \in Nat
  PROVE  ByteOf(w, j) = Bit(w, 8 * j) + 2 * Bit(w, 8 * j + 1) + 4 * Bit(w, 8 * j + 2)
                          + 8 * Bit(w, 8 * j + 3) + 16 * Bit(w, 8 * j + 4) + 32 * Bit(w, 8 * j + 5)
                          + 64 * Bit(w, 8 * j + 6) + 128 * Bit(w, 8 * j + 7)
<1>1. 2^0 = 1 /\ 2^1 = 2 /\ 2^2 = 4 /\ 2^3 = 8 /\ 2^4 = 16 /\ 2^5 = 32 /\ 2^6 = 64 /\ 2^7 = 128
  OBVIOUS
<1>2. 8 * j + 0 = 8 * j
  OBVIOUS
<1> QED
  BY <1>1, <1>2 DEF ByteOf, Bit

LEMMA ByteOfType ==
  ASSUME NEW w, NEW j \in Nat
  PROVE  ByteOf(w, j) \in Byte
<1>1. \A i : Bit(w, i) \in {0, 1}
  BY DEF Bit
<1> QED
  BY <1>1, ByteOfBits DEF Byte

LEMMA BitsOfByte ==
  ASSUME NEW w, NEW j \in Nat
  PROVE  BitsOf[ByteOf(w, j)] = {i \in 0..7 : 8 * j + i \in w}
<1> DEFINE n == ByteOf(w, j)
           b(i) == Bit(w, 8 * j + i)
<1>1. \A i : b(i) \in {0, 1}
  BY DEF Bit
<1>2. n = b(0) + 2 * b(1) + 4 * b(2) + 8 * b(3) + 16 * b(4) + 32 * b(5) + 64 * b(6) + 128 * b(7)
  <2>1. 8 * j + 0 = 8 * j
    OBVIOUS
  <2> QED
    BY <2>1, ByteOfBits
<1> HIDE DEF n, b
<1>3. ASSUME NEW i \in 0..7 PROVE (n \div 2^i) % 2 = b(i)
  <2>1. i = 0 \/ i = 1 \/ i = 2 \/ i = 3 \/ i = 4 \/ i = 5 \/ i = 6 \/ i = 7
    OBVIOUS
  <2>2. b(0) \in {0, 1} /\ b(1) \in {0, 1} /\ b(2) \in {0, 1} /\ b(3) \in {0, 1}
        /\ b(4) \in {0, 1} /\ b(5) \in {0, 1} /\ b(6) \in {0, 1} /\ b(7) \in {0, 1}
    BY <1>1
  <2>3. 2^0 = 1 /\ 2^1 = 2 /\ 2^2 = 4 /\ 2^3 = 8 /\ 2^4 = 16 /\ 2^5 = 32 /\ 2^6 = 64 /\ 2^7 = 128
    OBVIOUS
  <2>4. CASE i = 0
    BY <1>2, <2>2, <2>3, <2>4
  <2>5. CASE i = 1
    BY <1>2, <2>2, <2>3, <2>5
  <2>6. CASE i = 2
    BY <1>2, <2>2, <2>3, <2>6
  <2>7. CASE i = 3
    BY <1>2, <2>2, <2>3, <2>7
  <2>8. CASE i = 4
    BY <1>2, <2>2, <2>3, <2>8
  <2>9. CASE i = 5
    BY <1>2, <2>2, <2>3, <2>9
  <2>10. CASE i = 6
    BY <1>2, <2>2, <2>3, <2>10
  <2>11. CASE i = 7
    BY <1>2, <2>2, <2>3, <2>11
  <2> QED
    BY <2>1, <2>4, <2>5, <2>6, <2>7, <2>8, <2>9, <2>10, <2>11
<1>4. n \in Byte
  BY ByteOfType DEF n
<1>5. BitsOf[n] = {i \in 0..7 : (n \div 2^i) % 2 = 1}
  BY <1>4 DEF BitsOf
<1>6. \A i \in 0..7 : (n \div 2^i) % 2 = 1 <=> 8 * j + i \in w
  <2>1. \A i \in 0..7 : b(i) = 1 <=> 8 * j + i \in w
    BY DEF b, Bit
  <2> QED
    BY <1>3, <2>1
<1> QED
  BY <1>5, <1>6 DEF n

LEMMA htonlWordType ==
  ASSUME NEW w
  PROVE  htonlWord(w) \in Seq(Byte) /\ Len(htonlWord(w)) = 4
<1>1. htonlWord(w) \in [1..4 -> Byte]
  <2>1. ASSUME NEW j \in 1..4 PROVE ByteOf(w, 4 - j) \in Byte
    BY ByteOfType
  <2> QED
    BY <2>1 DEF htonlWord
<1> QED
  BY <1>1, FunctionIsSeq

\* A word of 32 bits comes back.
LEMMA ntohlOfhtonlWord ==
  ASSUME NEW w \in SUBSET (0..31), NEW b, \A j \in 1..4 : b[j] = htonlWord(w)[j]
  PROVE  ntohlWord(b) = w
<1> DEFINE c == [j \in 1..4 |-> b[5 - j]]
<1>1. ASSUME NEW j \in 1..4 PROVE BitsOf[c[j]] = {i \in 0..7 : 8 * (j - 1) + i \in w}
  <2>1. c[j] = ByteOf(w, j - 1)
    <3>1. 5 - j \in 1..4 /\ 4 - (5 - j) = j - 1
      OBVIOUS
    <3>2. htonlWord(w)[5 - j] = ByteOf(w, 4 - (5 - j))
      BY <3>1 DEF htonlWord
    <3> QED
      BY <3>1, <3>2
  <2>2. j - 1 \in Nat
    OBVIOUS
  <2> QED
    BY <2>1, <2>2, BitsOfByte
<1>2. ntohlWord(b) = UNION {{i + 8 * (j - 1) : i \in BitsOf[c[j]]} : j \in 1..4}
  BY DEF ntohlWord, Word
<1> HIDE DEF c
<1>3. ASSUME NEW x \in ntohlWord(b) PROVE x \in w
  <2>1. PICK j \in 1..4 : x \in {i + 8 * (j - 1) : i \in BitsOf[c[j]]}
    BY <1>2
  <2>2. PICK i \in BitsOf[c[j]] : x = i + 8 * (j - 1)
    BY <2>1
  <2>3. i \in 0..7 /\ 8 * (j - 1) + i \in w
    BY <1>1, <2>2
  <2> QED
    BY <2>2, <2>3
<1>4. ASSUME NEW x \in w PROVE x \in ntohlWord(b)
  <2> DEFINE j == (x \div 8) + 1
             i == x % 8
  <2>1. x \in 0..31
    OBVIOUS
  <2>2. j \in 1..4 /\ i \in 0..7 /\ x = 8 * (j - 1) + i /\ x = i + 8 * (j - 1)
    BY <2>1
  <2> HIDE DEF i, j
  <2>3. i \in BitsOf[c[j]]
    BY <1>1, <2>2
  <2> QED
    <3>1. x \in {k + 8 * (j - 1) : k \in BitsOf[c[j]]}
      BY <2>2, <2>3
    <3> QED
      BY <1>2, <2>2, <3>1
<1> QED
  BY <1>3, <1>4

-----------------------------------------------------------------------------
(***************************************************************************)
(* The body of a record.                                                   *)
(***************************************************************************)
LEMMA BytesConcat ==
  \A s, t \in Seq(Byte) : s \o t \in Seq(Byte) /\ Len(s \o t) = Len(s) + Len(t)
BY ConcatProperties

LEMMA BytesAssociative ==
  \A s, t, u \in Seq(Byte) : (s \o t) \o u = s \o (t \o u)
BY ConcatAssociative

LEMMA WithLengthType ==
  ASSUME NEW s \in Seq(Byte)
  PROVE  WithLength(s) \in Seq(Byte) /\ Len(WithLength(s)) = Len(s) + 4
<1>1. htonl(Len(s)) \in Seq(Byte) /\ Len(htonl(Len(s))) = 4 /\ Len(s) \in Nat
  <2>1. Len(s) \in Nat
    OBVIOUS
  <2> QED
    BY <2>1, htonlType
<1> DEFINE h == htonl(Len(s))
<1> HIDE DEF h
<1>2. h \o s \in Seq(Byte) /\ Len(h \o s) = Len(h) + Len(s)
  BY <1>1, ConcatProperties, Zenon DEF h
<1>3. WithLength(s) = h \o s /\ Len(h) = 4
  BY <1>1 DEF WithLength, h
<1> QED
  BY <1>1, <1>2, <1>3

\* A string is read where it has been written, whatever is around it.
LEMMA readStringOfWithLength ==
  ASSUME NEW p \in Seq(Byte), NEW s \in Seq(Byte), NEW q \in Seq(Byte), Below2To32(Len(s)),
         NEW b, b = (p \o WithLength(s)) \o q
  PROVE  readString(b, Len(p)) = s
<1> DEFINE h == htonl(Len(s))
<1>1. Len(s) \in Nat /\ Len(p) \in Nat
  OBVIOUS
<1>2. h \in Seq(Byte) /\ Len(h) = 4
  BY <1>1, htonlType
<1>3. WithLength(s) = h \o s
  BY DEF WithLength
<1>4. ntohl(h) = Len(s)
  BY <1>1, ntohlOfhtonl
<1> HIDE DEF h
<1>5. b = (p \o h) \o (s \o q)
  <2>1. p \o (h \o s) = (p \o h) \o s
    <3>1. Regroups(p, h, s)
      BY <1>2, ConcatRegroups, Zenon
    <3> QED
      BY <3>1, Zenon DEF Regroups
  <2>2. p \o h \in Seq(Byte)
    BY <1>2, ConcatProperties
  <2>3. ((p \o h) \o s) \o q = (p \o h) \o (s \o q)
    BY <2>2, BytesAssociative, Zenon
  <2> QED
    BY <1>3, <2>1, <2>3
<1>6. b = ((p \o h) \o s) \o q
  <2>1. p \o (h \o s) = (p \o h) \o s
    <3>1. Regroups(p, h, s)
      BY <1>2, ConcatRegroups, Zenon
    <3> QED
      BY <3>1, Zenon DEF Regroups
  <2> QED
    BY <1>3, <2>1
<1>7. SubSeq(b, Len(p) + 1, Len(p) + 4) = h
  <2>1. s \o q \in Seq(Byte)
    BY ConcatProperties
  <2>2. SubSeq((p \o h) \o (s \o q), Len(p) + 1, Len(p) + Len(h)) = h
    BY <1>2, <2>1, SubSeqMiddle
  <2> QED
    BY <1>2, <1>5, <2>2
<1>8. SubSeq(b, Len(p) + 5, (Len(p) + 4) + Len(s)) = s
  <2>1. p \o h \in Seq(Byte) /\ Len(p \o h) = Len(p) + 4
    <3>1. p \o h \in Seq(Byte) /\ Len(p \o h) = Len(p) + Len(h)
      BY <1>2, ConcatProperties, Zenon
    <3> QED
      BY <1>2, <3>1
  <2> DEFINE ph == p \o h
  <2> HIDE DEF ph
  <2>2. SubSeq((ph \o s) \o q, Len(ph) + 1, Len(ph) + Len(s)) = s
    BY <2>1, SubSeqMiddle DEF ph
  <2>3. Len(ph) + 1 = Len(p) + 5 /\ Len(ph) = Len(p) + 4
    BY <1>1, <2>1 DEF ph
  <2>4. b = (ph \o s) \o q
    BY <1>6 DEF ph
  <2> QED
    BY <2>2, <2>3, <2>4, Zenon
<1> QED
  BY <1>4, <1>7, <1>8, Zenon DEF readString

\* The body of a record comes back.
LEMMA DecodeOfEncodeBody ==
  ASSUME NEW table \in Seq(Byte), NEW key \in Seq(Byte), NEW value \in Seq(Byte), NEW r,
         r.table = table, r.key = key, r.value = value,
         Below2To32(Len(table)), Below2To32(Len(key)), Below2To32(Len(value))
  PROVE  /\ EncodeBody(r) \in Seq(Byte)
         /\ Len(EncodeBody(r)) = Len(table) + Len(key) + Len(value) + 12
         /\ DecodeBody(EncodeBody(r)) = [table |-> table, key |-> key, value |-> value]
<1> DEFINE t == WithLength(table)
           k == WithLength(key)
           v == WithLength(value)
           b == EncodeBody(r)
<1>1. /\ t \in Seq(Byte) /\ Len(t) = Len(table) + 4
      /\ k \in Seq(Byte) /\ Len(k) = Len(key) + 4
      /\ v \in Seq(Byte) /\ Len(v) = Len(value) + 4
  BY WithLengthType
<1>2. b = (t \o k) \o v
  <2> HIDE DEF t, k, v
  <2> QED
    BY DEF EncodeBody, t, k, v
<1>3. Len(table) \in Nat /\ Len(key) \in Nat /\ Len(value) \in Nat
  OBVIOUS
<1> HIDE DEF t, k, v, b
<1>4. t \o k \in Seq(Byte) /\ k \o v \in Seq(Byte) /\ Len(t \o k) = Len(table) + Len(key) + 8
  <2>1. t \o k \in Seq(Byte) /\ k \o v \in Seq(Byte) /\ Len(t \o k) = Len(t) + Len(k)
    BY <1>1, ConcatProperties, Zenon
  <2> QED
    BY <1>1, <1>3, <2>1
<1>5. b \in Seq(Byte) /\ Len(b) = Len(table) + Len(key) + Len(value) + 12
  <2> DEFINE tk == t \o k
  <2> HIDE DEF tk
  <2>1. tk \in Seq(Byte) /\ Len(tk) = Len(table) + Len(key) + 8 /\ b = tk \o v
    BY <1>2, <1>4 DEF tk
  <2> QED
    <3>1. tk \o v \in Seq(Byte) /\ Len(tk \o v) = Len(tk) + Len(v)
      BY <1>1, <2>1, ConcatProperties, Zenon
    <3> QED
      BY <1>1, <1>3, <2>1, <3>1
<1>6. readString(b, 0) = table
  <2>1. <<>> \in Seq(Byte) /\ Len(<<>>) = 0 /\ <<>> \o t = t
    BY <1>1, ConcatEmptySeq
  <2>2. b = (<<>> \o t) \o (k \o v)
    <3> DEFINE S == Seq(Byte)
    <3>a. t \in S /\ k \in S /\ v \in S
      BY ONLY <1>1
    <3>b. \A x, y, z \in S : (x \o y) \o z = x \o (y \o z)
      BY ONLY BytesAssociative
    <3> HIDE DEF S
    <3>1. (t \o k) \o v = t \o (k \o v)
      BY ONLY <3>a, <3>b, Zenon
    <3> QED
      BY <1>2, <2>1, <3>1, Zenon
  <2> QED
    BY <1>4, <2>1, <2>2, readStringOfWithLength, Zenon DEF t
<1>7. readString(b, Len(table) + 4) = key
  <2>1. readString(b, Len(t)) = key
    BY <1>1, <1>2, readStringOfWithLength, Zenon DEF k
  <2> QED
    BY <1>1, <2>1
<1>8. readString(b, Len(table) + 4 + Len(key) + 4) = value
  <2>1. <<>> \in Seq(Byte) /\ b \o <<>> = b
    BY <1>5, ConcatEmptySeq
  <2>2. b = ((t \o k) \o v) \o <<>>
    BY <1>2, <2>1, Zenon
  <2>3. readString(b, Len(t \o k)) = value
    BY <1>4, <2>1, <2>2, readStringOfWithLength, Zenon DEF v
  <2>4. Len(t \o k) = Len(table) + 4 + Len(key) + 4
    BY <1>3, <1>4
  <2> QED
    BY <2>3, <2>4, Zenon
<1>9. DecodeBody(b) = [table |-> table, key |-> key, value |-> value]
  BY <1>6, <1>7, <1>8, Zenon DEF DecodeBody
<1> QED
  BY <1>5, <1>9 DEF b

-----------------------------------------------------------------------------
(***************************************************************************)
(* Base64: one group.                                                      *)
(***************************************************************************)
LEMMA LookupOfAlphabet ==
  ASSUME NEW v \in 0..63
  PROVE  /\ kBase64Alphabet[v] \in Byte /\ kBase64Alphabet[v] # Pad
         /\ b64_lookup(kBase64Alphabet[v]) = v
<1> DEFINE c == kBase64Alphabet[v]
<1>1. CASE v < 26
  <2>1. c = 65 + v
    BY <1>1 DEF kBase64Alphabet
  <2>2. c \in 65..90 /\ c - 65 = v
    BY <1>1, <2>1
  <2> HIDE DEF c
  <2>3. c \notin 97..122 /\ c \notin 48..57 /\ c # 43 /\ c # 47
    BY <2>2
  <2> QED
    BY <2>2, <2>3 DEF Byte, Pad, b64_lookup, c
<1>2. CASE v \in 26..51
  <2>1. c = 71 + v
    BY <1>2 DEF kBase64Alphabet
  <2>2. c \in 97..122 /\ c - 71 = v
    BY <1>2, <2>1
  <2> HIDE DEF c
  <2>3. c \notin 65..90 /\ c \notin 48..57 /\ c # 43 /\ c # 47
    BY <2>2
  <2> QED
    BY <2>2, <2>3 DEF Byte, Pad, b64_lookup, c
<1>3. CASE v \in 52..61
  <2>1. c = v - 4
    BY <1>3 DEF kBase64Alphabet
  <2>2. c \in 48..57 /\ c + 4 = v
    BY <1>3, <2>1
  <2> HIDE DEF c
  <2>3. c \notin 65..90 /\ c \notin 97..122 /\ c # 43 /\ c # 47
    BY <2>2
  <2> QED
    BY <2>2, <2>3 DEF Byte, Pad, b64_lookup, c
<1>4. CASE v = 62
  <2>1. c = 43
    BY <1>4 DEF kBase64Alphabet
  <2> HIDE DEF c
  <2>2. b64_lookup(c) = 62
    BY <2>1 DEF b64_lookup
  <2> QED
    BY <1>4, <2>1, <2>2 DEF Byte, Pad, c
<1>5. CASE v = 63
  <2>1. c = 47
    BY <1>5 DEF kBase64Alphabet
  <2> HIDE DEF c
  <2>2. b64_lookup(c) = 63
    BY <2>1 DEF b64_lookup
  <2> QED
    BY <1>5, <2>1, <2>2 DEF Byte, Pad, c
<1> QED
  BY <1>1, <1>2, <1>3, <1>4, <1>5

\* The digits of three bytes, and the bytes of four digits.
LEMMA DigitsOfBytes ==
  ASSUME NEW a, a[1] \in Byte, a[2] \in Byte, a[3] \in Byte
  PROVE  \A j \in 1..4 : a3_to_a4(a)[j] \in 0..63
<1>1. /\ a[1] \div 4 \in 0..63 /\ (a[1] % 4) * 16 + (a[2] \div 16) \in 0..63
      /\ (a[2] % 16) * 4 + (a[3] \div 64) \in 0..63 /\ a[3] % 64 \in 0..63
  BY DEF Byte
<1> QED
  BY <1>1 DEF a3_to_a4

LEMMA BytesOfDigits ==
  ASSUME NEW x \in Byte, NEW y \in Byte, NEW z \in Byte
  PROVE  /\ ((x \div 4) * 4 + ((((x % 4) * 16 + (y \div 16)) \div 16) % 4)) % 256 = x
         /\ ((((x % 4) * 16 + (y \div 16)) % 16) * 16
               + ((((y % 16) * 4 + (z \div 64)) \div 4) % 16)) % 256 = y
         /\ ((((y % 16) * 4 + (z \div 64)) % 4) * 64 + (z % 64)) % 256 = z
<1> DEFINE xh == x \div 4
           xl == x % 4
           yh == y \div 16
           yl == y % 16
           zh == z \div 64
           zl == z % 64
<1>1. /\ xh \in 0..63 /\ xl \in 0..3 /\ x = 4 * xh + xl
      /\ yh \in 0..15 /\ yl \in 0..15 /\ y = 16 * yh + yl
      /\ zh \in 0..3 /\ zl \in 0..63 /\ z = 64 * zh + zl
      /\ x \in 0..255 /\ y \in 0..255 /\ z \in 0..255
  BY DEF Byte
<1> HIDE DEF xh, xl, yh, yl, zh, zl
<1>2. (xl * 16 + yh) \div 16 = xl /\ (xl * 16 + yh) % 16 = yh
  BY <1>1
<1>3. (yl * 4 + zh) \div 4 = yl /\ (yl * 4 + zh) % 4 = zh
  BY <1>1
<1>4. xl % 4 = xl /\ yl % 16 = yl
  BY <1>1
<1>5. /\ (xh * 4 + (((xl * 16 + yh) \div 16) % 4)) % 256 = x
      /\ (((xl * 16 + yh) % 16) * 16 + (((yl * 4 + zh) \div 4) % 16)) % 256 = y
      /\ (((yl * 4 + zh) % 4) * 64 + zl) % 256 = z
  BY <1>1, <1>2, <1>3, <1>4
<1> QED
  BY <1>5 DEF xh, xl, yh, yl, zh, zl

\* A group has one digit more than it has bytes; these give the bytes back.
LEMMA EncodeGroupIs ==
  ASSUME NEW x \in Seq(Byte), Len(x) \in 1..3
  PROVE  /\ EncodeGroup(x) \in Seq(Byte) /\ Len(EncodeGroup(x)) = 4
         /\ \A j \in 1..4 : j <= Len(x) + 1 =>
              /\ EncodeGroup(x)[j] = kBase64Alphabet[a3_to_a4(Filled(x, 3))[j]]
              /\ EncodeGroup(x)[j] # Pad
         /\ \A j \in 1..4 : j > Len(x) + 1 => EncodeGroup(x)[j] = Pad
<1> DEFINE f == Filled(x, 3)
           d == a3_to_a4(f)
<1>1. f[1] \in Byte /\ f[2] \in Byte /\ f[3] \in Byte
  <2>1. \A i \in 1..Len(x) : x[i] \in Byte
    OBVIOUS
  <2>2. 0 \in Byte
    BY DEF Byte
  <2> QED
    BY <2>1, <2>2 DEF Filled
<1> HIDE DEF f
<1>2. \A j \in 1..4 : d[j] \in 0..63
  BY <1>1, DigitsOfBytes
<1> HIDE DEF d
<1>3. EncodeGroup(x) = [j \in 1..4 |-> IF j <= Len(x) + 1 THEN kBase64Alphabet[d[j]] ELSE Pad]
  BY DEF EncodeGroup, d, f
<1>4. \A j \in 1..4 : kBase64Alphabet[d[j]] \in Byte /\ kBase64Alphabet[d[j]] # Pad
  BY <1>2, LookupOfAlphabet
<1>5. Pad \in Byte
  BY DEF Pad, Byte
<1>6. EncodeGroup(x) \in [1..4 -> Byte]
  BY <1>3, <1>4, <1>5
<1> QED
  BY <1>3, <1>4, <1>6, FunctionIsSeq DEF d, f

LEMMA DecodeOfEncodeGroup ==
  ASSUME NEW x \in Seq(Byte), Len(x) \in 1..3,
         NEW u, u \in Seq(Byte), Len(u) = Len(x) + 1,
         \A j \in 1..(Len(x) + 1) : u[j] = EncodeGroup(x)[j]
  PROVE  DecodeGroup(u) = x
<1> DEFINE f == Filled(x, 3)
           d == a3_to_a4(f)
           e == [j \in 1..4 |-> b64_lookup(Filled(u, 4)[j])]
<1>1. /\ f[1] = x[1] /\ f[1] \in Byte
      /\ f[2] = (IF Len(x) > 1 THEN x[2] ELSE 0) /\ f[2] \in Byte
      /\ f[3] = (IF Len(x) > 2 THEN x[3] ELSE 0) /\ f[3] \in Byte
  <2>1. \A i \in 1..Len(x) : x[i] \in Byte
    OBVIOUS
  <2>2. 0 \in Byte
    BY DEF Byte
  <2> QED
    BY <2>1, <2>2 DEF Filled
<1> HIDE DEF f
<1>2. /\ d[1] = f[1] \div 4 /\ d[2] = (f[1] % 4) * 16 + (f[2] \div 16)
      /\ d[3] = (f[2] % 16) * 4 + (f[3] \div 64) /\ d[4] = f[3] % 64
  BY DEF a3_to_a4
<1>3. \A j \in 1..4 : d[j] \in 0..63
  BY <1>1, DigitsOfBytes
<1> HIDE DEF d
<1>4. ASSUME NEW j \in 1..4, j <= Len(x) + 1 PROVE e[j] = d[j]
  <2>1. Filled(u, 4)[j] = u[j]
    BY <1>4 DEF Filled
  <2>2. u[j] = kBase64Alphabet[d[j]]
    BY <1>4, EncodeGroupIs DEF d, f
  <2>3. b64_lookup(u[j]) = d[j]
    BY <1>3, <2>2, LookupOfAlphabet
  <2> QED
    BY <2>1, <2>3
<1> DEFINE a == a4_to_a3(e)
<1>5. DecodeGroup(u) = SubSeq(a, 1, Len(u) - 1)
  BY DEF DecodeGroup
<1>6. /\ a[1] = (e[1] * 4 + ((e[2] \div 16) % 4)) % 256
      /\ a[2] = ((e[2] % 16) * 16 + ((e[3] \div 4) % 16)) % 256
      /\ a[3] = ((e[3] % 4) * 64 + e[4]) % 256
  <2> HIDE DEF e
  <2> QED
    BY DEF a4_to_a3
<1>7. a = <<a[1], a[2], a[3]>>
  <2> HIDE DEF e
  <2> QED
    BY DEF a4_to_a3
<1> HIDE DEF e, a
<1>8. a[1] = x[1]
  BY <1>1, <1>2, <1>4, <1>6, BytesOfDigits
<1>9. Len(x) > 1 => a[2] = x[2]
  BY <1>1, <1>2, <1>4, <1>6, BytesOfDigits
<1>10. Len(x) > 2 => a[3] = x[3]
  BY <1>1, <1>2, <1>4, <1>6, BytesOfDigits
<1>11. \A j \in 1..Len(x) : a[j] = x[j]
  <2>1. ASSUME NEW j \in 1..Len(x) PROVE j = 1 \/ (j = 2 /\ Len(x) > 1) \/ (j = 3 /\ Len(x) > 2)
    <3> DEFINE n == Len(x)
    <3>1. n \in 1..3 /\ j \in 1..n
      OBVIOUS
    <3> HIDE DEF n
    <3>2. j = 1 \/ (j = 2 /\ n > 1) \/ (j = 3 /\ n > 2)
      BY <3>1
    <3> QED
      BY <3>2 DEF n
  <2> QED
    BY <1>8, <1>9, <1>10, <2>1
<1>12. SubSeq(a, 1, Len(x)) = x
  <2> DEFINE s == SubSeq(a, 1, Len(x))
  <2>2. s = [j \in 1..Len(x) |-> a[j]]
    BY <1>7
  <2>3. x = [j \in 1..Len(x) |-> x[j]]
    OBVIOUS
  <2> HIDE DEF s
  <2>4. s = x
    BY <1>11, <2>2, <2>3
  <2> QED
    BY <2>4 DEF s
<1> QED
  BY <1>5, <1>12

-----------------------------------------------------------------------------
(***************************************************************************)
(* Base64: a string.                                                       *)
(***************************************************************************)
\* The groups of three: all are whole but the last, which has one byte at least.
NGroups(s) == (Len(s) + 2) \div 3

LEMMA GroupsOfThree ==
  ASSUME NEW s \in Seq(Byte)
  PROVE  /\ NGroups(s) \in Nat /\ Groups(s, 3) \in Seq(Seq(Byte))
         /\ Len(Groups(s, 3)) = NGroups(s) /\ DOMAIN Groups(s, 3) = 1..NGroups(s)
         /\ \A g \in 1..NGroups(s) :
              /\ Groups(s, 3)[g] = SubSeq(s, 3 * (g - 1) + 1, Min({3 * g, Len(s)}))
              /\ Groups(s, 3)[g] \in Seq(Byte)
              /\ Len(Groups(s, 3)[g]) = IF g < NGroups(s) THEN 3 ELSE Len(s) - 3 * (NGroups(s) - 1)
              /\ Len(Groups(s, 3)[g]) \in 1..3
<1> DEFINE n == Len(s)
           k == NGroups(s)
           G == Groups(s, 3)
<1>1. n \in Nat
  OBVIOUS
<1>2. k \in Nat /\ 3 * k >= n /\ 3 * k <= n + 2 /\ k = (n + 3 - 1) \div 3
  BY <1>1 DEF NGroups
<1>3. G = [g \in 1..k |-> SubSeq(s, 3 * (g - 1) + 1, Min({3 * g, n}))]
  BY <1>2 DEF Groups
<1> HIDE DEF k, G
<1>4. ASSUME NEW g \in 1..k
      PROVE  /\ G[g] \in Seq(Byte)
             /\ Len(G[g]) = IF g < k THEN 3 ELSE n - 3 * (k - 1)
             /\ Len(G[g]) \in 1..3
  <2> DEFINE to == Min({3 * g, n})
  <2>1. to = IF g < k THEN 3 * g ELSE n
    BY <1>1, <1>2, MinOfTwo
  <2> HIDE DEF to
  <2>2. to \in Nat /\ to <= n /\ 3 * (g - 1) + 1 <= to /\ 3 * (g - 1) + 1 \in 1..n + 1
    BY <1>1, <1>2, <2>1
  <2>3. SubSeq(s, 3 * (g - 1) + 1, to) \in Seq(Byte)
    BY <2>2
  <2>4. Len(SubSeq(s, 3 * (g - 1) + 1, to)) = to - 3 * (g - 1)
    BY <2>2
  <2>5. G[g] = SubSeq(s, 3 * (g - 1) + 1, to)
    BY <1>3 DEF to
  <2>6. CASE g < k
    <3>1. Len(G[g]) = 3
      BY <2>1, <2>4, <2>5, <2>6
    <3> QED
      BY <2>3, <2>5, <2>6, <3>1
  <2>7. CASE ~(g < k)
    <3>1. g = k
      BY <1>2, <2>7
    <3>2. Len(G[g]) = n - 3 * (k - 1)
      BY <2>1, <2>4, <2>5, <2>7, <3>1
    <3>3. n - 3 * (k - 1) \in 1..3
      BY <1>1, <1>2
    <3> QED
      BY <2>3, <2>5, <2>7, <3>2, <3>3
  <2> QED
    BY <2>6, <2>7
<1>5. G \in [1..k -> Seq(Byte)]
  BY <1>3, <1>4
<1>6. G \in Seq(Seq(Byte)) /\ Len(G) = k
  BY <1>2, <1>5, FunctionIsSeq
<1> QED
  BY <1>2, <1>3, <1>4, <1>6 DEF k, G

\* Together the groups are the string.
LEMMA FlattenGroups ==
  ASSUME NEW s \in Seq(Byte)
  PROVE  FlattenSeq(Groups(s, 3)) = s
<1> DEFINE n == Len(s)
           k == NGroups(s)
           G == Groups(s, 3)
           f == [g \in 1..k |-> SubSeq(s, 1, Min({3 * g, n}))]
<1>1. n \in Nat
  OBVIOUS
<1>2. k \in Nat /\ 3 * k >= n /\ 3 * k <= n + 2
  BY <1>1 DEF NGroups
<1>3. G \in Seq(Seq(Byte)) /\ Len(G) = k
  BY GroupsOfThree
<1>4. \A g \in 1..k : G[g] = SubSeq(s, 3 * (g - 1) + 1, Min({3 * g, n}))
  BY GroupsOfThree
<1> HIDE DEF k, G
<1>5. ASSUME NEW g \in 1..k
      PROVE  Min({3 * g, n}) \in 0..n /\ Min({3 * g, n}) = IF g < k THEN 3 * g ELSE n
  BY <1>1, <1>2, MinOfTwo
<1>6. f \in [1..k -> Seq(Byte)]
  <2>1. ASSUME NEW g \in 1..k PROVE SubSeq(s, 1, Min({3 * g, n})) \in Seq(Byte)
    <3> DEFINE to == Min({3 * g, n})
    <3>1. to \in 0..n
      BY <1>5
    <3> HIDE DEF to
    <3>2. SubSeq(s, 1, to) \in Seq(Byte)
      BY <3>1
    <3> QED
      BY <3>2 DEF to
  <2> QED
    BY <2>1
<1>7. ASSUME k > 0 PROVE f[1] = G[1]
  <2>1. 1 \in 1..k /\ 3 * (1 - 1) + 1 = 1
    BY <1>2, <1>7
  <2>2. G[1] = SubSeq(s, 1, Min({3 * 1, n}))
    BY <1>4, <2>1
  <2> QED
    BY <2>1, <2>2
<1>8. ASSUME NEW g \in 2..k PROVE f[g] = f[g - 1] \o G[g]
  <2> DEFINE a == Min({3 * (g - 1), n})
             b == Min({3 * g, n})
  <2>1. a = 3 * (g - 1) /\ a \in 0..n /\ b \in a..n
    <3>1. g - 1 \in 1..k /\ g \in 1..k /\ g - 1 < k
      BY <1>2
    <3>2. a \in 0..n /\ a = IF g - 1 < k THEN 3 * (g - 1) ELSE n
      BY <1>5, <3>1, Zenon
    <3>3. b \in 0..n /\ b = IF g < k THEN 3 * g ELSE n
      BY <1>5, <3>1, Zenon
    <3> HIDE DEF a, b
    <3> QED
      BY <1>1, <1>2, <3>1, <3>2, <3>3
  <2>2. f[g - 1] = SubSeq(s, 1, a) /\ f[g] = SubSeq(s, 1, b) /\ G[g] = SubSeq(s, a + 1, b)
    <3>1. g - 1 \in 1..k /\ g \in 1..k
      BY <1>2
    <3>2. G[g] = SubSeq(s, 3 * (g - 1) + 1, b)
      BY <1>4, <3>1, Zenon
    <3> HIDE DEF b
    <3>3. G[g] = SubSeq(s, a + 1, b)
      BY <2>1, <3>2, Zenon
    <3> QED
      BY <3>1, <3>3 DEF b
  <2> HIDE DEF a, b, f
  <2>3. SubSeq(s, 1, a) \o SubSeq(s, a + 1, b) = SubSeq(s, 1, b)
    BY <1>1, <2>1, ConcatAdjacentSubSeq
  <2> QED
    BY <2>2, <2>3
<1>9. FlattensUpto(f, G, k, Byte)
  <2> HIDE DEF f
  <2> QED
    BY <1>6, <1>7, <1>8 DEF FlattensUpto
<1>10. CASE k = 0
  <2>1. n = 0
    BY <1>1, <1>2, <1>10
  <2>2. s = <<>> /\ G = <<>>
    BY <1>3, <1>10, <2>1, EmptySeq
  <2> QED
    BY <2>2, FlattenSeqEmpty DEF G
<1>11. CASE k # 0
  <2>1. k \in 1..k /\ G # <<>>
    BY <1>2, <1>3, <1>11
  <2>2. f[k] = SubSeq(s, 1, n)
    BY <1>5, <2>1
  <2>3. SubSeq(s, 1, n) = s
    BY <1>1, SubSeqFull
  <2> HIDE DEF f
  <2>4. FlattenSeq(G) = f[k]
    BY <1>3, <1>9, <2>1, FlattenSeqIs
  <2> QED
    BY <2>2, <2>3, <2>4 DEF G
<1> QED
  BY <1>10, <1>11

\* Every group is written as four characters.
LEMMA EncodeIs ==
  ASSUME NEW s \in Seq(Byte)
  PROVE  /\ Encode(s) \in Seq(Byte) /\ Len(Encode(s)) = 4 * NGroups(s)
         /\ \A g \in 1..NGroups(s), j \in 1..4 :
              Encode(s)[4 * (g - 1) + j] = EncodeGroup(Groups(s, 3)[g])[j]
<1> DEFINE k == NGroups(s)
           G == Groups(s, 3)
           E == [g \in 1..k |-> EncodeGroup(G[g])]
<1>1. k \in Nat /\ DOMAIN G = 1..k
  BY GroupsOfThree
<1>2. \A g \in 1..k : G[g] \in Seq(Byte) /\ Len(G[g]) \in 1..3
  BY GroupsOfThree
<1> HIDE DEF k, G
<1>3. \A g \in 1..k : EncodeGroup(G[g]) \in Seq(Byte) /\ Len(EncodeGroup(G[g])) = 4
  BY <1>2, EncodeGroupIs
<1>4. E \in Seq(Seq(Byte)) /\ Len(E) = k
  <2>1. E \in [1..k -> Seq(Byte)]
    BY <1>3
  <2> HIDE DEF E
  <2> QED
    BY <1>1, <2>1, FunctionIsSeq
<1>5. \A g \in 1..k : Len(E[g]) = 4 /\ E[g] = EncodeGroup(G[g])
  BY <1>3
<1>6. Encode(s) = FlattenSeq(E)
  BY <1>1 DEF Encode, G
<1> HIDE DEF E
<1>7. FlattenSeq(E) \in Seq(Byte)
  BY <1>4, FlattenSeqType
<1>8. /\ Len(FlattenSeq(E)) = 4 * k
      /\ \A g \in 1..k, j \in 1..4 : FlattenSeq(E)[4 * (g - 1) + j] = E[g][j]
  <2>1. \A g \in 1..Len(E) : Len(E[g]) = 4
    BY <1>4, <1>5
  <2> QED
    <3>1. E \in Seq(Seq(Byte)) /\ Len(E) = k
      BY <1>4, Zenon
    <3>2. /\ Len(FlattenSeq(E)) = 4 * Len(E)
          /\ \A g \in 1..Len(E), j \in 1..4 : FlattenSeq(E)[4 * (g - 1) + j] = E[g][j]
      BY ONLY <2>1, <3>1, FlattenSeqOfFours, Zenon
    <3> QED
      BY ONLY <3>1, <3>2, Zenon
<1> QED
  BY <1>5, <1>6, <1>7, <1>8 DEF k, G

\* Where a position lies, and that what is not padding comes first.
LEMMA PadIsBehind ==
  ASSUME NEW s \in Seq(Byte)
  PROVE  /\ Len(s) + NGroups(s) \in 0..4 * NGroups(s)
         /\ \A i \in 1..4 * NGroups(s) : Encode(s)[i] = Pad <=> i > Len(s) + NGroups(s)
<1> DEFINE n == Len(s)
           k == NGroups(s)
           G == Groups(s, 3)
<1>1. n \in Nat
  OBVIOUS
<1>2. k \in Nat /\ 3 * k >= n /\ 3 * k <= n + 2
  BY <1>1 DEF NGroups
<1>3. \A g \in 1..k : /\ G[g] \in Seq(Byte) /\ Len(G[g]) \in 1..3
                      /\ Len(G[g]) = IF g < k THEN 3 ELSE n - 3 * (k - 1)
  BY GroupsOfThree
<1>4. \A g \in 1..k, j \in 1..4 : Encode(s)[4 * (g - 1) + j] = EncodeGroup(G[g])[j]
  BY EncodeIs
<1> HIDE DEF n, k, G
<1>5. ASSUME NEW i \in 1..4 * k PROVE Encode(s)[i] = Pad <=> i > n + k
  <2> DEFINE g == ((i - 1) \div 4) + 1
             j == ((i - 1) % 4) + 1
  <2>1. g \in 1..k /\ j \in 1..4 /\ i = 4 * (g - 1) + j
    BY <1>2
  <2> HIDE DEF g, j
  <2>2. Encode(s)[i] = EncodeGroup(G[g])[j]
    BY <1>4, <2>1
  <2>3. EncodeGroup(G[g])[j] = Pad <=> j > Len(G[g]) + 1
    <3>1. G[g] \in Seq(Byte) /\ Len(G[g]) \in 1..3
      BY <1>3, <2>1
    <3>2. \/ j <= Len(G[g]) + 1 /\ ~(j > Len(G[g]) + 1)
          \/ j > Len(G[g]) + 1
      BY <2>1, <3>1
    <3> QED
      BY <2>1, <3>1, <3>2, EncodeGroupIs, Zenon
  <2>4. j > Len(G[g]) + 1 <=> i > n + k
    <3>1. Len(G[g]) = IF g < k THEN 3 ELSE n - 3 * (k - 1)
      BY <1>3, <2>1
    <3>2. CASE g < k
      BY <1>1, <1>2, <2>1, <3>1, <3>2
    <3>3. CASE ~(g < k)
      <4>1. g = k
        BY <1>2, <2>1, <3>3
      <4> QED
        BY <1>1, <1>2, <2>1, <3>1, <4>1
    <3> QED
      BY <3>2, <3>3
  <2> QED
    BY <2>2, <2>3, <2>4
<1> QED
  BY <1>1, <1>2, <1>5 DEF n, k

LEMMA UpToPadOfEncode ==
  ASSUME NEW s \in Seq(Byte)
  PROVE  UpToPad(Encode(s)) = SubSeq(Encode(s), 1, Len(s) + NGroups(s))
<1> DEFINE e == Encode(s)
           m == Len(s) + NGroups(s)
           S == {i \in 0..Len(e) : i = Len(e) \/ e[i + 1] = Pad}
<1>1. Len(e) = 4 * NGroups(s) /\ NGroups(s) \in Nat
  BY EncodeIs, GroupsOfThree
<1>2. m \in 0..Len(e) /\ \A i \in 1..Len(e) : e[i] = Pad <=> i > m
  BY <1>1, PadIsBehind
<1> HIDE DEF e, m
<1>3. m \in S
  <2>1. CASE m = Len(e)
    BY <1>2, <2>1
  <2>2. CASE m # Len(e)
    <3>1. m + 1 \in 1..Len(e) /\ m + 1 > m
      BY <1>1, <1>2, <2>2
    <3>2. e[m + 1] = Pad
      BY <1>2, <3>1
    <3> QED
      BY <1>2, <3>2
  <2> QED
    BY <2>1, <2>2
<1>4. ASSUME NEW i \in S PROVE m <= i
  <2>1. i \in 0..Len(e) /\ (i = Len(e) \/ e[i + 1] = Pad)
    OBVIOUS
  <2>2. CASE i = Len(e)
    BY <1>2, <2>2
  <2>3. CASE i # Len(e)
    <3>1. i + 1 \in 1..Len(e) /\ e[i + 1] = Pad
      BY <1>1, <2>1, <2>3
    <3>2. i + 1 > m
      BY <1>2, <3>1
    <3> QED
      BY <1>2, <2>1, <3>2
  <2> QED
    BY <2>2, <2>3
<1>5. S \subseteq Int
  OBVIOUS
<1> HIDE DEF S
<1>6. Min(S) = m
  <2>1. \A i \in S : (\A y \in S : i <= y) => i = m
    BY <1>2, <1>3, <1>4, <1>5
  <2>2. m \in S /\ \A y \in S : m <= y
    BY <1>3, <1>4
  <2> QED
    BY <2>1, <2>2 DEF Min
<1> QED
  BY <1>6 DEF UpToPad, S, e, m

LEMMA PadsOfEncode ==
  ASSUME NEW s \in Seq(Byte)
  PROVE  Pads(Encode(s)) = 4 * NGroups(s) - (Len(s) + NGroups(s))
<1> DEFINE e == Encode(s)
           l == Len(e)
           m == Len(s) + NGroups(s)
           S == {i \in 1..l : \A j \in i..l : e[j] = Pad}
<1>1. l = 4 * NGroups(s) /\ NGroups(s) \in Nat
  BY EncodeIs, GroupsOfThree
<1>2. m \in 0..l /\ \A i \in 1..l : e[i] = Pad <=> i > m
  BY <1>1, PadIsBehind
<1> HIDE DEF e, m, l
<1>3. l \in Nat
  BY <1>1
<1>4. S = (m + 1)..l
  <2>1. ASSUME NEW i \in S PROVE i \in (m + 1)..l
    <3>1. i \in 1..l /\ e[i] = Pad
      OBVIOUS
    <3> QED
      BY <1>2, <1>3, <3>1
  <2>2. ASSUME NEW i \in (m + 1)..l PROVE i \in S
    <3>1. i \in 1..l /\ \A j \in i..l : j \in 1..l /\ j > m
      BY <1>2, <1>3
    <3> QED
      BY <1>2, <3>1
  <2> HIDE DEF S
  <2> QED
    BY <2>1, <2>2
<1>5. Cardinality(S) = l - m
  <2>1. m + 1 \in Int /\ l \in Int /\ m <= l
    BY <1>2, <1>3
  <2>2. Cardinality((m + 1)..l) = IF m + 1 > l THEN 0 ELSE l - (m + 1) + 1
    BY <2>1, FS_Interval
  <2>3. (IF m + 1 > l THEN 0 ELSE l - (m + 1) + 1) = l - m
    BY <1>2, <2>1
  <2> HIDE DEF S
  <2> QED
    BY <1>4, <2>2, <2>3, Zenon
<1>6. Pads(e) = Cardinality(S)
  BY DEF Pads, l
<1> QED
  BY <1>1, <1>5, <1>6 DEF e, m

\* A string comes back, and as long as it was to be.
LEMMA DecodeOfEncode ==
  ASSUME NEW s \in Seq(Byte)
  PROVE  Decode(Encode(s)).data = s /\ Decode(Encode(s)).ok
<1> DEFINE n == Len(s)
           k == NGroups(s)
           G == Groups(s, 3)
           e == Encode(s)
           u == UpToPad(e)
           H == Groups(u, 4)
<1>1. n \in Nat
  OBVIOUS
<1>2. k \in Nat /\ 3 * k >= n /\ 3 * k <= n + 2
  BY <1>1 DEF NGroups
<1>3. /\ \A g \in 1..k : /\ G[g] \in Seq(Byte) /\ Len(G[g]) \in 1..3
                         /\ Len(G[g]) = IF g < k THEN 3 ELSE n - 3 * (k - 1)
      /\ DOMAIN G = 1..k /\ G \in Seq(Seq(Byte))
  BY GroupsOfThree
<1>4. /\ e \in Seq(Byte) /\ Len(e) = 4 * k
      /\ \A g \in 1..k, j \in 1..4 : e[4 * (g - 1) + j] = EncodeGroup(G[g])[j]
  BY EncodeIs
<1>5. u = SubSeq(e, 1, n + k) /\ n + k \in 0..4 * k
  BY UpToPadOfEncode, PadIsBehind
<1> HIDE DEF n, k, G, e, u
<1>6. /\ u \in Seq(Byte) /\ Len(u) = n + k /\ \A i \in 1..(n + k) : u[i] = e[i]
  BY <1>1, <1>2, <1>4, <1>5
<1>7. (Len(u) + 4 - 1) \div 4 = k
  BY <1>1, <1>2, <1>6
<1>8. H = [g \in 1..k |-> SubSeq(u, 4 * (g - 1) + 1, Min({4 * g, n + k}))]
  BY <1>6, <1>7 DEF Groups
<1> HIDE DEF H
<1>9. ASSUME NEW g \in 1..k PROVE DecodeGroup(H[g]) = G[g]
  <2> DEFINE h == H[g]
             l == Len(G[g])
             from == 4 * (g - 1)
             to == Min({4 * g, n + k})
  <2>1. to = IF 4 * g <= n + k THEN 4 * g ELSE n + k
    BY <1>1, <1>2, MinOfTwo
  <2>2. l \in 1..3 /\ l = IF g < k THEN 3 ELSE n - 3 * (k - 1)
    BY <1>3
  <2> HIDE DEF l, to
  <2>3. to = from + l + 1
    <3>1. CASE g < k
      BY <1>1, <1>2, <2>1, <2>2, <3>1
    <3>2. CASE g = k
      <4>1. l = n - 3 * (k - 1)
        BY <2>2, <3>2
      <4> QED
        BY <1>1, <1>2, <2>1, <2>2, <3>2, <4>1
    <3> QED
      BY <1>2, <3>1, <3>2
  <2>4. from \in Nat /\ to \in from..(n + k) /\ to <= n + k
    BY <1>1, <1>2, <2>1, <2>2, <2>3
  <2>5. h = SubSeq(u, from + 1, to)
    BY <1>8 DEF to
  <2> HIDE DEF h, from
  <2>6. h \in Seq(Byte) /\ Len(h) = l + 1 /\ \A j \in 1..(l + 1) : h[j] = u[from + j]
    <3>1. from + 1 \in 1..(n + k) /\ to \in 1..(n + k) /\ to - (from + 1) + 1 = l + 1 /\ l + 1 \in Nat
      BY <1>1, <1>2, <2>2, <2>3, <2>4
    <3> HIDE DEF H
    <3>2. SubSeq(u, from + 1, to) \in Seq(Byte) /\ Len(SubSeq(u, from + 1, to)) = to - (from + 1) + 1
      BY <1>6, <3>1
    <3>3. ASSUME NEW j \in 1..(l + 1) PROVE SubSeq(u, from + 1, to)[j] = u[from + j]
      <4>1. j \in 1..(to - (from + 1) + 1) /\ (from + 1) + j - 1 = from + j
        BY <2>4, <3>1
      <4>2. SubSeq(u, from + 1, to)[j] = u[(from + 1) + j - 1]
        BY <1>6, <3>1, <4>1
      <4> QED
        BY <4>1, <4>2, Zenon
    <3> QED
      BY <2>5, <3>1, <3>2, <3>3, Zenon
  <2>7. ASSUME NEW j \in 1..(l + 1) PROVE h[j] = EncodeGroup(G[g])[j]
    <3>1. j \in 1..4 /\ from + j \in 1..(n + k)
      BY <1>1, <1>2, <2>2, <2>3, <2>4
    <3>2. h[j] = e[from + j]
      BY <1>6, <2>6, <3>1
    <3>3. e[from + j] = EncodeGroup(G[g])[j]
      BY <1>4, <3>1 DEF from
    <3> QED
      BY <3>2, <3>3
  <2> QED
    BY <1>3, <2>6, <2>7, <2>2, DecodeOfEncodeGroup DEF l, h
<1>10. DOMAIN H = 1..k
  BY <1>8
<1> DEFINE D == [g \in DOMAIN H |-> DecodeGroup(H[g])]
<1>11. D = G
  <2>1. G = [g \in 1..k |-> G[g]]
    BY <1>3
  <2> QED
    BY <1>9, <1>10, <2>1
<1>12. FlattenSeq(D) = s
  BY <1>11, FlattenGroups DEF G
<1>13. DecodedLength(e) = n
  <2>1. Pads(e) = 4 * k - (n + k)
    BY PadsOfEncode DEF e, n, k
  <2>2. (6 * (4 * k)) \div 8 = 3 * k
    BY <1>2
  <2> QED
    BY <1>1, <1>2, <1>4, <2>1, <2>2 DEF DecodedLength
<1>14. Decode(e) = [data |-> FlattenSeq(D), ok |-> Len(FlattenSeq(D)) = DecodedLength(e)]
  BY DEF Decode, H, u
<1> HIDE DEF D
<1>15. Decode(e).data = FlattenSeq(D) /\ Decode(e).ok = (Len(FlattenSeq(D)) = DecodedLength(e))
  BY <1>14
<1>16. Decode(e).data = s /\ Decode(e).ok
  BY <1>12, <1>13, <1>15 DEF n
<1> QED
  BY <1>16 DEF e

-----------------------------------------------------------------------------
(***************************************************************************)
(* The CRC.                                                                *)
(***************************************************************************)
W32 == SUBSET (0..31)

LEMMA XorType ==
  ASSUME NEW c \in W32, NEW d \in W32
  PROVE  c ++ d \in W32
BY DEF ++, W32

LEMMA XorBit ==
  ASSUME NEW c, NEW d, NEW x
  PROVE  x \in c ++ d <=> ~(x \in c <=> x \in d)
BY DEF ++

LEMMA XorAssociative ==
  ASSUME NEW c, NEW d, NEW e
  PROVE  (c ++ d) ++ e = c ++ (d ++ e)
BY DEF ++

LEMMA XorCommutative ==
  ASSUME NEW c, NEW d
  PROVE  c ++ d = d ++ c
BY DEF ++

LEMMA ShrType ==
  ASSUME NEW c \in W32, NEW k \in Nat
  PROVE  /\ Shr(c, k) \in W32
         /\ \A x \in 0..31 : x \in Shr(c, k) <=> x + k \in c
BY DEF Shr, W32

LEMMA StepBit ==
  ASSUME NEW c \in W32
  PROVE  /\ Step(c) \in W32
         /\ \A x \in 0..31 : x \in Step(c) <=> ~((0 \in c /\ x \in CRC_POLY) <=> x + 1 \in c)
<1>1. Shr(c, 1) \in W32 /\ \A x \in 0..31 : x \in Shr(c, 1) <=> x + 1 \in c
  BY ShrType
<1>2. CRC_POLY \in W32
  BY DEF CRC_POLY, W32
<1>3. CASE 0 \in c
  <2>1. Step(c) = CRC_POLY ++ Shr(c, 1)
    BY <1>3 DEF Step
  <2> QED
    BY <1>1, <1>2, <1>3, <2>1, XorType, XorBit
<1>4. CASE 0 \notin c
  <2>1. Step(c) = Shr(c, 1)
    BY <1>4 DEF Step
  <2> QED
    BY <1>1, <1>4, <2>1
<1> QED
  BY <1>3, <1>4

LEMMA StepXor ==
  ASSUME NEW c \in W32, NEW d \in W32
  PROVE  Step(c ++ d) = Step(c) ++ Step(d)
<1>1. c ++ d \in W32 /\ Step(c ++ d) \in W32 /\ Step(c) ++ Step(d) \in W32
  BY StepBit, XorType
<1>2. ASSUME NEW x \in 0..31 PROVE x \in Step(c ++ d) <=> x \in Step(c) ++ Step(d)
  <2>1. x \in Step(c ++ d) <=> ~((0 \in c ++ d /\ x \in CRC_POLY) <=> x + 1 \in c ++ d)
    BY <1>1, StepBit
  <2>2. x \in Step(c) <=> ~((0 \in c /\ x \in CRC_POLY) <=> x + 1 \in c)
    BY StepBit
  <2>3. x \in Step(d) <=> ~((0 \in d /\ x \in CRC_POLY) <=> x + 1 \in d)
    BY StepBit
  <2>4. /\ 0 \in c ++ d <=> ~(0 \in c <=> 0 \in d)
        /\ x + 1 \in c ++ d <=> ~(x + 1 \in c <=> x + 1 \in d)
        /\ x \in Step(c) ++ Step(d) <=> ~(x \in Step(c) <=> x \in Step(d))
    BY XorBit
  <2> QED
    BY <2>1, <2>2, <2>3, <2>4
<1> QED
  BY <1>1, <1>2 DEF W32

LEMMA EightStepsXor ==
  ASSUME NEW c \in W32, NEW d \in W32
  PROVE  /\ EightSteps(c) \in W32
         /\ EightSteps(c ++ d) = EightSteps(c) ++ EightSteps(d)
<1> DEFINE c1 == Step(c)
           c2 == Step(c1)
           c3 == Step(c2)
           c4 == Step(c3)
           c5 == Step(c4)
           c6 == Step(c5)
           c7 == Step(c6)
           c8 == Step(c7)
           d1 == Step(d)
           d2 == Step(d1)
           d3 == Step(d2)
           d4 == Step(d3)
           d5 == Step(d4)
           d6 == Step(d5)
           d7 == Step(d6)
           d8 == Step(d7)
<1>1. c1 \in W32 /\ d1 \in W32 /\ Step(c ++ d) = c1 ++ d1
  BY StepBit, StepXor
<1> HIDE DEF c1, d1
<1>2. c2 \in W32 /\ d2 \in W32 /\ Step(c1 ++ d1) = c2 ++ d2
  BY <1>1, StepBit, StepXor
<1> HIDE DEF c2, d2
<1>3. c3 \in W32 /\ d3 \in W32 /\ Step(c2 ++ d2) = c3 ++ d3
  BY <1>2, StepBit, StepXor
<1> HIDE DEF c3, d3
<1>4. c4 \in W32 /\ d4 \in W32 /\ Step(c3 ++ d3) = c4 ++ d4
  BY <1>3, StepBit, StepXor
<1> HIDE DEF c4, d4
<1>5. c5 \in W32 /\ d5 \in W32 /\ Step(c4 ++ d4) = c5 ++ d5
  BY <1>4, StepBit, StepXor
<1> HIDE DEF c5, d5
<1>6. c6 \in W32 /\ d6 \in W32 /\ Step(c5 ++ d5) = c6 ++ d6
  BY <1>5, StepBit, StepXor
<1> HIDE DEF c6, d6
<1>7. c7 \in W32 /\ d7 \in W32 /\ Step(c6 ++ d6) = c7 ++ d7
  BY <1>6, StepBit, StepXor
<1> HIDE DEF c7, d7
<1>8. c8 \in W32 /\ d8 \in W32 /\ Step(c7 ++ d7) = c8 ++ d8
  BY <1>7, StepBit, StepXor
<1> HIDE DEF c8, d8
<1>9. EightSteps(c) = c8 /\ EightSteps(d) = d8
  BY Zenon DEF EightSteps, c1, c2, c3, c4, c5, c6, c7, c8, d1, d2, d3, d4, d5, d6, d7, d8
<1>10. EightSteps(c ++ d) = c8 ++ d8
  BY <1>1, <1>2, <1>3, <1>4, <1>5, <1>6, <1>7, <1>8, Zenon DEF EightSteps
<1> QED
  BY <1>8, <1>9, <1>10

\* A word whose low byte is zero is shifted.
LEMMA StepOfShr ==
  ASSUME NEW w \in W32, NEW k \in Nat, k \notin w
  PROVE  Step(Shr(w, k)) = Shr(w, k + 1)
<1>1. Shr(w, k) \in W32 /\ Shr(w, k + 1) \in W32 /\ k + 1 \in Nat
  BY ShrType
<1>2. 0 \notin Shr(w, k)
  BY ShrType
<1>3. Step(Shr(w, k)) \in W32
  BY <1>1, StepBit
<1>4. ASSUME NEW x \in 0..31
      PROVE  x \in Step(Shr(w, k)) <=> x \in Shr(w, k + 1)
  <2>1. x \in Step(Shr(w, k)) <=> x + 1 \in Shr(w, k)
    BY <1>1, <1>2, StepBit
  <2>2. x \in Shr(w, k + 1) <=> x + (k + 1) \in w
    BY <1>1, ShrType
  <2>3. x + 1 \in Shr(w, k) <=> (x + 1) + k \in w
    <3>1. CASE x + 1 \in 0..31
      BY <3>1, ShrType
    <3>2. CASE x + 1 \notin 0..31
      <4>1. x + 1 \notin Shr(w, k)
        BY <1>1, <3>2 DEF W32
      <4>2. (x + 1) + k \notin 0..31
        BY <3>2
      <4> QED
        BY <4>1, <4>2 DEF W32
    <3> QED
      BY <3>1, <3>2
  <2>4. (x + 1) + k = x + (k + 1)
    OBVIOUS
  <2> QED
    BY <2>1, <2>2, <2>3, <2>4
<1> QED
  BY <1>1, <1>3, <1>4 DEF W32

LEMMA EightStepsOfHigh ==
  ASSUME NEW w \in W32, w \cap (0..7) = {}
  PROVE  EightSteps(w) = Shr(w, 8)
<1>1. \A k \in 0..7 : k \in Nat /\ k \notin w /\ Step(Shr(w, k)) = Shr(w, k + 1)
  BY StepOfShr
<1>2. Shr(w, 0) = w
  <2>1. Shr(w, 0) \in W32 /\ \A x \in 0..31 : x \in Shr(w, 0) <=> x + 0 \in w
    BY ShrType
  <2>2. \A x \in 0..31 : x \in Shr(w, 0) <=> x \in w
    BY <2>1
  <2>3. \A x : x \in Shr(w, 0) <=> x \in w
    BY <2>1, <2>2, Zenon DEF W32
  <2> QED
    BY <2>3, Zenon
<1>3. /\ Step(Shr(w, 0)) = Shr(w, 1) /\ Step(Shr(w, 1)) = Shr(w, 2)
      /\ Step(Shr(w, 2)) = Shr(w, 3) /\ Step(Shr(w, 3)) = Shr(w, 4)
      /\ Step(Shr(w, 4)) = Shr(w, 5) /\ Step(Shr(w, 5)) = Shr(w, 6)
      /\ Step(Shr(w, 6)) = Shr(w, 7) /\ Step(Shr(w, 7)) = Shr(w, 8)
  BY <1>1
<1> QED
  BY <1>2, <1>3, Zenon DEF EightSteps

\* One look into the table and a shift by a byte are eight steps.
LEMMA Table0Is ==
  ASSUME NEW w \in W32
  PROVE  /\ Table0[ByteOf(w, 0)] ++ Shr(w, 8) = EightSteps(w)
         /\ Table0[ByteOf(w, 0)] = EightSteps(w \cap (0..7))
<1> DEFINE low == w \cap (0..7)
           high == w \cap (8..31)
<1>1. low \in W32 /\ high \in W32 /\ low ++ high = w
  <2>1. \A x \in 0..31 : (x \in 0..7 \/ x \in 8..31) /\ ~(x \in 0..7 /\ x \in 8..31)
    OBVIOUS
  <2>2. \A x \in w : x \in 0..31
    BY DEF W32
  <2>3. \A x : x \in low ++ high <=> x \in w
    BY <2>1, <2>2, Zenon DEF ++
  <2>4. low ++ high = w
    BY <2>3, Zenon
  <2>5. low \in W32 /\ high \in W32
    BY DEF W32
  <2> QED
    BY <2>4, <2>5
<1>2. BitsOf[ByteOf(w, 0)] = low
  <2>1. BitsOf[ByteOf(w, 0)] = {i \in 0..7 : 8 * 0 + i \in w}
    BY BitsOfByte
  <2> QED
    BY <2>1
<1>3. Table0[ByteOf(w, 0)] = EightSteps(low)
  <2>1. ByteOf(w, 0) \in Byte
    BY ByteOfType
  <2>2. Table0[ByteOf(w, 0)] = EightSteps(BitsOf[ByteOf(w, 0)])
    BY <2>1, Zenon DEF Table0
  <2> QED
    BY <1>2, <2>2, Zenon
<1>4. Shr(w, 8) = EightSteps(high)
  <2>1. EightSteps(high) = Shr(high, 8)
    <3>1. high \cap (0..7) = {}
      OBVIOUS
    <3> QED
      BY <1>1, <3>1, EightStepsOfHigh
  <2>2. Shr(high, 8) = Shr(w, 8)
    BY DEF Shr, W32
  <2> QED
    BY <2>1, <2>2
<1> HIDE DEF low, high
<1>5. EightSteps(low ++ high) = EightSteps(low) ++ EightSteps(high)
  BY <1>1, EightStepsXor
<1> QED
  BY <1>1, <1>3, <1>4, <1>5, Zenon DEF low

LEMMA BitsOfType ==
  ASSUME NEW b \in Byte
  PROVE  BitsOf[b] \in SUBSET (0..7) /\ BitsOf[b] \in W32
BY DEF BitsOf, W32

LEMMA OneByteIs ==
  ASSUME NEW c \in W32, NEW b \in Byte
  PROVE  /\ OneByte(c, b) = EightSteps(c ++ BitsOf[b])
         /\ OneByte(c, b) \in W32
<1> DEFINE w == c ++ BitsOf[b]
<1>1. w \in W32
  BY BitsOfType, XorType
<1>2. Shr(w, 8) = Shr(c, 8)
  BY BitsOfType DEF Shr, ++
<1>3. Table0[ByteOf(w, 0)] ++ Shr(w, 8) = EightSteps(w)
  BY <1>1, Table0Is
<1> QED
  BY <1>1, <1>2, <1>3, EightStepsXor DEF OneByte

\* A table applied to a byte is as many bytes of zeros behind it.
Zeros1(w) == EightSteps(w)
Zeros2(w) == EightSteps(Zeros1(w))
Zeros3(w) == EightSteps(Zeros2(w))
Zeros4(w) == EightSteps(Zeros3(w))

LEMMA ZerosXor ==
  ASSUME NEW c \in W32, NEW d \in W32
  PROVE  /\ Zeros1(c) \in W32 /\ Zeros1(c ++ d) = Zeros1(c) ++ Zeros1(d)
         /\ Zeros2(c) \in W32 /\ Zeros2(c ++ d) = Zeros2(c) ++ Zeros2(d)
         /\ Zeros3(c) \in W32 /\ Zeros3(c ++ d) = Zeros3(c) ++ Zeros3(d)
         /\ Zeros4(c) \in W32 /\ Zeros4(c ++ d) = Zeros4(c) ++ Zeros4(d)
<1>1. Zeros1(c) \in W32 /\ Zeros1(d) \in W32 /\ Zeros1(c ++ d) = Zeros1(c) ++ Zeros1(d)
  BY EightStepsXor DEF Zeros1
<1>2. Zeros2(c) \in W32 /\ Zeros2(d) \in W32 /\ Zeros2(c ++ d) = Zeros2(c) ++ Zeros2(d)
  BY <1>1, EightStepsXor DEF Zeros2
<1>3. Zeros3(c) \in W32 /\ Zeros3(d) \in W32 /\ Zeros3(c ++ d) = Zeros3(c) ++ Zeros3(d)
  BY <1>2, EightStepsXor DEF Zeros3
<1>4. Zeros4(c) \in W32 /\ Zeros4(c ++ d) = Zeros4(c) ++ Zeros4(d)
  BY <1>3, EightStepsXor DEF Zeros4
<1> QED
  BY <1>1, <1>2, <1>3, <1>4

LEMMA WithZeroIs ==
  ASSUME NEW t, NEW i \in Byte, t[i] \in W32
  PROVE  WithZero(t)[i] = EightSteps(t[i])
<1>1. WithZero(t)[i] = Table0[ByteOf(t[i], 0)] ++ Shr(t[i], 8)
  BY DEF WithZero
<1> QED
  BY <1>1, Table0Is

LEMMA TablesAre ==
  ASSUME NEW i \in Byte
  PROVE  /\ Table0[i] = Zeros1(BitsOf[i]) /\ Table1[i] = Zeros2(BitsOf[i])
         /\ Table2[i] = Zeros3(BitsOf[i]) /\ Table3[i] = Zeros4(BitsOf[i])
<1>1. BitsOf[i] \in W32
  BY BitsOfType
<1>2. /\ Zeros1(BitsOf[i]) \in W32 /\ Zeros2(BitsOf[i]) \in W32 /\ Zeros3(BitsOf[i]) \in W32
  BY <1>1, ZerosXor
<1>3. Table0[i] = Zeros1(BitsOf[i])
  BY Zenon DEF Table0, Zeros1
<1>4. Table1[i] = Zeros2(BitsOf[i])
  BY <1>2, <1>3, WithZeroIs DEF Table1, Zeros2
<1>5. Table2[i] = Zeros3(BitsOf[i])
  BY <1>2, <1>4, WithZeroIs DEF Table2, Zeros3
<1>6. Table3[i] = Zeros4(BitsOf[i])
  BY <1>2, <1>5, WithZeroIs DEF Table3, Zeros4
<1> QED
  BY <1>3, <1>4, <1>5, <1>6

\* A byte's bits at the second, third or fourth byte of a word come down.
Up(x, k) == {i + k : i \in x}

LEMMA UpComesDown ==
  ASSUME NEW x \in SUBSET (0..7)
  PROVE  /\ x \in W32 /\ Up(x, 8) \in W32 /\ Up(x, 16) \in W32 /\ Up(x, 24) \in W32
         /\ EightSteps(Up(x, 8)) = x
         /\ EightSteps(Up(x, 16)) = Up(x, 8)
         /\ EightSteps(Up(x, 24)) = Up(x, 16)
<1>1. x \in W32 /\ Up(x, 8) \in W32 /\ Up(x, 16) \in W32 /\ Up(x, 24) \in W32
  BY DEF Up, W32
<1>2. Up(x, 8) \cap (0..7) = {} /\ Up(x, 16) \cap (0..7) = {} /\ Up(x, 24) \cap (0..7) = {}
  BY DEF Up
<1>3. /\ EightSteps(Up(x, 8)) = Shr(Up(x, 8), 8)
      /\ EightSteps(Up(x, 16)) = Shr(Up(x, 16), 8)
      /\ EightSteps(Up(x, 24)) = Shr(Up(x, 24), 8)
  BY <1>1, <1>2, EightStepsOfHigh
<1>4. Shr(Up(x, 8), 8) = x
  <2>1. ASSUME NEW i \in Shr(Up(x, 8), 8) PROVE i \in x
    BY DEF Shr, Up
  <2>2. ASSUME NEW i \in x PROVE i \in Shr(Up(x, 8), 8)
    <3>1. i \in 0..7 /\ i + 8 \in Up(x, 8) /\ i + 8 >= 8 /\ (i + 8) - 8 = i
      BY DEF Up
    <3> QED
      BY <3>1, Zenon DEF Shr
  <2> QED
    BY <2>1, <2>2
<1>5. Shr(Up(x, 16), 8) = Up(x, 8)
  <2>1. ASSUME NEW i \in Shr(Up(x, 16), 8) PROVE i \in Up(x, 8)
    BY DEF Shr, Up
  <2>2. ASSUME NEW i \in Up(x, 8) PROVE i \in Shr(Up(x, 16), 8)
    <3>1. PICK j \in x : i = j + 8
      BY DEF Up
    <3>2. j + 16 \in Up(x, 16)
      BY DEF Up
    <3>3. j + 16 >= 8 /\ (j + 16) - 8 = i
      BY <3>1
    <3> QED
      BY <3>2, <3>3, Zenon DEF Shr
  <2> QED
    BY <2>1, <2>2
<1>6. Shr(Up(x, 24), 8) = Up(x, 16)
  <2>1. ASSUME NEW i \in Shr(Up(x, 24), 8) PROVE i \in Up(x, 16)
    BY DEF Shr, Up
  <2>2. ASSUME NEW i \in Up(x, 16) PROVE i \in Shr(Up(x, 24), 8)
    <3>1. PICK j \in x : i = j + 16
      BY DEF Up
    <3>2. j + 24 \in Up(x, 24)
      BY DEF Up
    <3>3. j + 24 >= 8 /\ (j + 24) - 8 = i
      BY <3>1
    <3> QED
      BY <3>2, <3>3, Zenon DEF Shr
  <2> QED
    BY <2>1, <2>2
<1> QED
  BY <1>1, <1>3, <1>4, <1>5, <1>6

\* A word is its four bytes.
LEMMA WordOfFour ==
  ASSUME NEW b, b[1] \in Byte, b[2] \in Byte, b[3] \in Byte, b[4] \in Byte
  PROVE  /\ Word(b) = (BitsOf[b[1]] ++ Up(BitsOf[b[2]], 8)) ++
                      (Up(BitsOf[b[3]], 16) ++ Up(BitsOf[b[4]], 24))
         /\ Word(b) \in W32
<1> DEFINE x1 == BitsOf[b[1]]
           x2 == BitsOf[b[2]]
           x3 == BitsOf[b[3]]
           x4 == BitsOf[b[4]]
<1>1. /\ x1 \in SUBSET (0..7) /\ x2 \in SUBSET (0..7)
      /\ x3 \in SUBSET (0..7) /\ x4 \in SUBSET (0..7)
  BY BitsOfType
<1>2. Word(b) = UNION {Up(BitsOf[b[j]], 8 * (j - 1)) : j \in 1..4}
  BY Zenon DEF Word, Up
<1>3. \A i : i \in Word(b) <=> \/ i \in Up(x1, 0) \/ i \in Up(x2, 8)
                               \/ i \in Up(x3, 16) \/ i \in Up(x4, 24)
  <2>1. 8 * (1 - 1) = 0 /\ 8 * (2 - 1) = 8 /\ 8 * (3 - 1) = 16 /\ 8 * (4 - 1) = 24
    OBVIOUS
  <2>2. \A i : i \in Word(b) <=> \E j \in 1..4 : i \in Up(BitsOf[b[j]], 8 * (j - 1))
    BY <1>2, Zenon
  <2>3. \A j : j \in 1..4 <=> j = 1 \/ j = 2 \/ j = 3 \/ j = 4
    OBVIOUS
  <2> QED
    BY <2>1, <2>2, <2>3, Zenon
<1> HIDE DEF x1, x2, x3, x4
<1>4. Up(x1, 0) = x1
  <2>1. \A i \in x1 : i + 0 = i
    BY <1>1
  <2>2. ASSUME NEW i PROVE i \in Up(x1, 0) <=> i \in x1
    BY <2>1, Zenon DEF Up
  <2> QED
    BY <2>2, Zenon
<1>5. /\ \A i \in x1 : i \in 0..7
      /\ \A i \in Up(x2, 8) : i \in 8..15
      /\ \A i \in Up(x3, 16) : i \in 16..23
      /\ \A i \in Up(x4, 24) : i \in 24..31
  BY <1>1 DEF Up
<1>6. \A i : /\ ~(i \in 0..7 /\ i \in 8..15) /\ ~(i \in 0..7 /\ i \in 16..23)
             /\ ~(i \in 0..7 /\ i \in 24..31) /\ ~(i \in 8..15 /\ i \in 16..23)
             /\ ~(i \in 8..15 /\ i \in 24..31) /\ ~(i \in 16..23 /\ i \in 24..31)
  OBVIOUS
<1>7. ASSUME NEW i
      PROVE  i \in Word(b) <=> i \in (x1 ++ Up(x2, 8)) ++ (Up(x3, 16) ++ Up(x4, 24))
  <2>1. i \in Word(b) <=> i \in x1 \/ i \in Up(x2, 8) \/ i \in Up(x3, 16) \/ i \in Up(x4, 24)
    BY <1>3, <1>4
  <2>2. i \in (x1 ++ Up(x2, 8)) ++ (Up(x3, 16) ++ Up(x4, 24)) <=>
          ~(~(i \in x1 <=> i \in Up(x2, 8)) <=> ~(i \in Up(x3, 16) <=> i \in Up(x4, 24)))
    BY XorBit
  <2> QED
    BY <1>5, <1>6, <2>1, <2>2, Zenon
<1>8. Word(b) = (x1 ++ Up(x2, 8)) ++ (Up(x3, 16) ++ Up(x4, 24))
  BY <1>7, Zenon
<1>9. Word(b) \in W32
  BY <1>1, <1>8, UpComesDown, XorType
<1> QED
  BY <1>8, <1>9 DEF x1, x2, x3, x4

LEMMA Zeros4OfWord ==
  ASSUME NEW x1 \in SUBSET (0..7), NEW x2 \in SUBSET (0..7),
         NEW x3 \in SUBSET (0..7), NEW x4 \in SUBSET (0..7)
  PROVE  Zeros4((x1 ++ Up(x2, 8)) ++ (Up(x3, 16) ++ Up(x4, 24)))
           = (Zeros4(x1) ++ Zeros3(x2)) ++ (Zeros2(x3) ++ Zeros1(x4))
<1>1. /\ x1 \in W32 /\ Up(x2, 8) \in W32 /\ Up(x3, 16) \in W32 /\ Up(x4, 24) \in W32
      /\ EightSteps(Up(x2, 8)) = x2
      /\ EightSteps(Up(x3, 16)) = Up(x3, 8) /\ EightSteps(Up(x3, 8)) = x3
      /\ EightSteps(Up(x4, 24)) = Up(x4, 16) /\ EightSteps(Up(x4, 16)) = Up(x4, 8)
      /\ EightSteps(Up(x4, 8)) = x4
  BY UpComesDown
<1>2. Zeros4(Up(x2, 8)) = Zeros3(x2) /\ Zeros4(Up(x3, 16)) = Zeros2(x3)
      /\ Zeros4(Up(x4, 24)) = Zeros1(x4)
  BY <1>1, Zenon DEF Zeros1, Zeros2, Zeros3, Zeros4
<1> DEFINE a == x1 ++ Up(x2, 8)
           b == Up(x3, 16) ++ Up(x4, 24)
<1>3. a \in W32 /\ b \in W32
  BY <1>1, XorType
<1>4. Zeros4(a) = Zeros4(x1) ++ Zeros3(x2)
  BY <1>1, <1>2, ZerosXor
<1>5. Zeros4(b) = Zeros2(x3) ++ Zeros1(x4)
  BY <1>1, <1>2, ZerosXor
<1> HIDE DEF a, b
<1>6. Zeros4(a ++ b) = Zeros4(a) ++ Zeros4(b)
  BY <1>3, ZerosXor
<1> QED
  BY <1>4, <1>5, <1>6 DEF a, b

LEMMA FourBytesIs ==
  ASSUME NEW c \in W32, NEW four, Word(four) \in W32
  PROVE  FourBytes(c, four) = Zeros4(c ++ Word(four))
<1> DEFINE w == c ++ Word(four)
           b == [j \in 1..4 |-> htonlWord(w)[5 - j]]
<1>1. w \in W32
  BY XorType
<1> HIDE DEF w
<1>2. Word(b) = w
  <2>1. ntohlWord(htonlWord(w)) = w
    BY <1>1, ntohlOfhtonlWord DEF W32
  <2> QED
    BY <2>1, Zenon DEF ntohlWord
<1>3. /\ b[1] = ByteOf(w, 0) /\ b[2] = ByteOf(w, 1)
      /\ b[3] = ByteOf(w, 2) /\ b[4] = ByteOf(w, 3)
  BY DEF htonlWord
<1>4. /\ b[1] \in Byte /\ b[2] \in Byte /\ b[3] \in Byte /\ b[4] \in Byte
  BY <1>3, ByteOfType
<1> HIDE DEF b
<1> DEFINE x1 == BitsOf[b[1]]
           x2 == BitsOf[b[2]]
           x3 == BitsOf[b[3]]
           x4 == BitsOf[b[4]]
<1>5. w = (x1 ++ Up(x2, 8)) ++ (Up(x3, 16) ++ Up(x4, 24))
  BY <1>2, <1>4, WordOfFour
<1>6. /\ x1 \in SUBSET (0..7) /\ x2 \in SUBSET (0..7)
      /\ x3 \in SUBSET (0..7) /\ x4 \in SUBSET (0..7)
  BY <1>4, BitsOfType
<1>7. /\ Table3[b[1]] = Zeros4(x1) /\ Table2[b[2]] = Zeros3(x2)
      /\ Table1[b[3]] = Zeros2(x3) /\ Table0[b[4]] = Zeros1(x4)
  BY <1>4, TablesAre
<1>8. FourBytes(c, four) = (Table3[b[1]] ++ Table2[b[2]]) ++ (Table1[b[3]] ++ Table0[b[4]])
  BY <1>3, Zenon DEF FourBytes, w
<1> HIDE DEF x1, x2, x3, x4
<1>9. Zeros4(w) = (Zeros4(x1) ++ Zeros3(x2)) ++ (Zeros2(x3) ++ Zeros1(x4))
  BY <1>5, <1>6, Zeros4OfWord
<1> QED
  BY <1>7, <1>8, <1>9, Zenon DEF w

\* Four bytes at a time are four bytes one by one.
LEMMA FourBytesAreFour ==
  ASSUME NEW c \in W32, NEW b, b[1] \in Byte, b[2] \in Byte, b[3] \in Byte, b[4] \in Byte
  PROVE  FourBytes(c, b) = OneByte(OneByte(OneByte(OneByte(c, b[1]), b[2]), b[3]), b[4])
<1> DEFINE x1 == BitsOf[b[1]]
           x2 == BitsOf[b[2]]
           x3 == BitsOf[b[3]]
           x4 == BitsOf[b[4]]
           a1 == OneByte(c, b[1])
           a2 == OneByte(a1, b[2])
           a3 == OneByte(a2, b[3])
           a4 == OneByte(a3, b[4])
<1>1. /\ x1 \in SUBSET (0..7) /\ x2 \in SUBSET (0..7)
      /\ x3 \in SUBSET (0..7) /\ x4 \in SUBSET (0..7)
      /\ x1 \in W32 /\ x2 \in W32 /\ x3 \in W32 /\ x4 \in W32
  BY BitsOfType
<1>2. a1 \in W32 /\ a1 = EightSteps(c ++ x1)
  BY OneByteIs
<1> HIDE DEF a1
<1>3. a2 \in W32 /\ a2 = EightSteps(a1 ++ x2)
  BY <1>2, OneByteIs
<1> HIDE DEF a2
<1>4. a3 \in W32 /\ a3 = EightSteps(a2 ++ x3)
  BY <1>3, OneByteIs
<1> HIDE DEF a3
<1>5. a4 = EightSteps(a3 ++ x4)
  BY <1>4, OneByteIs
<1> HIDE DEF a4
<1>6. Word(b) = (x1 ++ Up(x2, 8)) ++ (Up(x3, 16) ++ Up(x4, 24)) /\ Word(b) \in W32
  BY WordOfFour
<1> HIDE DEF x1, x2, x3, x4
<1>7. a1 = Zeros1(c) ++ Zeros1(x1)
  BY <1>1, <1>2, ZerosXor DEF Zeros1
<1>8. /\ Zeros1(c) \in W32 /\ Zeros2(c) \in W32 /\ Zeros3(c) \in W32 /\ Zeros4(c) \in W32
      /\ Zeros1(x1) \in W32 /\ Zeros2(x1) \in W32 /\ Zeros3(x1) \in W32 /\ Zeros4(x1) \in W32
      /\ Zeros1(x2) \in W32 /\ Zeros2(x2) \in W32 /\ Zeros3(x2) \in W32
      /\ Zeros1(x3) \in W32 /\ Zeros2(x3) \in W32 /\ Zeros1(x4) \in W32
  BY <1>1, ZerosXor
<1>9. a2 = (Zeros2(c) ++ Zeros2(x1)) ++ Zeros1(x2)
  <2>1. a2 = EightSteps(a1) ++ Zeros1(x2)
    BY <1>1, <1>2, <1>3, EightStepsXor DEF Zeros1
  <2>2. EightSteps(a1) = Zeros2(c) ++ Zeros2(x1)
    BY <1>7, <1>8, EightStepsXor DEF Zeros2
  <2> QED
    BY <2>1, <2>2
<1>10. a3 = ((Zeros3(c) ++ Zeros3(x1)) ++ Zeros2(x2)) ++ Zeros1(x3)
  <2>1. a3 = EightSteps(a2) ++ Zeros1(x3)
    BY <1>1, <1>3, <1>4, EightStepsXor DEF Zeros1
  <2>2. Zeros2(c) ++ Zeros2(x1) \in W32
    BY <1>8, XorType
  <2>3. EightSteps(a2) = EightSteps(Zeros2(c) ++ Zeros2(x1)) ++ Zeros2(x2)
    BY <1>8, <1>9, <2>2, EightStepsXor DEF Zeros2
  <2>4. EightSteps(Zeros2(c) ++ Zeros2(x1)) = Zeros3(c) ++ Zeros3(x1)
    BY <1>8, EightStepsXor DEF Zeros3
  <2> QED
    BY <2>1, <2>3, <2>4
<1>11. a4 = (((Zeros4(c) ++ Zeros4(x1)) ++ Zeros3(x2)) ++ Zeros2(x3)) ++ Zeros1(x4)
  <2>1. a4 = EightSteps(a3) ++ Zeros1(x4)
    BY <1>1, <1>4, <1>5, EightStepsXor DEF Zeros1
  <2>2. Zeros3(c) ++ Zeros3(x1) \in W32
    BY <1>8, XorType
  <2>3. (Zeros3(c) ++ Zeros3(x1)) ++ Zeros2(x2) \in W32
    BY <1>8, <2>2, XorType
  <2>4. EightSteps(a3) = EightSteps((Zeros3(c) ++ Zeros3(x1)) ++ Zeros2(x2)) ++ Zeros2(x3)
    BY <1>8, <1>10, <2>3, EightStepsXor DEF Zeros2
  <2>5. EightSteps((Zeros3(c) ++ Zeros3(x1)) ++ Zeros2(x2))
          = EightSteps(Zeros3(c) ++ Zeros3(x1)) ++ Zeros3(x2)
    BY <1>8, <2>2, EightStepsXor DEF Zeros3
  <2>6. EightSteps(Zeros3(c) ++ Zeros3(x1)) = Zeros4(c) ++ Zeros4(x1)
    BY <1>8, EightStepsXor DEF Zeros4
  <2> QED
    BY <2>1, <2>4, <2>5, <2>6
<1>12. FourBytes(c, b) = Zeros4(c) ++ ((Zeros4(x1) ++ Zeros3(x2)) ++ (Zeros2(x3) ++ Zeros1(x4)))
  <2>1. FourBytes(c, b) = Zeros4(c ++ Word(b))
    BY <1>6, FourBytesIs
  <2>2. Zeros4(c ++ Word(b)) = Zeros4(c) ++ Zeros4(Word(b))
    BY <1>6, ZerosXor
  <2>3. Zeros4(Word(b)) = (Zeros4(x1) ++ Zeros3(x2)) ++ (Zeros2(x3) ++ Zeros1(x4))
    BY <1>1, <1>6, Zeros4OfWord
  <2> QED
    BY <2>1, <2>2, <2>3
<1>13. \A p, q, r, s, t :
         (((p ++ q) ++ r) ++ s) ++ t = p ++ ((q ++ r) ++ (s ++ t))
  <2> SUFFICES ASSUME NEW p, NEW q, NEW r, NEW s, NEW t
               PROVE  (((p ++ q) ++ r) ++ s) ++ t = p ++ ((q ++ r) ++ (s ++ t))
    OBVIOUS
  <2>1. (((p ++ q) ++ r) ++ s) ++ t = ((p ++ q) ++ r) ++ (s ++ t)
    BY XorAssociative
  <2>2. (p ++ q) ++ r = p ++ (q ++ r)
    BY XorAssociative
  <2>3. (p ++ (q ++ r)) ++ (s ++ t) = p ++ ((q ++ r) ++ (s ++ t))
    BY XorAssociative
  <2> QED
    BY <2>1, <2>2, <2>3
<1>14. a4 = FourBytes(c, b)
  BY <1>11, <1>12, <1>13
<1> QED
  BY <1>14 DEF a1, a2, a3, a4

\* f holds the word after no byte, one, two, ..., n bytes of the block.
WordsUpto(f, crc, block, n) ==
  /\ f \in [0..n -> W32]
  /\ f[0] = crc ++ AllOnes
  /\ \A i \in 1..n : f[i] = OneByte(f[i - 1], block[i])

LEMMA WordsExist ==
  ASSUME NEW crc \in W32, NEW block \in Seq(Byte)
  PROVE  \E f : WordsUpto(f, crc, block, Len(block))
<1>1. crc ++ AllOnes \in W32
  BY XorType DEF AllOnes, W32
<1> DEFINE S == {n \in Nat : n <= Len(block) => \E f : WordsUpto(f, crc, block, n)}
<1>2. 0 \in S
  <2> DEFINE f == [i \in 0..0 |-> crc ++ AllOnes]
  <2>1. WordsUpto(f, crc, block, 0)
    BY <1>1 DEF WordsUpto
  <2> QED
    BY <2>1
<1>3. ASSUME NEW n \in Nat, n \in S PROVE n + 1 \in S
  <2>1. ASSUME n + 1 <= Len(block) PROVE \E f : WordsUpto(f, crc, block, n + 1)
    <3>1. PICK g : WordsUpto(g, crc, block, n)
      BY <1>3, <2>1
    <3> HIDE DEF S
    <3> DEFINE new == OneByte(g[n], block[n + 1])
               f == [i \in 0..n + 1 |-> IF i <= n THEN g[i] ELSE new]
    <3>2. new \in W32
      <4>1. g[n] \in W32 /\ block[n + 1] \in Byte
        BY <2>1, <3>1 DEF WordsUpto
      <4> QED
        BY <4>1, OneByteIs
    <3> HIDE DEF new
    <3>3. f \in [0..n + 1 -> W32]
      <4>1. \A i \in 0..n : g[i] \in W32
        BY <3>1 DEF WordsUpto
      <4> QED
        BY <3>2, <4>1
    <3>4. f[0] = crc ++ AllOnes
      BY <3>1 DEF WordsUpto
    <3>5. ASSUME NEW i \in 1..n + 1 PROVE f[i] = OneByte(f[i - 1], block[i])
      <4>1. CASE i <= n
        <5>1. f[i] = g[i] /\ f[i - 1] = g[i - 1] /\ i \in 1..n
          BY <4>1
        <5> HIDE DEF f
        <5> QED
          BY <3>1, <5>1 DEF WordsUpto
      <4>2. CASE i = n + 1
        <5>1. f[i] = new /\ f[i - 1] = g[n]
          BY <4>2
        <5> HIDE DEF f
        <5> QED
          BY <4>2, <5>1 DEF new
      <4>3. i <= n \/ i = n + 1
        OBVIOUS
      <4> HIDE DEF f
      <4> QED
        BY <4>1, <4>2, <4>3
    <3> HIDE DEF f
    <3>6. WordsUpto(f, crc, block, n + 1)
      BY <3>3, <3>4, <3>5 DEF WordsUpto
    <3> QED
      BY <3>6
  <2> QED
    BY <2>1
<1>4. Nat \subseteq S
  <2> HIDE DEF S
  <2> QED
    BY <1>2, <1>3, InductionBySet
<1> QED
  <2>1. Len(block) \in Nat
    OBVIOUS
  <2>2. Len(block) \in S
    BY <1>4, <2>1, Zenon
  <2> QED
    BY <2>1, <2>2

LEMMA crc32Is ==
  ASSUME NEW crc \in W32, NEW block \in Seq(Byte), NEW f, WordsUpto(f, crc, block, Len(block))
  PROVE  crc32(crc, block) = f[Len(block)] ++ AllOnes
<1> DEFINE n == Len(block)
           Rec(g) == g = [i \in 0..n |-> IF i = 0 THEN crc ++ AllOnes ELSE OneByte(g[i - 1], block[i])]
           h == CHOOSE g : Rec(g)
<1>1. n \in Nat
  OBVIOUS
<1>2. crc32(crc, block) = h[n] ++ AllOnes
  BY Zenon DEF crc32
<1> HIDE DEF n
<1>3. Rec(f)
  <2>1. f = [i \in 0..n |-> f[i]]
    BY DEF WordsUpto, n
  <2>2. ASSUME NEW i \in 0..n
        PROVE  f[i] = IF i = 0 THEN crc ++ AllOnes ELSE OneByte(f[i - 1], block[i])
    <3>1. i = 0 \/ i \in 1..n
      BY <1>1
    <3> QED
      BY <3>1 DEF WordsUpto, n
  <2> QED
    BY <2>1, <2>2
<1>4. Rec(h)
  <2> HIDE DEF Rec
  <2> QED
    BY <1>3, Zenon
<1> HIDE DEF h
<1>5. h[0] = crc ++ AllOnes /\ \A i \in 1..n : h[i] = OneByte(h[i - 1], block[i])
  <2>1. \A i \in 0..n : h[i] = IF i = 0 THEN crc ++ AllOnes ELSE OneByte(h[i - 1], block[i])
    BY <1>4, Zenon
  <2>2. 0 \in 0..n /\ \A i \in 1..n : i \in 0..n /\ i # 0
    BY <1>1
  <2> QED
    BY <2>1, <2>2, Zenon
<1> DEFINE S == {k \in Nat : k \in 0..n => f[k] = h[k]}
<1>6. 0 \in S
  BY <1>5 DEF WordsUpto
<1>7. ASSUME NEW k \in Nat, k \in S PROVE k + 1 \in S
  <2>1. ASSUME k + 1 \in 0..n PROVE f[k + 1] = h[k + 1]
    <3>1. f[k] = h[k] /\ k + 1 \in 1..n /\ (k + 1) - 1 = k
      BY <1>1, <1>7, <2>1
    <3> HIDE DEF S
    <3>2. f[k + 1] = OneByte(f[k], block[k + 1])
      BY <3>1 DEF WordsUpto, n
    <3>3. h[k + 1] = OneByte(h[k], block[k + 1])
      BY <1>5, <3>1
    <3> QED
      BY <3>1, <3>2, <3>3
  <2> QED
    BY <2>1
<1>8. Nat \subseteq S
  <2> HIDE DEF S
  <2> QED
    BY <1>6, <1>7, InductionBySet
<1> QED
  <2>1. n \in S
    BY <1>1, <1>8
  <2> QED
    BY <1>1, <1>2, <2>1 DEF n

LEMMA mycrc32Is ==
  ASSUME NEW crc \in W32, NEW block \in Seq(Byte), NEW align \in Nat,
         NEW f, WordsUpto(f, crc, block, Len(block))
  PROVE  mycrc32(crc, block, align) = f[Len(block)] ++ AllOnes
<1> DEFINE n == Len(block)
           lead == Min({n, (4 - align) % 4})
           EndsWord(i) == i > lead /\ (i - lead) % 4 = 0
           Rec(g) == g = [i \in 0..n |->
                       IF i = 0 THEN crc ++ AllOnes
                       ELSE IF EndsWord(i) THEN FourBytes(g[i - 4], SubSeq(block, i - 3, i))
                       ELSE OneByte(g[i - 1], block[i])]
           h == CHOOSE g : Rec(g)
<1>1. n \in Nat
  OBVIOUS
<1>2. mycrc32(crc, block, align) = h[n] ++ AllOnes
  BY Zenon DEF mycrc32
<1>3. lead \in 0..n
  <2>1. (4 - align) % 4 \in 0..3
    OBVIOUS
  <2> QED
    BY <1>1, <2>1, MinOfTwo
<1> HIDE DEF n, lead
<1>4. ASSUME NEW i \in 1..n, EndsWord(i) PROVE i \in 4..n
  BY <1>1, <1>3, <1>4
<1> HIDE DEF EndsWord
<1>5. ASSUME NEW i \in 4..n
      PROVE  f[i] = FourBytes(f[i - 4], SubSeq(block, i - 3, i))
  <2> DEFINE b == SubSeq(block, i - 3, i)
  <2>1. b[1] = block[i - 3] /\ b[2] = block[i - 2] /\ b[3] = block[i - 1] /\ b[4] = block[i]
    <3>1. i - 3 \in 1..Len(block) /\ i \in 1..Len(block) /\ i - 3 <= i
      BY <1>1 DEF n
    <3>2. \A p \in 1..Len(block), q \in 1..Len(block) : \A j \in 1..(q - p) + 1 :
            SubSeq(block, p, q)[j] = block[(p + j) - 1]
      OBVIOUS
    <3>3. (i - (i - 3)) + 1 = 4
      BY <1>1
    <3>4. \A j \in 1..4 : b[j] = block[((i - 3) + j) - 1]
      BY <3>1, <3>2, <3>3
    <3> HIDE DEF b
    <3>5. ((i - 3) + 1) - 1 = i - 3 /\ ((i - 3) + 2) - 1 = i - 2
          /\ ((i - 3) + 3) - 1 = i - 1 /\ ((i - 3) + 4) - 1 = i
      BY <1>1
    <3> QED
      BY <3>4, <3>5
  <2> HIDE DEF b
  <2>2. /\ block[i - 3] \in Byte /\ block[i - 2] \in Byte
        /\ block[i - 1] \in Byte /\ block[i] \in Byte
    <3>1. i - 3 \in 1..Len(block) /\ i - 2 \in 1..Len(block) /\ i - 1 \in 1..Len(block)
          /\ i \in 1..Len(block)
      BY <1>1 DEF n
    <3>2. \A j \in 1..Len(block) : block[j] \in Byte
      OBVIOUS
    <3> QED
      BY <3>1, <3>2, Zenon
  <2>3. f[i - 4] \in W32
    <3>1. i - 4 \in 0..n
      BY <1>1
    <3> QED
      BY <3>1 DEF WordsUpto, n
  <2>4. /\ f[i - 3] = OneByte(f[i - 4], block[i - 3])
        /\ f[i - 2] = OneByte(f[i - 3], block[i - 2])
        /\ f[i - 1] = OneByte(f[i - 2], block[i - 1])
        /\ f[i] = OneByte(f[i - 1], block[i])
    <3>1. /\ i - 3 \in 1..n /\ i - 2 \in 1..n /\ i - 1 \in 1..n /\ i \in 1..n
          /\ (i - 3) - 1 = i - 4 /\ (i - 2) - 1 = i - 3 /\ (i - 1) - 1 = i - 2
      BY <1>1
    <3>2. \A j \in 1..n : f[j] = OneByte(f[j - 1], block[j])
      BY DEF WordsUpto, n
    <3> QED
      BY <3>1, <3>2
  <2>5. FourBytes(f[i - 4], b) = OneByte(OneByte(OneByte(OneByte(f[i - 4], b[1]), b[2]), b[3]), b[4])
    BY <2>1, <2>2, <2>3, FourBytesAreFour
  <2> QED
    BY <2>1, <2>4, <2>5, Zenon DEF b
<1>6. Rec(f)
  <2>1. f = [i \in 0..n |-> f[i]]
    BY DEF WordsUpto, n
  <2>2. ASSUME NEW i \in 0..n
        PROVE  f[i] = IF i = 0 THEN crc ++ AllOnes
                      ELSE IF EndsWord(i) THEN FourBytes(f[i - 4], SubSeq(block, i - 3, i))
                      ELSE OneByte(f[i - 1], block[i])
    <3>1. i = 0 \/ i \in 1..n
      BY <1>1
    <3>2. CASE i = 0
      BY <3>2 DEF WordsUpto
    <3>3. CASE i \in 1..n
      <4>1. i # 0 /\ f[i] = OneByte(f[i - 1], block[i])
        BY <1>1, <3>3 DEF WordsUpto, n
      <4>2. EndsWord(i) => f[i] = FourBytes(f[i - 4], SubSeq(block, i - 3, i))
        BY <1>4, <1>5, <3>3
      <4> QED
        BY <4>1, <4>2, Zenon
    <3> QED
      BY <3>1, <3>2, <3>3
  <2> QED
    BY <2>1, <2>2
<1>7. Rec(h)
  <2> HIDE DEF Rec
  <2> QED
    BY <1>6, Zenon
<1> HIDE DEF h
<1>8. /\ h[0] = crc ++ AllOnes
      /\ \A i \in 1..n : h[i] = IF EndsWord(i) THEN FourBytes(h[i - 4], SubSeq(block, i - 3, i))
                                ELSE OneByte(h[i - 1], block[i])
  <2>1. \A i \in 0..n : h[i] = IF i = 0 THEN crc ++ AllOnes
                               ELSE IF EndsWord(i) THEN FourBytes(h[i - 4], SubSeq(block, i - 3, i))
                               ELSE OneByte(h[i - 1], block[i])
    BY <1>7, Zenon
  <2>2. 0 \in 0..n /\ \A i \in 1..n : i \in 0..n /\ i # 0
    BY <1>1
  <2> QED
    BY <2>1, <2>2, Zenon
<1> DEFINE S == {k \in Nat : \A i \in 0..k : i \in 0..n => f[i] = h[i]}
<1>9. 0 \in S
  BY <1>8 DEF WordsUpto
<1>10. ASSUME NEW k \in Nat, k \in S PROVE k + 1 \in S
  <2>1. ASSUME k + 1 \in 0..n PROVE f[k + 1] = h[k + 1]
    <3>1. f[k] = h[k] /\ k + 1 \in 1..n /\ (k + 1) - 1 = k
      BY <1>1, <1>10, <2>1
    <3>2. f[k + 1] = OneByte(f[k], block[k + 1])
      BY <3>1 DEF WordsUpto, n
    <3>3. CASE EndsWord(k + 1)
      <4>1. k + 1 \in 4..n
        BY <1>4, <3>1, <3>3
      <4>2. f[(k + 1) - 4] = h[(k + 1) - 4]
        <5>1. (k + 1) - 4 \in 0..k /\ (k + 1) - 4 \in 0..n
          BY <1>1, <4>1
        <5> QED
          BY <1>10, <5>1
      <4> HIDE DEF S
      <4> QED
        BY <1>5, <1>8, <3>1, <3>3, <4>1, <4>2
    <3>4. CASE ~EndsWord(k + 1)
      <4> HIDE DEF S
      <4> QED
        BY <1>8, <3>1, <3>2, <3>4
    <3> QED
      BY <3>3, <3>4
  <2>2. \A i \in 0..k + 1 : i \in 0..k \/ i = k + 1
    OBVIOUS
  <2> QED
    BY <1>10, <2>1, <2>2
<1>11. Nat \subseteq S
  <2> HIDE DEF S
  <2> QED
    BY <1>9, <1>10, InductionBySet
<1> QED
  <2>1. n \in S /\ n \in 0..n
    BY <1>1, <1>11
  <2> QED
    BY <1>2, <2>1 DEF n

\* mycrc32 gives what the original code gives, wherever the block lies.
THEOREM mycrc32IsCrc32 ==
  ASSUME NEW crc \in SUBSET (0..31), NEW block \in Seq(Byte), NEW align \in Nat
  PROVE  /\ mycrc32(crc, block, align) = crc32(crc, block)
         /\ mycrc32(crc, block, align) \in SUBSET (0..31)
<1>1. crc \in W32
  BY DEF W32
<1>2. PICK f : WordsUpto(f, crc, block, Len(block))
  BY <1>1, WordsExist
<1>3. crc32(crc, block) = f[Len(block)] ++ AllOnes
  BY <1>1, <1>2, crc32Is
<1>4. mycrc32(crc, block, align) = f[Len(block)] ++ AllOnes
  BY <1>1, <1>2, mycrc32Is
<1>5. f[Len(block)] \in W32 /\ AllOnes \in W32
  <2>1. Len(block) \in 0..Len(block)
    OBVIOUS
  <2>2. f[Len(block)] \in W32
    BY <1>2, <2>1 DEF WordsUpto
  <2> QED
    BY <2>2 DEF AllOnes, W32
<1>6. f[Len(block)] ++ AllOnes \in W32
  BY <1>5, XorType
<1> QED
  BY <1>3, <1>4, <1>6 DEF W32

\* Nothing is lost in a step, nor in eight.
LEMMA StepInjective ==
  ASSUME NEW c \in W32, NEW d \in W32, Step(c) = Step(d)
  PROVE  c = d
<1>1. /\ \A x \in 0..31 : x \in Step(c) <=> ~((0 \in c /\ x \in CRC_POLY) <=> x + 1 \in c)
      /\ \A x \in 0..31 : x \in Step(d) <=> ~((0 \in d /\ x \in CRC_POLY) <=> x + 1 \in d)
  BY StepBit
<1>2. 31 \in CRC_POLY /\ 31 \in 0..31 /\ 31 + 1 \notin c /\ 31 + 1 \notin d
  BY DEF CRC_POLY, W32
<1>3. 0 \in c <=> 0 \in d
  BY <1>1, <1>2, Zenon
<1>4. ASSUME NEW x \in 0..31 PROVE x + 1 \in c <=> x + 1 \in d
  BY <1>1, <1>3, Zenon
<1>5. ASSUME NEW x PROVE x \in c <=> x \in d
  <2>1. CASE x \in 1..31
    <3>1. x - 1 \in 0..31 /\ (x - 1) + 1 = x
      BY <2>1
    <3> QED
      BY <1>4, <3>1
  <2>2. CASE x = 0
    BY <1>3, <2>2
  <2>3. CASE x \notin 0..31
    BY <2>3 DEF W32
  <2>4. x \in 0..31 => x = 0 \/ x \in 1..31
    OBVIOUS
  <2> QED
    BY <2>1, <2>2, <2>3, <2>4
<1> QED
  BY <1>5, Zenon

LEMMA EightStepsInjective ==
  ASSUME NEW c \in W32, NEW d \in W32, EightSteps(c) = EightSteps(d)
  PROVE  c = d
<1>1. \A x, y \in W32 : Step(x) \in W32 /\ (Step(x) = Step(y) => x = y)
  BY StepInjective, StepBit
<1> DEFINE S(x) == Step(x)
<1>2. \A x, y \in W32 : S(x) \in W32 /\ (S(x) = S(y) => x = y)
  BY <1>1
<1>3. S(S(S(S(S(S(S(S(c)))))))) = S(S(S(S(S(S(S(S(d))))))))
  BY Zenon DEF EightSteps
<1> HIDE DEF S
<1>4. S(S(S(S(c)))) \in W32 /\ S(S(S(S(d)))) \in W32
      /\ S(c) \in W32 /\ S(d) \in W32 /\ S(S(c)) \in W32 /\ S(S(d)) \in W32
      /\ S(S(S(c))) \in W32 /\ S(S(S(d))) \in W32
  BY <1>2
<1> DEFINE u == S(S(S(S(c))))
           v == S(S(S(S(d))))
<1>5. u \in W32 /\ v \in W32
  BY <1>4
<1>6. S(S(S(S(u)))) = S(S(S(S(v))))
  BY <1>3
<1> HIDE DEF u, v
<1>7. u = v
  BY <1>2, <1>5, <1>6
<1>8. S(S(S(S(c)))) = S(S(S(S(d))))
  BY <1>7 DEF u, v
<1> QED
  BY <1>2, <1>4, <1>8

LEMMA BitsOfInjective ==
  ASSUME NEW m \in Byte, NEW n \in Byte, BitsOf[m] = BitsOf[n]
  PROVE  m = n
<1>1. \A x \in Byte : BitsOf[x] = {i \in 0..7 : (x \div 2^i) % 2 = 1}
  BY DEF BitsOf
<1>2. \A i \in 0..7 : (m \div 2^i) % 2 = 1 <=> (n \div 2^i) % 2 = 1
  BY <1>1
<1>3. 2^0 = 1 /\ 2^1 = 2 /\ 2^2 = 4 /\ 2^3 = 8 /\ 2^4 = 16 /\ 2^5 = 32 /\ 2^6 = 64 /\ 2^7 = 128
  OBVIOUS
<1> DEFINE q(x, k) == x \div k
           r(x, k) == (x \div k) % 2
<1>4. /\ r(m, 1) = 1 <=> r(n, 1) = 1
      /\ r(m, 2) = 1 <=> r(n, 2) = 1
      /\ r(m, 4) = 1 <=> r(n, 4) = 1
      /\ r(m, 8) = 1 <=> r(n, 8) = 1
      /\ r(m, 16) = 1 <=> r(n, 16) = 1
      /\ r(m, 32) = 1 <=> r(n, 32) = 1
      /\ r(m, 64) = 1 <=> r(n, 64) = 1
      /\ r(m, 128) = 1 <=> r(n, 128) = 1
  BY <1>2, <1>3
<1>5. ASSUME NEW x \in Byte
      PROVE  /\ q(x, 128) = r(x, 128)
             /\ q(x, 64) = (2 * q(x, 128)) + r(x, 64)
             /\ q(x, 32) = (2 * q(x, 64)) + r(x, 32)
             /\ q(x, 16) = (2 * q(x, 32)) + r(x, 16)
             /\ q(x, 8) = (2 * q(x, 16)) + r(x, 8)
             /\ q(x, 4) = (2 * q(x, 8)) + r(x, 4)
             /\ q(x, 2) = (2 * q(x, 4)) + r(x, 2)
             /\ x = (2 * q(x, 2)) + r(x, 1)
             /\ r(x, 1) \in 0..1 /\ r(x, 2) \in 0..1 /\ r(x, 4) \in 0..1 /\ r(x, 8) \in 0..1
             /\ r(x, 16) \in 0..1 /\ r(x, 32) \in 0..1 /\ r(x, 64) \in 0..1 /\ r(x, 128) \in 0..1
             /\ q(x, 2) \in Nat /\ q(x, 4) \in Nat /\ q(x, 8) \in Nat
             /\ q(x, 16) \in Nat /\ q(x, 32) \in Nat /\ q(x, 64) \in Nat /\ q(x, 128) \in Nat
  <2>0. x \in 0..255
    BY DEF Byte
  <2>1. q(x, 128) = r(x, 128)
    BY <2>0
  <2>2. q(x, 64) = (2 * q(x, 128)) + r(x, 64)
    BY <2>0
  <2>3. q(x, 32) = (2 * q(x, 64)) + r(x, 32)
    BY <2>0
  <2>4. q(x, 16) = (2 * q(x, 32)) + r(x, 16)
    BY <2>0
  <2>5. q(x, 8) = (2 * q(x, 16)) + r(x, 8)
    BY <2>0
  <2>6. q(x, 4) = (2 * q(x, 8)) + r(x, 4)
    BY <2>0
  <2>7. q(x, 2) = (2 * q(x, 4)) + r(x, 2)
    BY <2>0
  <2>8. x = (2 * q(x, 2)) + r(x, 1)
    BY <2>0
  <2>9. /\ r(x, 1) \in 0..1 /\ r(x, 2) \in 0..1 /\ r(x, 4) \in 0..1 /\ r(x, 8) \in 0..1
        /\ r(x, 16) \in 0..1 /\ r(x, 32) \in 0..1 /\ r(x, 64) \in 0..1 /\ r(x, 128) \in 0..1
    BY <2>0
  <2>10. /\ q(x, 2) \in Nat /\ q(x, 4) \in Nat /\ q(x, 8) \in Nat
         /\ q(x, 16) \in Nat /\ q(x, 32) \in Nat /\ q(x, 64) \in Nat /\ q(x, 128) \in Nat
    BY <2>0
  <2> HIDE DEF q, r
  <2> QED
    BY <2>1, <2>2, <2>3, <2>4, <2>5, <2>6, <2>7, <2>8, <2>9, <2>10
<1> HIDE DEF q, r
<1>6. /\ r(m, 1) = r(n, 1) /\ r(m, 2) = r(n, 2) /\ r(m, 4) = r(n, 4) /\ r(m, 8) = r(n, 8)
      /\ r(m, 16) = r(n, 16) /\ r(m, 32) = r(n, 32) /\ r(m, 64) = r(n, 64) /\ r(m, 128) = r(n, 128)
  <2> DEFINE K == {1, 2, 4, 8, 16, 32, 64, 128}
  <2>1. \A k \in K : r(m, k) = 1 <=> r(n, k) = 1
    BY <1>4
  <2>2. ASSUME NEW x \in Byte PROVE \A k \in K : r(x, k) \in 0..1
    BY <1>5
  <2>3. 1 \in K /\ 2 \in K /\ 4 \in K /\ 8 \in K /\ 16 \in K /\ 32 \in K /\ 64 \in K /\ 128 \in K
    OBVIOUS
  <2> HIDE DEF K
  <2>4. ASSUME NEW k \in K PROVE r(m, k) = r(n, k)
    <3>1. r(m, k) \in 0..1 /\ r(n, k) \in 0..1
      BY <2>2, Zenon
    <3>2. r(m, k) = 1 <=> r(n, k) = 1
      BY <2>1, Zenon
    <3> QED
      BY ONLY <3>1, <3>2, SMT
  <2> QED
    BY ONLY <2>3, <2>4, Zenon
<1>7. q(m, 128) = q(n, 128)
  BY <1>5, <1>6
<1>8. q(m, 64) = q(n, 64)
  BY <1>5, <1>6, <1>7
<1>9. q(m, 32) = q(n, 32)
  BY <1>5, <1>6, <1>8
<1>10. q(m, 16) = q(n, 16)
  BY <1>5, <1>6, <1>9
<1>11. q(m, 8) = q(n, 8)
  BY <1>5, <1>6, <1>10
<1>12. q(m, 4) = q(n, 4)
  BY <1>5, <1>6, <1>11
<1>13. q(m, 2) = q(n, 2)
  BY <1>5, <1>6, <1>12
<1> QED
  BY <1>5, <1>6, <1>13

LEMMA OneByteInjective ==
  ASSUME NEW c \in W32, NEW d \in W32, NEW x \in Byte, NEW y \in Byte,
         OneByte(c, x) = OneByte(d, y)
  PROVE  (c = d => x = y) /\ (x = y => c = d)
<1>1. c ++ BitsOf[x] = d ++ BitsOf[y]
  <2>1. c ++ BitsOf[x] \in W32 /\ d ++ BitsOf[y] \in W32
    BY BitsOfType, XorType
  <2>2. EightSteps(c ++ BitsOf[x]) = EightSteps(d ++ BitsOf[y])
    BY OneByteIs
  <2> QED
    BY <2>1, <2>2, EightStepsInjective
<1>2. \A i : (i \in c <=> i \in BitsOf[x]) <=> (i \in d <=> i \in BitsOf[y])
  <2> SUFFICES ASSUME NEW i
               PROVE  (i \in c <=> i \in BitsOf[x]) <=> (i \in d <=> i \in BitsOf[y])
    OBVIOUS
  <2>1. i \in c ++ BitsOf[x] <=> ~(i \in c <=> i \in BitsOf[x])
    BY XorBit
  <2>2. i \in d ++ BitsOf[y] <=> ~(i \in d <=> i \in BitsOf[y])
    BY XorBit
  <2>3. i \in c ++ BitsOf[x] <=> i \in d ++ BitsOf[y]
    BY <1>1, Zenon
  <2> QED
    BY <2>1, <2>2, <2>3, Zenon
<1>3. ASSUME c = d PROVE x = y
  <2>1. \A i : i \in BitsOf[x] <=> i \in BitsOf[y]
    BY <1>2, <1>3, Zenon
  <2>2. BitsOf[x] = BitsOf[y]
    BY <2>1, Zenon
  <2> QED
    BY <2>2, BitsOfInjective
<1>4. ASSUME x = y PROVE c = d
  <2>1. \A i : i \in c <=> i \in d
    BY <1>2, <1>4, Zenon
  <2> QED
    BY <2>1, Zenon
<1> QED
  BY <1>3, <1>4

\* A number in network order is one word only.
LEMMA ntohlWordInjective ==
  ASSUME NEW a, a[1] \in Byte, a[2] \in Byte, a[3] \in Byte, a[4] \in Byte,
         NEW b, b[1] \in Byte, b[2] \in Byte, b[3] \in Byte, b[4] \in Byte,
         ntohlWord(a) = ntohlWord(b)
  PROVE  a[1] = b[1] /\ a[2] = b[2] /\ a[3] = b[3] /\ a[4] = b[4]
<1> DEFINE Bits(s, j) == {i \in 0..7 : 8 * (j - 1) + i \in Word(s)}
<1>1. ASSUME NEW s, \A k \in 1..4 : s[k] \in Byte, NEW j \in 1..4
      PROVE  BitsOf[s[j]] = Bits(s, j)
  <2>1. Word(s) = UNION {{i + 8 * (k - 1) : i \in BitsOf[s[k]]} : k \in 1..4}
    BY Zenon DEF Word
  <2>2. \A k \in 1..4 : BitsOf[s[k]] \in SUBSET (0..7)
    BY <1>1, BitsOfType
  <2>3. ASSUME NEW i \in BitsOf[s[j]] PROVE i \in Bits(s, j)
    <3>1. i \in 0..7 /\ i + 8 * (j - 1) = 8 * (j - 1) + i
      BY <2>2
    <3>2. i + 8 * (j - 1) \in Word(s)
      <4>1. i + 8 * (j - 1) \in {h + 8 * (j - 1) : h \in BitsOf[s[j]]}
        OBVIOUS
      <4> QED
        BY <2>1, <4>1
    <3> QED
      BY <3>1, <3>2
  <2>4. ASSUME NEW i \in Bits(s, j) PROVE i \in BitsOf[s[j]]
    <3>1. i \in 0..7 /\ 8 * (j - 1) + i \in Word(s)
      OBVIOUS
    <3>2. PICK k \in 1..4 : 8 * (j - 1) + i \in {h + 8 * (k - 1) : h \in BitsOf[s[k]]}
      BY <2>1, <3>1, Zenon
    <3>3. PICK h \in BitsOf[s[k]] : 8 * (j - 1) + i = h + 8 * (k - 1)
      BY <3>2
    <3>4. h \in 0..7
      BY <2>2
    <3>5. k = j /\ h = i
      BY <3>1, <3>3, <3>4
    <3> QED
      BY <3>5
  <2> HIDE DEF Bits
  <2>5. \A i : i \in BitsOf[s[j]] <=> i \in Bits(s, j)
    BY <2>3, <2>4, Zenon
  <2> QED
    BY <2>5, Zenon
<1> HIDE DEF Bits
<1> DEFINE c == [j \in 1..4 |-> a[5 - j]]
           d == [j \in 1..4 |-> b[5 - j]]
<1>2. Word(c) = Word(d)
  BY Zenon DEF ntohlWord
<1>3. /\ c[1] = a[4] /\ c[2] = a[3] /\ c[3] = a[2] /\ c[4] = a[1]
      /\ d[1] = b[4] /\ d[2] = b[3] /\ d[3] = b[2] /\ d[4] = b[1]
  OBVIOUS
<1>4. (\A k \in 1..4 : c[k] \in Byte) /\ (\A k \in 1..4 : d[k] \in Byte)
  <2>1. \A k \in 1..4 : k = 1 \/ k = 2 \/ k = 3 \/ k = 4
    OBVIOUS
  <2> HIDE DEF c, d
  <2> QED
    BY <1>3, <2>1
<1> HIDE DEF c, d
<1>5. ASSUME NEW j \in 1..4 PROVE c[j] = d[j]
  <2>1. BitsOf[c[j]] = Bits(c, j) /\ BitsOf[d[j]] = Bits(d, j)
    BY <1>1, <1>4
  <2>2. Bits(c, j) = Bits(d, j)
    BY <1>2 DEF Bits
  <2> QED
    BY <1>4, <2>1, <2>2, BitsOfInjective
<1> QED
  BY <1>3, <1>5

\* One byte that is not what it was gives another CRC.
THEOREM CrcNoticesAByte ==
  ASSUME NEW b \in Seq(Byte), NEW c \in Seq(Byte), Len(b) = Len(c),
         NEW p \in 1..Len(b), b[p] # c[p], \A i \in 1..Len(b) : i # p => b[i] = c[i]
  PROVE  crc32({}, b) # crc32({}, c)
<1> DEFINE n == Len(b)
<1>1. n \in Nat /\ (\A i \in 1..n : b[i] \in Byte) /\ (\A i \in 1..n : c[i] \in Byte)
  OBVIOUS
<1>2. {} \in W32
  BY DEF W32
<1>3. PICK f : WordsUpto(f, {}, b, n)
  BY <1>2, WordsExist
<1>4. PICK g : WordsUpto(g, {}, c, n)
  BY <1>2, WordsExist
<1>5. crc32({}, b) = f[n] ++ AllOnes /\ crc32({}, c) = g[n] ++ AllOnes
  BY <1>2, <1>3, <1>4, crc32Is
<1> HIDE DEF n
<1> DEFINE S == {k \in Nat : k \in 0..n => (f[k] = g[k] <=> k < p)}
<1>6. 0 \in S
  BY <1>3, <1>4 DEF WordsUpto, n
<1>7. ASSUME NEW k \in Nat, k \in S PROVE k + 1 \in S
  <2>1. ASSUME k + 1 \in 0..n PROVE f[k + 1] = g[k + 1] <=> k + 1 < p
    <3>1. k \in 0..n /\ k + 1 \in 1..n /\ (k + 1) - 1 = k /\ (f[k] = g[k] <=> k < p)
      BY <1>1, <1>7, <2>1
    <3> HIDE DEF S
    <3>2. f[k] \in W32 /\ g[k] \in W32
      BY <1>3, <1>4, <3>1 DEF WordsUpto
    <3>3. /\ f[k + 1] = OneByte(f[k], b[k + 1])
          /\ g[k + 1] = OneByte(g[k], c[k + 1])
      BY <1>3, <1>4, <3>1 DEF WordsUpto
    <3>4. b[k + 1] \in Byte /\ c[k + 1] \in Byte
      BY <1>1, <3>1
    <3>5. CASE k + 1 < p
      <4>1. k < p /\ b[k + 1] = c[k + 1]
        BY <3>1, <3>5 DEF n
      <4> QED
        BY <3>1, <3>3, <3>5, <4>1
    <3>6. CASE k + 1 = p
      <4>1. f[k] = g[k] /\ b[k + 1] # c[k + 1]
        BY <3>1, <3>6
      <4>2. f[k + 1] # g[k + 1]
        BY <3>2, <3>3, <3>4, <4>1, OneByteInjective
      <4> QED
        BY <3>6, <4>2
    <3>7. CASE k + 1 > p
      <4>1. f[k] # g[k] /\ b[k + 1] = c[k + 1]
        BY <3>1, <3>7 DEF n
      <4>2. f[k + 1] # g[k + 1]
        BY <3>2, <3>3, <3>4, <4>1, OneByteInjective
      <4> QED
        BY <3>7, <4>2
    <3> QED
      BY <3>5, <3>6, <3>7
  <2> QED
    BY <2>1
<1>8. Nat \subseteq S
  <2> HIDE DEF S
  <2> QED
    BY <1>6, <1>7, InductionBySet
<1>9. f[n] # g[n]
  <2>1. n \in S /\ n \in 0..n /\ ~(n < p)
    BY <1>1, <1>8 DEF n
  <2> QED
    BY <2>1
<1>10. f[n] ++ AllOnes # g[n] ++ AllOnes
  <2>1. ASSUME f[n] ++ AllOnes = g[n] ++ AllOnes PROVE FALSE
    <3>1. \A i : i \in f[n] <=> i \in g[n]
      <4> SUFFICES ASSUME NEW i PROVE i \in f[n] <=> i \in g[n]
        BY Zenon
      <4>1. i \in f[n] ++ AllOnes <=> ~(i \in f[n] <=> i \in AllOnes)
        BY ONLY XorBit, Zenon
      <4>2. i \in g[n] ++ AllOnes <=> ~(i \in g[n] <=> i \in AllOnes)
        BY ONLY XorBit, Zenon
      <4>3. i \in f[n] ++ AllOnes <=> i \in g[n] ++ AllOnes
        BY ONLY <2>1, Zenon
      <4> QED
        BY ONLY <4>1, <4>2, <4>3, Zenon
    <3> QED
      BY <1>9, <3>1, Zenon
  <2> QED
    BY <2>1
<1> QED
  BY <1>5, <1>10

-----------------------------------------------------------------------------
(***************************************************************************)
(* The CRC of blocks put together.                                         *)
(***************************************************************************)
LEMMA XorTwice ==
  ASSUME NEW c, NEW d
  PROVE  (c ++ d) ++ d = c /\ c ++ {} = c /\ {} ++ c = c /\ c ++ c = {}
BY DEF ++

LEMMA XorOfXors ==
  ASSUME NEW c, NEW d, NEW e, NEW f
  PROVE  (c ++ d) ++ (e ++ f) = (c ++ e) ++ (d ++ f)
BY DEF ++

LEMMA AllOnesType == AllOnes \in W32
BY DEF AllOnes, W32

\* The register after a block, for what was in it before.
Register(c, block) == crc32(c ++ AllOnes, block) ++ AllOnes

LEMMA crc32OfRegister ==
  ASSUME NEW crc \in W32, NEW block
  PROVE  /\ crc ++ AllOnes \in W32
         /\ crc32(crc, block) = Register(crc ++ AllOnes, block) ++ AllOnes
<1>1. (crc ++ AllOnes) ++ AllOnes = crc
  BY XorTwice
<1>2. (crc32(crc, block) ++ AllOnes) ++ AllOnes = crc32(crc, block)
  BY XorTwice
<1> QED
  BY <1>1, <1>2, XorType, AllOnesType DEF Register

LEMMA RegisterIs ==
  ASSUME NEW c \in W32, NEW block \in Seq(Byte), NEW f,
         WordsUpto(f, c ++ AllOnes, block, Len(block))
  PROVE  Register(c, block) = f[Len(block)] /\ Register(c, block) \in W32
<1>1. c ++ AllOnes \in W32
  BY XorType, AllOnesType
<1>2. crc32(c ++ AllOnes, block) = f[Len(block)] ++ AllOnes
  BY <1>1, crc32Is
<1>3. (f[Len(block)] ++ AllOnes) ++ AllOnes = f[Len(block)]
  BY XorTwice
<1>4. f[Len(block)] \in W32
  <2>1. Len(block) \in 0..Len(block)
    OBVIOUS
  <2> QED
    BY <2>1 DEF WordsUpto
<1> QED
  BY <1>2, <1>3, <1>4, Zenon DEF Register

LEMMA RegisterOfNone ==
  ASSUME NEW c \in W32
  PROVE  Register(c, <<>>) = c
<1>1. c ++ AllOnes \in W32 /\ <<>> \in Seq(Byte) /\ Len(<<>>) = 0
  BY XorType, AllOnesType
<1>2. PICK f : WordsUpto(f, c ++ AllOnes, <<>>, 0)
  BY <1>1, WordsExist
<1>3. f[0] = (c ++ AllOnes) ++ AllOnes
  BY <1>2 DEF WordsUpto
<1>4. Register(c, <<>>) = f[0]
  BY <1>1, <1>2, RegisterIs
<1> QED
  BY <1>3, <1>4, XorTwice

LEMMA RegisterOfAppend ==
  ASSUME NEW c \in W32, NEW block \in Seq(Byte), NEW b \in Byte
  PROVE  /\ Register(c, block) \in W32
         /\ Register(c, Append(block, b)) = OneByte(Register(c, block), b)
<1> DEFINE n == Len(block)
           more == Append(block, b)
           crc == c ++ AllOnes
<1>1. n \in Nat /\ more \in Seq(Byte) /\ Len(more) = n + 1
  OBVIOUS
<1>2. more[n + 1] = b /\ \A i \in 1..n : more[i] = block[i]
  OBVIOUS
<1>3. crc \in W32
  BY XorType, AllOnesType
<1> HIDE DEF crc, more
<1>4. PICK f : WordsUpto(f, crc, more, n + 1)
  BY <1>1, <1>3, WordsExist
<1> DEFINE g == [i \in 0..n |-> f[i]]
<1>5. \A i \in 0..n : g[i] = f[i] /\ i \in 0..(n + 1)
  BY <1>1
<1>6. WordsUpto(g, crc, block, n)
  <2>1. g \in [0..n -> W32]
    BY <1>4, <1>5 DEF WordsUpto
  <2> HIDE DEF g
  <2>2. g[0] = crc ++ AllOnes
    BY <1>1, <1>4, <1>5 DEF WordsUpto
  <2>3. ASSUME NEW i \in 1..n PROVE g[i] = OneByte(g[i - 1], block[i])
    <3>1. i \in 0..n /\ i - 1 \in 0..n /\ i \in 1..(n + 1)
      BY <1>1
    <3>2. f[i] = OneByte(f[i - 1], more[i])
      BY <1>4, <3>1 DEF WordsUpto
    <3> QED
      BY <1>2, <1>5, <3>1, <3>2
  <2> QED
    BY <2>1, <2>2, <2>3 DEF WordsUpto
<1> HIDE DEF g
<1>7. Register(c, block) = g[n] /\ Register(c, block) \in W32
  BY <1>6, RegisterIs DEF crc
<1>8. Register(c, more) = f[n + 1]
  BY <1>1, <1>4, RegisterIs DEF crc
<1>9. f[n + 1] = OneByte(f[n], b) /\ g[n] = f[n]
  <2>1. n + 1 \in 1..(n + 1) /\ (n + 1) - 1 = n /\ n \in 0..n
    BY <1>1
  <2>2. f[n + 1] = OneByte(f[(n + 1) - 1], more[n + 1])
    BY <1>4, <2>1 DEF WordsUpto
  <2> QED
    BY <1>2, <1>5, <2>1, <2>2
<1> QED
  BY <1>7, <1>8, <1>9, Zenon DEF more

LEMMA RegisterType ==
  ASSUME NEW c \in W32, NEW block \in Seq(Byte)
  PROVE  Register(c, block) \in W32
<1>1. 0 \in Byte
  BY DEF Byte
<1> QED
  BY <1>1, RegisterOfAppend

\* A block is empty or ends with a byte.
LEMMA BlockEnds ==
  ASSUME NEW block \in Seq(Byte), NEW n \in Nat, Len(block) = n + 1
  PROVE  \E front \in Seq(Byte), b \in Byte :
           block = Append(front, b) /\ Len(front) = n /\ b = block[n + 1]
                                    /\ \A i \in 1..n : front[i] = block[i]
<1> DEFINE front == SubSeq(block, 1, n)
           b == block[n + 1]
<1>1. front \in Seq(Byte) /\ Len(front) = n /\ b \in Byte
  OBVIOUS
<1>2. \A i \in 1..n : front[i] = block[i]
  OBVIOUS
<1>3. block = Append(front, b)
  OBVIOUS
<1> QED
  BY <1>1, <1>2, <1>3

LEMMA RegisterOfConcat ==
  ASSUME NEW c \in W32, NEW a \in Seq(Byte), NEW b \in Seq(Byte)
  PROVE  Register(c, a \o b) = Register(Register(c, a), b)
<1> DEFINE P(x) == Register(c, a \o x) = Register(Register(c, a), x)
           S == {n \in Nat : \A x \in Seq(Byte) : Len(x) = n => P(x)}
<1>1. Register(c, a) \in W32
  BY RegisterType
<1>2. 0 \in S
  <2>1. ASSUME NEW x \in Seq(Byte), Len(x) = 0 PROVE P(x)
    <3>1. x = <<>> /\ a \o x = a
      BY <2>1
    <3> QED
      BY <1>1, <3>1, RegisterOfNone
  <2> QED
    BY <2>1
<1>3. ASSUME NEW n \in Nat, n \in S PROVE n + 1 \in S
  <2>1. ASSUME NEW x \in Seq(Byte), Len(x) = n + 1 PROVE P(x)
    <3> HIDE DEF P, S
    <3>1. PICK y \in Seq(Byte), e \in Byte :
             x = Append(y, e) /\ Len(y) = n /\ e = x[n + 1] /\ \A i \in 1..n : y[i] = x[i]
      BY ONLY n \in Nat, <2>1, BlockEnds, Zenon
    <3> USE DEF P, S
    <3>2. P(y)
      BY <1>3, <3>1
    <3>3. a \o x = Append(a \o y, e) /\ a \o y \in Seq(Byte)
      BY <3>1
    <3>4. Register(c, a \o x) = OneByte(Register(c, a \o y), e)
      <4>1. \A y1 \in Seq(Byte) : Register(c, Append(y1, e)) = OneByte(Register(c, y1), e)
        BY RegisterOfAppend
      <4> QED
        BY <3>3, <4>1, Zenon
    <3>5. Register(Register(c, a), x) = OneByte(Register(Register(c, a), y), e)
      BY <1>1, <3>1, RegisterOfAppend
    <3> QED
      BY <3>2, <3>4, <3>5
  <2> QED
    BY <2>1
<1>4. Nat \subseteq S
  <2> HIDE DEF S
  <2> QED
    BY <1>2, <1>3, InductionBySet
<1>5. Len(b) \in S
  <2>1. Len(b) \in Nat
    OBVIOUS
  <2> QED
    BY <1>4, <2>1, Zenon
<1> QED
  BY <1>5

\* x is the xor of a and b, byte by byte.
IsXor(x, a, b) ==
  /\ Len(x) = Len(a) /\ Len(x) = Len(b)
  /\ \A i \in 1..Len(x) : BitsOf[x[i]] = BitsOf[a[i]] ++ BitsOf[b[i]]

LEMMA OneByteOfXor ==
  ASSUME NEW c \in W32, NEW d \in W32, NEW x \in Byte, NEW a \in Byte, NEW b \in Byte,
         BitsOf[x] = BitsOf[a] ++ BitsOf[b]
  PROVE  OneByte(c ++ d, x) = OneByte(c, a) ++ OneByte(d, b)
<1>1. BitsOf[a] \in W32 /\ BitsOf[b] \in W32 /\ c ++ d \in W32
  BY BitsOfType, XorType
<1>2. (c ++ d) ++ BitsOf[x] = (c ++ BitsOf[a]) ++ (d ++ BitsOf[b])
  BY XorOfXors
<1>3. c ++ BitsOf[a] \in W32 /\ d ++ BitsOf[b] \in W32
  BY <1>1, XorType
<1>4. EightSteps((c ++ BitsOf[a]) ++ (d ++ BitsOf[b]))
        = EightSteps(c ++ BitsOf[a]) ++ EightSteps(d ++ BitsOf[b])
  BY <1>3, EightStepsXor
<1>5. /\ OneByte(c ++ d, x) = EightSteps((c ++ d) ++ BitsOf[x])
      /\ OneByte(c, a) = EightSteps(c ++ BitsOf[a])
      /\ OneByte(d, b) = EightSteps(d ++ BitsOf[b])
  BY <1>1, OneByteIs
<1> QED
  BY <1>2, <1>4, <1>5

LEMMA RegisterOfXor ==
  ASSUME NEW c \in W32, NEW d \in W32,
         NEW x \in Seq(Byte), NEW a \in Seq(Byte), NEW b \in Seq(Byte), IsXor(x, a, b)
  PROVE  Register(c ++ d, x) = Register(c, a) ++ Register(d, b)
<1> DEFINE P(u, v, w) == Register(c ++ d, u) = Register(c, v) ++ Register(d, w)
           S == {n \in Nat : \A u, v, w \in Seq(Byte) : Len(u) = n /\ IsXor(u, v, w) => P(u, v, w)}
<1>1. c ++ d \in W32
  BY XorType
<1>2. 0 \in S
  <2>1. ASSUME NEW u \in Seq(Byte), NEW v \in Seq(Byte), NEW w \in Seq(Byte),
               Len(u) = 0, IsXor(u, v, w)
        PROVE  P(u, v, w)
    <3>1. Len(v) = 0 /\ Len(w) = 0
      BY <2>1 DEF IsXor
    <3>2. u = <<>> /\ v = <<>> /\ w = <<>>
      BY <2>1, <3>1
    <3> QED
      <4>1. Register(c ++ d, <<>>) = c ++ d /\ Register(c, <<>>) = c /\ Register(d, <<>>) = d
        BY <1>1, RegisterOfNone
      <4> QED
        BY <3>2, <4>1, Zenon
  <2> QED
    BY <2>1
<1>3. ASSUME NEW n \in Nat, n \in S PROVE n + 1 \in S
  <2>1. ASSUME NEW u \in Seq(Byte), NEW v \in Seq(Byte), NEW w \in Seq(Byte),
               Len(u) = n + 1, IsXor(u, v, w)
        PROVE  P(u, v, w)
    <3>1. Len(v) = n + 1 /\ Len(w) = n + 1
      BY <2>1 DEF IsXor
    <3>2. PICK u1 \in Seq(Byte), x1 \in Byte :
            u = Append(u1, x1) /\ Len(u1) = n /\ x1 = u[n + 1] /\ \A i \in 1..n : u1[i] = u[i]
      BY <2>1, BlockEnds
    <3>3. PICK v1 \in Seq(Byte), a1 \in Byte :
            v = Append(v1, a1) /\ Len(v1) = n /\ a1 = v[n + 1] /\ \A i \in 1..n : v1[i] = v[i]
      BY <3>1, BlockEnds
    <3>4. PICK w1 \in Seq(Byte), b1 \in Byte :
            w = Append(w1, b1) /\ Len(w1) = n /\ b1 = w[n + 1] /\ \A i \in 1..n : w1[i] = w[i]
      BY <3>1, BlockEnds
    <3>5. IsXor(u1, v1, w1) /\ BitsOf[x1] = BitsOf[a1] ++ BitsOf[b1]
      <4>1. \A i \in 1..(n + 1) : BitsOf[u[i]] = BitsOf[v[i]] ++ BitsOf[w[i]]
        BY <2>1 DEF IsXor
      <4>2. n + 1 \in 1..(n + 1) /\ \A i \in 1..n : i \in 1..(n + 1)
        OBVIOUS
      <4>3. \A i \in 1..n : BitsOf[u1[i]] = BitsOf[v1[i]] ++ BitsOf[w1[i]]
        BY <3>2, <3>3, <3>4, <4>1, <4>2, Zenon
      <4>4. BitsOf[x1] = BitsOf[a1] ++ BitsOf[b1]
        BY <3>2, <3>3, <3>4, <4>1, <4>2, Zenon
      <4> QED
        BY <3>2, <3>3, <3>4, <4>3, <4>4, Zenon DEF IsXor
    <3>6. P(u1, v1, w1)
      BY <1>3, <3>2, <3>5
    <3>7. /\ Register(c, v1) \in W32 /\ Register(d, w1) \in W32
          /\ Register(c ++ d, u) = OneByte(Register(c ++ d, u1), x1)
          /\ Register(c, v) = OneByte(Register(c, v1), a1)
          /\ Register(d, w) = OneByte(Register(d, w1), b1)
      BY <1>1, <3>2, <3>3, <3>4, RegisterOfAppend
    <3>8. OneByte(Register(c, v1) ++ Register(d, w1), x1)
            = OneByte(Register(c, v1), a1) ++ OneByte(Register(d, w1), b1)
      BY <3>5, <3>7, OneByteOfXor
    <3> QED
      BY <3>6, <3>7, <3>8
  <2> QED
    BY <2>1
<1>4. Nat \subseteq S
  <2> HIDE DEF S
  <2> QED
    BY <1>2, <1>3, InductionBySet
<1>5. Len(x) \in S
  <2>1. Len(x) \in Nat
    OBVIOUS
  <2> QED
    BY <1>4, <2>1, Zenon
<1> QED
  BY <1>5

-----------------------------------------------------------------------------
\* Bytes of zeros.
Zeros(n) == [i \in 1..n |-> 0]

LEMMA ZerosAre ==
  ASSUME NEW n \in Nat
  PROVE  /\ Zeros(n) \in Seq(Byte) /\ Len(Zeros(n)) = n
         /\ \A i \in 1..n : Zeros(n)[i] = 0 /\ BitsOf[Zeros(n)[i]] = {}
<1>1. 0 \in Byte
  BY DEF Byte
<1>2. Zeros(n) \in [1..n -> Byte] /\ \A i \in 1..n : Zeros(n)[i] = 0
  BY <1>1 DEF Zeros
<1>3. BitsOf[0] = {}
  <2>1. \A b \in Byte : BitsOf[b] = {i \in 0..7 : (b \div 2^i) % 2 = 1}
    BY DEF BitsOf
  <2>2. BitsOf[0] = {i \in 0..7 : (0 \div 2^i) % 2 = 1}
    BY <1>1, <2>1, Zenon
  <2>3. ASSUME NEW i \in 0..7 PROVE (0 \div 2^i) % 2 = 0
    <3>1. i = 0 \/ i = 1 \/ i = 2 \/ i = 3 \/ i = 4 \/ i = 5 \/ i = 6 \/ i = 7
      OBVIOUS
    <3>2. /\ (0 \div 2^0) % 2 = 0 /\ (0 \div 2^1) % 2 = 0 /\ (0 \div 2^2) % 2 = 0 /\ (0 \div 2^3) % 2 = 0
          /\ (0 \div 2^4) % 2 = 0 /\ (0 \div 2^5) % 2 = 0 /\ (0 \div 2^6) % 2 = 0 /\ (0 \div 2^7) % 2 = 0
      OBVIOUS
    <3> QED
      BY <3>1, <3>2, Zenon
  <2>4. ASSUME NEW i \in 0..7 PROVE (0 \div 2^i) % 2 # 1
    <3>1. 0 # 1
      OBVIOUS
    <3> QED
      BY <2>3, <3>1, Zenon
  <2> QED
    BY <2>2, <2>4
<1> HIDE DEF Zeros
<1>4. Zeros(n) \in Seq(Byte) /\ Len(Zeros(n)) = n
  BY <1>2, FunctionIsSeq
<1> QED
  BY <1>2, <1>3, <1>4

LEMMA ZerosConcat ==
  ASSUME NEW m \in Nat, NEW n \in Nat
  PROVE  Zeros(m) \o Zeros(n) = Zeros(m + n)
<1>a. Zeros(m) \in Seq(Byte) /\ Len(Zeros(m)) = m /\ \A i \in 1..m : Zeros(m)[i] = 0
  BY ZerosAre
<1>b. Zeros(n) \in Seq(Byte) /\ Len(Zeros(n)) = n /\ \A i \in 1..n : Zeros(n)[i] = 0
  BY ZerosAre
<1>c. m + n \in Nat
  OBVIOUS
<1>d. /\ Zeros(m + n) \in Seq(Byte) /\ Len(Zeros(m + n)) = m + n
      /\ \A i \in 1..(m + n) : Zeros(m + n)[i] = 0
  BY <1>c, ZerosAre, Zenon
<1>1. /\ Zeros(m) \in Seq(Byte) /\ Len(Zeros(m)) = m /\ \A i \in 1..m : Zeros(m)[i] = 0
      /\ Zeros(n) \in Seq(Byte) /\ Len(Zeros(n)) = n /\ \A i \in 1..n : Zeros(n)[i] = 0
      /\ m + n \in Nat
      /\ Zeros(m + n) \in Seq(Byte) /\ Len(Zeros(m + n)) = m + n
      /\ \A i \in 1..(m + n) : Zeros(m + n)[i] = 0
  BY <1>a, <1>b, <1>c, <1>d
<1> DEFINE a == Zeros(m)
           b == Zeros(n)
           c == Zeros(m + n)
<1> HIDE DEF a, b, c
<1>2. /\ a \in Seq(Byte) /\ Len(a) = m /\ b \in Seq(Byte) /\ Len(b) = n
      /\ \A i \in 1..m : a[i] = 0
      /\ \A i \in 1..n : b[i] = 0
  BY <1>1 DEF a, b
<1>3. a \o b \in Seq(Byte) /\ Len(a \o b) = m + n
  BY <1>2
<1>4. ASSUME NEW i \in 1..(m + n) PROVE (a \o b)[i] = 0
  BY <1>2
<1>5. a \o b = c
  <2>1. c \in Seq(Byte) /\ Len(c) = m + n /\ \A i \in 1..(m + n) : c[i] = 0
    BY <1>1 DEF c
  <2> QED
    BY <1>3, <1>4, <2>1, SeqEqual
<1> QED
  BY <1>5 DEF a, b, c

\* What n bytes of zeros make of a register: a linear function.
ZeroBytes(n) == [w \in W32 |-> Register(w, Zeros(n))]

Linear(F) == F \in [W32 -> W32] /\ \A c, d \in W32 : F[c ++ d] = F[c] ++ F[d]

LEMMA ZeroBytesAre ==
  ASSUME NEW n \in Nat
  PROVE  /\ Linear(ZeroBytes(n))
         /\ \A w \in W32 : ZeroBytes(n)[w] = Register(w, Zeros(n)) /\ ZeroBytes(n)[w] \in W32
<1>1. Zeros(n) \in Seq(Byte) /\ Len(Zeros(n)) = n /\ \A i \in 1..n : BitsOf[Zeros(n)[i]] = {}
  BY ZerosAre
<1>2. \A w \in W32 : Register(w, Zeros(n)) \in W32
  BY <1>1, RegisterType
<1>3. \A w \in W32 : ZeroBytes(n)[w] = Register(w, Zeros(n)) /\ ZeroBytes(n)[w] \in W32
  BY <1>2 DEF ZeroBytes
<1>4. ZeroBytes(n) \in [W32 -> W32]
  BY <1>2 DEF ZeroBytes
<1>5. ASSUME NEW c \in W32, NEW d \in W32 PROVE ZeroBytes(n)[c ++ d] = ZeroBytes(n)[c] ++ ZeroBytes(n)[d]
  <2>1. IsXor(Zeros(n), Zeros(n), Zeros(n))
    <3>1. {} ++ {} = {}
      BY XorTwice
    <3> QED
      BY <1>1, <3>1 DEF IsXor
  <2>2. c ++ d \in W32
    BY XorType
  <2>3. Register(c ++ d, Zeros(n)) = Register(c, Zeros(n)) ++ Register(d, Zeros(n))
    BY <1>1, <2>1, RegisterOfXor
  <2> QED
    BY <1>3, <2>2, <2>3
<1> QED
  BY <1>3, <1>4, <1>5 DEF Linear

LEMMA ZeroBytesAdd ==
  ASSUME NEW m \in Nat, NEW n \in Nat, NEW w \in W32
  PROVE  ZeroBytes(m + n)[w] = ZeroBytes(n)[ZeroBytes(m)[w]]
<1>1. Zeros(m) \in Seq(Byte) /\ Zeros(n) \in Seq(Byte) /\ m + n \in Nat
  BY ZerosAre
<1>2. Register(w, Zeros(m) \o Zeros(n)) = Register(Register(w, Zeros(m)), Zeros(n))
  BY <1>1, RegisterOfConcat
<1>3. Zeros(m) \o Zeros(n) = Zeros(m + n)
  BY ZerosConcat
<1>4. Register(w, Zeros(m)) \in W32
  BY <1>1, RegisterType
<1>5. /\ ZeroBytes(m + n)[w] = Register(w, Zeros(m + n))
      /\ ZeroBytes(m)[w] = Register(w, Zeros(m))
      /\ ZeroBytes(n)[Register(w, Zeros(m))] = Register(Register(w, Zeros(m)), Zeros(n))
  BY <1>1, <1>4, ZeroBytesAre
<1> QED
  BY <1>2, <1>3, <1>5

LEMMA ZeroBytesNone ==
  ASSUME NEW w \in W32
  PROVE  ZeroBytes(0)[w] = w
<1>1. Zeros(0) = <<>>
  <2>1. 0 \in Nat
    OBVIOUS
  <2>2. Zeros(0) \in Seq(Byte) /\ Len(Zeros(0)) = 0
    BY <2>1, ZerosAre
  <2> QED
    BY <2>2
<1>2. ZeroBytes(0)[w] = Register(w, Zeros(0))
  <2>1. 0 \in Nat
    OBVIOUS
  <2> QED
    BY <2>1, ZeroBytesAre
<1> QED
  BY <1>1, <1>2, RegisterOfNone

LEMMA ZeroBytesOne ==
  ASSUME NEW w \in W32
  PROVE  ZeroBytes(1)[w] = EightSteps(w)
<1>1. 1 \in Nat /\ 0 \in Byte /\ <<>> \in Seq(Byte)
  BY DEF Byte
<1>2. Zeros(1) = Append(<<>>, 0)
  BY DEF Zeros
<1>3. Register(w, Append(<<>>, 0)) = OneByte(Register(w, <<>>), 0)
  BY <1>1, RegisterOfAppend
<1>4. Register(w, <<>>) = w
  BY RegisterOfNone
<1>5. OneByte(w, 0) = EightSteps(w ++ BitsOf[0])
  BY <1>1, OneByteIs
<1>6. BitsOf[0] = {}
  <2>1. Zeros(1)[1] = 0 /\ BitsOf[Zeros(1)[1]] = {}
    BY <1>1, ZerosAre
  <2> QED
    BY <2>1
<1>7. w ++ {} = w
  BY XorTwice
<1>8. ZeroBytes(1)[w] = Register(w, Zeros(1))
  BY <1>1, ZeroBytesAre
<1> QED
  BY <1>2, <1>3, <1>4, <1>5, <1>6, <1>7, <1>8, Zenon

-----------------------------------------------------------------------------
\* The matrix of a linear function: column i is the effect of bit i.
MatrixOf(F) == {<<i, F[{i}]>> : i \in 0..31}
Twice(F) == [w \in W32 |-> F[F[w]]]

\* The columns of the bits in v that have bit b.
Hits(F, v, b) == {col \in MatrixOf(F) : col[1] \in v /\ b \in col[2]}

LEMMA LinearOfNone ==
  ASSUME NEW F, Linear(F)
  PROVE  F[{}] = {}
<1>1. {} \in W32 /\ {} ++ {} = {}
  BY XorTwice DEF W32
<1>2. F[{} ++ {}] = F[{}] ++ F[{}]
  BY <1>1 DEF Linear
<1>3. F[{}] ++ F[{}] = {}
  BY XorTwice
<1> QED
  BY <1>1, <1>2, <1>3, Zenon

LEMMA BitIsWord ==
  ASSUME NEW i \in 0..31
  PROVE  {i} \in W32
BY DEF W32

\* One bit more: its column is hit, or not.
LEMMA OddOneMore ==
  ASSUME NEW F, NEW v \in W32, NEW n \in 0..31, n \notin v, NEW b,
         IsFiniteSet(Hits(F, v, b)), Cardinality(Hits(F, v, b)) \in Nat
  PROVE  /\ IsFiniteSet(Hits(F, v \cup {n}, b)) /\ Cardinality(Hits(F, v \cup {n}, b)) \in Nat
         /\ Cardinality(Hits(F, v \cup {n}, b)) % 2 = 1
              <=> ~(Cardinality(Hits(F, v, b)) % 2 = 1 <=> b \in F[{n}])
<1> DEFINE H == Hits(F, v, b)
           G == Hits(F, v \cup {n}, b)
           col == <<n, F[{n}]>>
<1>1. ASSUME NEW e PROVE e \in G <=>
        \E i \in 0..31 : e = <<i, F[{i}]>> /\ (i \in v \/ i = n) /\ b \in F[{i}]
  BY DEF Hits, MatrixOf
<1>5. ASSUME NEW e PROVE e \in H <=>
        \E i \in 0..31 : e = <<i, F[{i}]>> /\ i \in v /\ b \in F[{i}]
  BY DEF Hits, MatrixOf
<1>6. \A i \in 0..31 : <<i, F[{i}]>> = <<n, F[{n}]>> => i = n
  OBVIOUS
<1>2. IsFiniteSet(H) /\ Cardinality(H) \in Nat
  OBVIOUS
<1> HIDE DEF H, G
<1>3. CASE b \in F[{n}]
  <2>4. ASSUME NEW e PROVE e \in G <=> e \in H \cup {col}
    BY <1>1, <1>3, <1>5, Zenon
  <2>5. G = H \cup {col}
    BY <2>4, Zenon
  <2>6. col \notin H
    BY <1>5, <1>6, Zenon
  <2> HIDE DEF col
  <2>1. IsFiniteSet(G) /\ Cardinality(G) = Cardinality(H) + 1
    BY <1>2, <2>5, <2>6, FS_AddElement
  <2> DEFINE c == Cardinality(H)
             d == Cardinality(G)
  <2>2. c \in Nat /\ d = c + 1
    BY <1>2, <2>1
  <2> HIDE DEF c, d
  <2>3. d \in Nat /\ (d % 2 = 1 <=> ~(c % 2 = 1))
    BY <2>2
  <2> QED
    BY <1>3, <2>1, <2>3, Zenon DEF c, d, G, H
<1>4. CASE b \notin F[{n}]
  <2>1. ASSUME NEW e PROVE e \in G <=> e \in H
    BY <1>1, <1>4, <1>5, Zenon
  <2>2. G = H
    BY <2>1, Zenon
  <2> QED
    BY <1>2, <1>4, <2>2, Zenon DEF G, H
<1> QED
  BY <1>3, <1>4

\* The bits below the n-th.
Lower(w, n) == {i \in w : i < n}

LEMMA LowerIs ==
  ASSUME NEW w \in W32, NEW n \in Nat
  PROVE  /\ Lower(w, n) \in W32 /\ Lower(w, 0) = {} /\ Lower(w, 32) = w
         /\ n \notin w => Lower(w, n + 1) = Lower(w, n)
         /\ n \in w => /\ Lower(w, n + 1) = Lower(w, n) \cup {n} /\ n \notin Lower(w, n)
                       /\ Lower(w, n + 1) = Lower(w, n) ++ {n}
<1>1. \A i \in w : i \in 0..31 /\ i \in Nat /\ ~(i < 0) /\ i < 32
  BY DEF W32
<1>2. Lower(w, n) \in W32
  BY <1>1 DEF Lower, W32
<1>3. Lower(w, 0) = {} /\ Lower(w, 32) = w
  BY <1>1, Zenon DEF Lower
<1>4. ASSUME NEW i \in w PROVE i < n + 1 <=> i < n \/ i = n
  BY <1>1
<1>5. n \notin w => Lower(w, n + 1) = Lower(w, n)
  <2>1. ASSUME n \notin w, NEW i PROVE i \in Lower(w, n + 1) <=> i \in Lower(w, n)
    BY <1>4, <2>1, Zenon DEF Lower
  <2> QED
    BY <2>1, Zenon
<1>6. ~(n < n)
  OBVIOUS
<1>7. ASSUME n \in w PROVE Lower(w, n + 1) = Lower(w, n) \cup {n} /\ n \notin Lower(w, n)
  <2>1. ASSUME NEW i PROVE i \in Lower(w, n + 1) <=> i \in Lower(w, n) \cup {n}
    BY <1>4, <1>7, Zenon DEF Lower
  <2>2. n \notin Lower(w, n)
    BY <1>6, Zenon DEF Lower
  <2> QED
    BY <2>1, <2>2, Zenon
<1>8. ASSUME n \notin Lower(w, n) PROVE Lower(w, n) \cup {n} = Lower(w, n) ++ {n}
  BY <1>8, Zenon DEF ++
<1> QED
  BY <1>2, <1>3, <1>5, <1>7, <1>8, Zenon

\* The product of a matrix and a word is the function of the word: the columns
\* of its bits are summed up, bit by bit.
LEMMA TimesIs ==
  ASSUME NEW F, Linear(F), NEW w \in W32
  PROVE  Times(MatrixOf(F), w) = F[w]
<1> DEFINE v(n) == Lower(w, n)
           P(n) == \A b \in 0..31 : /\ IsFiniteSet(Hits(F, v(n), b))
                                    /\ Cardinality(Hits(F, v(n), b)) \in Nat
                                    /\ Cardinality(Hits(F, v(n), b)) % 2 = 1 <=> b \in F[v(n)]
           S == {n \in Nat : n <= 32 => P(n)}
<1>1. ASSUME NEW n \in Nat PROVE v(n) \in W32
  BY LowerIs
<1>2. \A x, y \in W32 : F[x] \in W32 /\ F[x ++ y] = F[x] ++ F[y]
  BY DEF Linear
<1>3. 0 \in S
  <2>1. v(0) = {}
    <3>1. 0 \in Nat
      OBVIOUS
    <3> QED
      BY <3>1, LowerIs
  <2>2. F[v(0)] = {}
    BY <2>1, LinearOfNone
  <2>3. ASSUME NEW b PROVE Hits(F, v(0), b) = {}
    BY <2>1 DEF Hits
  <2>4. IsFiniteSet({}) /\ Cardinality({}) = 0
    BY FS_EmptySet
  <2>5. 0 \in Nat /\ 0 % 2 # 1
    OBVIOUS
  <2> HIDE DEF v
  <2> QED
    BY <2>2, <2>3, <2>4, <2>5
<1>4. ASSUME NEW n \in Nat, n \in S PROVE n + 1 \in S
  <2>1. ASSUME n + 1 <= 32 PROVE P(n + 1)
    <3>1. P(n) /\ n \in 0..31 /\ v(n) \in W32 /\ n + 1 \in Nat
      BY <1>1, <1>4, <2>1
    <3>2. CASE n \notin w
      <4>1. v(n + 1) = v(n)
        BY <3>2, LowerIs
      <4> HIDE DEF v
      <4> QED
        BY <3>1, <4>1
    <3>3. CASE n \in w
      <4>1. v(n + 1) = v(n) \cup {n} /\ n \notin v(n) /\ v(n + 1) = v(n) ++ {n}
        BY <3>3, LowerIs
      <4> HIDE DEF v
      <4>2. F[v(n + 1)] = F[v(n)] ++ F[{n}]
        BY <1>2, <3>1, <4>1, BitIsWord
      <4>3. ASSUME NEW b \in 0..31
            PROVE  /\ IsFiniteSet(Hits(F, v(n + 1), b))
                   /\ Cardinality(Hits(F, v(n + 1), b)) \in Nat
                   /\ Cardinality(Hits(F, v(n + 1), b)) % 2 = 1 <=> b \in F[v(n + 1)]
        <5>1. /\ IsFiniteSet(Hits(F, v(n), b)) /\ Cardinality(Hits(F, v(n), b)) \in Nat
              /\ Cardinality(Hits(F, v(n), b)) % 2 = 1 <=> b \in F[v(n)]
          BY <3>1
        <5>2. b \in F[v(n + 1)] <=> ~(b \in F[v(n)] <=> b \in F[{n}])
          BY <4>2, XorBit
        <5>3. /\ IsFiniteSet(Hits(F, v(n) \cup {n}, b)) /\ Cardinality(Hits(F, v(n) \cup {n}, b)) \in Nat
              /\ Cardinality(Hits(F, v(n) \cup {n}, b)) % 2 = 1
                   <=> ~(Cardinality(Hits(F, v(n), b)) % 2 = 1 <=> b \in F[{n}])
          BY <3>1, <4>1, <5>1, OddOneMore, Zenon
        <5> QED
          BY <4>1, <5>1, <5>2, <5>3, Zenon
      <4> QED
        BY <4>3
    <3> QED
      BY <3>2, <3>3
  <2> QED
    BY <2>1
<1>5. Nat \subseteq S
  <2> HIDE DEF S
  <2> QED
    BY <1>3, <1>4, InductionBySet
<1>6. P(32)
  <2>1. 32 \in Nat /\ 32 \in S
    <3>1. 32 \in Nat
      OBVIOUS
    <3> HIDE DEF S
    <3> QED
      BY <1>5, <3>1
  <2> HIDE DEF P
  <2> QED
    BY <2>1
<1>7. v(32) = w
  <2>1. 32 \in Nat
    OBVIOUS
  <2> QED
    BY <2>1, LowerIs
<1>8. \A b \in 0..31 : Cardinality(Hits(F, w, b)) % 2 = 1 <=> b \in F[w]
  <2> HIDE DEF v
  <2> QED
    BY <1>6, <1>7
<1>9. Times(MatrixOf(F), w) = {b \in 0..31 : Cardinality(Hits(F, w, b)) % 2 = 1}
  BY DEF Times, Hits
<1>10. F[w] \in W32
  BY <1>2
<1>11. \A b : b \in F[w] => b \in 0..31
  BY <1>10 DEF W32
<1> QED
  BY <1>8, <1>9, <1>11, Zenon

LEMMA TwiceIs ==
  ASSUME NEW F, Linear(F)
  PROVE  /\ Linear(Twice(F)) /\ \A w \in W32 : Twice(F)[w] = F[F[w]]
         /\ crc_matrix_square(MatrixOf(F)) = MatrixOf(Twice(F))
<1>1. F \in [W32 -> W32] /\ \A x, y \in W32 : F[x] \in W32 /\ F[x ++ y] = F[x] ++ F[y]
  BY DEF Linear
<1>2. \A w \in W32 : Twice(F)[w] = F[F[w]]
  BY DEF Twice
<1>3. Linear(Twice(F))
  <2>1. Twice(F) \in [W32 -> W32]
    BY <1>1 DEF Twice
  <2>2. ASSUME NEW c \in W32, NEW d \in W32 PROVE Twice(F)[c ++ d] = Twice(F)[c] ++ Twice(F)[d]
    <3>1. c ++ d \in W32
      BY XorType
    <3>2. F[F[c ++ d]] = F[F[c]] ++ F[F[d]]
      BY <1>1
    <3> QED
      BY <1>2, <3>1, <3>2
  <2> QED
    BY <2>1, <2>2 DEF Linear
<1>4. ASSUME NEW i \in 0..31 PROVE Times(MatrixOf(F), F[{i}]) = Twice(F)[{i}]
  <2>1. {i} \in W32 /\ F[{i}] \in W32
    BY <1>1, BitIsWord
  <2> QED
    BY <1>2, <2>1, TimesIs
<1>5. crc_matrix_square(MatrixOf(F)) = {<<i, Times(MatrixOf(F), F[{i}])>> : i \in 0..31}
  <2> DEFINE M == MatrixOf(F)
  <2>1. crc_matrix_square(M) = {<<col[1], Times(M, col[2])>> : col \in M}
    BY DEF crc_matrix_square
  <2>2. M = {<<i, F[{i}]>> : i \in 0..31}
    BY DEF MatrixOf
  <2> HIDE DEF M
  <2>3. \A i, x : <<i, x>>[1] = i /\ <<i, x>>[2] = x
    OBVIOUS
  <2>4. ASSUME NEW e
        PROVE  e \in crc_matrix_square(M) <=> \E i \in 0..31 : e = <<i, Times(M, F[{i}])>>
    <3>1. e \in crc_matrix_square(M) <=> \E col \in M : e = <<col[1], Times(M, col[2])>>
      BY <2>1, Zenon
    <3>2. \A col : col \in M <=> \E i \in 0..31 : col = <<i, F[{i}]>>
      BY <2>2, Zenon
    <3>3. ASSUME NEW col, NEW i \in 0..31, col = <<i, F[{i}]>>
          PROVE  <<col[1], Times(M, col[2])>> = <<i, Times(M, F[{i}])>>
      <4>1. col[1] = i /\ col[2] = F[{i}]
        BY <3>3
      <4> QED
        BY <4>1, Zenon
    <3>4. ASSUME NEW col \in M, e = <<col[1], Times(M, col[2])>>
          PROVE  \E i \in 0..31 : e = <<i, Times(M, F[{i}])>>
      <4>1. PICK i \in 0..31 : col = <<i, F[{i}]>>
        BY <3>2, <3>4, Zenon
      <4>2. e = <<i, Times(M, F[{i}])>>
        BY <3>3, <3>4, <4>1, Zenon
      <4> QED
        BY <4>2, Zenon
    <3>5. ASSUME NEW i \in 0..31, e = <<i, Times(M, F[{i}])>>
          PROVE  \E col \in M : e = <<col[1], Times(M, col[2])>>
      <4> DEFINE c == <<i, F[{i}]>>
      <4>1. c \in M /\ c = <<i, F[{i}]>>
        BY <3>2, Zenon
      <4> HIDE DEF c
      <4>2. e = <<c[1], Times(M, c[2])>>
        BY <3>3, <3>5, <4>1, Zenon
      <4> QED
        BY <4>1, <4>2, Zenon
    <3> QED
      BY <3>1, <3>4, <3>5, Zenon
  <2>5. \A e : e \in {<<i, Times(M, F[{i}])>> : i \in 0..31}
               <=> \E i \in 0..31 : e = <<i, Times(M, F[{i}])>>
    BY Zenon
  <2>6. crc_matrix_square(M) = {<<i, Times(M, F[{i}])>> : i \in 0..31}
    BY <2>4, <2>5, Zenon
  <2> QED
    BY <2>6 DEF M
<1>6. {<<i, Times(MatrixOf(F), F[{i}])>> : i \in 0..31} = {<<i, Twice(F)[{i}]>> : i \in 0..31}
  BY <1>4, Zenon
<1>7. crc_matrix_square(MatrixOf(F)) = MatrixOf(Twice(F))
  BY <1>5, <1>6 DEF MatrixOf
<1> QED
  BY <1>2, <1>3, <1>7

-----------------------------------------------------------------------------
StepOf == [w \in W32 |-> Step(w)]

LEMMA OneZeroBitIs == Linear(StepOf) /\ MatrixOf(StepOf) = OneZeroBit
<1>1. \A w \in W32 : StepOf[w] = Step(w) /\ Step(w) \in W32
  BY StepBit DEF StepOf
<1>2. StepOf \in [W32 -> W32]
  BY StepBit DEF StepOf
<1>3. ASSUME NEW c \in W32, NEW d \in W32 PROVE StepOf[c ++ d] = StepOf[c] ++ StepOf[d]
  <2>1. c ++ d \in W32
    BY XorType
  <2>2. Step(c ++ d) = Step(c) ++ Step(d)
    BY StepXor
  <2> QED
    BY <1>1, <2>1, <2>2, Zenon
<1>4. ASSUME NEW i \in 0..31 PROVE StepOf[{i}] = IF i = 0 THEN CRC_POLY ELSE {i - 1}
  <2>1. {i} \in W32 /\ StepOf[{i}] = Step({i})
    BY <1>1, BitIsWord
  <2>2. CASE i = 0
    <3>1. 0 \in {i} /\ Shr({i}, 1) = {}
      BY <2>2 DEF Shr
    <3>2. Step({i}) = CRC_POLY ++ {}
      BY <3>1, Zenon DEF Step
    <3> QED
      BY <2>1, <2>2, <3>2, XorTwice, Zenon
  <2>3. CASE i # 0
    <3>1. 0 \notin {i} /\ Shr({i}, 1) = {i - 1}
      BY <2>3 DEF Shr
    <3> QED
      BY <2>1, <2>3, <3>1, Zenon DEF Step
  <2> QED
    BY <2>2, <2>3
<1>5. MatrixOf(StepOf) = {<<i, StepOf[{i}]>> : i \in 0..31}
  BY DEF MatrixOf
<1>6. MatrixOf(StepOf) = OneZeroBit
  BY <1>4, <1>5, Zenon DEF OneZeroBit
<1> QED
  BY <1>2, <1>3, <1>6 DEF Linear

\* Functions of words that agree on every word have the same matrix.
LEMMA SameMatrix ==
  ASSUME NEW F, NEW G, \A w \in W32 : F[w] = G[w]
  PROVE  MatrixOf(F) = MatrixOf(G)
<1>1. \A i \in 0..31 : F[{i}] = G[{i}]
  BY BitIsWord
<1> QED
  BY <1>1, Zenon DEF MatrixOf

LEMMA OneZeroByteIs ==
  crc_matrix_square(crc_matrix_square(crc_matrix_square(OneZeroBit))) = MatrixOf(ZeroBytes(1))
<1> DEFINE F1 == StepOf
           F2 == Twice(F1)
           F4 == Twice(F2)
           F8 == Twice(F4)
<1>1. \A w \in W32 : F1[w] = Step(w) /\ Step(w) \in W32
  BY StepBit DEF StepOf
<1>2. Linear(F1) /\ MatrixOf(F1) = OneZeroBit
  BY OneZeroBitIs
<1> HIDE DEF F1
<1>3. Linear(F2) /\ (\A w \in W32 : F2[w] = F1[F1[w]]) /\ crc_matrix_square(MatrixOf(F1)) = MatrixOf(F2)
  BY <1>2, TwiceIs
<1> HIDE DEF F2
<1>4. Linear(F4) /\ (\A w \in W32 : F4[w] = F2[F2[w]]) /\ crc_matrix_square(MatrixOf(F2)) = MatrixOf(F4)
  BY <1>3, TwiceIs
<1> HIDE DEF F4
<1>5. Linear(F8) /\ (\A w \in W32 : F8[w] = F4[F4[w]]) /\ crc_matrix_square(MatrixOf(F4)) = MatrixOf(F8)
  BY <1>4, TwiceIs
<1> HIDE DEF F8
<1>6. \A w \in W32 : F2[w] = Step(Step(w)) /\ F2[w] \in W32
  BY <1>1, <1>3
<1>7. \A w \in W32 : F4[w] = Step(Step(Step(Step(w)))) /\ F4[w] \in W32
  BY <1>4, <1>6
<1>8. \A w \in W32 : F8[w] = EightSteps(w)
  BY <1>5, <1>7 DEF EightSteps
<1>9. \A w \in W32 : F8[w] = ZeroBytes(1)[w]
  BY <1>8, ZeroBytesOne
<1>10. MatrixOf(F8) = MatrixOf(ZeroBytes(1))
  BY <1>9, SameMatrix
<1> QED
  BY <1>2, <1>3, <1>4, <1>5, <1>10, Zenon

LEMMA ZeroBytesTwice ==
  ASSUME NEW n \in Nat
  PROVE  crc_matrix_square(MatrixOf(ZeroBytes(n))) = MatrixOf(ZeroBytes(n + n))
<1>1. /\ \A w \in W32 : Twice(ZeroBytes(n))[w] = ZeroBytes(n)[ZeroBytes(n)[w]]
      /\ crc_matrix_square(MatrixOf(ZeroBytes(n))) = MatrixOf(Twice(ZeroBytes(n)))
  BY ZeroBytesAre, TwiceIs
<1>2. \A w \in W32 : Twice(ZeroBytes(n))[w] = ZeroBytes(n + n)[w]
  BY <1>1, ZeroBytesAdd
<1> DEFINE F == Twice(ZeroBytes(n))
           G == ZeroBytes(n + n)
<1>3. \A w \in W32 : F[w] = G[w]
  BY <1>2
<1> HIDE DEF F, G
<1>4. MatrixOf(F) = MatrixOf(G)
  BY <1>3, SameMatrix
<1> QED
  BY <1>1, <1>4 DEF F, G

LEMMA PowersOfTwo ==
  ASSUME NEW i \in 0..30
  PROVE  2^i \in Nat \ {0} /\ 2^(i + 1) = 2^i + 2^i
<1>1. \/ i = 0 \/ i = 1 \/ i = 2 \/ i = 3 \/ i = 4 \/ i = 5 \/ i = 6 \/ i = 7
      \/ i = 8 \/ i = 9 \/ i = 10 \/ i = 11 \/ i = 12 \/ i = 13 \/ i = 14 \/ i = 15
      \/ i = 16 \/ i = 17 \/ i = 18 \/ i = 19 \/ i = 20 \/ i = 21 \/ i = 22 \/ i = 23
      \/ i = 24 \/ i = 25 \/ i = 26 \/ i = 27 \/ i = 28 \/ i = 29 \/ i = 30
  OBVIOUS
<1>2. CASE i = 0
  BY <1>2
<1>3. CASE i = 1
  BY <1>3
<1>4. CASE i = 2
  BY <1>4
<1>5. CASE i = 3
  BY <1>5
<1>6. CASE i = 4
  BY <1>6
<1>7. CASE i = 5
  BY <1>7
<1>8. CASE i = 6
  BY <1>8
<1>9. CASE i = 7
  BY <1>9
<1>10. CASE i = 8
  BY <1>10
<1>11. CASE i = 9
  BY <1>11
<1>12. CASE i = 10
  BY <1>12
<1>13. CASE i = 11
  BY <1>13
<1>14. CASE i = 12
  BY <1>14
<1>15. CASE i = 13
  BY <1>15
<1>16. CASE i = 14
  BY <1>16
<1>17. CASE i = 15
  BY <1>17
<1>18. CASE i = 16
  BY <1>18
<1>19. CASE i = 17
  BY <1>19
<1>20. CASE i = 18
  BY <1>20
<1>21. CASE i = 19
  BY <1>21
<1>22. CASE i = 20
  BY <1>22
<1>23. CASE i = 21
  BY <1>23
<1>24. CASE i = 22
  BY <1>24
<1>25. CASE i = 23
  BY <1>25
<1>26. CASE i = 24
  BY <1>26
<1>27. CASE i = 25
  BY <1>27
<1>28. CASE i = 26
  BY <1>28
<1>29. CASE i = 27
  BY <1>29
<1>30. CASE i = 28
  BY <1>30
<1>31. CASE i = 29
  BY <1>31
<1>32. CASE i = 30
  BY <1>32
<1> QED
  BY <1>1, <1>2, <1>3, <1>4, <1>5, <1>6, <1>7, <1>8, <1>9, <1>10, <1>11, <1>12, <1>13,
     <1>14, <1>15, <1>16, <1>17, <1>18, <1>19, <1>20, <1>21, <1>22, <1>23, <1>24, <1>25,
     <1>26, <1>27, <1>28, <1>29, <1>30, <1>31, <1>32

\* One bit more of a number, from below.
LEMMA BitMore ==
  ASSUME NEW n \in Nat, NEW p \in Nat \ {0}
  PROVE  /\ n % p \in Nat /\ n \div p \in Nat
         /\ n % (p + p) = IF (n \div p) % 2 = 1 THEN (n % p) + p ELSE n % p
<1> DEFINE d == n \div p
           r == n % p
           e == d \div 2
           q == d % 2
           x == IF q = 1 THEN r + p ELSE r
           m == p + p
<1>1. d \in Int /\ r \in 0..(p - 1) /\ n = p * d + r
  OBVIOUS
<1> HIDE DEF d, r
<1>2. d \in Nat
  <2>1. CASE d < 0
    <3>1. d <= -1
      BY <1>1, <2>1
    <3>2. p * d <= -p
      BY <1>1, <3>1, SMTT(30)
    <3> QED
      BY <1>1, <3>2
  <2> QED
    BY <1>1, <2>1
<1>3. e \in Nat /\ q \in {0, 1} /\ d = 2 * e + q
  BY <1>2
<1> HIDE DEF e, q
<1>4. p * d = m * e + (IF q = 1 THEN p ELSE 0)
  <2>1. CASE q = 1
    <3>1. p * d = p * (2 * e + 1) /\ p * (2 * e + 1) = (p + p) * e + p
      BY <1>3, <2>1, SMTT(30)
    <3> QED
      BY <2>1, <3>1
  <2>2. CASE q = 0
    <3>1. p * d = p * (2 * e) /\ p * (2 * e) = (p + p) * e
      BY <1>3, <2>2, SMTT(30)
    <3>2. (p + p) * e \in Nat
      BY <1>3
    <3> QED
      BY <2>2, <3>1, <3>2
  <2> QED
    BY <1>3, <2>1, <2>2
<1>5. m \in Nat \ {0} /\ x \in 0..(m - 1) /\ m * e \in Nat
  BY <1>1, <1>3
<1>6. n = m * e + x
  BY <1>1, <1>3, <1>4, <1>5
<1> HIDE DEF m, x
<1>7. n % m = x
  <2>1. (m * e + x) % m = x
    BY <1>3, <1>5
  <2> QED
    BY <1>6, <2>1
<1>8. r \in Nat
  BY <1>1
<1> QED
  BY <1>2, <1>7, <1>8 DEF d, r, q, x, m

-----------------------------------------------------------------------------
\* crc_generate_combine_tables: entry i of the table is 2^i bytes of zeros.
LEMMA TableIs ==
  ASSUME NEW i \in 0..30
  PROVE  crc_combine_table[i] = MatrixOf(ZeroBytes(2^i))
<1> DEFINE E(g, j) == crc_matrix_square(IF j = 0 THEN crc_matrix_square(crc_matrix_square(OneZeroBit))
                                                ELSE g[j - 1])
           Rec(g) == g = [j \in 0..30 |-> E(g, j)]
           f == [j \in 0..30 |-> MatrixOf(ZeroBytes(2^j))]
           h == CHOOSE g : Rec(g)
<1>1. crc_combine_table = h
  BY Zenon DEF crc_combine_table
<1>2. ASSUME NEW j \in 0..30, NEW g, j = 0 \/ g[j - 1] = MatrixOf(ZeroBytes(2^(j - 1)))
      PROVE  E(g, j) = MatrixOf(ZeroBytes(2^j))
  <2>1. CASE j = 0
    <3>1. 2^0 = 1
      OBVIOUS
    <3> QED
      BY <2>1, <3>1, OneZeroByteIs, Zenon
  <2>2. CASE j # 0
    <3>1. j - 1 \in 0..30 /\ (j - 1) + 1 = j
      BY <2>2
    <3>2. 2^(j - 1) \in Nat /\ 2^((j - 1) + 1) = 2^(j - 1) + 2^(j - 1)
      BY <3>1, PowersOfTwo
    <3>3. 2^j = 2^(j - 1) + 2^(j - 1)
      BY <3>1, <3>2, Zenon
    <3>4. crc_matrix_square(MatrixOf(ZeroBytes(2^(j - 1)))) = MatrixOf(ZeroBytes(2^(j - 1) + 2^(j - 1)))
      BY <3>2, ZeroBytesTwice, Zenon
    <3>5. E(g, j) = crc_matrix_square(MatrixOf(ZeroBytes(2^(j - 1))))
      BY <1>2, <2>2, Zenon
    <3> QED
      BY <3>3, <3>4, <3>5, Zenon
  <2> QED
    BY <2>1, <2>2
<1> HIDE DEF E
<1>3. Rec(f)
  <2>1. ASSUME NEW j \in 0..30 PROVE f[j] = E(f, j)
    <3>1. f[j] = MatrixOf(ZeroBytes(2^j))
      BY Zenon
    <3>2. CASE j # 0
      <4>1. j - 1 \in 0..30
        BY <3>2
      <4>2. f[j - 1] = MatrixOf(ZeroBytes(2^(j - 1)))
        BY <4>1, Zenon
      <4> HIDE DEF f
      <4> QED
        BY <1>2, <3>1, <4>2, Zenon
    <3>3. CASE j = 0
      <4> HIDE DEF f
      <4> QED
        BY <1>2, <3>1, <3>3, Zenon
    <3> QED
      BY <3>2, <3>3
  <2> QED
    BY <2>1, Zenon
<1>4. Rec(h)
  <2> HIDE DEF Rec
  <2> QED
    BY <1>3, Zenon
<1> HIDE DEF h, f
<1>5. \A j \in 0..30 : h[j] = E(h, j)
  BY <1>4, Zenon
<1> DEFINE S == {n \in Nat : n \in 0..30 => h[n] = MatrixOf(ZeroBytes(2^n))}
<1>6. 0 \in S
  <2>1. 0 \in 0..30 /\ 0 \in Nat
    OBVIOUS
  <2>2. h[0] = MatrixOf(ZeroBytes(2^0))
    BY <1>2, <1>5, <2>1, Zenon
  <2> QED
    BY <2>1, <2>2, Zenon
<1>7. ASSUME NEW n \in Nat, n \in S PROVE n + 1 \in S
  <2>1. ASSUME n + 1 \in 0..30 PROVE h[n + 1] = MatrixOf(ZeroBytes(2^(n + 1)))
    <3>1. n \in 0..30 /\ (n + 1) - 1 = n
      BY <2>1
    <3>2. h[(n + 1) - 1] = MatrixOf(ZeroBytes(2^((n + 1) - 1)))
      BY <1>7, <3>1, Zenon
    <3> HIDE DEF S
    <3> QED
      BY <1>2, <1>5, <2>1, <3>2, Zenon
  <2>2. n + 1 \in Nat
    OBVIOUS
  <2> QED
    BY <2>1, <2>2, Zenon
<1>8. Nat \subseteq S
  <2> HIDE DEF S
  <2> QED
    BY <1>6, <1>7, InductionBySet
<1>9. i \in S
  <2>1. i \in Nat
    OBVIOUS
  <2> HIDE DEF S
  <2> QED
    BY <1>8, <2>1
<1> QED
  BY <1>1, <1>9, Zenon

\* mycrc32_combine puts as many bytes of zeros behind the first block as the
\* second one has bytes.
LEMMA CombineIs ==
  ASSUME NEW crc1 \in W32, NEW crc2, NEW leng \in Nat, leng <= INT_MAX
  PROVE  mycrc32_combine(crc1, crc2, leng) = ZeroBytes(leng)[crc1] ++ crc2
<1> DEFINE E(g, j) == IF j = 0 THEN crc1
                      ELSE IF (leng \div 2^(j - 1)) % 2 = 1 THEN Times(crc_combine_table[j - 1], g[j - 1])
                      ELSE g[j - 1]
           Rec(g) == g = [j \in 0..31 |-> E(g, j)]
           f == [j \in 0..31 |-> ZeroBytes(leng % 2^j)[crc1]]
           h == CHOOSE g : Rec(g)
<1>1. mycrc32_combine(crc1, crc2, leng) = h[31] ++ crc2
  BY Zenon DEF mycrc32_combine
<1>2. leng \in Nat /\ leng % 2^0 = 0 /\ leng % 2^31 = leng /\ 0 \in 0..31 /\ 31 \in 0..31
  <2>1. leng % 2^31 = leng
    BY SMT DEF INT_MAX
  <2>2. leng % 2^0 = 0
    BY SMT
  <2> QED
    BY <2>1, <2>2, SMT
<1>3. ASSUME NEW j \in 0..31, NEW g, j = 0 \/ g[j - 1] = ZeroBytes(leng % 2^(j - 1))[crc1]
      PROVE  E(g, j) = ZeroBytes(leng % 2^j)[crc1]
  <2>1. CASE j = 0
    BY <1>2, <2>1, ZeroBytesNone, Zenon
  <2>2. CASE j # 0
    <3> DEFINE p == 2^(j - 1)
               r == leng % p
    <3>1. j - 1 \in 0..30 /\ (j - 1) + 1 = j
      BY <2>2
    <3>2. p \in Nat \ {0} /\ 2^((j - 1) + 1) = p + p
      BY <3>1, PowersOfTwo
    <3>3. 2^j = p + p
      BY <3>1, <3>2, Zenon
    <3>4. g[j - 1] = ZeroBytes(r)[crc1] /\ crc_combine_table[j - 1] = MatrixOf(ZeroBytes(p))
      BY <1>3, <2>2, <3>1, TableIs, Zenon
    <3>5. E(g, j) = IF (leng \div p) % 2 = 1 THEN Times(crc_combine_table[j - 1], g[j - 1]) ELSE g[j - 1]
      BY <2>2, Zenon
    <3> HIDE DEF p
    <3>6. r \in Nat /\ leng % (p + p) = IF (leng \div p) % 2 = 1 THEN r + p ELSE r
      BY <1>2, <3>2, BitMore, Zenon
    <3> HIDE DEF r, E
    <3>7. ZeroBytes(r)[crc1] \in W32 /\ Linear(ZeroBytes(p)) /\ p \in Nat
      BY <3>2, <3>6, ZeroBytesAre
    <3>8. Times(MatrixOf(ZeroBytes(p)), ZeroBytes(r)[crc1]) = ZeroBytes(p)[ZeroBytes(r)[crc1]]
      BY <3>7, TimesIs, Zenon
    <3>9. ZeroBytes(r + p)[crc1] = ZeroBytes(p)[ZeroBytes(r)[crc1]]
      BY <3>6, <3>7, ZeroBytesAdd, Zenon
    <3> QED
      BY <3>3, <3>4, <3>5, <3>6, <3>8, <3>9, Zenon
  <2> QED
    BY <2>1, <2>2
<1> HIDE DEF E
<1>4. Rec(f)
  <2>1. ASSUME NEW j \in 0..31 PROVE f[j] = E(f, j)
    <3>1. f[j] = ZeroBytes(leng % 2^j)[crc1]
      BY Zenon
    <3>2. CASE j # 0
      <4>1. j - 1 \in 0..31
        BY <3>2
      <4>2. f[j - 1] = ZeroBytes(leng % 2^(j - 1))[crc1]
        BY <4>1, Zenon
      <4> HIDE DEF f
      <4> QED
        BY <1>3, <3>1, <4>2, Zenon
    <3>3. CASE j = 0
      <4> HIDE DEF f
      <4> QED
        BY <1>3, <3>1, <3>3, Zenon
    <3> QED
      BY <3>2, <3>3
  <2> QED
    BY <2>1, Zenon
<1>5. Rec(h)
  <2> HIDE DEF Rec
  <2> QED
    BY <1>4, Zenon
<1> HIDE DEF h, f
<1>6. \A j \in 0..31 : h[j] = E(h, j)
  BY <1>5, Zenon
<1> DEFINE S == {n \in Nat : n \in 0..31 => h[n] = ZeroBytes(leng % 2^n)[crc1]}
<1>7. 0 \in S
  <2>1. 0 \in Nat
    OBVIOUS
  <2>2. h[0] = ZeroBytes(leng % 2^0)[crc1]
    BY <1>2, <1>3, <1>6, Zenon
  <2> QED
    BY <2>1, <2>2, Zenon
<1>8. ASSUME NEW n \in Nat, n \in S PROVE n + 1 \in S
  <2>1. ASSUME n + 1 \in 0..31 PROVE h[n + 1] = ZeroBytes(leng % 2^(n + 1))[crc1]
    <3>1. n \in 0..31 /\ (n + 1) - 1 = n
      BY <2>1
    <3>2. h[(n + 1) - 1] = ZeroBytes(leng % 2^((n + 1) - 1))[crc1]
      BY <1>8, <3>1, Zenon
    <3> HIDE DEF S
    <3> QED
      BY <1>3, <1>6, <2>1, <3>2, Zenon
  <2>2. n + 1 \in Nat
    OBVIOUS
  <2> QED
    BY <2>1, <2>2, Zenon
<1>9. Nat \subseteq S
  <2> HIDE DEF S
  <2> QED
    BY <1>7, <1>8, InductionBySet
<1>10. 31 \in S
  <2>1. 31 \in Nat
    OBVIOUS
  <2> HIDE DEF S
  <2> QED
    BY <1>9, <2>1
<1>11. h[31] = ZeroBytes(leng % 2^31)[crc1]
  BY <1>2, <1>10, Zenon
<1> QED
  BY <1>1, <1>2, <1>11, Zenon

-----------------------------------------------------------------------------
LEMMA crc32OfConcat ==
  ASSUME NEW crc \in W32, NEW a \in Seq(Byte), NEW b \in Seq(Byte)
  PROVE  /\ crc32(crc, a) \in W32
         /\ crc32(crc, a \o b) = ZeroBytes(Len(b))[crc32(crc, a)] ++ crc32({}, b)
<1> DEFINE start == crc ++ AllOnes
           ra == Register(start, a)
           n == Len(b)
           z == Zeros(n)
<1>1. start \in W32 /\ ra \in W32 /\ AllOnes \in W32 /\ {} \in W32 /\ n \in Nat
  <2>1. start \in W32 /\ AllOnes \in W32
    BY XorType, AllOnesType
  <2>2. ra \in W32
    BY <2>1, RegisterType
  <2> QED
    BY <2>1, <2>2 DEF W32
<1>2. crc32(crc, a) = ra ++ AllOnes
  BY crc32OfRegister
<1>3. crc32(crc, a \o b) = Register(start, a \o b) ++ AllOnes
  BY crc32OfRegister
<1>4. crc32({}, b) = Register(AllOnes, b) ++ AllOnes
  <2>1. {} ++ AllOnes = AllOnes
    BY XorTwice
  <2> QED
    BY <1>1, <2>1, crc32OfRegister
<1> HIDE DEF start, ra
<1>5. crc32(crc, a) \in W32
  BY <1>1, <1>2, XorType
<1>6. z \in Seq(Byte) /\ Len(z) = n /\ \A i \in 1..n : BitsOf[z[i]] = {}
  BY <1>1, ZerosAre
<1>7. Register(start, a \o b) = Register(ra, b)
  BY <1>1, RegisterOfConcat DEF start, ra
<1> DEFINE c == ra ++ AllOnes
<1>8. c \in W32 /\ c ++ AllOnes = ra
  BY <1>1, XorType, XorTwice
<1> HIDE DEF c, z
<1>9. IsXor(b, z, b)
  <2>1. \A i \in 1..n : BitsOf[b[i]] = BitsOf[z[i]] ++ BitsOf[b[i]]
    <3>1. \A x : {} ++ x = x
      BY XorTwice
    <3> QED
      BY <1>6, <3>1, Zenon
  <2> QED
    BY <1>6, <2>1 DEF IsXor
<1>10. Register(c ++ AllOnes, b) = Register(c, z) ++ Register(AllOnes, b)
  BY <1>1, <1>6, <1>8, <1>9, RegisterOfXor
<1>11. ZeroBytes(n)[c] = Register(c, z)
  BY <1>1, <1>8, ZeroBytesAre DEF z
<1>12. (Register(c, z) ++ Register(AllOnes, b)) ++ AllOnes
         = Register(c, z) ++ (Register(AllOnes, b) ++ AllOnes)
  BY XorAssociative
<1>13. crc32(crc, a \o b) = ZeroBytes(n)[c] ++ crc32({}, b)
  BY <1>3, <1>4, <1>7, <1>8, <1>10, <1>11, <1>12, Zenon
<1> QED
  BY <1>2, <1>5, <1>13 DEF c

\* mycrc32_combine: the CRC of two blocks, one behind the other, from theirs.
THEOREM mycrc32_combineIsCrc32 ==
  ASSUME NEW crc \in SUBSET (0..31), NEW a \in Seq(Byte), NEW b \in Seq(Byte),
         Len(b) <= INT_MAX
  PROVE  mycrc32_combine(crc32(crc, a), crc32({}, b), Len(b)) = crc32(crc, a \o b)
<1>1. crc \in W32
  BY DEF W32
<1>2. /\ crc32(crc, a) \in W32
      /\ crc32(crc, a \o b) = ZeroBytes(Len(b))[crc32(crc, a)] ++ crc32({}, b)
  BY <1>1, crc32OfConcat
<1>3. Len(b) \in Nat
  OBVIOUS
<1> QED
  BY <1>2, <1>3, CombineIs

\* mycrc32_zeroblock: the CRC of a block with zeros behind it.
THEOREM mycrc32_zeroblockIsCrc32 ==
  ASSUME NEW crc \in SUBSET (0..31), NEW a \in Seq(Byte), NEW n \in Nat, n <= INT_MAX
  PROVE  mycrc32_zeroblock(crc32(crc, a), n) = crc32(crc, a \o [i \in 1..n |-> 0])
<1> DEFINE c == crc32(crc, a)
           z == Zeros(n)
<1>1. crc \in W32 /\ n \in Nat
  BY DEF W32
<1>2. z \in Seq(Byte) /\ Len(z) = n
  BY <1>1, ZerosAre
<1>3. c \in W32 /\ crc32(crc, a \o z) = ZeroBytes(n)[c] ++ crc32({}, z)
  BY <1>1, <1>2, crc32OfConcat
<1>4. AllOnes \in W32 /\ c ++ AllOnes \in W32 /\ {} \in W32
  BY <1>3, AllOnesType, XorType DEF W32
<1>5. mycrc32_zeroblock(c, n) = ZeroBytes(n)[c ++ AllOnes] ++ AllOnes
  BY <1>4, CombineIs DEF mycrc32_zeroblock
<1>6. ZeroBytes(n)[c ++ AllOnes] = ZeroBytes(n)[c] ++ ZeroBytes(n)[AllOnes]
  BY <1>1, <1>3, <1>4, ZeroBytesAre DEF Linear
<1>7. crc32({}, z) = ZeroBytes(n)[AllOnes] ++ AllOnes
  <2>1. {} ++ AllOnes = AllOnes
    BY XorTwice
  <2>2. crc32({}, z) = Register(AllOnes, z) ++ AllOnes
    BY <1>4, <2>1, crc32OfRegister
  <2>3. ZeroBytes(n)[AllOnes] = Register(AllOnes, z)
    BY <1>1, <1>4, ZeroBytesAre
  <2> QED
    BY <2>2, <2>3, Zenon
<1>8. (ZeroBytes(n)[c] ++ ZeroBytes(n)[AllOnes]) ++ AllOnes
        = ZeroBytes(n)[c] ++ (ZeroBytes(n)[AllOnes] ++ AllOnes)
  BY XorAssociative
<1>9. mycrc32_zeroblock(c, n) = crc32(crc, a \o z)
  BY <1>3, <1>5, <1>6, <1>7, <1>8, Zenon
<1> QED
  BY <1>9 DEF c, z, Zeros

\* mycrc32_xorblocks: the CRC of the xor of two blocks of the same length.
THEOREM mycrc32_xorblocksIsCrc32 ==
  ASSUME NEW a \in Seq(Byte), NEW b \in Seq(Byte), NEW x \in Seq(Byte),
         Len(a) = Len(x), Len(b) = Len(x), Len(x) <= INT_MAX,
         \A i \in 1..Len(x) : BitsOf[x[i]] = BitsOf[a[i]] ++ BitsOf[b[i]]
  PROVE  mycrc32_xorblocks({}, crc32({}, a), crc32({}, b), Len(x)) = crc32({}, x)
<1> DEFINE n == Len(x)
           z == Zeros(n)
           ra == Register(AllOnes, a)
           rb == Register(AllOnes, b)
           rz == Register(AllOnes, z)
<1>1. n \in Nat /\ n <= INT_MAX /\ AllOnes \in W32 /\ {} \in W32
  BY AllOnesType DEF W32
<1>2. z \in Seq(Byte) /\ Len(z) = n /\ \A i \in 1..n : BitsOf[z[i]] = {}
  BY <1>1, ZerosAre
<1>3. {} ++ AllOnes = AllOnes /\ AllOnes ++ AllOnes = {}
  BY XorTwice
<1>4. /\ crc32({}, a) = ra ++ AllOnes /\ crc32({}, b) = rb ++ AllOnes
      /\ crc32({}, x) = Register(AllOnes, x) ++ AllOnes
  BY <1>1, <1>3, crc32OfRegister
<1>5. mycrc32_zeroblock({}, n) = rz ++ AllOnes
  <2>1. mycrc32_combine(AllOnes, AllOnes, n) = ZeroBytes(n)[AllOnes] ++ AllOnes
    BY <1>1, CombineIs
  <2>2. ZeroBytes(n)[AllOnes] = rz
    BY <1>1, ZeroBytesAre
  <2> QED
    BY <1>3, <2>1, <2>2, Zenon DEF mycrc32_zeroblock
<1>6. Register(AllOnes, x) = ra ++ Register({}, b)
  <2>1. IsXor(x, a, b)
    BY DEF IsXor
  <2>2. Register(AllOnes ++ {}, x) = Register(AllOnes, a) ++ Register({}, b)
    BY <1>1, <2>1, RegisterOfXor
  <2>3. AllOnes ++ {} = AllOnes
    BY XorTwice
  <2> QED
    BY <2>2, <2>3, Zenon
<1>7. rb = rz ++ Register({}, b)
  <2>1. IsXor(b, z, b)
    <3>1. \A y : {} ++ y = y
      BY XorTwice
    <3>2. \A i \in 1..n : BitsOf[b[i]] = BitsOf[z[i]] ++ BitsOf[b[i]]
      BY <1>2, <3>1, Zenon
    <3> HIDE DEF z
    <3> QED
      BY <1>2, <3>2 DEF IsXor
  <2>2. Register(AllOnes ++ {}, b) = Register(AllOnes, z) ++ Register({}, b)
    BY <1>1, <1>2, <2>1, RegisterOfXor
  <2>3. AllOnes ++ {} = AllOnes
    BY XorTwice
  <2> QED
    BY <2>2, <2>3, Zenon
<1> DEFINE t == Register({}, b)
<1>8. ((ra ++ AllOnes) ++ (rb ++ AllOnes)) ++ (rz ++ AllOnes) = (ra ++ t) ++ AllOnes
  <2> HIDE DEF ra, rb, rz, t
  <2> QED
    BY <1>7 DEF ++, t
<1>9. mycrc32_xorblocks({}, crc32({}, a), crc32({}, b), n)
        = ((ra ++ AllOnes) ++ (rb ++ AllOnes)) ++ (rz ++ AllOnes)
  BY <1>4, <1>5, Zenon DEF mycrc32_xorblocks
<1> QED
  BY <1>4, <1>6, <1>8, <1>9, Zenon
-----------------------------------------------------------------------------
(***************************************************************************)
(* A piece b lies in d behind the first `at' elements.                     *)
(***************************************************************************)
Holds(d, at, b) ==
  /\ at + Len(b) <= Len(d)
  /\ \A i \in 1..Len(b) : d[at + i] = b[i]

LEMMA HoldsSubSeq ==
  ASSUME NEW d \in Seq(Byte), NEW b \in Seq(Byte), NEW at \in Nat, Holds(d, at, b)
  PROVE  SubSeq(d, at + 1, at + Len(b)) = b
<1> DEFINE s == SubSeq(d, at + 1, at + Len(b))
<1>1. Len(b) \in Nat /\ at + Len(b) <= Len(d)
  BY DEF Holds
<1>2. s \in Seq(Byte) /\ Len(s) = Len(b)
  BY <1>1
<1>3. \A i \in 1..Len(b) : s[i] = d[at + i]
  BY <1>1
<1> HIDE DEF s
<1>4. \A i \in 1..Len(b) : s[i] = b[i]
  BY <1>3 DEF Holds
<1>5. s = b
  BY <1>2, <1>4
<1> QED
  BY <1>5 DEF s

LEMMA HoldsConcat ==
  ASSUME NEW a \in Seq(Byte), NEW b \in Seq(Byte)
  PROVE  Holds(a \o b, 0, a) /\ Holds(a \o b, Len(a), b)
<1>1. Len(a) \in Nat /\ Len(b) \in Nat /\ Len(a \o b) = Len(a) + Len(b)
  OBVIOUS
<1>2. \A i \in 1..Len(a) : (a \o b)[i] = a[i]
  OBVIOUS
<1>3. \A i \in 1..Len(b) : (a \o b)[Len(a) + i] = b[i]
  OBVIOUS
<1>4. \A i \in 1..Len(a) : 0 + i = i
  BY <1>1
<1> QED
  BY <1>1, <1>2, <1>3, <1>4 DEF Holds

LEMMA HoldsWithin ==
  ASSUME NEW d \in Seq(Byte), NEW b \in Seq(Byte), NEW c \in Seq(Byte),
         NEW at \in Nat, NEW to \in Nat, Holds(d, at, b), Holds(b, to, c)
  PROVE  Holds(d, at + to, c)
<1>1. Len(b) \in Nat /\ Len(c) \in Nat /\ Len(d) \in Nat
  OBVIOUS
<1>2. (at + to) + Len(c) <= Len(d)
  BY <1>1 DEF Holds
<1>3. ASSUME NEW i \in 1..Len(c) PROVE d[(at + to) + i] = c[i]
  <2>1. to + i \in 1..Len(b)
    BY <1>1 DEF Holds
  <2>2. d[at + (to + i)] = b[to + i] /\ b[to + i] = c[i]
    BY <2>1 DEF Holds
  <2>3. at + (to + i) = (at + to) + i
    BY <1>1
  <2> QED
    BY <2>2, <2>3
<1> QED
  BY <1>2, <1>3 DEF Holds

-----------------------------------------------------------------------------
(***************************************************************************)
(* A record on disk.                                                       *)
(***************************************************************************)
RecordBody(r) == Encode(EncodeBody(r))
Bytes(r)      == FlattenSeq(FieldsOf[r])

LEMMA SmallIsBelow ==
  ASSUME NEW n \in Nat, n <= INT_MAX
  PROVE  Below2To32(n)
BY SMT DEF Below2To32, INT_MAX

LEMMA EncodeBodyType ==
  ASSUME NEW c, c.table \in Seq(Byte), c.key \in Seq(Byte), c.value \in Seq(Byte)
  PROVE  /\ Len(c.table) \in Nat /\ Len(c.key) \in Nat /\ Len(c.value) \in Nat
         /\ EncodeBody(c) \in Seq(Byte)
         /\ Len(EncodeBody(c)) = ((Len(c.table) + 4) + (Len(c.key) + 4)) + (Len(c.value) + 4)
<1> DEFINE t == WithLength(c.table)
           k == WithLength(c.key)
           v == WithLength(c.value)
<1>1. /\ t \in Seq(Byte) /\ Len(t) = Len(c.table) + 4
      /\ k \in Seq(Byte) /\ Len(k) = Len(c.key) + 4
      /\ v \in Seq(Byte) /\ Len(v) = Len(c.value) + 4
  BY WithLengthType
<1>2. EncodeBody(c) = (t \o k) \o v
  BY DEF EncodeBody
<1> HIDE DEF t, k, v
<1>3. t \o k \in Seq(Byte) /\ Len(t \o k) = Len(t) + Len(k)
  BY <1>1, BytesConcat
<1>4. (t \o k) \o v \in Seq(Byte) /\ Len((t \o k) \o v) = Len(t \o k) + Len(v)
  BY <1>1, <1>3, BytesConcat
<1> QED
  BY <1>1, <1>2, <1>3, <1>4

LEMMA EncodeIsLonger ==
  ASSUME NEW s \in Seq(Byte)
  PROVE  Len(s) \in Nat /\ Len(Encode(s)) \in Nat /\ Len(s) <= Len(Encode(s))
<1> DEFINE n == Len(s)
           k == NGroups(s)
<1>1. n \in Nat
  OBVIOUS
<1>2. k \in Nat
  BY GroupsOfThree
<1>3. Len(Encode(s)) = 4 * k
  BY EncodeIs
<1>4. n + k \in 0..4 * k
  BY PadIsBehind
<1> HIDE DEF n, k
<1>5. n <= 4 * k /\ 4 * k \in Nat
  BY <1>1, <1>2, <1>4
<1> QED
  BY <1>1, <1>3, <1>5 DEF n

\* A record's numbers and lengths fit into four bytes.
LEMMA RecordType ==
  ASSUME NEW r \in LogRecord
  PROVE  /\ r.id \in Nat /\ Below2To32(r.id) /\ r.type \in Nat /\ Below2To32(r.type)
         /\ r.table \in Seq(Byte) /\ r.key \in Seq(Byte) /\ r.value \in Seq(Byte)
         /\ r = [id |-> r.id, type |-> r.type, table |-> r.table, key |-> r.key, value |-> r.value]
         /\ EncodeBody(r) \in Seq(Byte)
         /\ DecodeBody(EncodeBody(r)) = [table |-> r.table, key |-> r.key, value |-> r.value]
         /\ RecordBody(r) \in Seq(Byte) /\ Below2To32(Len(RecordBody(r)))
<1>1. PICK i \in 1..MaxRecords, c \in Contents :
        r = [id |-> i, type |-> c.type, table |-> c.table, key |-> c.key, value |-> c.value]
  BY DEF LogRecord
<1>2. /\ c.type \in 0..INT_MAX /\ c.table \in Seq(Byte) /\ c.key \in Seq(Byte)
      /\ c.value \in Seq(Byte) /\ 6 * Len(Encode(EncodeBody(c))) <= INT_MAX
      /\ MaxRecords \in 0..INT_MAX /\ INT_MAX \in Nat
  <2>1. INT_MAX \in Nat
    BY SMT DEF INT_MAX
  <2> QED
    BY <2>1, LogFileAssumption
<1>3. r.id = i /\ r.type = c.type /\ r.table = c.table /\ r.key = c.key /\ r.value = c.value
  BY <1>1
<1>4. r.id \in Nat /\ r.id <= INT_MAX /\ r.type \in Nat /\ r.type <= INT_MAX
  BY <1>2, <1>3
<1>5. EncodeBody(r) = EncodeBody(c)
  BY <1>3 DEF EncodeBody
<1>7. EncodeBody(c) \in Seq(Byte)
  BY <1>2, EncodeBodyType
<1>8. Encode(EncodeBody(c)) \in Seq(Byte)
  BY <1>7, EncodeIs
<1>9. Len(Encode(EncodeBody(c))) \in Nat /\ Len(Encode(EncodeBody(c))) <= INT_MAX
  <2> DEFINE e == Encode(EncodeBody(c))
  <2>1. Len(e) \in Nat
    BY <1>8
  <2>2. 6 * Len(e) <= INT_MAX
    BY <1>2
  <2> HIDE DEF e
  <2> QED
    BY <1>2, <2>1, <2>2 DEF e
<1>11. /\ Len(c.table) \in Nat /\ Len(c.table) <= INT_MAX
       /\ Len(c.key) \in Nat /\ Len(c.key) <= INT_MAX
       /\ Len(c.value) \in Nat /\ Len(c.value) <= INT_MAX
  <2> DEFINE t == Len(c.table)
             k == Len(c.key)
             v == Len(c.value)
             b == Len(EncodeBody(c))
             e == Len(Encode(EncodeBody(c)))
  <2>1. t \in Nat /\ k \in Nat /\ v \in Nat /\ b = ((t + 4) + (k + 4)) + (v + 4)
    BY <1>2, EncodeBodyType
  <2>2. e \in Nat /\ b \in Nat /\ b <= e
    BY <1>7, EncodeIsLonger
  <2>3. e <= INT_MAX
    BY <1>9
  <2> HIDE DEF t, k, v, b, e
  <2>4. t <= INT_MAX /\ k <= INT_MAX /\ v <= INT_MAX
    BY <1>2, <2>1, <2>2, <2>3
  <2> QED
    BY <2>1, <2>4 DEF t, k, v
<1>12. Below2To32(Len(c.table)) /\ Below2To32(Len(c.key)) /\ Below2To32(Len(c.value))
  BY <1>11, SmallIsBelow
<1>13. DecodeBody(EncodeBody(r)) = [table |-> c.table, key |-> c.key, value |-> c.value]
  BY <1>2, <1>3, <1>12, DecodeOfEncodeBody
<1>14. Below2To32(r.id) /\ Below2To32(r.type) /\ Below2To32(Len(Encode(EncodeBody(c))))
  BY <1>4, <1>9, SmallIsBelow
<1> QED
  BY <1>1, <1>2, <1>3, <1>4, <1>5, <1>7, <1>8, <1>13, <1>14 DEF RecordBody

LEMMA BytesType ==
  ASSUME NEW r \in LogRecord
  PROVE  /\ FieldsOf[r] \in Seq(Seq(Byte)) /\ Bytes(r) \in Seq(Byte)
         /\ Len(Bytes(r)) = 16 + Len(RecordBody(r))
         /\ Holds(Bytes(r), 0, htonl(Len(RecordBody(r))))
         /\ Holds(Bytes(r), 4, htonlWord(mycrc32({}, RecordBody(r), 0)))
         /\ Holds(Bytes(r), 8, htonl(r.id))
         /\ Holds(Bytes(r), 12, htonl(r.type))
         /\ Holds(Bytes(r), 16, RecordBody(r))
<1> DEFINE b == RecordBody(r)
           f1 == htonl(Len(b))
           f2 == htonlWord(mycrc32({}, b, 0))
           f3 == htonl(r.id)
           f4 == htonl(r.type)
<1>1. b \in Seq(Byte) /\ Len(b) \in Nat
  <2>1. b \in Seq(Byte)
    BY RecordType
  <2> QED
    BY <2>1
<1>2. FieldsOf[r] = <<f1, f2, f3, f4, b>>
  BY DEF FieldsOf, RecordFields, RecordBody
<1>3. /\ f1 \in Seq(Byte) /\ Len(f1) = 4 /\ f2 \in Seq(Byte) /\ Len(f2) = 4
      /\ f3 \in Seq(Byte) /\ Len(f3) = 4 /\ f4 \in Seq(Byte) /\ Len(f4) = 4
  BY <1>1, RecordType, htonlType, htonlWordType
<1> HIDE DEF b, f1, f2, f3, f4
<1> DEFINE h2 == f1 \o f2
           h3 == h2 \o f3
           h4 == h3 \o f4
           h5 == h4 \o b
<1>4. /\ h2 \in Seq(Byte) /\ Len(h2) = 8
  <2>0. f1 \in Seq(Byte) /\ f2 \in Seq(Byte) /\ Len(f1) = 4 /\ Len(f2) = 4
    BY <1>3
  <2>1. h2 \in Seq(Byte) /\ Len(h2) = Len(f1) + Len(f2)
    BY <2>0, BytesConcat, Zenon
  <2>2. Len(f1) + Len(f2) = 8
    BY <2>0
  <2> QED
    BY <2>1, <2>2, Zenon
<1>5. Holds(h2, 0, f1) /\ Holds(h2, 4, f2)
  BY <1>3, HoldsConcat
<1> HIDE DEF h2
<1>6. /\ h3 \in Seq(Byte) /\ Len(h3) = 12
  <2>1. h3 \in Seq(Byte) /\ Len(h3) = 8 + 4
    BY <1>3, <1>4, BytesConcat
  <2> QED
    BY <2>1
<1>7. Holds(h3, 0, h2) /\ Holds(h3, 8, f3)
  BY <1>3, <1>4, HoldsConcat
<1> HIDE DEF h3
<1>8. /\ h4 \in Seq(Byte) /\ Len(h4) = 16
  <2>1. h4 \in Seq(Byte) /\ Len(h4) = 12 + 4
    BY <1>3, <1>6, BytesConcat
  <2> QED
    BY <2>1
<1>9. Holds(h4, 0, h3) /\ Holds(h4, 12, f4)
  BY <1>3, <1>6, HoldsConcat
<1> HIDE DEF h4
<1>10. h5 \in Seq(Byte) /\ Len(h5) = 16 + Len(b)
  BY <1>1, <1>8, BytesConcat
<1>11. Holds(h5, 0, h4) /\ Holds(h5, 16, b)
  BY <1>1, <1>8, HoldsConcat
<1>12. FieldsOf[r] \in Seq(Seq(Byte)) /\ Bytes(r) = h5
  <2>1. <<f1>> \in Seq(Seq(Byte)) /\ FlattenSeq(<<f1>>) = f1
    BY <1>3, FlattenSeqOne
  <2>2. <<f1, f2>> = Append(<<f1>>, f2) /\ <<f1, f2>> \in Seq(Seq(Byte))
    BY <1>3
  <2>3. FlattenSeq(<<f1, f2>>) = h2
    BY <1>3, <2>1, <2>2, FlattenSeqAppend DEF h2
  <2>4. <<f1, f2, f3>> = Append(<<f1, f2>>, f3) /\ <<f1, f2, f3>> \in Seq(Seq(Byte))
    BY <1>3
  <2>5. FlattenSeq(<<f1, f2, f3>>) = h3
    BY <1>3, <2>2, <2>3, <2>4, FlattenSeqAppend DEF h3
  <2>6. <<f1, f2, f3, f4>> = Append(<<f1, f2, f3>>, f4) /\ <<f1, f2, f3, f4>> \in Seq(Seq(Byte))
    BY <1>3
  <2>7. FlattenSeq(<<f1, f2, f3, f4>>) = h4
    BY <1>3, <2>4, <2>5, <2>6, FlattenSeqAppend DEF h4
  <2>8. <<f1, f2, f3, f4, b>> = Append(<<f1, f2, f3, f4>>, b) /\ <<f1, f2, f3, f4, b>> \in Seq(Seq(Byte))
    BY <1>1, <1>3
  <2>9. FlattenSeq(<<f1, f2, f3, f4, b>>) = h5
    BY <1>1, <2>6, <2>7, <2>8, FlattenSeqAppend
  <2> HIDE DEF h5
  <2> QED
    BY <1>2, <2>8, <2>9 DEF Bytes
<1> HIDE DEF h5
<1>13. Holds(h5, 0, h3)
  BY <1>6, <1>8, <1>9, <1>10, <1>11, HoldsWithin
<1>14. Holds(h5, 0, h2)
  BY <1>4, <1>6, <1>7, <1>10, <1>13, HoldsWithin
<1>15. Holds(h5, 0 + 0, f1) /\ Holds(h5, 0 + 4, f2)
  BY <1>3, <1>4, <1>5, <1>10, <1>14, HoldsWithin
<1>16. Holds(h5, 0 + 8, f3)
  BY <1>3, <1>6, <1>7, <1>10, <1>13, HoldsWithin
<1>17. Holds(h5, 0 + 12, f4)
  BY <1>3, <1>8, <1>9, <1>10, <1>11, HoldsWithin
<1>18. 0 + 0 = 0 /\ 0 + 4 = 4 /\ 0 + 8 = 8 /\ 0 + 12 = 12
  OBVIOUS
<1> QED
  BY <1>10, <1>11, <1>12, <1>15, <1>16, <1>17, <1>18 DEF b, f1, f2, f3, f4

\* What the reader makes of a record that is there.
LEMMA RecordRead ==
  ASSUME disk \in Seq(Byte), mOffset \in Nat, NEW r \in LogRecord, Holds(disk, mOffset, Bytes(r))
  PROVE  /\ ~HitsTheEnd /\ CrcMatches /\ Decode(Body).ok /\ NextRecord = r
         /\ mOffset + RecordHeaderLength + mBodyLength = mOffset + Len(Bytes(r))
<1> DEFINE b == RecordBody(r)
           f1 == htonl(Len(b))
           f2 == htonlWord(mycrc32({}, b, 0))
           f3 == htonl(r.id)
           f4 == htonl(r.type)
<1>1. b \in Seq(Byte) /\ Len(b) \in Nat
  <2>1. b \in Seq(Byte)
    BY RecordType
  <2> QED
    BY <2>1
<1>2. /\ f1 \in Seq(Byte) /\ Len(f1) = 4 /\ f2 \in Seq(Byte) /\ Len(f2) = 4
      /\ f3 \in Seq(Byte) /\ Len(f3) = 4 /\ f4 \in Seq(Byte) /\ Len(f4) = 4
  BY <1>1, RecordType, htonlType, htonlWordType
<1>3. /\ Bytes(r) \in Seq(Byte) /\ Len(Bytes(r)) = 16 + Len(b)
      /\ Holds(Bytes(r), 0, f1) /\ Holds(Bytes(r), 4, f2) /\ Holds(Bytes(r), 8, f3)
      /\ Holds(Bytes(r), 12, f4) /\ Holds(Bytes(r), 16, b)
  BY BytesType
<1>4. ntohl(f1) = Len(b) /\ ntohl(f3) = r.id /\ ntohl(f4) = r.type
  BY <1>1, RecordType, ntohlOfhtonl
<1>5. ntohlWord(f2) = mycrc32({}, b, 0)
  <2>1. mycrc32({}, b, 0) \in SUBSET (0..31)
    <3>1. {} \in SUBSET (0..31) /\ 0 \in Nat
      OBVIOUS
    <3> QED
      BY <1>1, <3>1, mycrc32IsCrc32
  <2> QED
    BY <2>1, ntohlOfhtonlWord
<1> HIDE DEF f1, f2, f3, f4
<1>6. /\ Holds(disk, mOffset + 0, f1) /\ Holds(disk, mOffset + 4, f2)
      /\ Holds(disk, mOffset + 8, f3) /\ Holds(disk, mOffset + 12, f4)
      /\ Holds(disk, mOffset + 16, b)
  BY <1>1, <1>2, <1>3, HoldsWithin
<1>7. /\ SubSeq(disk, (mOffset + 0) + 1, (mOffset + 0) + 4) = f1
      /\ SubSeq(disk, (mOffset + 4) + 1, (mOffset + 4) + 4) = f2
      /\ SubSeq(disk, (mOffset + 8) + 1, (mOffset + 8) + 4) = f3
      /\ SubSeq(disk, (mOffset + 12) + 1, (mOffset + 12) + 4) = f4
      /\ SubSeq(disk, (mOffset + 16) + 1, (mOffset + 16) + Len(b)) = b
  <2>1. /\ mOffset + 0 \in Nat /\ mOffset + 4 \in Nat /\ mOffset + 8 \in Nat
        /\ mOffset + 12 \in Nat /\ mOffset + 16 \in Nat
    OBVIOUS
  <2>2. \A a \in Nat, x \in Seq(Byte) :
          Holds(disk, a, x) => SubSeq(disk, a + 1, a + Len(x)) = x
    BY HoldsSubSeq
  <2> QED
    BY <1>1, <1>2, <1>6, <2>1, <2>2
<1>8. Field(1) = f1 /\ Field(2) = f2 /\ Field(3) = f3 /\ Field(4) = f4
  <2>1. /\ mOffset + 4 * 1 - 3 = (mOffset + 0) + 1 /\ mOffset + 4 * 1 = (mOffset + 0) + 4
        /\ mOffset + 4 * 2 - 3 = (mOffset + 4) + 1 /\ mOffset + 4 * 2 = (mOffset + 4) + 4
        /\ mOffset + 4 * 3 - 3 = (mOffset + 8) + 1 /\ mOffset + 4 * 3 = (mOffset + 8) + 4
        /\ mOffset + 4 * 4 - 3 = (mOffset + 12) + 1 /\ mOffset + 4 * 4 = (mOffset + 12) + 4
    OBVIOUS
  <2> QED
    BY <1>7, <2>1, Zenon DEF Field
<1>9. mBodyLength = Len(b)
  BY <1>4, <1>8 DEF mBodyLength
<1>10. Body = b
  BY <1>7, <1>9, Zenon DEF Body, RecordHeaderLength
<1>11. CrcMatches
  BY <1>5, <1>8, <1>10 DEF CrcMatches
<1>12. ~HitsTheEnd
  <2>1. (mOffset + 16) + Len(b) <= Len(disk) /\ Len(disk) \in Nat
    BY <1>6 DEF Holds
  <2> QED
    BY <1>1, <1>9, <2>1 DEF HitsTheEnd, RecordHeaderLength
<1>13. Decode(Body).ok /\ Decode(Body).data = EncodeBody(r)
  BY <1>10, RecordType, DecodeOfEncode DEF RecordBody
<1>14. NextRecord = r
  <2> DEFINE body == DecodeBody(Decode(Body).data)
  <2>1. body = [table |-> r.table, key |-> r.key, value |-> r.value]
    BY <1>13, RecordType
  <2>2. body.table = r.table /\ body.key = r.key /\ body.value = r.value
    BY <2>1
  <2>3. NextRecord = [id |-> ntohl(Field(3)), type |-> ntohl(Field(4)),
                      table |-> body.table, key |-> body.key, value |-> body.value]
    BY DEF NextRecord
  <2> HIDE DEF body
  <2>4. NextRecord = [id |-> r.id, type |-> r.type, table |-> r.table, key |-> r.key, value |-> r.value]
    BY <1>4, <1>8, <2>2, <2>3
  <2> QED
    BY <2>4, RecordType
<1>15. mOffset + RecordHeaderLength + mBodyLength = mOffset + Len(Bytes(r))
  BY <1>1, <1>3, <1>9 DEF RecordHeaderLength
<1> QED
  BY <1>11, <1>12, <1>13, <1>14, <1>15

\* A record of which a part is missing at the end of the file.
LEMMA RecordIsCut ==
  ASSUME disk \in Seq(Byte), mOffset \in Nat, NEW r \in LogRecord,
         Len(disk) < mOffset + Len(Bytes(r)),
         \A j \in 1..4 : mOffset + j <= Len(disk) => disk[mOffset + j] = Bytes(r)[j]
  PROVE  HitsTheEnd
<1> DEFINE b == RecordBody(r)
           f1 == htonl(Len(b))
<1>1. b \in Seq(Byte) /\ Len(b) \in Nat
  <2>1. b \in Seq(Byte)
    BY RecordType
  <2> QED
    BY <2>1
<1>2. f1 \in Seq(Byte) /\ Len(f1) = 4
  BY <1>1, htonlType
<1>3. /\ Bytes(r) \in Seq(Byte) /\ Len(Bytes(r)) = 16 + Len(b)
      /\ Holds(Bytes(r), 0, f1)
  BY BytesType
<1>4. ntohl(f1) = Len(b)
  BY <1>1, RecordType, ntohlOfhtonl
<1> HIDE DEF b, f1
<1>5. SUFFICES ASSUME mOffset + 16 <= Len(disk) PROVE mBodyLength = Len(b)
  <2>1. Len(disk) \in Nat
    OBVIOUS
  <2> QED
    BY <1>1, <1>3, <2>1 DEF HitsTheEnd, RecordHeaderLength
<1>6. Holds(disk, mOffset, f1)
  <2>1. Len(disk) \in Nat /\ mOffset + 4 <= Len(disk)
    BY <1>5
  <2>2. ASSUME NEW j \in 1..4 PROVE disk[mOffset + j] = f1[j]
    <3>1. mOffset + j <= Len(disk)
      BY <2>1
    <3>2. Bytes(r)[0 + j] = f1[j] /\ 0 + j = j
      BY <1>2, <1>3 DEF Holds
    <3> QED
      BY <3>1, <3>2
  <2> QED
    BY <1>2, <2>1, <2>2 DEF Holds
<1>7. SubSeq(disk, mOffset + 1, mOffset + 4) = f1
  BY <1>2, <1>6, HoldsSubSeq
<1>8. Field(1) = f1
  <2>1. mOffset + 4 * 1 - 3 = mOffset + 1 /\ mOffset + 4 * 1 = mOffset + 4
    OBVIOUS
  <2> QED
    BY <1>7, <2>1, Zenon DEF Field
<1> QED
  BY <1>4, <1>8 DEF mBodyLength

-----------------------------------------------------------------------------
(***************************************************************************)
(* A file.                                                                 *)
(***************************************************************************)
Header == FlattenSeq(HeaderFields)
Pieces(w) == [i \in DOMAIN w |-> Bytes(w[i])]

LEMMA HeaderIs ==
  /\ HeaderFields \in Seq(Seq(Byte))
  /\ Header \in Seq(Byte) /\ Len(Header) = 8
  /\ Holds(Header, 0, LOG_MAGIC) /\ Holds(Header, 4, htonl(LOG_VERSION))
<1> DEFINE m == LOG_MAGIC
           v == htonl(LOG_VERSION)
<1>1. m \in Seq(Byte) /\ Len(m) = 4
  BY DEF LOG_MAGIC, Byte
<1>2. v \in Seq(Byte) /\ Len(v) = 4
  BY htonlType DEF LOG_VERSION
<1>3. HeaderFields = <<m, v>>
  BY DEF HeaderFields
<1> HIDE DEF m, v
<1>4. <<m>> \in Seq(Seq(Byte)) /\ <<m, v>> = Append(<<m>>, v) /\ <<m, v>> \in Seq(Seq(Byte))
  BY <1>1, <1>2
<1>5. Header = m \o v
  BY <1>1, <1>2, <1>3, <1>4, FlattenSeqOne, FlattenSeqAppend DEF Header
<1>6. Holds(m \o v, 0, m) /\ Holds(m \o v, 4, v)
  BY <1>1, <1>2, HoldsConcat
<1>7. m \o v \in Seq(Byte) /\ Len(m \o v) = 4 + 4
  BY <1>1, <1>2, BytesConcat
<1> QED
  BY <1>3, <1>4, <1>5, <1>6, <1>7 DEF m, v

LEMMA PiecesType ==
  ASSUME NEW w \in Seq(LogRecord)
  PROVE  Pieces(w) \in Seq(Seq(Byte)) /\ Len(Pieces(w)) = Len(w)
<1>1. \A i \in DOMAIN w : Bytes(w[i]) \in Seq(Byte)
  BY BytesType
<1>2. DOMAIN w = 1..Len(w) /\ Len(w) \in Nat
  OBVIOUS
<1>3. Pieces(w) \in [1..Len(w) -> Seq(Byte)]
  BY <1>1, <1>2, Zenon DEF Pieces
<1> QED
  BY <1>2, <1>3, FunctionIsSeq

LEMMA FileOfIs ==
  ASSUME NEW w \in Seq(LogRecord)
  PROVE  FileOf(w) = Header \o FlattenSeq(Pieces(w)) /\ FileOf(w) \in Seq(Byte)
<1>1. FileOf(w) = Header \o FlattenSeq(Pieces(w))
  BY Zenon DEF FileOf, Header, Pieces, Bytes
<1>2. FlattenSeq(Pieces(w)) \in Seq(Byte)
  BY PiecesType, FlattenSeqType
<1> QED
  BY <1>1, <1>2, HeaderIs, BytesConcat

LEMMA FileOfNone == FileOf(<<>>) = Header /\ Len(FileOf(<<>>)) = 8
<1>1. Pieces(<<>>) = <<>>
  BY DEF Pieces
<1>2. <<>> \in Seq(LogRecord)
  OBVIOUS
<1>3. FileOf(<<>>) = Header \o <<>>
  BY <1>1, <1>2, FileOfIs, FlattenSeqEmpty
<1>4. Header \o <<>> = Header
  BY HeaderIs, ConcatEmptySeq
<1> QED
  BY <1>3, <1>4, HeaderIs

LEMMA FileOfAppend ==
  ASSUME NEW w \in Seq(LogRecord), NEW r \in LogRecord
  PROVE  /\ FileOf(Append(w, r)) = FileOf(w) \o Bytes(r)
         /\ Len(FileOf(Append(w, r))) = Len(FileOf(w)) + Len(Bytes(r))
<1> DEFINE v == Append(w, r)
<1>1. v \in Seq(LogRecord) /\ Len(v) = Len(w) + 1 /\ Len(w) \in Nat
  OBVIOUS
<1>2. v[Len(w) + 1] = r /\ \A i \in 1..Len(w) : v[i] = w[i]
  OBVIOUS
<1>3. DOMAIN v = 1..(Len(w) + 1) /\ DOMAIN w = 1..Len(w)
  OBVIOUS
<1> HIDE DEF v
<1>4. Pieces(v) = Append(Pieces(w), Bytes(r))
  <2> DEFINE p == Append(Pieces(w), Bytes(r))
  <2>1. Pieces(w) \in Seq(Seq(Byte)) /\ Len(Pieces(w)) = Len(w) /\ Bytes(r) \in Seq(Byte)
    BY PiecesType, BytesType
  <2>2. /\ p \in Seq(Seq(Byte)) /\ Len(p) = Len(w) + 1
        /\ p[Len(w) + 1] = Bytes(r) /\ \A i \in 1..Len(w) : p[i] = Pieces(w)[i]
    <3> HIDE DEF p
    <3>1. /\ Append(Pieces(w), Bytes(r)) \in Seq(Seq(Byte))
          /\ Len(Append(Pieces(w), Bytes(r))) = Len(Pieces(w)) + 1
          /\ Append(Pieces(w), Bytes(r))[Len(Pieces(w)) + 1] = Bytes(r)
          /\ \A i \in 1..Len(Pieces(w)) : Append(Pieces(w), Bytes(r))[i] = Pieces(w)[i]
      BY <2>1, AppendProperties
    <3> QED
      BY <2>1, <3>1, Zenon DEF p
  <2>3. Pieces(v) \in Seq(Seq(Byte)) /\ Len(Pieces(v)) = Len(w) + 1
    BY <1>1, PiecesType
  <2> HIDE DEF p
  <2>4. ASSUME NEW i \in 1..(Len(w) + 1) PROVE Pieces(v)[i] = p[i]
    <3>1. Pieces(v)[i] = Bytes(v[i])
      BY <1>3 DEF Pieces
    <3>2. CASE i \in 1..Len(w)
      <4>1. Pieces(w)[i] = Bytes(w[i])
        BY <1>3, <3>2 DEF Pieces
      <4> QED
        BY <1>2, <2>2, <3>1, <3>2, <4>1
    <3>3. CASE i = Len(w) + 1
      BY <1>2, <2>2, <3>1, <3>3
    <3>4. i \in 1..Len(w) \/ i = Len(w) + 1
      BY <1>1
    <3> QED
      BY <3>2, <3>3, <3>4
  <2>5. Pieces(v) = p
    BY <2>2, <2>3, <2>4, SeqEqual
  <2> QED
    BY <2>5 DEF p
<1>5. /\ Pieces(w) \in Seq(Seq(Byte)) /\ Bytes(r) \in Seq(Byte)
      /\ FlattenSeq(Pieces(w)) \in Seq(Byte)
  BY PiecesType, BytesType, FlattenSeqType
<1>6. FlattenSeq(Pieces(v)) = FlattenSeq(Pieces(w)) \o Bytes(r)
  BY <1>4, <1>5, FlattenSeqAppend
<1>7. FileOf(v) = FileOf(w) \o Bytes(r)
  <2>1. FileOf(v) = Header \o (FlattenSeq(Pieces(w)) \o Bytes(r))
    BY <1>1, <1>6, FileOfIs
  <2>2. FileOf(w) = Header \o FlattenSeq(Pieces(w))
    BY FileOfIs
  <2>3. (Header \o FlattenSeq(Pieces(w))) \o Bytes(r)
          = Header \o (FlattenSeq(Pieces(w)) \o Bytes(r))
    BY <1>5, HeaderIs, BytesAssociative, Zenon
  <2> QED
    BY <2>1, <2>2, <2>3, Zenon
<1>8. Len(FileOf(w) \o Bytes(r)) = Len(FileOf(w)) + Len(Bytes(r))
  BY <1>5, FileOfIs, BytesConcat
<1> QED
  BY <1>7, <1>8 DEF v

-----------------------------------------------------------------------------
(***************************************************************************)
(* The invariant.                                                          *)
(***************************************************************************)
\* The file when it held the first k records.
Upto(k) == FileOf(SubSeq(written, 1, k))

\* The bytes the length of a record is in do not go bad.  With another length
\* another body is read, and there are two bodies with the same CRC.
LengthsStay == DecayAt \cap (1..4) = {}

Types ==
  /\ op \in {"write", "flush", "down", "read", "left"}
  /\ disk \in Seq(Byte) /\ out \in Seq(Byte) /\ buffer \in Seq(Byte)
  /\ fields \in Seq(Seq(Byte))
  /\ mOffset \in Nat
  /\ written \in Seq(LogRecord)
  /\ flushed \in 0..Len(written) /\ decayed \in 0..Len(written)

\* While a process writes.
Writing ==
  /\ op \in {"write", "flush"} => /\ decayed = 0
                                  /\ disk \o out \o buffer \o FlattenSeq(fields) = FileOf(written)
  /\ op = "flush" => buffer = <<>> /\ fields = <<>>
  /\ op \in {"write", "flush", "down"} => found = <<>>

\* Only a byte of the record that decays is not what was written.
Decays(j) ==
  /\ decayed # 0
  /\ j - Starts(decayed) \in DecayAt
  /\ j <= Starts(decayed + 1)

OnDisk ==
  /\ Len(disk) <= Len(FileOf(written))
  /\ \A j \in 1..Len(disk) : disk[j] = FileOf(written)[j] \/ Decays(j)
  /\ flushed > 0 /\ decayed = 0 => Len(Upto(flushed)) <= Len(disk)

\* A reader.
Reading ==
  /\ op = "read" => mOffset <= Len(disk)
  /\ decayed = 0 \/ LengthsStay =>
       \E k \in 0..Len(written) :
         /\ found = SubSeq(written, 1, k)
         /\ op = "read" => mOffset = Len(Upto(k))
         /\ op = "left" /\ decayed = 0 => k >= flushed
  /\ op = "left" /\ decayed = 0 =>
       \/ disk = FileOf(found)
       \/ found = <<>> /\ Len(disk) < HeaderLength

\* The file has the bad byte until the record it is in is cut off.
OneIsBad ==
  \E j \in 1..Len(disk) :
    /\ Decays(j) /\ disk[j] # FileOf(written)[j]
    /\ \A i \in 1..Len(disk) : i # j => disk[i] = FileOf(written)[i]

Decayed ==
  LengthsStay /\ decayed # 0 =>
    /\ disk = Upto(decayed - 1) \/ OneIsBad
    /\ Len(found) <= decayed - 1
    /\ op = "left" => Len(found) = decayed - 1

IInv == Types /\ Writing /\ OnDisk /\ Reading /\ Decayed

-----------------------------------------------------------------------------
(***************************************************************************)
(* The first k records and the one behind them.                            *)
(***************************************************************************)
First(w, k) == FileOf(SubSeq(w, 1, k))

LEMMA FirstIs ==
  ASSUME NEW w \in Seq(LogRecord), NEW k \in 0..Len(w)
  PROVE  /\ SubSeq(w, 1, k) \in Seq(LogRecord) /\ Len(SubSeq(w, 1, k)) = k
         /\ First(w, k) \in Seq(Byte) /\ Len(First(w, k)) \in Nat
         /\ k = 0 => SubSeq(w, 1, k) = <<>> /\ First(w, k) = Header
         /\ k = Len(w) => SubSeq(w, 1, k) = w /\ First(w, k) = FileOf(w)
         /\ k < Len(w) => /\ w[k + 1] \in LogRecord
                          /\ SubSeq(w, 1, k + 1) = Append(SubSeq(w, 1, k), w[k + 1])
                          /\ First(w, k + 1) = First(w, k) \o Bytes(w[k + 1])
                          /\ Len(First(w, k + 1)) = Len(First(w, k)) + Len(Bytes(w[k + 1]))
<1>1. Len(w) \in Nat /\ k \in Nat /\ k <= Len(w)
  OBVIOUS
<1>2. SubSeq(w, 1, k) \in Seq(LogRecord) /\ Len(SubSeq(w, 1, k)) = k
  BY <1>1
<1>3. First(w, k) \in Seq(Byte) /\ Len(First(w, k)) \in Nat
  <2>1. First(w, k) \in Seq(Byte)
    BY <1>2, FileOfIs DEF First
  <2> QED
    BY <2>1
<1>4. ASSUME k = 0 PROVE SubSeq(w, 1, k) = <<>> /\ First(w, k) = Header
  <2>1. SubSeq(w, 1, k) = <<>>
    BY <1>4
  <2> QED
    BY <2>1, FileOfNone DEF First
<1>5. ASSUME k = Len(w) PROVE SubSeq(w, 1, k) = w /\ First(w, k) = FileOf(w)
  <2>1. SubSeq(w, 1, k) = w
    BY <1>5
  <2> QED
    BY <2>1 DEF First
<1>6. ASSUME k < Len(w)
      PROVE  /\ w[k + 1] \in LogRecord
             /\ SubSeq(w, 1, k + 1) = Append(SubSeq(w, 1, k), w[k + 1])
             /\ First(w, k + 1) = First(w, k) \o Bytes(w[k + 1])
             /\ Len(First(w, k + 1)) = Len(First(w, k)) + Len(Bytes(w[k + 1]))
  <2>1. k + 1 \in 1..Len(w)
    BY <1>1, <1>6
  <2>2. w[k + 1] \in LogRecord
    BY <2>1
  <2>3. SubSeq(w, 1, k + 1) = Append(SubSeq(w, 1, k), w[k + 1])
    BY <1>1, <2>1
  <2> QED
    BY <1>2, <2>2, <2>3, FileOfAppend DEF First
<1> QED
  BY <1>2, <1>3, <1>4, <1>5, <1>6

LEMMA HoldsFirst ==
  ASSUME NEW w \in Seq(LogRecord), NEW k \in 0..Len(w), NEW m \in k..Len(w)
  PROVE  Holds(First(w, m), 0, First(w, k))
<1> DEFINE S == {n \in Nat : k + n <= Len(w) => Holds(First(w, k + n), 0, First(w, k))}
<1>1. Len(w) \in Nat /\ k \in Nat /\ m - k \in Nat /\ k + (m - k) = m /\ m <= Len(w)
  OBVIOUS
<1>2. 0 \in S
  <2>1. k + 0 = k
    BY <1>1
  <2>2. First(w, k) \in Seq(Byte) /\ Len(First(w, k)) \in Nat
    BY FirstIs
  <2>3. \A i \in 1..Len(First(w, k)) : 0 + i = i
    BY <2>2
  <2>4. 0 + Len(First(w, k)) <= Len(First(w, k))
    BY <2>2
  <2>5. Holds(First(w, k), 0, First(w, k))
    BY <2>3, <2>4 DEF Holds
  <2> QED
    BY <2>1, <2>5
<1>3. ASSUME NEW n \in Nat, n \in S PROVE n + 1 \in S
  <2>1. ASSUME k + (n + 1) <= Len(w) PROVE Holds(First(w, k + (n + 1)), 0, First(w, k))
    <3>1. Holds(First(w, k + n), 0, First(w, k))
      BY <1>1, <1>3, <2>1
    <3> HIDE DEF S
    <3>2. k + n \in 0..Len(w) /\ k + n < Len(w) /\ (k + n) + 1 = k + (n + 1)
          /\ k + (n + 1) \in 0..Len(w)
      BY <1>1, <2>1
    <3>3. /\ First(w, k + (n + 1)) = First(w, k + n) \o Bytes(w[k + (n + 1)])
          /\ w[k + (n + 1)] \in LogRecord
      BY <3>2, FirstIs
    <3>4. /\ First(w, k) \in Seq(Byte) /\ First(w, k + n) \in Seq(Byte)
          /\ First(w, k + (n + 1)) \in Seq(Byte) /\ Bytes(w[k + (n + 1)]) \in Seq(Byte)
      BY <3>2, <3>3, FirstIs, BytesType
    <3>5. Holds(First(w, k + (n + 1)), 0, First(w, k + n))
      BY <3>3, <3>4, HoldsConcat
    <3>6. Holds(First(w, k + (n + 1)), 0 + 0, First(w, k))
      <4>1. 0 \in Nat
        OBVIOUS
      <4> QED
        BY <3>1, <3>4, <3>5, <4>1, HoldsWithin
    <3>7. 0 + 0 = 0
      OBVIOUS
    <3> QED
      BY <3>6, <3>7
  <2> QED
    BY <2>1
<1>4. Nat \subseteq S
  <2> HIDE DEF S
  <2> QED
    BY <1>2, <1>3, InductionBySet
<1>5. m - k \in S
  BY <1>1, <1>4
<1> QED
  BY <1>1, <1>5

\* What is known of the bytes of a file.
LEMMA FileParts ==
  ASSUME NEW w \in Seq(LogRecord), NEW k \in 0..Len(w)
  PROVE  /\ FileOf(w) \in Seq(Byte) /\ Len(FileOf(w)) \in Nat
         /\ First(w, k) \in Seq(Byte) /\ Len(First(w, k)) \in Nat
         /\ Len(First(w, k)) >= 8 /\ Holds(First(w, k), 0, Header)
         /\ Len(First(w, k)) <= Len(FileOf(w)) /\ Holds(FileOf(w), 0, First(w, k))
         /\ \A m \in k..Len(w) : Len(First(w, k)) <= Len(First(w, m))
         /\ k < Len(w) => Holds(FileOf(w), Len(First(w, k)), Bytes(w[k + 1]))
<1>1. Len(w) \in Nat /\ k \in Nat /\ k <= Len(w)
  OBVIOUS
<1>2. ASSUME NEW m \in 0..Len(w) PROVE First(w, m) \in Seq(Byte) /\ Len(First(w, m)) \in Nat
  BY FirstIs
<1>3. First(w, Len(w)) = FileOf(w) /\ First(w, 0) = Header
  <2>1. Len(w) \in 0..Len(w) /\ 0 \in 0..Len(w)
    BY <1>1
  <2> QED
    BY <2>1, FirstIs
<1>4. FileOf(w) \in Seq(Byte) /\ Len(FileOf(w)) \in Nat
  <2>1. Len(w) \in 0..Len(w)
    BY <1>1
  <2> QED
    BY <1>2, <1>3, <2>1
<1>5. ASSUME NEW j \in 0..Len(w), NEW m \in j..Len(w)
      PROVE  Holds(First(w, m), 0, First(w, j)) /\ Len(First(w, j)) <= Len(First(w, m))
  <2>1. Holds(First(w, m), 0, First(w, j))
    BY HoldsFirst
  <2>2. Len(First(w, j)) \in Nat /\ 0 + Len(First(w, j)) <= Len(First(w, m))
    BY <1>2, <2>1 DEF Holds
  <2>3. 0 + Len(First(w, j)) = Len(First(w, j))
    BY <2>2
  <2> QED
    BY <2>1, <2>2, <2>3
<1>6. Len(First(w, k)) >= 8 /\ Holds(First(w, k), 0, Header)
  <2>1. 0 \in 0..Len(w) /\ k \in 0..Len(w)
    BY <1>1
  <2>2. Holds(First(w, k), 0, First(w, 0)) /\ Len(First(w, 0)) <= Len(First(w, k))
    BY <1>5, <2>1
  <2>3. Len(Header) = 8
    BY HeaderIs
  <2> QED
    BY <1>2, <1>3, <2>2, <2>3
<1>7. Len(First(w, k)) <= Len(FileOf(w)) /\ Holds(FileOf(w), 0, First(w, k))
  <2>1. Len(w) \in k..Len(w)
    BY <1>1
  <2> QED
    BY <1>3, <1>5, <2>1
<1>8. ASSUME k < Len(w) PROVE Holds(FileOf(w), Len(First(w, k)), Bytes(w[k + 1]))
  <2>1. /\ First(w, k + 1) = First(w, k) \o Bytes(w[k + 1]) /\ w[k + 1] \in LogRecord
    BY <1>8, FirstIs
  <2>2. Bytes(w[k + 1]) \in Seq(Byte)
    BY <2>1, BytesType
  <2>3. Holds(First(w, k + 1), Len(First(w, k)), Bytes(w[k + 1]))
    BY <1>2, <2>1, <2>2, HoldsConcat
  <2>4. k + 1 \in 0..Len(w) /\ Len(w) \in (k + 1)..Len(w)
    BY <1>1, <1>8
  <2>5. Holds(FileOf(w), 0, First(w, k + 1))
    BY <1>3, <1>5, <2>4
  <2>6. Holds(FileOf(w), 0 + Len(First(w, k)), Bytes(w[k + 1]))
    <3>1. First(w, k + 1) \in Seq(Byte) /\ Len(First(w, k)) \in Nat /\ 0 \in Nat
      BY <1>2, <2>4
    <3> QED
      BY <1>4, <2>2, <2>3, <2>5, <3>1, HoldsWithin
  <2>7. 0 + Len(First(w, k)) = Len(First(w, k))
    BY <1>2
  <2> QED
    BY <2>6, <2>7
<1> QED
  BY <1>2, <1>4, <1>5, <1>6, <1>7, <1>8

-----------------------------------------------------------------------------
(***************************************************************************)
(* What the reader meets.                                                  *)
(***************************************************************************)
LEMMA StartsIs ==
  ASSUME written \in Seq(LogRecord), NEW i \in 1..Len(written)
  PROVE  /\ Starts(i) = Len(First(written, i - 1)) /\ Starts(i + 1) = Len(First(written, i))
         /\ Starts(i) \in Nat /\ Starts(i) >= 8
<1>1. Len(written) \in Nat /\ i - 1 \in 0..Len(written) /\ (i + 1) - 1 = i
  OBVIOUS
<1>2. Starts(i) = Len(First(written, i - 1)) /\ Starts(i + 1) = Len(First(written, i))
  BY <1>1 DEF Starts, First
<1> QED
  BY <1>1, <1>2, FileParts

\* In front of the record that decays, and where its length is, all is well.
LEMMA DecaysWhere ==
  ASSUME Types, NEW j \in Nat, Decays(j)
  PROVE  /\ decayed \in 1..Len(written) /\ j - Starts(decayed) \in DecayAt
         /\ Starts(decayed) < j /\ j <= Starts(decayed + 1)
         /\ j - Starts(decayed) \notin 9..16
         /\ LengthsStay => j - Starts(decayed) \notin 1..4
<1>1. decayed \in 1..Len(written) /\ Len(written) \in Nat
  BY DEF Types, Decays
<1>2. Starts(decayed) \in Nat
  BY <1>1, StartsIs DEF Types
<1>3. j - Starts(decayed) \in DecayAt /\ j <= Starts(decayed + 1)
  BY DEF Decays
<1>4. j - Starts(decayed) \in Nat \ {0} /\ j - Starts(decayed) \notin 9..16
  BY <1>3, LogFileAssumption
<1>5. Starts(decayed) < j
  BY <1>2, <1>4
<1>6. ASSUME LengthsStay PROVE j - Starts(decayed) \notin 1..4
  BY <1>3, <1>6 DEF LengthsStay
<1> QED
  BY <1>1, <1>3, <1>4, <1>5, <1>6

LEMMA Untouched ==
  ASSUME Types, OnDisk, NEW k \in 0..Len(written), decayed = 0 \/ k < decayed,
         NEW j \in 1..Len(disk), j <= Len(First(written, k))
  PROVE  disk[j] = FileOf(written)[j] /\ disk[j] = First(written, k)[j]
<1>1. written \in Seq(LogRecord) /\ Len(written) \in Nat /\ j \in Nat /\ k \in Nat
  BY DEF Types
<1>2. ASSUME Decays(j) PROVE FALSE
  <2>1. decayed \in 1..Len(written) /\ Starts(decayed) < j
    BY <1>1, <1>2, DecaysWhere
  <2>2. k < decayed
    BY <1>1, <2>1
  <2>3. decayed - 1 \in k..Len(written)
    BY <1>1, <2>1, <2>2
  <2>4. Len(First(written, k)) <= Len(First(written, decayed - 1))
    BY <1>1, <2>3, FileParts
  <2>5. Starts(decayed) = Len(First(written, decayed - 1)) /\ Starts(decayed) \in Nat
    BY <1>1, <2>1, StartsIs
  <2>6. Len(First(written, k)) \in Nat
    BY <1>1, FileParts
  <2> QED
    BY <1>1, <2>1, <2>4, <2>5, <2>6
<1>3. disk[j] = FileOf(written)[j]
  BY <1>2 DEF OnDisk
<1>4. FileOf(written)[j] = First(written, k)[j]
  <2>1. Holds(FileOf(written), 0, First(written, k)) /\ Len(First(written, k)) \in Nat
    BY <1>1, FileParts
  <2>2. j \in 1..Len(First(written, k)) /\ 0 + j = j
    BY <1>1, <2>1
  <2> QED
    BY <2>1, <2>2 DEF Holds
<1> QED
  BY <1>3, <1>4

LEMMA HeaderRead ==
  ASSUME Types, OnDisk, Len(disk) >= HeaderLength
  PROVE  ValidHeader
<1>1. /\ disk \in Seq(Byte) /\ written \in Seq(LogRecord) /\ Len(disk) \in Nat /\ Len(disk) >= 8
      /\ Len(written) \in Nat /\ decayed \in Nat
  BY DEF Types, HeaderLength
<1>2. 0 \in 0..Len(written) /\ (decayed = 0 \/ 0 < decayed)
  BY <1>1
<1>3. First(written, 0) = Header /\ Len(Header) = 8 /\ Header \in Seq(Byte)
  BY <1>1, <1>2, FirstIs, HeaderIs
<1>4. Holds(disk, 0, Header)
  <2>1. ASSUME NEW j \in 1..8 PROVE disk[0 + j] = Header[j]
    <3>1. j \in 1..Len(disk) /\ j <= Len(First(written, 0)) /\ 0 + j = j
      <4>1. j \in 1..Len(disk) /\ j <= 8 /\ 0 + j = j
        BY <1>1
      <4>2. Len(First(written, 0)) = 8
        BY <1>3, Zenon
      <4> QED
        BY <4>1, <4>2
    <3>2. disk[j] = First(written, 0)[j]
      BY <1>2, <3>1, Untouched
    <3> QED
      BY <1>3, <3>1, <3>2
  <2> QED
    BY <1>1, <1>3, <2>1 DEF Holds
<1>5. /\ LOG_MAGIC \in Seq(Byte) /\ Len(LOG_MAGIC) = 4
      /\ htonl(LOG_VERSION) \in Seq(Byte) /\ Len(htonl(LOG_VERSION)) = 4
      /\ LOG_VERSION \in Nat /\ LOG_VERSION <= INT_MAX
  <2>1. LOG_MAGIC \in Seq(Byte) /\ Len(LOG_MAGIC) = 4
    BY DEF LOG_MAGIC, Byte
  <2>2. LOG_VERSION \in Nat /\ LOG_VERSION <= INT_MAX
    BY SMT DEF LOG_VERSION, INT_MAX
  <2> QED
    BY <2>1, <2>2, htonlType
<1>6. Holds(disk, 0 + 0, LOG_MAGIC) /\ Holds(disk, 0 + 4, htonl(LOG_VERSION))
  <2>1. 0 \in Nat /\ 4 \in Nat
    OBVIOUS
  <2> QED
    BY <1>1, <1>3, <1>4, <1>5, <2>1, HeaderIs, HoldsWithin
<1>7. /\ SubSeq(disk, (0 + 0) + 1, (0 + 0) + 4) = LOG_MAGIC
      /\ SubSeq(disk, (0 + 4) + 1, (0 + 4) + 4) = htonl(LOG_VERSION)
  <2>1. 0 + 0 \in Nat /\ 0 + 4 \in Nat
    OBVIOUS
  <2>2. \A a \in Nat, x \in Seq(Byte) :
          Holds(disk, a, x) => SubSeq(disk, a + 1, a + Len(x)) = x
    BY <1>1, HoldsSubSeq
  <2> QED
    BY <1>5, <1>6, <2>1, <2>2
<1>8. /\ SubSeq(disk, 1, 4) = LOG_MAGIC /\ SubSeq(disk, 5, 8) = htonl(LOG_VERSION)
  <2>1. (0 + 0) + 1 = 1 /\ (0 + 0) + 4 = 4 /\ (0 + 4) + 1 = 5 /\ (0 + 4) + 4 = 8
    OBVIOUS
  <2> QED
    BY <1>7, <2>1, Zenon
<1>9. ntohl(htonl(LOG_VERSION)) = LOG_VERSION
  <2>1. Below2To32(LOG_VERSION)
    BY <1>5, SmallIsBelow
  <2> QED
    BY <1>5, <2>1, ntohlOfhtonl
<1> QED
  BY <1>8, <1>9 DEF ValidHeader

\* Where the reader stands: what is there of the next record, and that it does
\* not take it when it is not whole.
Next1(k) ==
  /\ k < Len(written) /\ written[k + 1] \in LogRecord
  /\ Len(First(written, k + 1)) <= Len(disk)

LEMMA NextIsWhole ==
  ASSUME IInv, op = "read", decayed = 0 \/ LengthsStay, ~HitsTheEnd,
         NEW k \in 0..Len(written), found = SubSeq(written, 1, k),
         mOffset = Len(First(written, k))
  PROVE  Next1(k)
<1>1. /\ disk \in Seq(Byte) /\ written \in Seq(LogRecord) /\ Len(disk) \in Nat /\ mOffset \in Nat
      /\ Len(written) \in Nat /\ decayed \in 0..Len(written) /\ k \in Nat /\ k <= Len(written)
      /\ Len(disk) <= Len(FileOf(written)) /\ Types /\ OnDisk /\ mOffset <= Len(disk)
  BY DEF IInv, Types, OnDisk, Reading
<1>2. decayed # 0 => k < decayed
  <2>1. decayed # 0 => Len(found) <= decayed - 1
    BY DEF IInv, Decayed
  <2>2. Len(found) = k
    BY <1>1, FirstIs
  <2> QED
    BY <1>1, <2>1, <2>2
<1>3. mOffset + RecordHeaderLength <= Len(disk)
  BY DEF HitsTheEnd
<1>4. k < Len(written)
  <2>1. ASSUME k = Len(written) PROVE FALSE
    <3>1. mOffset = Len(FileOf(written))
      BY <1>1, <2>1, FirstIs
    <3> QED
      BY <1>1, <1>3, <3>1 DEF RecordHeaderLength
  <2> QED
    BY <1>1, <2>1
<1>5. /\ written[k + 1] \in LogRecord
      /\ Len(First(written, k + 1)) = mOffset + Len(Bytes(written[k + 1]))
      /\ Holds(FileOf(written), mOffset, Bytes(written[k + 1]))
  BY <1>1, <1>4, FirstIs, FileParts
<1> DEFINE r == written[k + 1]
<1>6. Bytes(r) \in Seq(Byte) /\ Len(Bytes(r)) \in Nat /\ Len(Bytes(r)) >= 16
  <2>1. Bytes(r) \in Seq(Byte) /\ Len(Bytes(r)) = 16 + Len(RecordBody(r)) /\ RecordBody(r) \in Seq(Byte)
    BY <1>5, BytesType, RecordType
  <2>2. Len(RecordBody(r)) \in Nat
    BY <2>1
  <2> QED
    BY <2>1, <2>2
<1>7. ASSUME NEW j \in 1..4, mOffset + j <= Len(disk) PROVE disk[mOffset + j] = Bytes(r)[j]
  <2>1. FileOf(written)[mOffset + j] = Bytes(r)[j]
    <3>1. j \in 1..Len(Bytes(r))
      BY <1>6
    <3> QED
      BY <1>5, <3>1 DEF Holds
  <2>2. mOffset + j \in 1..Len(disk) /\ mOffset + j \in Nat
    BY <1>1, <1>7
  <2>3. ASSUME Decays(mOffset + j) PROVE FALSE
    <3>1. /\ decayed \in 1..Len(written) /\ Starts(decayed) < mOffset + j
          /\ LengthsStay => (mOffset + j) - Starts(decayed) \notin 1..4
      BY <1>1, <2>2, <2>3, DecaysWhere
    <3>2. LengthsStay /\ k < decayed
      BY <1>1, <1>2, <3>1
    <3>3. decayed - 1 \in k..Len(written)
      BY <1>1, <3>1, <3>2
    <3>4. Starts(decayed) = Len(First(written, decayed - 1)) /\ Starts(decayed) \in Nat
      BY <1>1, <3>1, StartsIs
    <3>5. mOffset <= Starts(decayed)
      BY <1>1, <3>3, <3>4, FileParts
    <3>6. (mOffset + j) - Starts(decayed) \in 1..4
      <4> DEFINE a == Starts(decayed)
      <4>1. a \in Nat /\ mOffset <= a /\ a < mOffset + j
        BY <3>1, <3>4, <3>5
      <4> HIDE DEF a
      <4>2. (mOffset + j) - a \in 1..4
        <5>1. \A x, y \in Nat : \A i \in 1..4 : x <= y /\ y < x + i => (x + i) - y \in 1..4
          OBVIOUS
        <5> QED
          BY <1>1, <4>1, <5>1
      <4> QED
        BY <4>2 DEF a
    <3> QED
      BY <3>1, <3>2, <3>6
  <2> QED
    BY <1>1, <2>1, <2>2, <2>3 DEF OnDisk
<1>8. ~(Len(disk) < mOffset + Len(Bytes(r)))
  <2> HIDE DEF r
  <2>1. r \in LogRecord
    BY <1>5 DEF r
  <2> QED
    BY <1>1, <1>7, <2>1, RecordIsCut
<1> HIDE DEF r
<1>9. Len(First(written, k + 1)) <= Len(disk)
  BY <1>1, <1>5, <1>6, <1>8 DEF r
<1> QED
  BY <1>4, <1>5, <1>9 DEF Next1

\* A whole record that did not decay is taken.
LEMMA NextIsTaken ==
  ASSUME IInv, op = "read", NEW k \in 0..Len(written), mOffset = Len(First(written, k)),
         Next1(k), decayed = 0 \/ k + 1 < decayed
  PROVE  /\ ~HitsTheEnd /\ CrcMatches /\ Decode(Body).ok /\ NextRecord = written[k + 1]
         /\ mOffset + RecordHeaderLength + mBodyLength = Len(First(written, k + 1))
<1>1. /\ disk \in Seq(Byte) /\ written \in Seq(LogRecord) /\ Len(disk) \in Nat /\ mOffset \in Nat
      /\ Len(written) \in Nat /\ k \in Nat /\ Types /\ OnDisk
      /\ k < Len(written) /\ k + 1 \in 0..Len(written)
  BY DEF IInv, Types, Next1
<1> DEFINE r == written[k + 1]
<1>2. /\ r \in LogRecord /\ First(written, k + 1) = First(written, k) \o Bytes(r)
      /\ Len(First(written, k + 1)) = mOffset + Len(Bytes(r))
  BY <1>1, FirstIs
<1> HIDE DEF r
<1>3. Bytes(r) \in Seq(Byte) /\ First(written, k) \in Seq(Byte)
  BY <1>1, <1>2, BytesType, FileParts
<1>4. Len(Bytes(r)) \in Nat
  BY <1>3
<1>5. Holds(First(written, k + 1), mOffset, Bytes(r))
  BY <1>2, <1>3, HoldsConcat
<1>6. Holds(disk, mOffset, Bytes(r))
  <2>1. mOffset + Len(Bytes(r)) <= Len(disk)
    BY <1>2 DEF Next1
  <2>2. ASSUME NEW i \in 1..Len(Bytes(r)) PROVE disk[mOffset + i] = Bytes(r)[i]
    <3>1. mOffset + i \in 1..Len(disk) /\ mOffset + i <= Len(First(written, k + 1))
      BY <1>1, <1>2, <1>4, <2>1
    <3>2. disk[mOffset + i] = First(written, k + 1)[mOffset + i]
      BY <1>1, <3>1, Untouched
    <3>3. First(written, k + 1)[mOffset + i] = Bytes(r)[i]
      BY <1>5 DEF Holds
    <3> QED
      BY <3>2, <3>3
  <2> QED
    BY <2>1, <2>2 DEF Holds
<1>7. /\ ~HitsTheEnd /\ CrcMatches /\ Decode(Body).ok /\ NextRecord = r
      /\ mOffset + RecordHeaderLength + mBodyLength = mOffset + Len(Bytes(r))
  BY <1>1, <1>2, <1>6, RecordRead
<1> QED
  BY <1>2, <1>7 DEF r

\* The record that decayed is not taken.
LEMMA DecayedIsNotTaken ==
  ASSUME IInv, op = "read", LengthsStay, decayed # 0,
         NEW k \in 0..Len(written), mOffset = Len(First(written, k)), k + 1 = decayed, Next1(k)
  PROVE  ~CrcMatches
<1>1. /\ disk \in Seq(Byte) /\ written \in Seq(LogRecord) /\ Len(disk) \in Nat /\ mOffset \in Nat
      /\ Len(written) \in Nat /\ k \in Nat /\ Types
      /\ k < Len(written) /\ decayed \in 1..Len(written) /\ decayed - 1 = k
  BY DEF IInv, Types, Next1
<1> DEFINE r == written[k + 1]
           b == RecordBody(r)
           n == Len(b)
           f1 == htonl(n)
           f2 == htonlWord(mycrc32({}, b, 0))
<1>2. /\ r \in LogRecord /\ Len(First(written, k + 1)) = mOffset + Len(Bytes(r))
      /\ Holds(FileOf(written), mOffset, Bytes(r))
  BY <1>1, FirstIs, FileParts
<1> HIDE DEF r
<1>3. b \in Seq(Byte) /\ n \in Nat /\ Below2To32(n)
  <2>1. b \in Seq(Byte) /\ Below2To32(n)
    BY <1>2, RecordType
  <2> QED
    BY <2>1
<1>4. /\ Bytes(r) \in Seq(Byte) /\ Len(Bytes(r)) = 16 + n
      /\ Holds(Bytes(r), 0, f1) /\ Holds(Bytes(r), 4, f2) /\ Holds(Bytes(r), 16, b)
  BY <1>2, BytesType
<1> HIDE DEF b, n
<1>5. /\ f1 \in Seq(Byte) /\ Len(f1) = 4 /\ ntohl(f1) = n
      /\ f2 \in Seq(Byte) /\ Len(f2) = 4
  BY <1>3, htonlType, htonlWordType, ntohlOfhtonl
<1>6. mycrc32({}, b, 0) \in SUBSET (0..31) /\ mycrc32({}, b, 0) = crc32({}, b)
  <2>1. {} \in SUBSET (0..31) /\ 0 \in Nat
    OBVIOUS
  <2> QED
    BY <1>3, <2>1, mycrc32IsCrc32
<1>7. ntohlWord(f2) = crc32({}, b)
  BY <1>6, ntohlOfhtonlWord
<1> HIDE DEF f1, f2
<1>8. mOffset + (16 + n) <= Len(disk)
  BY <1>2, <1>4 DEF Next1
<1>9. Starts(decayed) = mOffset /\ Starts(decayed + 1) = mOffset + (16 + n)
  BY <1>1, <1>2, <1>4, StartsIs
<1>10. PICK j \in 1..Len(disk) :
         /\ Decays(j) /\ disk[j] # FileOf(written)[j]
         /\ \A i \in 1..Len(disk) : i # j => disk[i] = FileOf(written)[i]
  <2>1. disk # Upto(decayed - 1)
    <3>1. Upto(decayed - 1) = First(written, k)
      BY <1>1 DEF Upto, First
    <3>2. Len(disk) # mOffset
      BY <1>1, <1>3, <1>8
    <3> QED
      BY <3>1, <3>2
  <2> QED
    BY <2>1 DEF IInv, Decayed, OneIsBad
<1> DEFINE q == j - mOffset
<1>11. q \in 5..8 \/ q \in 17..16 + n
  <2>1. /\ q \in DecayAt /\ mOffset < j /\ j <= mOffset + (16 + n)
        /\ q \notin 9..16 /\ q \notin 1..4
    BY <1>1, <1>9, <1>10, DecaysWhere
  <2>2. q \in 1..16 + n
    <3>1. j \in Nat
      OBVIOUS
    <3> QED
      BY <1>1, <1>3, <2>1, <3>1
  <2> HIDE DEF q
  <2> QED
    BY <1>3, <2>1, <2>2
<1>12. ASSUME NEW i \in 1..16 + n
       PROVE  /\ disk[mOffset + i] \in Byte
              /\ Bytes(r)[i] = disk[mOffset + i] <=> i # q
  <2>1. mOffset + i \in 1..Len(disk)
    BY <1>1, <1>3, <1>8
  <2>2. FileOf(written)[mOffset + i] = Bytes(r)[i]
    BY <1>2, <1>4 DEF Holds
  <2>3. mOffset + i = j <=> i = q
    BY <1>1
  <2>4. disk[mOffset + i] \in Byte
    BY <1>1, <2>1
  <2> HIDE DEF q
  <2> QED
    BY <1>10, <2>1, <2>2, <2>3, <2>4
<1> HIDE DEF q
<1>13. ASSUME NEW i \in 1..4 PROVE f1[i] = Bytes(r)[i] /\ f2[i] = Bytes(r)[4 + i]
  <2>1. 0 + i = i
    OBVIOUS
  <2> QED
    BY <1>4, <1>5, <2>1 DEF Holds
<1>14. ASSUME NEW i \in 1..n PROVE b[i] = Bytes(r)[16 + i]
  BY <1>4 DEF Holds, n
<1>15. \A p, m \in 1..Len(disk) : \A i \in 1..(m - p) + 1 : SubSeq(disk, p, m)[i] = disk[(p + i) - 1]
  BY <1>1
<1>16. ASSUME NEW i \in 1..4
       PROVE  /\ SubSeq(disk, mOffset + 1, mOffset + 4)[i] = disk[mOffset + i]
              /\ Field(2)[i] = disk[mOffset + (4 + i)]
  <2>1. /\ mOffset + 1 \in 1..Len(disk) /\ mOffset + 4 \in 1..Len(disk)
        /\ mOffset + 5 \in 1..Len(disk) /\ mOffset + 8 \in 1..Len(disk)
    BY <1>1, <1>3, <1>8
  <2>2. /\ ((mOffset + 4) - (mOffset + 1)) + 1 = 4 /\ ((mOffset + 8) - (mOffset + 5)) + 1 = 4
        /\ ((mOffset + 1) + i) - 1 = mOffset + i /\ ((mOffset + 5) + i) - 1 = mOffset + (4 + i)
        /\ mOffset + 4 * 2 - 3 = mOffset + 5 /\ mOffset + 4 * 2 = mOffset + 8
    BY <1>1
  <2>3. Field(2) = SubSeq(disk, mOffset + 5, mOffset + 8)
    BY <2>2, Zenon DEF Field
  <2>4. SubSeq(disk, mOffset + 1, mOffset + 4)[i] = disk[((mOffset + 1) + i) - 1]
    BY <1>15, <2>1, <2>2
  <2>5. SubSeq(disk, mOffset + 5, mOffset + 8)[i] = disk[((mOffset + 5) + i) - 1]
    BY <1>15, <2>1, <2>2
  <2> QED
    BY <2>2, <2>3, <2>4, <2>5, Zenon
<1>17. mBodyLength = n
  <2> DEFINE f == SubSeq(disk, mOffset + 1, mOffset + 4)
  <2>1. Field(1) = f
    <3>1. mOffset \in Nat
      BY <1>1, Zenon
    <3>2. mOffset + 4 * 1 - 3 = mOffset + 1 /\ mOffset + 4 * 1 = mOffset + 4
      BY ONLY <3>1
    <3> QED
      BY <3>2, Zenon DEF Field
  <2>2. ASSUME NEW i \in 1..4 PROVE f[i] = htonl(n)[i]
    <3>a. n \in Nat /\ i \in 1..4
      BY <1>3, Zenon
    <3>1. i \in 1..16 + n
      BY ONLY <3>a
    <3>2. i # q
      BY ONLY <3>a, <1>11
    <3> QED
      BY <1>12, <1>13, <1>16, <3>1, <3>2 DEF f1
  <2> HIDE DEF f
  <2>3. ntohl(f) = n
    BY <1>3, <2>2, ntohlOfhtonl
  <2> QED
    BY <2>1, <2>3 DEF mBodyLength
<1>18. Body = SubSeq(disk, mOffset + 17, mOffset + (16 + n))
  <2>1. mOffset + RecordHeaderLength + 1 = mOffset + 17
        /\ mOffset + RecordHeaderLength + n = mOffset + (16 + n)
    BY <1>1, <1>3 DEF RecordHeaderLength
  <2> QED
    BY <1>17, <2>1, Zenon DEF Body
<1>19. Body \in Seq(Byte) /\ Len(Body) = n
  BY <1>1, <1>3, <1>8, <1>18
<1>20. ASSUME NEW i \in 1..n PROVE Body[i] = disk[mOffset + (16 + i)]
  <2>1. /\ mOffset + 17 \in 1..Len(disk) /\ mOffset + (16 + n) \in 1..Len(disk)
        /\ ((mOffset + (16 + n)) - (mOffset + 17)) + 1 = n
        /\ ((mOffset + 17) + i) - 1 = mOffset + (16 + i)
    BY <1>1, <1>3, <1>8
  <2>2. SubSeq(disk, mOffset + 17, mOffset + (16 + n))[i] = disk[((mOffset + 17) + i) - 1]
    BY <1>15, <2>1
  <2> QED
    BY <1>18, <2>1, <2>2, Zenon
<1>21. mycrc32({}, Body, 0) = crc32({}, Body)
  <2>1. {} \in SUBSET (0..31) /\ 0 \in Nat
    OBVIOUS
  <2> QED
    BY <1>19, <2>1, mycrc32IsCrc32
<1>22. SUFFICES ASSUME ntohlWord(Field(2)) = crc32({}, Body) PROVE FALSE
  BY <1>21 DEF CrcMatches
<1>23. ASSUME NEW i \in 1..4
       PROVE  Field(2)[i] \in Byte /\ f2[i] \in Byte /\ (Field(2)[i] = f2[i] <=> 4 + i # q)
  <2>1. 4 + i \in 1..16 + n
    BY <1>3
  <2>2. f2[i] \in Byte
    <3>1. \A x \in Seq(Byte) : \A h \in 1..Len(x) : x[h] \in Byte
      OBVIOUS
    <3> QED
      BY <1>5, <3>1, Zenon
  <2> QED
    BY <1>12, <1>13, <1>16, <2>1, <2>2
<1>24. ASSUME NEW i \in 1..n PROVE Body[i] = b[i] <=> 16 + i # q
  <2>1. 16 + i \in 1..16 + n
    BY <1>3
  <2> QED
    BY <1>12, <1>14, <1>20, <2>1
<1>25. CASE q \in 5..8
  <2>1. Body = b
    <3>1. \A i \in 1..n : Body[i] = b[i]
      <4>1. \A i \in 1..n : 16 + i # q
        BY <1>3, <1>25
      <4> QED
        BY <1>24, <4>1
    <3> QED
      BY <1>3, <1>19, <3>1, SeqEqual DEF n
  <2>2. ntohlWord(Field(2)) = ntohlWord(f2)
    BY <1>7, <1>22, <2>1
  <2>3. /\ Field(2)[1] \in Byte /\ Field(2)[2] \in Byte /\ Field(2)[3] \in Byte /\ Field(2)[4] \in Byte
        /\ f2[1] \in Byte /\ f2[2] \in Byte /\ f2[3] \in Byte /\ f2[4] \in Byte
    BY <1>23
  <2>4. Field(2)[1] = f2[1] /\ Field(2)[2] = f2[2] /\ Field(2)[3] = f2[3] /\ Field(2)[4] = f2[4]
    BY <2>2, <2>3, ntohlWordInjective
  <2>5. 4 + 1 # q /\ 4 + 2 # q /\ 4 + 3 # q /\ 4 + 4 # q
    <3>1. 1 \in 1..4 /\ 2 \in 1..4 /\ 3 \in 1..4 /\ 4 \in 1..4
      OBVIOUS
    <3> QED
      BY <1>23, <2>4, <3>1, Zenon
  <2> QED
    BY <1>25, <2>5
<1>26. CASE q \in 17..16 + n
  <2>1. \A i \in 1..4 : Field(2)[i] = f2[i]
    <3>1. \A i \in 1..4 : 4 + i # q
      BY <1>26
    <3> QED
      BY <1>23, <3>1
  <2>2. ntohlWord(Field(2)) = mycrc32({}, b, 0)
    BY <1>6, <2>1, ntohlOfhtonlWord DEF f2
  <2>3. crc32({}, Body) = crc32({}, b)
    BY <1>6, <1>22, <2>2
  <2>4. q - 16 \in 1..n /\ 16 + (q - 16) = q /\ \A i \in 1..n : i # q - 16 => 16 + i # q
    BY <1>3, <1>26
  <2>5. Body[q - 16] # b[q - 16] /\ \A i \in 1..n : i # q - 16 => Body[i] = b[i]
    BY <1>24, <2>4
  <2> QED
    BY <1>3, <1>19, <2>3, <2>4, <2>5, CrcNoticesAByte DEF n
<1> QED
  BY <1>11, <1>25, <1>26

-----------------------------------------------------------------------------
(***************************************************************************)
(* The invariant holds.                                                    *)
(***************************************************************************)
LEMMA InitIInv ==
  ASSUME Init
  PROVE  IInv
<1>1. /\ op = "write" /\ disk = <<>> /\ out = <<>> /\ buffer = <<>> /\ fields = HeaderFields
      /\ mOffset = 0 /\ found = <<>> /\ written = <<>> /\ flushed = 0 /\ decayed = 0
  BY DEF Init
<1>2. <<>> \in Seq(Byte) /\ <<>> \in Seq(LogRecord) /\ Len(<<>>) = 0
  OBVIOUS
<1>3. Types
  BY <1>1, <1>2, HeaderIs DEF Types
<1>4. FileOf(<<>>) = Header /\ Len(FileOf(<<>>)) = 8
  BY FileOfNone, HeaderIs
<1>5. disk \o out \o buffer \o FlattenSeq(fields) = FileOf(written)
  <2>1. (<<>> \o <<>>) \o <<>> = <<>>
    BY <1>2, ConcatEmptySeq
  <2>2. <<>> \o Header = Header
    BY HeaderIs, ConcatEmptySeq
  <2> QED
    BY <1>1, <1>4, <2>1, <2>2 DEF Header
<1>6. Writing
  BY <1>1, <1>5 DEF Writing
<1>7. OnDisk
  BY <1>1, <1>2, <1>4 DEF OnDisk
<1>8. Reading
  <2>1. 0 \in 0..Len(written) /\ SubSeq(written, 1, 0) = <<>>
    BY <1>1
  <2> QED
    BY <1>1, <2>1 DEF Reading
<1>9. Decayed
  BY <1>1 DEF Decayed
<1> QED
  BY <1>3, <1>6, <1>7, <1>8, <1>9 DEF IInv

LEMMA FourBytesStrings ==
  ASSUME NEW a \in Seq(Byte), NEW b \in Seq(Byte), NEW c \in Seq(Byte), NEW d \in Seq(Byte)
  PROVE  ((a \o b) \o c) \o d \in Seq(Byte) /\ (a \o b) \o c \in Seq(Byte)
BY BytesConcat, Zenon

LEMMA AppendKeeps ==
  ASSUME IInv, NEW r \in LogRecord, AppendLogRecord(r)
  PROVE  IInv'
<1>1. /\ op = "write" /\ out = <<>> /\ fields = <<>>
      /\ written' = Append(written, r) /\ fields' = FieldsOf[r]
      /\ op' = op /\ disk' = disk /\ out' = out /\ buffer' = buffer /\ mOffset' = mOffset
      /\ found' = found /\ flushed' = flushed /\ decayed' = decayed
  BY DEF AppendLogRecord, AtRest
<1>2. Types /\ Writing /\ OnDisk
  BY DEF IInv
<1>3. /\ written \in Seq(LogRecord) /\ Len(written) \in Nat /\ written' \in Seq(LogRecord)
      /\ Len(written') = Len(written) + 1 /\ flushed \in 0..Len(written) /\ decayed = 0
      /\ found = <<>> /\ disk \in Seq(Byte) /\ buffer \in Seq(Byte) /\ Len(disk) \in Nat
  BY <1>1, <1>2 DEF Types, Writing
<1>4. FieldsOf[r] \in Seq(Seq(Byte)) /\ Bytes(r) \in Seq(Byte)
  BY BytesType
<1>5. Types'
  BY <1>1, <1>2, <1>3, <1>4 DEF Types
<1>6. FileOf(written') = FileOf(written) \o Bytes(r)
  BY <1>1, <1>3, FileOfAppend
<1>7. FileOf(written) \in Seq(Byte) /\ Len(FileOf(written)) \in Nat
  <2>1. FileOf(written) \in Seq(Byte)
    BY <1>3, FileOfIs
  <2> QED
    BY <2>1
<1>8. Writing'
  <2> DEFINE x == (disk \o <<>>) \o buffer
  <2>1. x \in Seq(Byte)
    <3>1. <<>> \in Seq(Byte)
      OBVIOUS
    <3> QED
      BY <1>3, <3>1, FourBytesStrings
  <2>2. x \o <<>> = FileOf(written)
    BY <1>1, <1>2, FlattenSeqEmpty DEF Writing
  <2> HIDE DEF x
  <2>3. x = FileOf(written)
    BY <2>1, <2>2, ConcatEmptySeq
  <2>4. x \o Bytes(r) = FileOf(written')
    BY <1>6, <2>3
  <2>5. disk' \o out' \o buffer' \o FlattenSeq(fields') = FileOf(written')
    BY <1>1, <2>4 DEF x, Bytes
  <2> QED
    BY <1>1, <1>3, <2>5 DEF Writing
<1>9. OnDisk'
  <2>1. Len(FileOf(written) \o Bytes(r)) = Len(FileOf(written)) + Len(Bytes(r)) /\ Len(Bytes(r)) \in Nat
    BY <1>4, <1>7, BytesConcat, LenProperties
  <2>2. Len(disk') <= Len(FileOf(written'))
    BY <1>1, <1>2, <1>3, <1>6, <1>7, <2>1 DEF OnDisk
  <2>3. ASSUME NEW j \in 1..Len(disk') PROVE disk'[j] = FileOf(written')[j]
    <3>1. j \in 1..Len(disk) /\ j \in 1..Len(FileOf(written))
      BY <1>1, <1>2, <1>3, <1>7, <2>3 DEF OnDisk
    <3>2. disk[j] = FileOf(written)[j]
      BY <1>2, <1>3, <3>1 DEF OnDisk, Decays
    <3>3. (FileOf(written) \o Bytes(r))[j] = FileOf(written)[j]
      BY <1>4, <1>7, <3>1
    <3> QED
      BY <1>1, <1>6, <3>2, <3>3
  <2>4. Upto(flushed)' = Upto(flushed)
    <3>1. SubSeq(Append(written, r), 1, flushed) = SubSeq(written, 1, flushed)
      BY <1>3
    <3> QED
      BY <1>1, <3>1 DEF Upto
  <2> QED
    BY <1>1, <1>2, <2>2, <2>3, <2>4 DEF OnDisk
<1>10. Reading' /\ Decayed'
  <2>1. 0 \in 0..Len(written') /\ SubSeq(written', 1, 0) = <<>>
    BY <1>3
  <2> QED
    BY <1>1, <1>3, <2>1 DEF Reading, Decayed
<1> QED
  BY <1>5, <1>8, <1>9, <1>10 DEF IInv

\* A step of the writer that writes no record and leaves the file alone.
LEMMA BufferKeeps ==
  ASSUME IInv, op \in {"write", "flush"}, op' \in {"write", "flush"},
         UNCHANGED <<disk, mOffset, found, written, decayed>>,
         flushed' = flushed \/ (flushed' = Len(written) /\ disk = FileOf(written)),
         Types', Writing'
  PROVE  IInv'
<1>1. /\ written \in Seq(LogRecord) /\ Len(written) \in Nat /\ flushed \in 0..Len(written)
      /\ disk \in Seq(Byte) /\ Len(disk) \in Nat /\ decayed = 0 /\ found = <<>> /\ OnDisk
  BY DEF IInv, Types, Writing
<1>2. OnDisk'
  <2>1. /\ Len(disk') <= Len(FileOf(written'))
        /\ \A j \in 1..Len(disk') : disk'[j] = FileOf(written')[j]
    BY <1>1 DEF OnDisk, Decays
  <2>2. flushed' > 0 => Len(Upto(flushed)') <= Len(disk')
    <3>1. CASE flushed' = flushed
      BY <1>1, <3>1 DEF OnDisk, Upto
    <3>2. CASE flushed' = Len(written) /\ disk = FileOf(written)
      <4>1. Len(written) \in 0..Len(written)
        BY <1>1
      <4>2. Upto(flushed)' = disk'
        <5>1. SubSeq(written, 1, Len(written)) = written
          BY <1>1, <4>1, FirstIs
        <5> QED
          BY <3>2, <5>1 DEF Upto
      <4> QED
        BY <1>1, <4>2
    <3> QED
      BY <3>1, <3>2
  <2> QED
    BY <2>1, <2>2 DEF OnDisk
<1>3. Reading' /\ Decayed'
  <2>1. 0 \in 0..Len(written') /\ SubSeq(written', 1, 0) = <<>>
    BY <1>1
  <2> QED
    BY <1>1, <2>1 DEF Reading, Decayed
<1> QED
  BY <1>2, <1>3 DEF IInv

LEMMA WriteNBytesKeeps ==
  ASSUME IInv, WriteNBytes
  PROVE  IInv'
<1>1. /\ op = "write" /\ out = <<>> /\ fields # <<>>
      /\ op' = op /\ disk' = disk /\ mOffset' = mOffset /\ found' = found
      /\ written' = written /\ flushed' = flushed /\ decayed' = decayed
  BY DEF WriteNBytes, histVars
<1>2. Types /\ Writing
  BY DEF IInv
<1>3. /\ disk \in Seq(Byte) /\ buffer \in Seq(Byte) /\ fields \in Seq(Seq(Byte)) /\ <<>> \in Seq(Byte)
      /\ ((disk \o <<>>) \o buffer) \o FlattenSeq(fields) = FileOf(written)
  BY <1>1, <1>2 DEF Types, Writing
<1> DEFINE h == Head(fields)
           t == Tail(fields)
<1>4. h \in Seq(Byte) /\ t \in Seq(Seq(Byte))
  BY <1>1, <1>3, HeadTailProperties
<1>5. FlattenSeq(fields) = h \o FlattenSeq(t) /\ FlattenSeq(t) \in Seq(Byte)
  BY <1>1, <1>3, <1>4, FlattenSeqHeadTail, FlattenSeqType
<1> HIDE DEF h, t
<1>6. disk \o <<>> = disk
  BY <1>3, ConcatEmptySeq
<1>7. CASE TooLarge /\ MayGoDirect /\ out' = h /\ fields' = t /\ buffer' = buffer
  <2>1. buffer = <<>> /\ out' \in Seq(Byte) /\ fields' \in Seq(Seq(Byte)) /\ buffer' = <<>>
    BY <1>4, <1>7 DEF MayGoDirect
  <2>2. disk \o (h \o FlattenSeq(t)) = FileOf(written)
    <3>1. (disk \o <<>>) \o <<>> = disk
      BY <1>6
    <3> QED
      BY <1>3, <1>5, <2>1, <3>1
  <2>3. (disk \o h) \o FlattenSeq(t) = disk \o (h \o FlattenSeq(t))
    BY <1>3, <1>4, <1>5, BytesAssociative, Zenon
  <2>4. (disk \o h) \o <<>> = disk \o h
    <3>1. disk \o h \in Seq(Byte)
      BY <1>3, <1>4, BytesConcat
    <3> QED
      BY <3>1, ConcatEmptySeq
  <2>5. disk' \o out' \o buffer' \o FlattenSeq(fields') = FileOf(written')
    BY <1>1, <1>7, <2>1, <2>2, <2>3, <2>4
  <2>6. Types'
    BY <1>1, <1>2, <2>1 DEF Types
  <2>7. Writing'
    BY <1>1, <1>2, <2>5 DEF Writing
  <2> QED
    BY <1>1, <2>6, <2>7, BufferKeeps
<1>8. CASE buffer' = buffer \o h /\ fields' = t /\ out' = out
  <2>1. buffer' \in Seq(Byte) /\ fields' \in Seq(Seq(Byte))
    BY <1>3, <1>4, <1>8, BytesConcat
  <2>2. (disk \o buffer) \o (h \o FlattenSeq(t)) = FileOf(written)
    BY <1>3, <1>5, <1>6
  <2>3. disk \o buffer \in Seq(Byte)
    BY <1>3, BytesConcat
  <2>4. ((disk \o buffer) \o h) \o FlattenSeq(t) = (disk \o buffer) \o (h \o FlattenSeq(t))
    BY <1>4, <1>5, <2>3, BytesAssociative, Zenon
  <2>5. (disk \o buffer) \o h = disk \o (buffer \o h)
    BY <1>3, <1>4, BytesAssociative, Zenon
  <2>6. disk' \o out' \o buffer' \o FlattenSeq(fields') = FileOf(written')
    BY <1>1, <1>6, <1>8, <2>2, <2>4, <2>5
  <2>7. Types'
    BY <1>1, <1>2, <1>8, <2>1 DEF Types
  <2>8. Writing'
    BY <1>1, <1>2, <2>6 DEF Writing
  <2> QED
    BY <1>1, <2>7, <2>8, BufferKeeps
<1>9. CASE WriteAllBufferToFile /\ fields' = fields
  <2>1. out' = buffer /\ buffer' = <<>>
    BY <1>9 DEF WriteAllBufferToFile
  <2>2. (disk \o buffer) \o <<>> = disk \o buffer
    <3>1. disk \o buffer \in Seq(Byte)
      BY <1>3, BytesConcat
    <3> QED
      BY <3>1, ConcatEmptySeq
  <2>3. disk' \o out' \o buffer' \o FlattenSeq(fields') = FileOf(written')
    BY <1>1, <1>3, <1>6, <1>9, <2>1, <2>2
  <2>4. Types'
    BY <1>1, <1>2, <1>3, <1>9, <2>1 DEF Types
  <2>5. Writing'
    BY <1>1, <1>2, <2>3 DEF Writing
  <2> QED
    BY <1>1, <2>4, <2>5, BufferKeeps
<1> QED
  BY <1>7, <1>8, <1>9 DEF WriteNBytes, h, t

LEMMA FlushKeeps ==
  ASSUME IInv, Flush
  PROVE  IInv'
<1>1. /\ op = "write" /\ out = <<>> /\ fields = <<>> /\ op' = "flush"
      /\ out' = buffer /\ buffer' = <<>>
      /\ disk' = disk /\ fields' = fields /\ mOffset' = mOffset /\ found' = found
      /\ written' = written /\ flushed' = flushed /\ decayed' = decayed
  BY DEF Flush, AtRest, WriteAllBufferToFile, histVars
<1>2. Types /\ Writing
  BY DEF IInv
<1>3. /\ disk \in Seq(Byte) /\ buffer \in Seq(Byte) /\ <<>> \in Seq(Byte)
      /\ ((disk \o <<>>) \o buffer) \o FlattenSeq(fields) = FileOf(written)
  BY <1>1, <1>2 DEF Types, Writing
<1>4. disk \o <<>> = disk /\ (disk \o buffer) \o <<>> = disk \o buffer
  <2>1. disk \o buffer \in Seq(Byte)
    BY <1>3, BytesConcat
  <2> QED
    BY <1>3, <2>1, ConcatEmptySeq
<1>5. disk' \o out' \o buffer' \o FlattenSeq(fields') = FileOf(written')
  BY <1>1, <1>3, <1>4
<1>6. Types'
  BY <1>1, <1>2, <1>3 DEF Types
<1>7. Writing'
  BY <1>1, <1>2, <1>5 DEF Writing
<1> QED
  BY <1>1, <1>6, <1>7, BufferKeeps

LEMMA FlushDoneKeeps ==
  ASSUME IInv, FlushDone
  PROVE  IInv'
<1>1. /\ op = "flush" /\ out = <<>> /\ op' = "write" /\ flushed' = Len(written)
      /\ out' = out /\ buffer' = buffer
      /\ disk' = disk /\ fields' = fields /\ mOffset' = mOffset /\ found' = found
      /\ written' = written /\ decayed' = decayed
  BY DEF FlushDone, writeVars
<1>2. Types /\ Writing
  BY DEF IInv
<1>3. buffer = <<>> /\ fields = <<>> /\ disk \in Seq(Byte)
  BY <1>1, <1>2 DEF Types, Writing
<1>4. disk = FileOf(written)
  <2>1. ((disk \o <<>>) \o <<>>) \o FlattenSeq(<<>>) = FileOf(written)
    BY <1>1, <1>2, <1>3 DEF Writing
  <2>2. disk \o <<>> = disk
    BY <1>3, ConcatEmptySeq
  <2> QED
    BY <2>1, <2>2, FlattenSeqEmpty
<1>5. Types'
  <2>1. Len(written) \in 0..Len(written)
    BY <1>2, LenProperties DEF Types
  <2> QED
    BY <1>1, <1>2, <2>1 DEF Types
<1>6. Writing'
  BY <1>1, <1>2 DEF Writing
<1> QED
  BY <1>1, <1>4, <1>5, <1>6, BufferKeeps

LEMMA WriteToFileKeeps ==
  ASSUME IInv, WriteToFile
  PROVE  IInv'
<1>1. /\ op \in {"write", "flush"} /\ out # <<>>
      /\ op' = op /\ buffer' = buffer /\ fields' = fields /\ mOffset' = mOffset /\ found' = found
      /\ written' = written /\ flushed' = flushed /\ decayed' = decayed
  BY DEF WriteToFile, histVars
<1>2. PICK n \in 1..Len(out) : /\ disk' = disk \o SubSeq(out, 1, n)
                               /\ out' = SubSeq(out, n + 1, Len(out))
  BY DEF WriteToFile
<1>3. Types /\ Writing /\ OnDisk
  BY DEF IInv
<1>4. /\ disk \in Seq(Byte) /\ buffer \in Seq(Byte) /\ out \in Seq(Byte)
      /\ fields \in Seq(Seq(Byte)) /\ FlattenSeq(fields) \in Seq(Byte)
      /\ written \in Seq(LogRecord) /\ Len(written) \in Nat /\ flushed \in 0..Len(written)
      /\ decayed = 0 /\ found = <<>>
      /\ ((disk \o out) \o buffer) \o FlattenSeq(fields) = FileOf(written)
  <2>1. /\ disk \in Seq(Byte) /\ buffer \in Seq(Byte) /\ out \in Seq(Byte)
        /\ fields \in Seq(Seq(Byte)) /\ written \in Seq(LogRecord) /\ flushed \in 0..Len(written)
    BY <1>3, Zenon DEF Types
  <2>2. FlattenSeq(fields) \in Seq(Byte)
    BY <2>1, FlattenSeqType, Zenon
  <2>3. Len(written) \in Nat
    BY ONLY <2>1
  <2>4. decayed = 0 /\ disk \o out \o buffer \o FlattenSeq(fields) = FileOf(written)
    BY <1>1, <1>3, Zenon DEF Writing
  <2>5. found = <<>>
    BY <1>1, <1>3 DEF Writing
  <2> QED
    BY <2>1, <2>2, <2>3, <2>4, <2>5, Zenon
<1> DEFINE p == SubSeq(out, 1, n)
           q == SubSeq(out, n + 1, Len(out))
<1>5. p \in Seq(Byte) /\ q \in Seq(Byte) /\ out = p \o q
  <2>1. p \in Seq(Byte) /\ q \in Seq(Byte) /\ Len(p) = n /\ Len(q) = Len(out) - n
    BY <1>4
  <2>2. p \o q \in Seq(Byte) /\ Len(p \o q) = Len(out)
    BY <1>4, <2>1
  <2>3. ASSUME NEW i \in 1..Len(out) PROVE (p \o q)[i] = out[i]
    BY <1>4
  <2> HIDE DEF p, q
  <2> QED
    BY <1>4, <2>1, <2>2, <2>3, SeqEqual
<1> HIDE DEF p, q
<1>6. (disk \o p) \o q = disk \o out
  <2>1. Regroups(disk, p, q)
    BY <1>4, <1>5, ConcatRegroups, Zenon
  <2> QED
    BY <1>5, <2>1, Zenon DEF Regroups
<1>7. disk' = disk \o p /\ out' = q
  BY <1>2 DEF p, q
<1>8. ((disk' \o out') \o buffer') \o FlattenSeq(fields') = FileOf(written')
  BY <1>1, <1>4, <1>6, <1>7
<1>9. disk' \in Seq(Byte) /\ Len(disk') = Len(disk) + Len(p) /\ Len(disk) \in Nat /\ Len(p) \in Nat
  BY <1>4, <1>5, <1>7, BytesConcat, LenProperties
<1>10. Types'
  BY <1>1, <1>3, <1>5, <1>7, <1>9 DEF Types
<1>11. Writing'
  BY <1>1, <1>3, <1>8 DEF Writing
<1>12. OnDisk'
  <2>1. /\ disk' \o q \in Seq(Byte) /\ (disk' \o q) \o buffer \in Seq(Byte)
        /\ ((disk' \o q) \o buffer) \o FlattenSeq(fields) \in Seq(Byte)
    BY <1>4, <1>5, <1>9, BytesConcat
  <2> DEFINE x == disk' \o q
             y == x \o buffer
             z == y \o FlattenSeq(fields)
  <2>2. z = FileOf(written')
    BY <1>1, <1>7, <1>8
  <2>3. Holds(x, 0, disk')
    BY <1>5, <1>9, HoldsConcat
  <2>4. Holds(y, 0, x)
    BY <1>4, <2>1, HoldsConcat
  <2>5. Holds(z, 0, y)
    BY <1>4, <2>1, HoldsConcat
  <2>6. x \in Seq(Byte) /\ y \in Seq(Byte) /\ z \in Seq(Byte) /\ 0 \in Nat /\ 0 + 0 = 0
    BY <2>1
  <2> HIDE DEF x, y, z
  <2>7. Holds(z, 0 + 0, x)
    BY <2>4, <2>5, <2>6, HoldsWithin
  <2>8. Holds(z, 0 + 0, disk')
    BY <1>9, <2>3, <2>6, <2>7, HoldsWithin
  <2>9. /\ 0 + Len(disk') <= Len(FileOf(written'))
        /\ \A j \in 1..Len(disk') : FileOf(written')[0 + j] = disk'[j]
    BY <2>2, <2>6, <2>8 DEF Holds
  <2>10. /\ Len(disk') <= Len(FileOf(written'))
         /\ \A j \in 1..Len(disk') : disk'[j] = FileOf(written')[j]
    BY <1>9, <2>9
  <2>11. flushed' > 0 => Len(Upto(flushed)') <= Len(disk')
    <3>1. Upto(flushed)' = Upto(flushed)
      BY <1>1 DEF Upto
    <3>2. Len(Upto(flushed)) \in Nat
      BY <1>4, FirstIs DEF Upto, First
    <3> QED
      BY <1>1, <1>3, <1>4, <1>9, <3>1, <3>2 DEF OnDisk
  <2> QED
    BY <2>10, <2>11 DEF OnDisk
<1>13. Reading' /\ Decayed'
  <2>1. 0 \in 0..Len(written') /\ SubSeq(written', 1, 0) = <<>>
    BY <1>1, <1>4
  <2> QED
    BY <1>1, <1>4, <2>1 DEF Reading, Decayed
<1> QED
  BY <1>10, <1>11, <1>12, <1>13 DEF IInv

LEMMA CrashKeeps ==
  ASSUME IInv, Crash
  PROVE  IInv'
<1>1. /\ op' = "down" /\ out' = <<>> /\ buffer' = <<>> /\ fields' = <<>>
      /\ mOffset' = 0 /\ found' = <<>> /\ disk' = disk
      /\ written' = written /\ flushed' = flushed /\ decayed' = decayed
  BY DEF Crash, histVars
<1>2. Types /\ OnDisk
  BY DEF IInv
<1>3. written \in Seq(LogRecord) /\ Len(written) \in Nat /\ decayed \in 0..Len(written)
  BY <1>2 DEF Types
<1>4. Types'
  <2>1. <<>> \in Seq(Byte) /\ <<>> \in Seq(Seq(Byte))
    OBVIOUS
  <2> QED
    BY <1>1, <1>2, <2>1 DEF Types
<1>5. Writing'
  BY <1>1 DEF Writing
<1>6. OnDisk'
  BY <1>1, <1>2 DEF OnDisk, Decays, Starts, Upto
<1>7. Reading'
  <2>1. 0 \in 0..Len(written') /\ SubSeq(written', 1, 0) = <<>>
    BY <1>1, <1>3
  <2> QED
    BY <1>1, <2>1 DEF Reading
<1>8. Decayed'
  <2>1. ASSUME LengthsStay, decayed # 0 PROVE disk' = Upto(decayed - 1)' \/ OneIsBad'
    <3>1. disk = Upto(decayed - 1) \/ OneIsBad
      BY <2>1 DEF IInv, Decayed
    <3> QED
      BY <1>1, <3>1 DEF Upto, OneIsBad, Decays, Starts
  <2>2. decayed # 0 => Len(found') <= decayed - 1
    <3>1. Len(found') = 0
      BY <1>1
    <3> QED
      BY <1>3, <3>1
  <2> QED
    BY <1>1, <2>1, <2>2 DEF Decayed, LengthsStay
<1> QED
  BY <1>4, <1>5, <1>6, <1>7, <1>8 DEF IInv

LEMMA DecayKeeps ==
  ASSUME IInv, Decay
  PROVE  IInv'
<1>1. /\ op = "down" /\ decayed = 0 /\ op' = op
      /\ out' = out /\ buffer' = buffer /\ fields' = fields
      /\ mOffset' = mOffset /\ found' = found /\ written' = written /\ flushed' = flushed
  BY DEF Decay, writeVars
<1>2. Types /\ Writing /\ OnDisk
  BY DEF IInv
<1>3. /\ written \in Seq(LogRecord) /\ Len(written) \in Nat /\ found = <<>>
      /\ disk \in Seq(Byte) /\ Len(disk) \in Nat
  BY <1>1, <1>2 DEF Types, Writing
<1>4. PICK i \in 1..Len(written), n \in DecayAt :
        /\ Starts(i) + n <= Min({Starts(i + 1), Len(disk)})
        /\ disk' = [disk EXCEPT ![Starts(i) + n] = (@ + 1) % 256]
        /\ decayed' = i
  BY DEF Decay
<1>5. PICK at \in 1..Len(disk) :
        at = Starts(i) + n /\ at <= Starts(i + 1) /\ at - Starts(i) = n /\ i # 0
  <2> DEFINE a == Starts(i) + n
  <2>1. Starts(i) \in Nat /\ Starts(i + 1) \in Nat
    <3>1. Starts(i) \in Nat /\ Starts(i + 1) = Len(First(written, i)) /\ i \in 0..Len(written)
      BY <1>3, StartsIs
    <3> QED
      BY <1>3, <3>1, FileParts
  <2>2. n \in Nat /\ n > 0
    BY LogFileAssumption
  <2>3. a <= Starts(i + 1) /\ a <= Len(disk)
    <3>1. Starts(i + 1) \in Int /\ Len(disk) \in Int
      BY <1>3, <2>1
    <3>2. Min({Starts(i + 1), Len(disk)})
            = IF Starts(i + 1) <= Len(disk) THEN Starts(i + 1) ELSE Len(disk)
      BY <3>1, MinOfTwo
    <3>3. a <= IF Starts(i + 1) <= Len(disk) THEN Starts(i + 1) ELSE Len(disk)
      BY <1>4, <3>2, Zenon
    <3>4. a \in Nat
      BY <2>1, <2>2
    <3> HIDE DEF a
    <3> QED
      BY <1>3, <2>1, <3>3, <3>4
  <2>4. a \in 1..Len(disk) /\ a - Starts(i) = n
    BY <1>3, <2>1, <2>2, <2>3
  <2> QED
    BY <2>3, <2>4
<1>6. disk' = [disk EXCEPT ![at] = (disk[at] + 1) % 256]
  BY <1>4, <1>5
<1>7. disk[at] \in Byte /\ (disk[at] + 1) % 256 \in Byte /\ (disk[at] + 1) % 256 # disk[at]
  <2>1. disk[at] \in Byte
    BY <1>3, <1>5
  <2>2. \A x \in 0..255 : (x + 1) % 256 \in 0..255 /\ (x + 1) % 256 # x
    OBVIOUS
  <2> QED
    BY <2>1, <2>2 DEF Byte
<1>8. /\ disk' \in Seq(Byte) /\ Len(disk') = Len(disk) /\ disk'[at] # disk[at]
      /\ \A j \in 1..Len(disk) : j # at => disk'[j] = disk[j]
  <2> DEFINE x == (disk[at] + 1) % 256
  <2>1. x \in Byte /\ x # disk[at]
    BY <1>7
  <2> HIDE DEF x
  <2>2. disk' = [disk EXCEPT ![at] = x]
    BY <1>6 DEF x
  <2> QED
    BY <1>3, <1>5, <2>1, <2>2
<1>9. \A j \in 1..Len(disk) : disk[j] = FileOf(written)[j]
  BY <1>1, <1>2 DEF OnDisk, Decays
<1>10. Decays(at)'
  BY <1>1, <1>4, <1>5 DEF Decays, Starts
<1>11. Types'
  BY <1>1, <1>2, <1>4, <1>8 DEF Types
<1>12. Writing'
  BY <1>1, <1>3 DEF Writing
<1>13. OnDisk'
  <2>1. Len(disk') <= Len(FileOf(written'))
    BY <1>1, <1>2, <1>8 DEF OnDisk
  <2>2. ASSUME NEW j \in 1..Len(disk') PROVE disk'[j] = FileOf(written')[j] \/ Decays(j)'
    BY <1>1, <1>8, <1>9, <1>10
  <2> QED
    BY <1>4, <1>5, <2>1, <2>2 DEF OnDisk
<1>14. Reading'
  <2>1. 0 \in 0..Len(written') /\ SubSeq(written', 1, 0) = <<>>
    BY <1>1, <1>3
  <2> QED
    BY <1>1, <1>3, <2>1 DEF Reading
<1>15. Decayed'
  <2>1. OneIsBad'
    <3>1. at \in 1..Len(disk') /\ disk'[at] # FileOf(written')[at]
      BY <1>1, <1>5, <1>8, <1>9
    <3>2. \A j \in 1..Len(disk') : j # at => disk'[j] = FileOf(written')[j]
      BY <1>1, <1>8, <1>9
    <3> QED
      BY <1>10, <3>1, <3>2 DEF OneIsBad
  <2>2. Len(found') <= decayed' - 1
    <3>1. Len(found') = 0
      BY <1>1, <1>3
    <3> QED
      BY <1>3, <1>4, <3>1
  <2> QED
    BY <1>1, <2>1, <2>2 DEF Decayed
<1> QED
  BY <1>11, <1>12, <1>13, <1>14, <1>15 DEF IInv

LEMMA OpenFileKeeps ==
  ASSUME IInv, OpenFile
  PROVE  IInv'
<1>1. /\ op = "down" /\ op' = IF ValidHeader THEN "read" ELSE "left"
      /\ mOffset' = HeaderLength /\ disk' = disk
      /\ out' = out /\ buffer' = buffer /\ fields' = fields /\ found' = found
      /\ written' = written /\ flushed' = flushed /\ decayed' = decayed
  BY DEF OpenFile, writeVars, histVars
<1>2. Types /\ Writing /\ OnDisk /\ Decayed
  BY DEF IInv
<1>3. /\ written \in Seq(LogRecord) /\ Len(written) \in Nat /\ found = <<>>
      /\ disk \in Seq(Byte) /\ Len(disk) \in Nat /\ decayed \in 0..Len(written)
      /\ flushed \in 0..Len(written) /\ 0 \in 0..Len(written)
  BY <1>1, <1>2 DEF Types, Writing
<1>4. op' = "read" => Len(disk) >= HeaderLength
  BY <1>1 DEF ValidHeader
<1>5. op' = "left" => Len(disk) < HeaderLength
  <2>1. op' = "left" => ~ValidHeader
    BY <1>1
  <2> QED
    BY <1>2, <1>3, <2>1, HeaderRead DEF HeaderLength
<1>6. Types'
  BY <1>1, <1>2 DEF Types, HeaderLength
<1>7. Writing'
  BY <1>1, <1>3 DEF Writing
<1>8. OnDisk'
  BY <1>1, <1>2 DEF OnDisk, Decays, Starts, Upto
<1>9. SubSeq(written', 1, 0) = <<>> /\ Len(Upto(0)') = HeaderLength
  <2>1. SubSeq(written, 1, 0) = <<>> /\ First(written, 0) = Header
    BY <1>3, FirstIs
  <2>2. Len(First(written, 0)) = 8
    BY <2>1, HeaderIs
  <2> QED
    BY <1>1, <2>1, <2>2 DEF Upto, First, HeaderLength
<1>10. op' = "left" /\ decayed = 0 => flushed = 0
  <2>1. ASSUME op' = "left", decayed = 0, flushed > 0 PROVE FALSE
    <3>1. Len(Upto(flushed)) <= Len(disk)
      BY <1>2, <2>1 DEF OnDisk
    <3>2. Len(Upto(flushed)) >= 8 /\ Len(Upto(flushed)) \in Nat
      BY <1>3, FileParts DEF Upto, First
    <3> QED
      BY <1>3, <1>5, <2>1, <3>1, <3>2 DEF HeaderLength
  <2> QED
    BY <1>3, <2>1
<1>11. Reading'
  BY <1>1, <1>3, <1>4, <1>5, <1>9, <1>10 DEF Reading
<1>12. Decayed'
  <2>1. ASSUME LengthsStay, decayed # 0 PROVE op' # "left"
    <3>1. decayed \in 1..Len(written) /\ decayed - 1 \in 0..Len(written)
      BY <1>3, <2>1
    <3>2. disk = Upto(decayed - 1) \/ OneIsBad
      BY <1>2, <2>1 DEF Decayed
    <3>3. CASE disk = Upto(decayed - 1)
      <4>1. Len(disk) >= 8
        BY <1>3, <3>1, <3>3, FileParts DEF Upto, First
      <4> QED
        BY <1>3, <1>5, <4>1 DEF HeaderLength
    <3>4. CASE OneIsBad
      <4>1. PICK j \in 1..Len(disk) : Decays(j)
        BY <3>4 DEF OneIsBad
      <4>2. Starts(decayed) < j /\ Starts(decayed) \in Nat /\ Starts(decayed) >= 8
        BY <1>2, <1>3, <3>1, <4>1, DecaysWhere, StartsIs
      <4>3. Len(disk) >= 8
        BY <1>3, <4>1, <4>2
      <4> QED
        BY <1>3, <1>5, <4>3 DEF HeaderLength
    <3> QED
      BY <3>2, <3>3, <3>4
  <2>2. ASSUME LengthsStay, decayed # 0
        PROVE  (disk' = Upto(decayed - 1)' \/ OneIsBad') /\ Len(found) <= decayed - 1
    <3>1. (disk = Upto(decayed - 1) \/ OneIsBad) /\ Len(found) <= decayed - 1
      BY <1>2, <2>2 DEF Decayed
    <3> QED
      BY <1>1, <3>1 DEF Upto, OneIsBad, Decays, Starts
  <2> QED
    BY <1>1, <2>1, <2>2 DEF Decayed, LengthsStay
<1> QED
  BY <1>6, <1>7, <1>8, <1>11, <1>12 DEF IInv

LEMMA mBodyLengthType ==
  ASSUME disk \in Seq(Byte), mOffset \in Nat, mOffset + RecordHeaderLength <= Len(disk)
  PROVE  mBodyLength \in Nat
<1> DEFINE f == SubSeq(disk, mOffset + 1, mOffset + 4)
<1>1. Len(disk) \in Nat /\ mOffset + 16 <= Len(disk)
  BY DEF RecordHeaderLength
<1>2. f \in Seq(Byte) /\ Len(f) = 4
  BY <1>1
<1>3. Field(1) = f
  <2>1. mOffset + 4 * 1 - 3 = mOffset + 1 /\ mOffset + 4 * 1 = mOffset + 4
    OBVIOUS
  <2> QED
    BY <2>1, Zenon DEF Field
<1> HIDE DEF f
<1>4. f[1] \in Nat /\ f[2] \in Nat /\ f[3] \in Nat /\ f[4] \in Nat
  <2>1. \A x \in Seq(Byte) : \A h \in 1..Len(x) : x[h] \in Byte
    OBVIOUS
  <2>2. \A h \in 1..Len(f) : f[h] \in Byte
    BY <1>2, <2>1, Zenon
  <2>3. \A b \in Byte : b \in Nat
    BY DEF Byte
  <2>4. 1 \in 1..Len(f) /\ 2 \in 1..Len(f) /\ 3 \in 1..Len(f) /\ 4 \in 1..Len(f)
    BY <1>2
  <2> QED
    BY <2>2, <2>3, <2>4, Zenon
<1>5. ntohl(f) \in Nat
  <2>1. 256^3 \in Nat /\ 256^2 \in Nat
    BY SMT
  <2> DEFINE p3 == 256^3
             p2 == 256^2
  <2>2. p3 \in Nat /\ p2 \in Nat
    BY <2>1
  <2>3. ntohl(f) = f[1] * p3 + f[2] * p2 + f[3] * 256 + f[4]
    BY DEF ntohl
  <2> HIDE DEF p3, p2
  <2>4. \A x, y \in Nat : x * y \in Nat
    OBVIOUS
  <2>5. f[1] * p3 \in Nat /\ f[2] * p2 \in Nat /\ f[3] * 256 \in Nat
    <3>1. 256 \in Nat
      OBVIOUS
    <3> QED
      BY ONLY <1>4, <2>2, <2>4, <3>1, Zenon
  <2> DEFINE a == f[1] * p3
             b == f[2] * p2
             c == f[3] * 256
  <2>6. a \in Nat /\ b \in Nat /\ c \in Nat /\ ntohl(f) = a + b + c + f[4]
    BY <2>3, <2>5
  <2> HIDE DEF a, b, c
  <2> QED
    BY <1>4, <2>6
<1> QED
  BY <1>3, <1>5 DEF mBodyLength

\* The reader with k records, standing behind the k-th.
Stands(k) ==
  /\ found = SubSeq(written, 1, k) /\ Len(found) = k
  /\ mOffset = Len(First(written, k)) /\ mOffset <= Len(disk)
  /\ decayed # 0 => k < decayed

LEMMA ReaderStands ==
  ASSUME IInv, op = "read", decayed = 0 \/ LengthsStay
  PROVE  \E k \in 0..Len(written) : Stands(k)
<1>1. written \in Seq(LogRecord) /\ Len(written) \in Nat /\ decayed \in 0..Len(written)
  BY DEF IInv, Types
<1>2. PICK k \in 0..Len(written) : found = SubSeq(written, 1, k) /\ mOffset = Len(First(written, k))
  BY DEF IInv, Reading, Upto, First
<1>3. Len(found) = k
  BY <1>1, <1>2, FirstIs
<1>4. decayed # 0 => k < decayed
  BY <1>1, <1>3 DEF IInv, Decayed
<1> QED
  BY <1>2, <1>3, <1>4 DEF Stands, IInv, Reading

LEMMA ReadKeeps ==
  ASSUME IInv, ReadFromFile
  PROVE  IInv'
<1>1. /\ op = "read" /\ ~HitsTheEnd /\ CrcMatches /\ Decode(Body).ok
      /\ found' = Append(found, NextRecord)
      /\ mOffset' = mOffset + RecordHeaderLength + mBodyLength
      /\ op' = op /\ disk' = disk /\ out' = out /\ buffer' = buffer /\ fields' = fields
      /\ written' = written /\ flushed' = flushed /\ decayed' = decayed
  BY DEF ReadFromFile, writeVars, histVars
<1>2. Types /\ OnDisk
  BY DEF IInv
<1>3. /\ written \in Seq(LogRecord) /\ Len(written) \in Nat /\ disk \in Seq(Byte)
      /\ Len(disk) \in Nat /\ mOffset \in Nat /\ decayed \in 0..Len(written)
  BY <1>2 DEF Types
<1>4. mOffset' \in Nat /\ mOffset' <= Len(disk)
  <2>1. mOffset + RecordHeaderLength <= Len(disk)
        /\ mOffset + RecordHeaderLength + mBodyLength <= Len(disk)
    BY <1>1 DEF HitsTheEnd
  <2>2. mBodyLength \in Nat
    BY <1>3, <2>1, mBodyLengthType
  <2> QED
    BY <1>1, <1>3, <2>1, <2>2 DEF RecordHeaderLength
<1>5. Types'
  BY <1>1, <1>2, <1>4 DEF Types
<1>6. Writing'
  BY <1>1 DEF Writing
<1>7. OnDisk'
  BY <1>1, <1>2 DEF OnDisk, Decays, Starts, Upto
<1>8. ASSUME decayed = 0 \/ LengthsStay
      PROVE  \E k \in 0..Len(written) : /\ found' = SubSeq(written, 1, k) /\ Len(found') = k
                                        /\ mOffset' = Len(First(written, k))
                                        /\ decayed # 0 => k < decayed
  <2>1. PICK k \in 0..Len(written) : Stands(k)
    BY <1>1, <1>8, ReaderStands
  <2>2. Next1(k)
    BY <1>1, <1>8, <2>1, NextIsWhole DEF Stands
  <2>3. decayed = 0 \/ k + 1 < decayed
    <3>1. decayed # 0 => k + 1 # decayed
      BY <1>1, <1>8, <2>1, <2>2, DecayedIsNotTaken DEF Stands
    <3> QED
      BY <1>3, <2>1, <3>1 DEF Stands
  <2>4. /\ NextRecord = written[k + 1]
        /\ mOffset + RecordHeaderLength + mBodyLength = Len(First(written, k + 1))
    BY <1>1, <2>1, <2>2, <2>3, NextIsTaken DEF Stands
  <2>5. k < Len(written) /\ k + 1 \in 0..Len(written)
    BY <1>3, <2>2 DEF Next1
  <2>6. SubSeq(written, 1, k + 1) = Append(SubSeq(written, 1, k), written[k + 1])
        /\ Len(SubSeq(written, 1, k + 1)) = k + 1
    BY <1>3, <2>5, FirstIs
  <2>7. found' = SubSeq(written, 1, k + 1)
    BY <1>1, <2>1, <2>4, <2>6 DEF Stands
  <2> QED
    BY <1>1, <2>3, <2>4, <2>5, <2>6, <2>7
<1>9. Reading'
  BY <1>1, <1>4, <1>8 DEF Reading, Upto, First, LengthsStay
<1>10. Decayed'
  <2>1. ASSUME LengthsStay, decayed # 0 PROVE disk' = Upto(decayed - 1)' \/ OneIsBad'
    <3>1. disk = Upto(decayed - 1) \/ OneIsBad
      BY <2>1 DEF IInv, Decayed
    <3> QED
      BY <1>1, <3>1 DEF Upto, OneIsBad, Decays, Starts
  <2>2. ASSUME LengthsStay, decayed # 0 PROVE Len(found') <= decayed - 1
    BY <1>3, <1>8, <2>2
  <2> QED
    BY <1>1, <2>1, <2>2 DEF Decayed, LengthsStay
<1> QED
  BY <1>5, <1>6, <1>7, <1>9, <1>10 DEF IInv

\* Where the reader stops, all that is whole and did not decay has been read.
LEMMA StopsBehind ==
  ASSUME IInv, op = "read", HitsTheEnd \/ ~CrcMatches \/ ~Decode(Body).ok,
         NEW k \in 0..Len(written), Stands(k)
  PROVE  /\ decayed = 0 => k >= flushed
         /\ LengthsStay /\ decayed # 0 => k = decayed - 1
<1>1. /\ written \in Seq(LogRecord) /\ Len(written) \in Nat /\ disk \in Seq(Byte)
      /\ Len(disk) \in Nat /\ decayed \in 0..Len(written) /\ flushed \in 0..Len(written)
      /\ Types /\ OnDisk /\ k \in Nat
  BY DEF IInv, Types
<1>2. ASSUME NEW m \in 0..Len(written), k < m, Len(First(written, m)) <= Len(disk)
      PROVE  Next1(k)
  <2>1. k < Len(written) /\ k + 1 \in 0..Len(written) /\ m \in (k + 1)..Len(written)
    BY <1>1, <1>2
  <2>2. Len(First(written, k + 1)) <= Len(First(written, m))
        /\ Len(First(written, k + 1)) \in Nat /\ Len(First(written, m)) \in Nat
    BY <1>1, <2>1, FileParts
  <2>3. written[k + 1] \in LogRecord
    BY <1>1, <2>1, FirstIs
  <2> QED
    BY <1>1, <1>2, <2>1, <2>2, <2>3 DEF Next1
<1>3. ~(Next1(k) /\ (decayed = 0 \/ k + 1 < decayed))
  BY NextIsTaken DEF Stands
<1>4. ASSUME decayed = 0 PROVE k >= flushed
  <2>1. ASSUME k < flushed PROVE FALSE
    <3>1. Len(First(written, flushed)) <= Len(disk)
      BY <1>1, <1>4, <2>1 DEF OnDisk, Upto, First
    <3> QED
      BY <1>1, <1>2, <1>3, <1>4, <2>1, <3>1
  <2> QED
    BY <1>1, <2>1
<1>5. ASSUME LengthsStay, decayed # 0 PROVE k = decayed - 1
  <2>1. k < decayed /\ decayed \in 1..Len(written) /\ decayed - 1 \in 0..Len(written)
    BY <1>1, <1>5 DEF Stands
  <2>2. ASSUME k < decayed - 1 PROVE FALSE
    <3>1. Len(First(written, decayed - 1)) <= Len(disk)
      <4>1. disk = First(written, decayed - 1) \/ OneIsBad
        BY <1>5 DEF IInv, Decayed, Upto, First
      <4>2. CASE OneIsBad
        <5>1. PICK j \in 1..Len(disk) : Decays(j)
          BY <4>2 DEF OneIsBad
        <5>2. Starts(decayed) < j /\ Starts(decayed) = Len(First(written, decayed - 1))
              /\ Starts(decayed) \in Nat
          BY <1>1, <2>1, <5>1, DecaysWhere, StartsIs
        <5> QED
          BY <1>1, <5>1, <5>2
      <4>3. CASE disk = First(written, decayed - 1)
        BY <1>1, <4>3
      <4> QED
        BY <4>1, <4>2, <4>3
    <3>2. k + 1 < decayed
      BY <1>1, <2>1, <2>2
    <3> QED
      BY <1>2, <1>3, <2>1, <2>2, <3>1, <3>2
  <2> QED
    BY <1>1, <2>1, <2>2
<1> QED
  BY <1>4, <1>5

LEMMA GiveUpKeeps ==
  ASSUME IInv, GiveUp
  PROVE  IInv'
<1>1. /\ op = "read" /\ ~HitsTheEnd /\ ~(CrcMatches /\ Decode(Body).ok) /\ op' = "left"
      /\ disk' = disk /\ out' = out /\ buffer' = buffer /\ fields' = fields
      /\ mOffset' = mOffset /\ found' = found
      /\ written' = written /\ flushed' = flushed /\ decayed' = decayed
  BY DEF GiveUp, writeVars, histVars
<1>2. Types /\ OnDisk
  BY DEF IInv
<1>3. /\ written \in Seq(LogRecord) /\ Len(written) \in Nat /\ decayed \in 0..Len(written)
  BY <1>2 DEF Types
<1>4. Types'
  BY <1>1, <1>2 DEF Types
<1>5. Writing'
  BY <1>1 DEF Writing
<1>6. OnDisk'
  BY <1>1, <1>2 DEF OnDisk, Decays, Starts, Upto
<1>7. decayed # 0
  <2>1. ASSUME decayed = 0 PROVE FALSE
    <3>1. PICK k \in 0..Len(written) : Stands(k)
      BY <1>1, <2>1, ReaderStands
    <3>2. Next1(k)
      BY <1>1, <2>1, <3>1, NextIsWhole DEF Stands
    <3> QED
      BY <1>1, <2>1, <3>1, <3>2, NextIsTaken DEF Stands
  <2> QED
    BY <2>1
<1>8. Reading'
  <2>1. LengthsStay => \E k \in 0..Len(written) : found = SubSeq(written, 1, k)
    BY DEF IInv, Reading
  <2> QED
    BY <1>1, <1>7, <2>1 DEF Reading, LengthsStay
<1>9. Decayed'
  <2>1. ASSUME LengthsStay PROVE Len(found) = decayed - 1
    <3>1. PICK k \in 0..Len(written) : Stands(k)
      BY <1>1, <2>1, ReaderStands
    <3> QED
      BY <1>1, <1>7, <2>1, <3>1, StopsBehind DEF Stands
  <2>2. ASSUME LengthsStay PROVE disk' = Upto(decayed - 1)' \/ OneIsBad'
    <3>1. disk = Upto(decayed - 1) \/ OneIsBad
      BY <1>7, <2>2 DEF IInv, Decayed
    <3> QED
      BY <1>1, <3>1 DEF Upto, OneIsBad, Decays, Starts
  <2>3. decayed - 1 <= decayed - 1
    BY <1>3
  <2> QED
    BY <1>1, <2>1, <2>2, <2>3 DEF Decayed, LengthsStay
<1> QED
  BY <1>4, <1>5, <1>6, <1>8, <1>9 DEF IInv

LEMMA TruncateKeeps ==
  ASSUME IInv, Truncate
  PROVE  IInv'
<1>1. /\ op = "read" /\ HitsTheEnd /\ op' = "left" /\ disk' = SubSeq(disk, 1, mOffset)
      /\ out' = out /\ buffer' = buffer /\ fields' = fields
      /\ mOffset' = mOffset /\ found' = found
      /\ written' = written /\ flushed' = flushed /\ decayed' = decayed
  BY DEF Truncate, CutAtStart, writeVars, histVars
<1>2. Types /\ OnDisk /\ Reading
  BY DEF IInv
<1>3. /\ written \in Seq(LogRecord) /\ Len(written) \in Nat /\ decayed \in 0..Len(written)
      /\ disk \in Seq(Byte) /\ Len(disk) \in Nat /\ mOffset \in Nat /\ mOffset <= Len(disk)
      /\ flushed \in 0..Len(written)
  BY <1>1, <1>2 DEF Types, Reading
<1>4. /\ disk' \in Seq(Byte) /\ Len(disk') = mOffset
      /\ \A j \in 1..mOffset : disk'[j] = disk[j] /\ j \in 1..Len(disk)
  BY <1>1, <1>3
<1>5. Types'
  BY <1>1, <1>2, <1>4 DEF Types
<1>6. Writing'
  BY <1>1 DEF Writing
<1>7. ASSUME decayed = 0 \/ LengthsStay
      PROVE  \E k \in 0..Len(written) :
               /\ found = SubSeq(written, 1, k) /\ Len(found) = k
               /\ mOffset = Len(First(written, k)) /\ disk' = First(written, k)
               /\ decayed = 0 => k >= flushed
               /\ decayed # 0 => k = decayed - 1
  <2>1. PICK k \in 0..Len(written) : Stands(k)
    BY <1>1, <1>7, ReaderStands
  <2>2. /\ found = SubSeq(written, 1, k) /\ Len(found) = k
        /\ mOffset = Len(First(written, k)) /\ (decayed # 0 => k < decayed)
    BY <2>1 DEF Stands
  <2>3. (decayed = 0 => k >= flushed) /\ (decayed # 0 => k = decayed - 1)
    BY <1>1, <1>7, <2>1, StopsBehind
  <2>4. First(written, k) \in Seq(Byte)
    BY <1>3, FileParts
  <2>5. ASSUME NEW j \in 1..mOffset PROVE disk'[j] = First(written, k)[j]
    <3>1. disk'[j] = disk[j] /\ j \in 1..Len(disk) /\ j <= Len(First(written, k))
      BY <1>3, <1>4, <2>2
    <3>2. disk[j] = First(written, k)[j]
      BY <1>2, <2>2, <3>1, Untouched
    <3> QED
      BY <3>1, <3>2
  <2>6. disk' = First(written, k)
    BY <1>4, <2>2, <2>4, <2>5, SeqEqual
  <2> QED
    BY <2>2, <2>3, <2>6
<1>8. OnDisk'
  <2>1. Len(disk') <= Len(FileOf(written'))
    <3>1. Len(FileOf(written)) \in Nat /\ Len(disk) <= Len(FileOf(written))
      <4>1. 0 \in 0..Len(written)
        BY <1>3
      <4> QED
        BY <1>2, <1>3, <4>1, FileParts DEF OnDisk
    <3> QED
      BY <1>1, <1>3, <1>4, <3>1
  <2>2. ASSUME NEW j \in 1..Len(disk') PROVE disk'[j] = FileOf(written')[j] \/ Decays(j)'
    <3>1. disk'[j] = disk[j] /\ j \in 1..Len(disk)
      BY <1>4
    <3>2. disk[j] = FileOf(written)[j] \/ Decays(j)
      BY <1>2, <3>1 DEF OnDisk
    <3> QED
      BY <1>1, <3>1, <3>2 DEF Decays, Starts
  <2>3. ASSUME flushed > 0, decayed = 0 PROVE Len(Upto(flushed)') <= Len(disk')
    <3>1. PICK k \in 0..Len(written) : k >= flushed /\ disk' = First(written, k)
      BY <1>7, <2>3
    <3>2. k \in flushed..Len(written)
      BY <1>3, <3>1
    <3>3. Len(First(written, flushed)) <= Len(First(written, k))
      BY <1>3, <3>2, FileParts
    <3> QED
      BY <1>1, <3>1, <3>3 DEF Upto, First
  <2> QED
    BY <1>1, <2>1, <2>2, <2>3 DEF OnDisk
<1>9. Reading'
  <2>1. decayed = 0 => disk' = FileOf(found')
    <3>1. ASSUME decayed = 0 PROVE disk' = FileOf(found')
      <4>1. PICK k \in 0..Len(written) : found = SubSeq(written, 1, k) /\ disk' = First(written, k)
        BY <1>7, <3>1
      <4> QED
        BY <1>1, <4>1 DEF First
    <3> QED
      BY <3>1
  <2>2. decayed = 0 \/ LengthsStay =>
          \E k \in 0..Len(written) : found = SubSeq(written, 1, k) /\ (decayed = 0 => k >= flushed)
    BY <1>7
  <2> QED
    BY <1>1, <2>1, <2>2 DEF Reading, LengthsStay
<1>10. Decayed'
  <2>1. ASSUME LengthsStay, decayed # 0 PROVE disk' = Upto(decayed - 1)' /\ Len(found') = decayed - 1
    <3>1. PICK k \in 0..Len(written) : Len(found) = k /\ disk' = First(written, k) /\ k = decayed - 1
      BY <1>7, <2>1
    <3> QED
      BY <1>1, <3>1 DEF Upto, First
  <2>2. decayed - 1 <= decayed - 1
    BY <1>3
  <2> QED
    BY <1>1, <2>1, <2>2 DEF Decayed, LengthsStay
<1> QED
  BY <1>5, <1>6, <1>8, <1>9, <1>10 DEF IInv

LEMMA StutterKeeps ==
  ASSUME IInv, UNCHANGED vars
  PROVE  IInv'
<1>1. /\ op' = op /\ disk' = disk /\ out' = out /\ buffer' = buffer /\ fields' = fields
      /\ mOffset' = mOffset /\ found' = found
      /\ written' = written /\ flushed' = flushed /\ decayed' = decayed
  BY DEF vars, writeVars, histVars
<1>2. Types /\ Writing /\ OnDisk /\ Reading /\ Decayed
  BY DEF IInv
<1>3. Types'
  BY <1>1, <1>2 DEF Types
<1>4. Writing'
  BY <1>1, <1>2 DEF Writing
<1>5. OnDisk'
  BY <1>1, <1>2 DEF OnDisk, Decays, Starts, Upto
<1>6. Reading'
  BY <1>1, <1>2 DEF Reading, Upto, LengthsStay
<1>7. Decayed'
  BY <1>1, <1>2 DEF Decayed, OneIsBad, Decays, Starts, Upto, LengthsStay
<1> QED
  BY <1>3, <1>4, <1>5, <1>6, <1>7 DEF IInv

LEMMA NextIInv == IInv /\ [Next]_vars => IInv'
<1> SUFFICES ASSUME IInv, [Next]_vars PROVE IInv'
  OBVIOUS
<1>1. ASSUME NEW r \in LogRecord, AppendLogRecord(r) PROVE IInv'
  BY <1>1, AppendKeeps
<1>2. CASE WriteNBytes
  BY <1>2, WriteNBytesKeeps
<1>3. CASE WriteToFile
  BY <1>3, WriteToFileKeeps
<1>4. CASE Flush
  BY <1>4, FlushKeeps
<1>5. CASE FlushDone
  BY <1>5, FlushDoneKeeps
<1>6. CASE Crash
  BY <1>6, CrashKeeps
<1>7. CASE Decay
  BY <1>7, DecayKeeps
<1>8. CASE OpenFile
  BY <1>8, OpenFileKeeps
<1>9. CASE ReadFromFile
  BY <1>9, ReadKeeps
<1>10. CASE Truncate
  BY <1>10, TruncateKeeps
<1>11. CASE GiveUp
  BY <1>11, GiveUpKeeps
<1>12. CASE UNCHANGED vars
  BY <1>12, StutterKeeps
<1> QED
  BY <1>1, <1>2, <1>3, <1>4, <1>5, <1>6, <1>7, <1>8, <1>9, <1>10, <1>11, <1>12 DEF Next

LEMMA IInvHolds == Spec => []IInv
<1>1. Init => IInv
  BY InitIInv
<1> QED
  BY <1>1, NextIInv, PTL DEF Spec

-----------------------------------------------------------------------------
(***************************************************************************)
(* The theorems.                                                           *)
(***************************************************************************)
\* The first k elements of s and those of a longer beginning of s.
LEMMA PrefixOfPrefix ==
  ASSUME NEW s \in Seq(LogRecord), NEW m \in 0..Len(s), NEW k \in 0..m
  PROVE  Len(SubSeq(s, 1, k)) = k /\ IsPrefix(SubSeq(s, 1, k), SubSeq(s, 1, m))
<1> DEFINE t == SubSeq(s, 1, k)
           u == SubSeq(s, 1, m)
<1>1. Len(s) \in Nat /\ m \in Nat /\ k \in Nat /\ k <= m /\ m <= Len(s)
  OBVIOUS
<1>2. t \in Seq(LogRecord) /\ Len(t) = k /\ u \in Seq(LogRecord) /\ Len(u) = m
  BY <1>1
<1>3. /\ \A i \in 1..k : t[i] = s[i]
      /\ \A i \in 1..m : u[i] = s[i]
  BY <1>1
<1> HIDE DEF t, u
<1>4. SubSeq(t, 1, Len(t)) \in Seq(LogRecord) /\ Len(SubSeq(t, 1, Len(t))) = k
  BY <1>1, <1>2
<1>5. SubSeq(u, 1, Len(t)) \in Seq(LogRecord) /\ Len(SubSeq(u, 1, Len(t))) = k
  BY <1>1, <1>2
<1>6. \A i \in 1..k : SubSeq(t, 1, Len(t))[i] = t[i] /\ SubSeq(u, 1, Len(t))[i] = u[i]
  BY <1>1, <1>2
<1>7. \A i \in 1..k : SubSeq(t, 1, Len(t))[i] = SubSeq(u, 1, Len(t))[i]
  <2>1. \A i \in 1..k : i \in 1..m
    BY <1>1
  <2> QED
    BY <1>3, <1>6, <2>1, Zenon
<1>8. SubSeq(t, 1, Len(t)) = SubSeq(u, 1, Len(t))
  BY <1>4, <1>5, <1>7, SeqEqual
<1>9. IsPrefix(t, u)
  BY <1>1, <1>2, <1>8 DEF IsPrefix
<1> QED
  BY <1>2, <1>9 DEF t, u

\* FileHandler::WriteNBytes, WriteAllBufferToFile, WriteToFile and Flush: the
\* file, what pwrite has still to take, the buffer and the fields still to be
\* written make up the header and the records, in order, for every size of the
\* buffer and every record.
THEOREM NothingIsReordered == Spec => []BytesInOrder
<1>1. IInv => BytesInOrder
  BY DEF IInv, Writing, BytesInOrder
<1> QED
  BY <1>1, IInvHolds, PTL

\* LogRecord::ReadFromFile undoes LogRecord::WriteToFile: what the next process
\* finds is what was written, field by field and in order, and nothing a Flush
\* has returned for is missing.
THEOREM WrittenIsReadBack == Spec => []ReadBack
<1>1. ASSUME IInv PROVE ReadBack
  <2>1. SUFFICES ASSUME decayed = 0
                 PROVE  IsPrefix(found, written) /\ (op = "left" => Len(found) >= flushed)
    BY DEF ReadBack
  <2>2. PICK k \in 0..Len(written) : /\ found = SubSeq(written, 1, k)
                                     /\ op = "left" => k >= flushed
    BY <1>1, <2>1 DEF IInv, Reading
  <2>3. written \in Seq(LogRecord) /\ Len(written) \in 0..Len(written)
    BY <1>1 DEF IInv, Types
  <2>4. SubSeq(written, 1, Len(written)) = written
    BY <2>3, FirstIs
  <2>5. Len(SubSeq(written, 1, k)) = k
        /\ IsPrefix(SubSeq(written, 1, k), SubSeq(written, 1, Len(written)))
    BY <2>3, PrefixOfPrefix
  <2> QED
    BY ONLY <2>2, <2>4, <2>5
<1> QED
  BY <1>1, IInvHolds, PTL

\* PersistLogger::RecoverFromLog cuts a file off where ReadFromFile met its end:
\* it then holds the records that were read and nothing else.
THEOREM TornRecordIsRemoved == Spec => []CutIsRemoved
<1>1. IInv => CutIsRemoved
  BY DEF IInv, Reading, CutIsRemoved
<1> QED
  BY <1>1, IInvHolds, PTL

\* The CRC and the Base64 of LogRecord::ReadFromFile: where the bytes of the
\* length stay what they are, a byte that goes bad stops the reader exactly in
\* front of its record.  With another length another body is read, and there
\* are two bodies with the same CRC.
THEOREM BadByteIsNoticed ==
  ASSUME LengthsStay
  PROVE  Spec => []DecayIsNoticed
<1>1. ASSUME IInv PROVE DecayIsNoticed
  <2>1. SUFFICES ASSUME decayed # 0
                 PROVE  /\ IsPrefix(found, SubSeq(written, 1, decayed - 1))
                        /\ op = "left" => Len(found) = decayed - 1
    BY DEF DecayIsNoticed
  <2>2. written \in Seq(LogRecord) /\ decayed \in 1..Len(written)
    BY <1>1, <2>1 DEF IInv, Types
  <2>3. PICK k \in 0..Len(written) : found = SubSeq(written, 1, k)
    BY <1>1 DEF IInv, Reading
  <2>4. Len(found) = k
    BY <2>2, <2>3, FirstIs
  <2>5. Len(found) <= decayed - 1 /\ (op = "left" => Len(found) = decayed - 1)
    BY <1>1, <2>1 DEF IInv, Decayed
  <2>6. decayed - 1 \in 0..Len(written) /\ k \in 0..(decayed - 1)
    BY <2>2, <2>4, <2>5
  <2> QED
    BY <2>2, <2>3, <2>5, <2>6, PrefixOfPrefix
<1> QED
  BY <1>1, IInvHolds, PTL

-----------------------------------------------------------------------------
(***************************************************************************)
(* The CRC of the bodies.                                                  *)
(***************************************************************************)
LEMMA BodyLength ==
  ASSUME NEW r \in LogRecord
  PROVE  /\ RecordBody(r) \in Seq(Byte) /\ Len(RecordBody(r)) \in Nat
         /\ Len(RecordBody(r)) >= 12 /\ Len(RecordBody(r)) <= INT_MAX
<1>1. PICK i \in 1..MaxRecords, c \in Contents :
        r = [id |-> i, type |-> c.type, table |-> c.table, key |-> c.key, value |-> c.value]
  BY DEF LogRecord
<1>2. /\ r.table \in Seq(Byte) /\ r.key \in Seq(Byte) /\ r.value \in Seq(Byte)
      /\ RecordBody(r) \in Seq(Byte) /\ EncodeBody(r) \in Seq(Byte)
  BY RecordType
<1> DEFINE t == Len(r.table)
           k == Len(r.key)
           v == Len(r.value)
           b == Len(EncodeBody(r))
           e == Len(RecordBody(r))
<1>3. t \in Nat /\ k \in Nat /\ v \in Nat /\ b = ((t + 4) + (k + 4)) + (v + 4)
  BY <1>2, EncodeBodyType
<1>4. e \in Nat /\ b \in Nat /\ b <= e
  BY <1>2, EncodeIsLonger DEF RecordBody
<1>5. 6 * e <= INT_MAX /\ INT_MAX \in Nat
  <2>1. r.table = c.table /\ r.key = c.key /\ r.value = c.value
    BY <1>1
  <2>2. EncodeBody(r) = EncodeBody(c)
    BY <2>1 DEF EncodeBody
  <2>3. 6 * Len(Encode(EncodeBody(c))) <= INT_MAX
    BY LogFileAssumption
  <2>4. INT_MAX \in Nat
    BY SMT DEF INT_MAX
  <2> QED
    BY <2>2, <2>3, <2>4, Zenon DEF RecordBody
<1> HIDE DEF t, k, v, b, e
<1>6. e >= 12 /\ e <= INT_MAX
  BY <1>3, <1>4, <1>5
<1> QED
  BY <1>2, <1>4, <1>6 DEF e

LEMMA CrcOfTwoParts ==
  ASSUME NEW body \in Seq(Byte), NEW k \in 1..Len(body), Len(body) <= INT_MAX
  PROVE  mycrc32_combine(crc32({}, SubSeq(body, 1, k)), crc32({}, SubSeq(body, k + 1, Len(body))),
                         Len(body) - k) = crc32({}, body)
<1> DEFINE n == Len(body)
           a == SubSeq(body, 1, k)
           b == SubSeq(body, k + 1, n)
<1>1. n \in Nat /\ k \in Nat /\ n - k \in Nat /\ k <= n
  OBVIOUS
<1>2. a \in Seq(Byte) /\ Len(a) = k /\ b \in Seq(Byte) /\ Len(b) = n - k
  BY <1>1
<1>3. /\ \A i \in 1..k : a[i] = body[i]
      /\ \A i \in 1..(n - k) : b[i] = body[k + i]
  BY <1>1
<1> HIDE DEF a, b
<1>4. a \o b \in Seq(Byte) /\ Len(a \o b) = n
  BY <1>1, <1>2
<1>5. ASSUME NEW i \in 1..n PROVE (a \o b)[i] = body[i]
  <2>1. CASE i <= k
    BY <1>1, <1>2, <1>3, <2>1
  <2>2. CASE i > k
    <3>1. i - k \in 1..(n - k) /\ k + (i - k) = i
      BY <1>1, <2>2
    <3>2. (a \o b)[i] = b[i - k]
      BY <1>1, <1>2, <2>2
    <3> QED
      BY <1>3, <3>1, <3>2
  <2>3. i <= k \/ i > k
    BY <1>1
  <2> QED
    BY <2>1, <2>2, <2>3, Zenon
<1>6. a \o b = body
  BY <1>4, <1>5, SeqEqual
<1>7. Len(b) <= INT_MAX /\ {} \in SUBSET (0..31)
  <2>1. INT_MAX \in Nat
    BY SMT DEF INT_MAX
  <2> QED
    BY <1>1, <1>2, <2>1
<1>8. mycrc32_combine(crc32({}, a), crc32({}, b), Len(b)) = crc32({}, a \o b)
  BY <1>2, <1>7, mycrc32_combineIsCrc32
<1> QED
  BY <1>2, <1>6, <1>8 DEF a, b

LEMMA CrcOfXor ==
  ASSUME NEW body \in Seq(Byte), NEW back \in Seq(Byte), NEW n \in Nat,
         Len(body) = n, Len(back) = n, n <= INT_MAX, NEW xor,
         xor = [i \in 1..n |-> ByteOf(BitsOf[body[i]] ++ BitsOf[back[i]], 0)]
  PROVE  mycrc32_xorblocks({}, crc32({}, body), crc32({}, back), n) = crc32({}, xor)
<1>1. ASSUME NEW i \in 1..n
      PROVE  /\ xor[i] = ByteOf(BitsOf[body[i]] ++ BitsOf[back[i]], 0) /\ xor[i] \in Byte
             /\ BitsOf[xor[i]] = BitsOf[body[i]] ++ BitsOf[back[i]]
  <2> DEFINE w == BitsOf[body[i]] ++ BitsOf[back[i]]
  <2>1. body[i] \in Byte /\ back[i] \in Byte
    OBVIOUS
  <2>2. BitsOf[body[i]] \in SUBSET (0..7) /\ BitsOf[back[i]] \in SUBSET (0..7)
    BY <2>1, BitsOfType
  <2>3. w \in SUBSET (0..7)
    BY <2>2 DEF ++
  <2>4. xor[i] = ByteOf(w, 0)
    BY Zenon
  <2> HIDE DEF w
  <2>5. 0 \in Nat
    OBVIOUS
  <2>6. ByteOf(w, 0) \in Byte /\ BitsOf[ByteOf(w, 0)] = {j \in 0..7 : 8 * 0 + j \in w}
    BY <2>5, ByteOfType, BitsOfByte
  <2>7. {j \in 0..7 : 8 * 0 + j \in w} = w
    <3>1. \A j \in 0..7 : 8 * 0 + j = j
      OBVIOUS
    <3>2. {j \in 0..7 : 8 * 0 + j \in w} = {j \in 0..7 : j \in w}
      BY <3>1, Zenon
    <3> QED
      BY <2>3, <3>2, Zenon
  <2> QED
    BY <2>4, <2>6, <2>7, Zenon DEF w
<1>2. xor \in [1..n -> Byte]
  BY <1>1
<1>3. xor \in Seq(Byte) /\ Len(xor) = n
  BY <1>2, FunctionIsSeq
<1>4. \A i \in 1..Len(xor) : BitsOf[xor[i]] = BitsOf[body[i]] ++ BitsOf[back[i]]
  BY <1>1, <1>3, Zenon
<1>5. Len(body) = Len(xor) /\ Len(back) = Len(xor) /\ Len(xor) <= INT_MAX
  BY <1>3, Zenon
<1>6. mycrc32_xorblocks({}, crc32({}, body), crc32({}, back), Len(xor)) = crc32({}, xor)
  BY <1>3, <1>4, <1>5, mycrc32_xorblocksIsCrc32, Zenon
<1> QED
  BY <1>3, <1>6, Zenon

\* mycrc32, mycrc32_combine and the macros of CRC.h, for the body of every
\* record that can be written.
THEOREM CRCsAreOne == Spec => []CRCsAgree
<1>1. ASSUME IInv PROVE CRCsAgree
  <2> SUFFICES ASSUME written # <<>>, fields = FieldsOf[Last(written)]
               PROVE  LET body == Last(fields)
                          len  == Len(body)
                          back == Reverse(body)
                          xor  == [i \in 1..len |-> ByteOf(BitsOf[body[i]] ++ BitsOf[back[i]], 0)]
                          crc(b) == crc32({}, b)
                      IN  /\ \A align \in 0..3 : mycrc32({}, body, align) = crc(body)
                          /\ \A k \in {1, 7, len - 1} :
                               mycrc32_combine(crc(SubSeq(body, 1, k)), crc(SubSeq(body, k + 1, len)), len - k)
                                 = crc(body)
                          /\ mycrc32_zeroblock(crc(body), 5) = crc(body \o <<0, 0, 0, 0, 0>>)
                          /\ mycrc32_xorblocks({}, crc(body), crc(back), len) = crc(xor)
    BY Zenon DEF CRCsAgree
  <2>1. PICK r \in LogRecord : fields = FieldsOf[r]
    <3>1. written \in Seq(LogRecord)
      BY <1>1 DEF IInv, Types
    <3>2. Last(written) \in LogRecord
      BY <3>1 DEF Last
    <3> QED
      BY <3>2
  <2> DEFINE body == Last(fields)
             len  == Len(body)
             back == Reverse(body)
             xor  == [i \in 1..len |-> ByteOf(BitsOf[body[i]] ++ BitsOf[back[i]], 0)]
  <2>2. body = RecordBody(r)
    <3>1. FieldsOf[r] = << htonl(Len(RecordBody(r))), htonlWord(mycrc32({}, RecordBody(r), 0)),
                           htonl(r.id), htonl(r.type), RecordBody(r) >>
      BY DEF FieldsOf, RecordFields, RecordBody
    <3>2. \A v, w, x, y, z : Last(<<v, w, x, y, z>>) = z
      BY DEF Last
    <3>3. Last(FieldsOf[r]) = RecordBody(r)
      <4> HIDE DEF body, len, back, xor
      <4> DEFINE f1 == htonl(Len(RecordBody(r)))
                 f2 == htonlWord(mycrc32({}, RecordBody(r), 0))
                 f3 == htonl(r.id)
                 f4 == htonl(r.type)
      <4>1. FieldsOf[r] = <<f1, f2, f3, f4, RecordBody(r)>>
        BY <3>1
      <4> HIDE DEF f1, f2, f3, f4
      <4> QED
        BY <3>2, <4>1
    <3>4. body = Last(FieldsOf[r])
      BY <2>1
    <3> QED
      BY <3>3, <3>4, Zenon
  <2>3. body \in Seq(Byte) /\ len \in Nat /\ len >= 12 /\ len <= INT_MAX
    BY <2>2, BodyLength
  <2> HIDE DEF body
  <2>4. back \in Seq(Byte) /\ Len(back) = len
    <3>1. back = [i \in 1..len |-> body[(len - i) + 1]]
      BY DEF Reverse
    <3>2. \A i \in 1..len : (len - i) + 1 \in 1..len
      BY <2>3
    <3>3. \A i \in 1..len : body[i] \in Byte
      BY <2>3
    <3> HIDE DEF len, back
    <3>4. back \in [1..len -> Byte]
      BY <3>1, <3>2, <3>3, Zenon
    <3> QED
      BY <2>3, <3>4, FunctionIsSeq
  <2> HIDE DEF back
  <2>5. {} \in SUBSET (0..31)
    OBVIOUS
  <2>6. ASSUME NEW align \in 0..3 PROVE mycrc32({}, body, align) = crc32({}, body)
    <3>1. align \in Nat
      OBVIOUS
    <3> QED
      BY <2>3, <2>5, <3>1, mycrc32IsCrc32
  <2>7. ASSUME NEW k \in {1, 7, len - 1}
        PROVE  mycrc32_combine(crc32({}, SubSeq(body, 1, k)), crc32({}, SubSeq(body, k + 1, len)), len - k)
                 = crc32({}, body)
    <3>1. k \in 1..len
      BY <2>3
    <3> QED
      BY <2>3, <3>1, CrcOfTwoParts
  <2>8. mycrc32_zeroblock(crc32({}, body), 5) = crc32({}, body \o <<0, 0, 0, 0, 0>>)
    <3>1. 5 \in Nat /\ 5 <= INT_MAX
      BY SMT DEF INT_MAX
    <3>2. [i \in 1..5 |-> 0] = <<0, 0, 0, 0, 0>>
      OBVIOUS
    <3>3. mycrc32_zeroblock(crc32({}, body), 5) = crc32({}, body \o [i \in 1..5 |-> 0])
      BY <2>3, <2>5, <3>1, mycrc32_zeroblockIsCrc32
    <3> QED
      BY <3>2, <3>3, Zenon
  <2>9. mycrc32_xorblocks({}, crc32({}, body), crc32({}, back), len) = crc32({}, xor)
    BY <2>3, <2>4, CrcOfXor
  <2> QED
    BY <2>6, <2>7, <2>8, <2>9 DEF body, back
<1> QED
  BY <1>1, IInvHolds, PTL
=============================================================================
