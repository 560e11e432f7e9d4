------------------------------ MODULE LogCodec ------------------------------
(***************************************************************************)
(* What a log record is on disk: CRC.c, Base64.hpp and the encoding of     *)
(* FileLog.cpp, byte by byte.                                              *)
(*                                                                         *)
(* A byte is a number below 256.  The CRC works on 32-bit words, written   *)
(* as the set of the bits that are 1, so that xor is the symmetric         *)
(* difference.  The build is little endian.                                *)
(***************************************************************************)
EXTENDS Integers, FiniteSets, Sequences, SequencesExt

Byte == 0..255

BitsOf == [n \in Byte |-> {i \in 0..7 : (n \div 2^i) % 2 = 1}]

v ++ w     == (v \ w) \cup (w \ v)
Shr(w, k)  == {i - k : i \in {j \in w : j >= k}}

\* The j-th byte of a word, the word of four bytes; the lowest is the first.
ByteOf(w, j) == LET bit(i) == IF 8 * j + i \in w THEN 2^i ELSE 0
                IN  bit(0) + bit(1) + bit(2) + bit(3) + bit(4) + bit(5) + bit(6) + bit(7)
Word(b) == UNION {{i + 8 * (j - 1) : i \in BitsOf[b[j]]} : j \in 1..4}
-----------------------------------------------------------------------------
(***************************************************************************)
(* CRC.c.                                                                  *)
(***************************************************************************)
CRC_POLY == {5, 8, 9, 15, 19, 20, 21, 23, 24, 26, 27, 29, 30, 31}   \* 0xEDB88320
AllOnes  == 0..31

Step(c) == IF 0 \in c THEN CRC_POLY ++ Shr(c, 1) ELSE Shr(c, 1)

EightSteps(c) == Step(Step(Step(Step(Step(Step(Step(Step(c))))))))

\* crc_generate_main_tables: entry i of table k is the effect of the byte i
\* with k zero bytes behind it.
Table0 == [i \in Byte |-> EightSteps(BitsOf[i])]
WithZero(t) == [i \in Byte |-> Table0[ByteOf(t[i], 0)] ++ Shr(t[i], 8)]
Table1 == WithZero(Table0)
Table2 == WithZero(Table1)
Table3 == WithZero(Table2)

OneByte(c, b) == Table0[ByteOf(c ++ BitsOf[b], 0)] ++ Shr(c, 8)

\* The original code, as the comment at the head of CRC.c keeps it: one byte
\* after the other.
crc32(crc, block) ==
  LET after[i \in 0..Len(block)] ==
        IF i = 0 THEN crc ++ AllOnes ELSE OneByte(after[i - 1], block[i])
  IN  after[Len(block)] ++ AllOnes

FourBytesReordered(c, four) ==      \* mutant: the tables in the big endian order
  LET w == c ++ Word(four)
  IN  (Table0[ByteOf(w, 0)] ++ Table1[ByteOf(w, 1)]) ++
      (Table2[ByteOf(w, 2)] ++ Table3[ByteOf(w, 3)])
FourBytes(c, four) ==
  LET w == c ++ Word(four)
  IN  (Table3[ByteOf(w, 0)] ++ Table2[ByteOf(w, 1)]) ++
      (Table1[ByteOf(w, 2)] ++ Table0[ByteOf(w, 3)])

\* mycrc32, for a block that begins at address align: single bytes up to an
\* aligned address, four at a time while there are four, then single bytes.
mycrc32(crc, block, align) ==
  LET lead == Min({Len(block), (4 - align) % 4})
      EndsWord(i) == i > lead /\ (i - lead) % 4 = 0
      after[i \in 0..Len(block)] ==
        IF i = 0 THEN crc ++ AllOnes
        ELSE IF EndsWord(i) THEN FourBytes(after[i - 4], SubSeq(block, i - 3, i))
        ELSE OneByte(after[i - 1], block[i])
  IN  after[Len(block)] ++ AllOnes

\* A 32 x 32 matrix over bits is the set of its columns <<i, word>>.
Times(m, v) == {b \in 0..31 : Cardinality({col \in m : col[1] \in v /\ b \in col[2]}) % 2 = 1}
crc_matrix_square(m) == {<<col[1], Times(m, col[2])>> : col \in m}

OneZeroBit == {<<i, IF i = 0 THEN CRC_POLY ELSE {i - 1}>> : i \in 0..31}

\* crc_combine_table[i], for 2^i zero bytes.  The code keeps the products with
\* every value of every octet.
crc_combine_table[i \in 0..30] ==
  crc_matrix_square(IF i = 0 THEN crc_matrix_square(crc_matrix_square(OneZeroBit))
                             ELSE crc_combine_table[i - 1])

\* For second blocks of less than 2^31 bytes.
mycrc32_combine(crc1, crc2, leng2) ==
  LET shifted[i \in 0..31] ==
        IF i = 0 THEN crc1
        ELSE IF (leng2 \div 2^(i - 1)) % 2 = 1 THEN Times(crc_combine_table[i - 1], shifted[i - 1])
        ELSE shifted[i - 1]
  IN  shifted[31] ++ crc2

\* The macros of CRC.h: a block that zeros follow, the xor of two blocks.
mycrc32_zeroblock(crc, zeros) == mycrc32_combine(crc ++ AllOnes, AllOnes, zeros)
mycrc32_xorblocks(crc, crcblock1, crcblock2, leng) ==
  (crcblock1 ++ crcblock2) ++ mycrc32_zeroblock(crc, leng)
-----------------------------------------------------------------------------
(***************************************************************************)
(* Base64.hpp.                                                             *)
(***************************************************************************)
Pad     == 61     \* '='
NoDigit == 255

kBase64Alphabet ==
  [v \in 0..63 |-> CASE v < 26 -> 65 + v [] v \in 26..51 -> 71 + v
                     [] v \in 52..61 -> v - 4 [] v = 62 -> 43 [] v = 63 -> 47]

LookupShort(c) == IF c \in 65..90 THEN c - 65 ELSE IF c \in 97..122 THEN c - 71
                  ELSE IF c \in 48..57 THEN c + 4 ELSE NoDigit          \* mutant
b64_lookup(c) ==
  CASE c \in 65..90 -> c - 65 [] c \in 97..122 -> c - 71 [] c \in 48..57 -> c + 4
    [] c = 43 -> 62 [] c = 47 -> 63 [] OTHER -> NoDigit

a3_to_a4(a) == << a[1] \div 4,
                  (a[1] % 4) * 16 + (a[2] \div 16),
                  (a[2] % 16) * 4 + (a[3] \div 64),
                  a[3] % 64 >>

a4_to_a3(a) == << (a[1] * 4 + ((a[2] \div 16) % 4)) % 256,
                  ((a[2] % 16) * 16 + ((a[3] \div 4) % 16)) % 256,
                  ((a[3] % 4) * 64 + a[4]) % 256 >>

\* s in groups of n, the last one shorter when it does not come out even.
Groups(s, n) == [g \in 1..((Len(s) + n - 1) \div n) |-> SubSeq(s, n * (g - 1) + 1, Min({n * g, Len(s)}))]
Filled(group, n) == [j \in 1..n |-> IF j <= Len(group) THEN group[j] ELSE 0]

EncodeGroup(group) ==
  LET digits == a3_to_a4(Filled(group, 3))
  IN  [j \in 1..4 |-> IF j <= Len(group) + 1 THEN kBase64Alphabet[digits[j]] ELSE Pad]

Encode(s) == FlattenSeq([g \in DOMAIN Groups(s, 3) |-> EncodeGroup(Groups(s, 3)[g])])

\* DecodedLength has six times the length of its argument in an int.
INT_MAX == 2147483647

Pads(s) == Cardinality({i \in 1..Len(s) : \A j \in i..Len(s) : s[j] = Pad})
DecodedLength(s) == (6 * Len(s)) \div 8 - Pads(s)

UpToPad(s) == SubSeq(s, 1, Min({i \in 0..Len(s) : i = Len(s) \/ s[i + 1] = Pad}))

\* The digits a last group lacks are looked up like any other: as zero bytes.
DecodeGroup(group) ==
  LET digits == [j \in 1..4 |-> b64_lookup(Filled(group, 4)[j])]
  IN  SubSeq(a4_to_a3(digits), 1, Len(group) - 1)

\* Decode: what was decoded, and whether it is as long as it was to be.
Decode(s) ==
  LET groups == Groups(UpToPad(s), 4)
      data   == FlattenSeq([g \in DOMAIN groups |-> DecodeGroup(groups[g])])
  IN  [data |-> data, ok |-> Len(data) = DecodedLength(s)]
-----------------------------------------------------------------------------
(***************************************************************************)
(* FileLog.cpp.                                                            *)
(***************************************************************************)
\* A number in network order; the CRC is a word.
htonl(n)     == [j \in 1..4 |-> (n \div 256^(4 - j)) % 256]
ntohl(b)     == b[1] * 256^3 + b[2] * 256^2 + b[3] * 256 + b[4]
htonlWord(w) == [j \in 1..4 |-> ByteOf(w, 4 - j)]
ntohlWord(b) == Word([j \in 1..4 |-> b[5 - j]])

LOG_MAGIC   == <<76, 79, 71, 83>>
LOG_VERSION == 1

\* FileLogRecordBody.
WithLength(s) == htonl(Len(s)) \o s
EncodeBody(r) == WithLength(r.table) \o WithLength(r.key) \o WithLength(r.value)

readString(b, at) == SubSeq(b, at + 5, at + 4 + ntohl(SubSeq(b, at + 1, at + 4)))
DecodeBody(b) ==
  LET table == readString(b, 0)
      key   == readString(b, Len(table) + 4)
      value == readString(b, Len(table) + 4 + Len(key) + 4)
  IN  [table |-> table, key |-> key, value |-> value]

\* The calls of WriteNBytes that WriteHeader and WriteToFile make.
HeaderFields == <<LOG_MAGIC, htonl(LOG_VERSION)>>
RecordFields(r) ==
  LET body == Encode(EncodeBody(r))
  IN  << htonl(Len(body)), htonlWord(mycrc32({}, body, 0)),
         htonl(r.id), htonl(r.type), body >>
=============================================================================
