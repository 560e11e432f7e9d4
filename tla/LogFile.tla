------------------------------ MODULE LogFile -------------------------------
(***************************************************************************)
(* One log file, byte by byte: what FileHandler makes of the calls of      *)
(* Log::WriteHeader and LogRecord::WriteToFile, and what                   *)
(* Log::ValidateHeader and LogRecord::ReadFromFile make of the file a dead *)
(* process left.                                                           *)
(*                                                                         *)
(* PersistLogger has the same file as a sequence of whole items and a torn *)
(* rest.  Here the process may die between two calls of pwrite, and a      *)
(* pwrite may take any part of what it is given.  Then one byte of a       *)
(* record may go bad on disk, other than its log id and its type, which    *)
(* the CRC does not cover.                                                 *)
(***************************************************************************)
EXTENDS LogCodec

CONSTANTS
  LOG_FILE_BUFFER_SIZE,
  Contents,       \* what may be written: [type, table, key, value]
  MaxRecords,     \* bound: records written
  DecayAt         \* bound: bytes of a record that may go bad, counted from 1

ASSUME LogFileAssumption ==
  /\ LOG_FILE_BUFFER_SIZE \in Nat \ {0}
  /\ MaxRecords \in 0..INT_MAX
  /\ Contents \subseteq [type : 0..INT_MAX, table : Seq(Byte), key : Seq(Byte), value : Seq(Byte)]
  /\ \A c \in Contents : 6 * Len(Encode(EncodeBody(c))) <= INT_MAX
  /\ DecayAt \subseteq (Nat \ {0}) \ (9..16)   \* the CRC covers neither log id nor type

VARIABLES
  op,        \* "write", "flush", "down", "read", "left"
  disk,      \* the bytes of the file
  out,       \* FileHandler::WriteToFile: what pwrite has still to take
  buffer,    \* FileHandler's mBuffer, up to mWriteOffset
  fields,    \* calls of WriteNBytes the record being written still makes
  mOffset,   \* where ReadNBytes reads
  found,     \* the records the reader has got
  written,   \* history: the records WriteToFile was called for
  flushed,   \* history: how many of them a Flush has returned for
  decayed    \* history: the record one byte of which went bad, 0 for none

writeVars == <<out, buffer, fields>>
histVars  == <<written, flushed, decayed>>
vars == <<op, disk, writeVars, mOffset, found, histVars>>

HeaderLength == 8
RecordHeaderLength == 16

LogRecord ==
  {[id |-> i, type |-> c.type, table |-> c.table, key |-> c.key, value |-> c.value] :
     i \in 1..MaxRecords, c \in Contents}
FieldsOf == [r \in LogRecord |-> RecordFields(r)]

\* The bytes of a file that holds these records.
FileOf(records) ==
  FlattenSeq(HeaderFields) \o FlattenSeq([i \in DOMAIN records |-> FlattenSeq(FieldsOf[records[i]])])

\* Log::OpenFile(true).
Init ==
  /\ op = "write"
  /\ disk = <<>> /\ out = <<>> /\ buffer = <<>>
  /\ fields = HeaderFields
  /\ mOffset = 0 /\ found = <<>>
  /\ written = <<>> /\ flushed = 0 /\ decayed = 0
-----------------------------------------------------------------------------
(***************************************************************************)
(* Writing.                                                                *)
(***************************************************************************)
AtRest == out = <<>> /\ fields = <<>>

\* Log::AppendLogRecord, LogRecord::WriteToFile.
AppendLogRecord(r) ==
  /\ op = "write" /\ AtRest /\ r.id = Len(written) + 1
  /\ written' = Append(written, r)
  /\ fields' = FieldsOf[r]
  /\ UNCHANGED <<op, disk, out, buffer, mOffset, found, flushed, decayed>>

\* WriteNBytes, one call.  What is larger than the whole buffer goes out
\* directly, behind what the buffer holds.
TooLarge == Len(Head(fields)) > LOG_FILE_BUFFER_SIZE
Fits     == Len(buffer) + Len(Head(fields)) <= LOG_FILE_BUFFER_SIZE

MayGoFirst  == TRUE                                             \* mutant
MayGoDirect == buffer = <<>>

WriteAllBufferToFile == out' = buffer /\ buffer' = <<>>

WriteNBytes ==
  /\ op = "write" /\ out = <<>> /\ fields # <<>>
  /\ \/ /\ TooLarge /\ MayGoDirect
        /\ out' = Head(fields) /\ fields' = Tail(fields)
        /\ UNCHANGED buffer
     \/ /\ ~TooLarge /\ Fits
        /\ buffer' = buffer \o Head(fields) /\ fields' = Tail(fields)
        /\ UNCHANGED out
     \/ /\ IF TooLarge THEN ~MayGoDirect ELSE ~Fits
        /\ WriteAllBufferToFile
        /\ UNCHANGED fields
  /\ UNCHANGED <<op, disk, mOffset, found, histVars>>

\* The file is open with O_APPEND: pwrite writes at its end.
WriteToFile ==
  /\ op \in {"write", "flush"} /\ out # <<>>
  /\ \E n \in 1..Len(out) :
       /\ disk' = disk \o SubSeq(out, 1, n)
       /\ out' = SubSeq(out, n + 1, Len(out))
  /\ UNCHANGED <<op, buffer, fields, mOffset, found, histVars>>

\* Flush: WriteAllBufferToFile, then fsync.
Flush ==
  /\ op = "write" /\ AtRest
  /\ op' = "flush"
  /\ WriteAllBufferToFile
  /\ UNCHANGED <<disk, fields, mOffset, found, histVars>>

FlushDone ==
  /\ op = "flush" /\ out = <<>>
  /\ op' = "write"
  /\ flushed' = Len(written)
  /\ UNCHANGED <<disk, writeVars, mOffset, found, written, decayed>>

\* The process dies, writing or reading.
Crash ==
  /\ op # "down"
  /\ op' = "down"
  /\ out' = <<>> /\ buffer' = <<>> /\ fields' = <<>>
  /\ mOffset' = 0 /\ found' = <<>>
  /\ UNCHANGED <<disk, histVars>>
-----------------------------------------------------------------------------
\* A byte of the i-th record is not what it was.
Starts(i) == Len(FileOf(SubSeq(written, 1, i - 1)))

Decay ==
  /\ op = "down" /\ decayed = 0
  /\ \E i \in 1..Len(written), n \in DecayAt :
       LET at == Starts(i) + n
       IN  /\ at <= Min({Starts(i + 1), Len(disk)})
           /\ disk' = [disk EXCEPT ![at] = (@ + 1) % 256]
           /\ decayed' = i
  /\ UNCHANGED <<op, writeVars, mOffset, found, written, flushed>>
-----------------------------------------------------------------------------
(***************************************************************************)
(* Reading.                                                                *)
(***************************************************************************)
\* Log::OpenFile(false), ValidateHeader.
ValidHeader ==
  /\ Len(disk) >= HeaderLength
  /\ SubSeq(disk, 1, 4) = LOG_MAGIC
  /\ ntohl(SubSeq(disk, 5, 8)) = LOG_VERSION

OpenFile ==
  /\ op = "down"
  /\ op' = IF ValidHeader THEN "read" ELSE "left"
  /\ mOffset' = HeaderLength
  /\ UNCHANGED <<disk, writeVars, found, histVars>>

Field(n) == SubSeq(disk, mOffset + 4 * n - 3, mOffset + 4 * n)
mBodyLength == ntohl(Field(1))
Body == SubSeq(disk, mOffset + RecordHeaderLength + 1, mOffset + RecordHeaderLength + mBodyLength)

\* ReadNBytes gives EIO.
HitsTheEnd == ~(/\ mOffset + RecordHeaderLength <= Len(disk)
                /\ mOffset + RecordHeaderLength + mBodyLength <= Len(disk))

CrcUnchecked == TRUE                                            \* mutant
CrcMatches   == ntohlWord(Field(2)) = mycrc32({}, Body, 0)

NextRecord ==
  LET body == DecodeBody(Decode(Body).data)
  IN  [id |-> ntohl(Field(3)), type |-> ntohl(Field(4)),
       table |-> body.table, key |-> body.key, value |-> body.value]

\* ReadFromFile, when it gets a record.
ReadFromFile ==
  /\ op = "read"
  /\ ~HitsTheEnd /\ CrcMatches /\ Decode(Body).ok
  /\ found' = Append(found, NextRecord)
  /\ mOffset' = mOffset + RecordHeaderLength + mBodyLength
  /\ UNCHANGED <<op, disk, writeVars, histVars>>

\* EIO: the file is cut off where the record would have begun.
CutAtEnd   == disk                                              \* mutant
CutAtStart == SubSeq(disk, 1, mOffset)

Truncate ==
  /\ op = "read" /\ HitsTheEnd
  /\ disk' = CutAtStart
  /\ op' = "left"
  /\ UNCHANGED <<writeVars, mOffset, found, histVars>>

\* E_CRC_CHECK_FAILED, E_BASE64_DECODE_FAILED: the rest of the file is not read.
GiveUp ==
  /\ op = "read"
  /\ ~HitsTheEnd /\ ~(CrcMatches /\ Decode(Body).ok)
  /\ op' = "left"
  /\ UNCHANGED <<disk, writeVars, mOffset, found, histVars>>

Next ==
  \/ \E r \in LogRecord : AppendLogRecord(r)
  \/ WriteNBytes \/ WriteToFile \/ Flush \/ FlushDone
  \/ Crash \/ Decay
  \/ OpenFile \/ ReadFromFile \/ Truncate \/ GiveUp

Spec == Init /\ [][Next]_vars
-----------------------------------------------------------------------------
(***************************************************************************)
(* Properties.                                                             *)
(***************************************************************************)
\* FileHandler loses, repeats and reorders nothing, whichever field fills the
\* buffer and however pwrite splits it: file, buffer and what is still to be
\* written make up the records, in order.
BytesInOrder ==
  op \in {"write", "flush"} => disk \o out \o buffer \o FlattenSeq(fields) = FileOf(written)

\* The next process reads back the records that were written, oldest first and
\* field by field, and no less than those a Flush has returned for.
ReadBack ==
  decayed = 0 => /\ IsPrefix(found, written)
                 /\ op = "left" => Len(found) >= flushed

\* After a reading the file holds the records that were read and nothing else,
\* so that a second reading finds the same: a record cut in two is gone.  Only
\* a file without a whole header is left as it is.
CutIsRemoved ==
  op = "left" /\ decayed = 0 =>
    \/ disk = FileOf(found)
    \/ found = <<>> /\ Len(disk) < HeaderLength

\* Of a record with a bad byte nothing is used, nor is any record behind it;
\* those in front of it are all read.  This is so for the length and the CRC
\* too, although the CRC is taken of the body alone.
DecayIsNoticed ==
  decayed # 0 => /\ IsPrefix(found, SubSeq(written, 1, decayed - 1))
                 /\ op = "left" => Len(found) = decayed - 1

\* mycrc32 takes the bytes singly or by four as the address of the block has
\* it, so that the writer and the reader of a body compute differently: it is
\* always the CRC of the original code.  The CRC of a body in two parts, of one
\* with zeros behind it and of the xor of two can be had from those of the parts.
CRCsAgree ==
  written # <<>> /\ fields = FieldsOf[Last(written)] =>
    LET body == Last(fields)
        len  == Len(body)
        back == Reverse(body)
        xor  == [i \in 1..len |-> ByteOf(BitsOf[body[i]] ++ BitsOf[back[i]], 0)]
        crc(b) == crc32({}, b)
    IN  /\ \A align \in 0..3 : mycrc32({}, body, align) = crc(body)
        /\ \A k \in {1, 7, len - 1} :
             mycrc32_combine(crc(SubSeq(body, 1, k)), crc(SubSeq(body, k + 1, len)), len - k) = crc(body)
        /\ mycrc32_zeroblock(crc(body), 5) = crc(body \o <<0, 0, 0, 0, 0>>)
        /\ mycrc32_xorblocks({}, crc(body), crc(back), len) = crc(xor)
=============================================================================
