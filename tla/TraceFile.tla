------------------------------- MODULE TraceFile -------------------------------
(* FileTraceSerializer against TraceFileReader: messages, each after its      *)
(* length as a varint, written through a window of the file that is mapped    *)
(* page by page, and read back.  The file is a sequence of bytes; the bytes   *)
(* of a message are the number of its record.                                 *)
EXTENDS Integers, Sequences, SequencesExt

CONSTANTS
    PageSize,            \* m_pageSize
    MinMap,              \* 1 MiB in the code
    VarintBase,          \* 2^7 in the code
    MAX_VARINT32_BYTES,
    Lengths,             \* of serialized messages
    MaxRecords           \* bound

VARIABLES
    w,        \* the serializer and its file
    records,  \* lengths of the messages handed over
    r,        \* the reader
    out       \* messages read

fvars == <<w, records, r, out>>

Init ==
    /\ w = [open |-> TRUE, file |-> <<>>, mapped |-> FALSE, m_dataOffset |-> 0,
            m_fileOffset |-> 0, m_size |-> 0, failed |-> FALSE, stray |-> FALSE,
            noSpace |-> FALSE]
    /\ r = [open |-> FALSE, at |-> 0, m_size |-> 0, m_error |-> FALSE]
    /\ records = <<>> /\ out = <<>>
-----------------------------------------------------------------------------
\* Groups of digits, least significant first; all but the last are marked
encodeVarint32(n) ==
    LET len == CHOOSE k \in 1 .. n + 1 :
                 n < VarintBase ^ k /\ (k > 1 => n >= VarintBase ^ (k - 1))
    IN [i \in 1 .. len |-> ((n \div VarintBase ^ (i - 1)) % VarintBase)
                             + (IF i < len THEN VarintBase ELSE 0)]

\* The value and the number of bytes it took, 0 if there is none
decodeVarint32(buffer) ==
    LET ends == {i \in 1 .. Len(buffer) : /\ i <= MAX_VARINT32_BYTES
                                          /\ buffer[i] < VarintBase
                                          /\ \A j \in 1 .. i - 1 : buffer[j] >= VarintBase}
        last == CHOOSE i \in ends : TRUE
    IN IF ends = {} THEN [value |-> 0, bytes |-> 0]
       ELSE [value |-> FoldLeft(LAMBDA sum, i :
                         sum + (buffer[i] % VarintBase) * VarintBase ^ (i - 1),
                         0, [i \in 1 .. last |-> i]),
             bytes |-> last]

\* Mutant: only the begin of the range is looked at
Mut_isRemapNeeded(s, offset, size) ==
    ~s.mapped \/ offset \notin s.m_fileOffset .. s.m_fileOffset + s.m_size - 1

isRemapNeeded(s, offset, size) ==
    LET mappedEnd == s.m_fileOffset + s.m_size - 1
        end == offset + size - 1
    IN \/ ~s.mapped
       \/ offset < s.m_fileOffset \/ offset > mappedEnd
       \/ end < s.m_fileOffset \/ end > mappedEnd

\* The window moves to whole pages; there may be no space for them.  An
\* exception leaves the serializer without a mapping.
remap(s, offset, size) ==
    LET pages == (size + PageSize - 1 + (offset % PageSize)) \div PageSize
        moved == [s EXCEPT !.m_fileOffset = (offset \div PageSize) * PageSize,
                           !.m_size = pages * PageSize, !.mapped = TRUE]
        grown == moved.m_fileOffset + moved.m_size - Len(s.file)
        filled == [moved EXCEPT !.file = @ \o [i \in 1 .. grown |-> 0]]
    IN {[moved EXCEPT !.mapped = FALSE, !.failed = TRUE, !.noSpace = TRUE],
        [filled EXCEPT !.failed = isRemapNeeded(filled, offset, size)]}

\* At least MinMap is mapped at once
getBuffer(s, size) ==
    IF isRemapNeeded(s, s.m_dataOffset, size)
    THEN remap(s, s.m_dataOffset, IF size > MinMap THEN size ELSE MinMap)
    ELSE {s}

\* The buffer is filled and moveDataPointer called; what lies outside of the
\* mapping would be written over other memory
Fill(s, bytes) ==
    LET inside == /\ s.m_dataOffset >= s.m_fileOffset
                  /\ s.m_dataOffset + Len(bytes) <= s.m_fileOffset + s.m_size
    IN [s EXCEPT
          !.m_dataOffset = @ + Len(bytes),
          !.stray = @ \/ ~inside,
          !.file = IF ~inside THEN @
                   ELSE [i \in DOMAIN @ |->
                           IF i - s.m_dataOffset \in DOMAIN bytes
                           THEN bytes[i - s.m_dataOffset] ELSE @[i]]]

FillUnlessFailed(s, bytes) == IF s.failed THEN s ELSE Fill(s, bytes)

Content(no, len) == [i \in 1 .. len |-> no]
Record(no, len) == encodeVarint32(len) \o Content(no, len)

\* serialize(message): first its length, then the message itself
SerializedMessage(len) ==
    UNION {IF s1.failed THEN {s1}
           ELSE {FillUnlessFailed(s2, Content(Len(records) + 1, len)) :
                   s2 \in getBuffer(Fill(s1, encodeVarint32(len)), len)} :
             s1 \in getBuffer(w, MAX_VARINT32_BYTES)}

\* serialize(blob): a block that has the format of the file already
SerializedBlob(len) ==
    LET blob == Record(Len(records) + 1, len)
    IN {FillUnlessFailed(s, blob) : s \in getBuffer(w, Len(blob))}

\* A job does not go on after a failure
serialize(len) ==
    /\ w.open /\ ~w.failed /\ Len(records) < MaxRecords
    /\ w' \in SerializedMessage(len) \cup SerializedBlob(len)
    /\ records' = Append(records, len)
    /\ UNCHANGED <<r, out>>

\* The file is cut to its data
close ==
    /\ w.open
    /\ w' = [w EXCEPT !.open = FALSE, !.mapped = FALSE,
                      !.file = IF Len(@) < w.m_dataOffset
                               THEN @ \o [i \in 1 .. w.m_dataOffset - Len(@) |-> 0]
                               ELSE SubSeq(@, 1, w.m_dataOffset)]
    /\ UNCHANGED <<records, r, out>>
-----------------------------------------------------------------------------
init ==
    /\ ~w.open /\ ~r.open
    /\ r' = [r EXCEPT !.open = TRUE, !.m_size = Len(w.file)]
    /\ UNCHANGED <<w, records, out>>

isFinished == r.m_size = 0

readTraceEvent ==
    /\ r.open /\ ~r.m_error /\ ~isFinished
    /\ LET rest == SubSeq(w.file, r.at + 1, r.at + r.m_size)
           len == decodeVarint32(rest)
           left == r.m_size - len.bytes
       IN IF len.bytes = 0 \/ len.value > left
          THEN r' = [r EXCEPT !.m_error = TRUE] /\ UNCHANGED out
          ELSE /\ r' = [r EXCEPT !.at = @ + len.bytes + len.value, !.m_size = left - len.value]
               /\ out' = Append(out, SubSeq(rest, len.bytes + 1, len.bytes + len.value))
    /\ UNCHANGED <<w, records>>

Next ==
    \/ \E len \in Lengths : serialize(len)
    \/ close \/ init \/ readTraceEvent

Spec == Init /\ [][Next]_fvars
-----------------------------------------------------------------------------
Written == FlattenSeq([i \in DOMAIN records |-> Record(i, records[i])])

(* Wherever the window ends, nothing is written outside of it, and the data   *)
(* of the file is what was handed over, cut where the space ran out and only  *)
(* there.  The reader returns every whole message, and meets a rest it cannot *)
(* read only if the serializer failed.                                        *)
FileIntact ==
    /\ ~w.stray
    /\ w.failed => w.noSpace
    /\ SubSeq(w.file, 1, w.m_dataOffset) = SubSeq(Written, 1, w.m_dataOffset)
    /\ ~w.failed => w.m_dataOffset = Len(Written)
    /\ ~w.open => Len(w.file) = w.m_dataOffset
    /\ \A i \in DOMAIN out : out[i] = Content(i, records[i])
    /\ r.m_error => w.failed
    /\ r.open /\ isFinished /\ ~w.failed => Len(out) = Len(records)
    /\ r.m_error \/ (r.open /\ isFinished) => Len(out) >= Len(records) - 1
=============================================================================
