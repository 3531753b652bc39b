---------------------------------- MODULE Tables ----------------------------------
(* The tables in which statistics and histograms are printed: cells found by row *)
(* and column name, columns numbered as they are first named, rows kept in the   *)
(* order of their indices, row 0 for the header.                                 *)
EXTENDS Integers, Sequences, SequencesExt, FiniteSets, FiniteSetsExt, Functions, TLC

CONSTANTS
    Answers,    \* sequences of messages; a message is a sequence of fields
                \*   [kind, name, oneof, set, value]: a primitive value, repeated
                \*   ones, pairs of a map, a message or repeated messages; oneof
                \*   is the name of the oneof whose first field this is, if any
    Histograms  \* sequences of [desc, read, write], one per device: a message
                \*   and sequences of [begin, end, count]

VARIABLES answer, histograms, i, table, tables

tabvars == <<answer, histograms, i, table, tables>>

Operations == {"read", "write"}
-----------------------------------------------------------------------------
Empty == [rows |-> {}, columns |-> <<>>, cells |-> [x \in {} |-> 0]]

\* row[name] = value: rows, column associations, columns and cells are made as
\* they are first used
Set(t, row, name, value) ==
    [rows |-> t.rows \cup {row},
     columns |-> IF Contains(t.columns, name) THEN t.columns ELSE Append(t.columns, name),
     cells |-> [x \in (DOMAIN t.cells) \cup {<<row, name>>} |->
                  IF x = <<row, name>> THEN value ELSE t.cells[x]]]
SetAll(t, row, pairs) == FoldLeft(LAMBDA s, p : Set(s, row, p[1], p[2]), t, pairs)

\* The name of a column is the path to the value; an item of a repeated field
\* and of a map has its index, or its key, in it
At(name, key) == Append(name, "[" \o ToString(key) \o "]")
streamRepeatedFieldToRow(name, items) ==
    [n \in DOMAIN items |-> <<At(name, n - 1), items[n]>>]
streamFieldToRow(name, field) ==
    IF field.kind = "repeated" THEN streamRepeatedFieldToRow(name, field.value)
    ELSE <<<<name, field.value>>>>

\* A message within a message is left out while it is not set
RECURSIVE streamMessageToRow(_, _)
streamMapPairToRow(name, pair) ==
    IF pair.kind = "message" THEN streamMessageToRow(At(name, pair.key), pair.value)
    ELSE streamFieldToRow(At(name, pair.key), pair)
streamMessageToRow(prefix, msg) ==
    FlattenSeq([n \in DOMAIN msg |->
        LET field == msg[n]
            name == Append(prefix, field.name)
        IN  CASE field.kind = "map" ->
                   FlattenSeq([k \in DOMAIN field.value |-> streamMapPairToRow(name, field.value[k])])
              [] field.kind = "messages" ->
                   FlattenSeq([k \in DOMAIN field.value |->
                                 streamMessageToRow(At(name, k - 1), field.value[k])])
              [] field.kind = "message" ->
                   IF field.set THEN streamMessageToRow(name, field.value) ELSE <<>>
              [] OTHER -> streamFieldToRow(name, field)])

\* What the description of a message knows: nothing of repeated fields and maps,
\* but the messages that are not set
RECURSIVE setupRowAsHeader(_, _)
setupRowAsHeader(prefix, msg) ==
    UNION {LET field == msg[n]
               name == Append(prefix, field.name)
           IN  (IF field.oneof = "" THEN {} ELSE {Append(prefix, field.oneof)})
               \cup (IF field.kind = "message" THEN setupRowAsHeader(name, field.value) ELSE {name}) :
             n \in {k \in DOMAIN msg : msg[k].kind \in {"primitive", "message"}}}

Flat(msg) == streamMessageToRow(<<>>, msg)
SetNames(t, names) == FoldSet(LAMBDA name, s : Set(s, 0, name, name), t, names)
NamesOf(pairs) == {pairs[n][1] : n \in DOMAIN pairs}
\* Mutant: only the description is asked
Mut_setHeader(t, msg) == SetNames(t, setupRowAsHeader(<<>>, msg))
setHeader(t, msg) == SetNames(t, NamesOf(Flat(msg)) \cup setupRowAsHeader(<<>>, msg))

\* setupHeader() and clear() of row 0: the cells and then the row are erased, the
\* columns stay
setupHeader(t) == SetNames(t, ToSet(t.columns))
clear(t) == [t EXCEPT !.rows = @ \ {0},
                      !.cells = Restrict(@, {x \in DOMAIN @ : x[1] # 0})]
-----------------------------------------------------------------------------
Init ==
    /\ answer \in Answers /\ histograms \in Histograms
    /\ i = 1 /\ table = Empty /\ tables = <<>>

\* GetTraceStatistics(): each message extends the header
StatisticsRow ==
    /\ i <= Len(answer)
    /\ table' = SetAll(setHeader(table, answer[i]), i, Flat(answer[i]))
    /\ i' = i + 1
    /\ UNCHANGED <<answer, histograms, tables>>

\* GetFileSystemStatistics() and GetDeviceList(): all messages extend the header
\* before the rows are written
EntriesTable ==
    /\ i = 1 /\ answer # <<>>
    /\ LET hdr == FoldLeft(setHeader, Empty, answer)
       IN  table' = setupHeader(FoldLeft(LAMBDA t, n : SetAll(t, n, Flat(answer[n])), hdr,
                                         [n \in DOMAIN answer |-> n]))
    /\ i' = Len(answer) + 1
    /\ UNCHANGED <<answer, histograms, tables>>

\* The rows of an operation are found by where their range begins
setter(t, operation, histogram) ==
    FoldLeft(LAMBDA s, r : SetAll(s, r.begin, Flat(histogram.desc) \o
                <<<<<<"rangeBegin">>, r.begin>>, <<<<"rangeEnd">>, r.end>>,
                  <<<<operation>>, r.count>>>>),
             t, histogram[operation])

\* printHistogramCsv(): a table for each device
HistogramTable ==
    /\ Len(tables) < Len(histograms)
    /\ LET histogram == histograms[Len(tables) + 1]
           columns == <<"rangeBegin", "rangeEnd", "read", "write">>
           hdr == SetAll(setHeader(Empty, histogram.desc), 0,
                         [n \in DOMAIN columns |-> <<<<columns[n]>>, <<columns[n]>>>>])
           t == setter(setter(hdr, "read", histogram), "write", histogram)
       IN  tables' = Append(tables, IF tables = <<>> THEN setupHeader(t) ELSE clear(t))
    /\ UNCHANGED <<answer, histograms, i, table>>

Next == StatisticsRow \/ EntriesTable \/ HistogramTable
-----------------------------------------------------------------------------
Holds(t, row, name, value) ==
    <<row, name>> \in DOMAIN t.cells /\ t.cells[<<row, name>>] = value

\* However the messages differ in what they hold: each value is printed in the
\* row of its message under a column that the header names, and nothing else is
\* (GetTraceStatistics(), GetDeviceList(), setHeader(), streamMessageToRow()).
StatisticsPrinted ==
    \A n \in 1 .. i - 1 :
        LET pairs == Flat(answer[n])
        IN  /\ \A k \in DOMAIN pairs : /\ Holds(table, n, pairs[k][1], pairs[k][2])
                                       /\ Holds(table, 0, pairs[k][1], pairs[k][1])
            /\ {x \in DOMAIN table.cells : x[1] = n} = {n} \X NamesOf(pairs)

\* Each count of each device is printed in the row of its range, but for a range
\* that begins at 0, whose row is that of the header; the header stands above
\* the first table only and names the columns of every one (printHistogramCsv()).
HistogramsPrinted ==
    \A d \in DOMAIN tables :
        /\ tables[d].columns = tables[1].columns
        /\ 0 \in tables[d].rows <=> d = 1
        /\ d = 1 => \A c \in ToSet(tables[1].columns) : Holds(tables[1], 0, c, c)
        /\ \A o \in Operations : \A n \in DOMAIN histograms[d][o] :
             LET r == histograms[d][o][n]
             IN  r.begin # 0 => /\ Holds(tables[d], r.begin, <<o>>, r.count)
                                /\ Holds(tables[d], r.begin, <<"rangeEnd">>, r.end)
=============================================================================
