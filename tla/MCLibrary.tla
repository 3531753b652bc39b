------------------------------- MODULE MCLibrary -------------------------------
(* The components that work on traces that were recorded, and the command      *)
(* line: each is checked by itself, the others stay unset, see MCServices.     *)
EXTENDS TraceExtensions, TraceStore, ProtobufReaderWriter, BuildExtensions,
        TraceConverter, TLC

CONSTANTS
    Scenarios,
    NoFile, NaN, Unset
-----------------------------------------------------------------------------
VARIABLE scenario

VARIABLES version, h, submitted, clock, parsing, queued
V == INSTANCE TraceParsing
     WITH ios <- submitted, Versions <- {0, 1, 2}, Device <- 1,
          Partition <- 2, QueueLimit <- 2, DepthMod <- 64, Ids <- {1, 2},
          Discards <- {2}, Subranges <- {<<0, 0>>, <<2, 3>>}, MaxEvents <- 4
vv == <<version, h, submitted, clock, parsing, queued>>

Io(dev, op, lba, len, latency, qd, error) ==
    [device |-> dev, operation |-> op, lba |-> lba, len |-> len, latency |-> latency,
     qd |-> qd, error |-> error, flush |-> len = 0, timestamp |-> 0]
Ios == {Io(1, "Write", 0, 2, 1, 1, FALSE), Io(1, "Write", 2, 4, 1, 9, TRUE),
        Io(1, "Read", 1, 2, 0, 3, FALSE), Io(1, "Read", 5, 1, 2, 0, FALSE),
        Io(1, "Discard", 1, 3, 3, 1, FALSE), Io(1, "Discard", 0, 6, 9, 2, FALSE),
        Io(1, "Write", 0, 0, 2, 1, FALSE), Io(2, "Write", 3, 1, 1, 1, FALSE)}
VARIABLES s_map, m_lbaHistEnabled, builders, ios
I == INSTANCE IoStatistics
     WITH m_map <- s_map, CacheLineSectors <- 2,
          Percentages <- {10, 50, 100}, Devices <- {1, 2}, SizeRanges <- 2,
          QdRanges <- 2, LbaRange <- 2, WorksetSize <- 5, MaxIos <- 3
iv == <<s_map, m_lbaHistEnabled, builders, ios>>

\* A root, two directories that may be moved into each other, and a file whose
\* inode is used again
Name(prefix, rest, ext) == [prefix |-> prefix, rest |-> rest, ext |-> ext]
Event(id, parent, name) == [id |-> id, parent |-> parent, name |-> name]
Root == <<1, 2, 0>>
DirA == <<1, 3, 1>>
DirB == <<1, 4, 1>>
NameEvents ==
    {Event(Root, Root, Name("", "/", "")), Event(DirA, Root, Name("a", "", "")),
     Event(DirB, DirA, Name("b", "", "")), Event(DirB, Root, Name("b", "", "")),
     Event(DirA, DirB, Name("a", "", "")), Event(<<1, 5, 1>>, DirB, Name("f", "1", "x")),
     Event(<<1, 5, 3>>, DirA, Name("f", "2", "")), Event(<<1, 6, 1>>, DirA, Name("f", "1", "x"))}
Files == {<<1, 5, 2>>, <<1, 5, 3>>, <<1, 6, 1>>}
VARIABLES phase, events, m_fileInfo, extension, f_children, f_ios, crashed
F == INSTANCE FilesystemTree
     WITH m_children <- f_children, ios <- f_ios, MaxNames <- 3, MaxIos <- 2
fv == <<phase, events, m_fileInfo, extension, f_children, f_ios, crashed>>

Place(sid, dev) == [sid |-> sid, dev |-> dev]
QueueFiles == {<<>>, <<Place(1, 1), Place(3, 0)>>, <<Place(1, 1), Place(2, 2)>>, <<Place(2, 1), Place(4, 0), Place(5, 0)>>,
               <<Place(3, 2)>>}
VARIABLES m_file, compare, complete, m_readers, m_events, returned, m_devList,
          m_cancelRequested, parser
G == INSTANCE TraceMerge
     WITH file <- m_file, Queues <- {1, 2}, Files <- QueueFiles,
          Compares <- {"sid", "name", "none"}
gv == <<m_file, compare, complete, m_readers, m_events, returned, m_devList,
       m_cancelRequested, parser>>

VARIABLES w, records, r, out
W == INSTANCE TraceFile
     WITH PageSize <- 4, MinMap <- 4, VarintBase <- 4,
          MAX_VARINT32_BYTES <- 3, Lengths <- {0, 1, 3, 5}, MaxRecords <- 3
wv == <<w, records, r, out>>

Field(type, long, short, required, options, min, max) ==
    [type |-> type, long |-> long, short |-> short, required |-> required,
     options |-> options, default |-> min, min |-> min, max |-> max, enum |-> <<>>]
Fields ==
    {{Field("uint32", "num", "n", TRUE, TRUE, 0, 9), Field("bool", "flag", "f", FALSE, FALSE, 0, 0),
      [Field("enum", "kind", "k", FALSE, TRUE, 0, 0) EXCEPT !.enum = <<"n", "flag">>, !.default = 1]},
     {Field("string", "str", "s", FALSE, FALSE, 0, 0), Field("int32", "big", "n", FALSE, TRUE, -9, 9)},
     {Field("int64", "big", "n", FALSE, FALSE, 0, 0), Field("double", "num", "l", FALSE, TRUE, -5, 0)},
     {Field("bool", "flag", "f", FALSE, FALSE, 0, 0), Field("strings", "list", "l", TRUE, FALSE, 0, 0)},
     {[Field("enum", "kind", "k", TRUE, FALSE, 0, 0) EXCEPT !.enum = <<"5", "n", "n">>],
      Field("strings", "list", "l", FALSE, TRUE, 1, 1)}}
Word(dashes, name, number, double) ==
    [dashes |-> dashes, name |-> name, number |-> number, double |-> double, items |-> <<name>>]
Elements == {Word(1, "n", NaN, NaN), Word(2, "num", NaN, NaN), Word(0, "5", 5, 5), Word(1, "5", -5, -5),
             Word(0, "0.5", NaN, 0), Word(1, "f", NaN, NaN), Word(0, "n", NaN, NaN), Word(1, "k", NaN, NaN),
             Word(1, "s", NaN, NaN), Word(2, "list", NaN, NaN), Word(2, "H", NaN, NaN)}
Limits == [t \in {"int32", "uint32", "int64", "double"} |->
             CASE t = "int32" -> -4 .. 4 [] t = "uint32" -> 0 .. 8 [] OTHER -> -20 .. 20]
VARIABLES command, line, list, param, outcome, message
O == INSTANCE CommandOptions
     WITH MaxElements <- 4, TooLong <- {"list"},
          Letters <- {"n", "f", "k", "s", "H"},
          Words <- {"num", "flag", "big", "list", "H"},
          HelpKeys <- {"H", "help"}
ov == <<command, line, list, param, outcome, message>>

Command(long, short, valid) == [long |-> long, short |-> short, valid |-> valid]
Interface(long, short, methods) ==
    [long |-> long, short |-> short, cli |-> TRUE, methods |-> methods]
List == Command("list", "L", TRUE)
Interfaces ==
    {Interface("", "", <<List, Command("start", "", TRUE)>>),
     Interface("", "", <<Command("parse", "P", TRUE)>>),
     Interface("parser", "P", <<List, Command("show", "S", TRUE)>>),
     Interface("parser", "", <<List, Command("stop", "", FALSE)>>),
     Interface("manage", "M", <<List, Command("show", "L", TRUE)>>),
     Interface("node1", "", <<List>>)}
Remote ==
    [n \in {"node1", "node2"} |-> IF n = "node1"
       THEN <<Interface("", "", <<List, Command("stop", "S", FALSE)>>),
              Interface("", "", <<Command("stop", "S", TRUE)>>),
              [Interface("", "", <<List>>) EXCEPT !.cli = FALSE]>>
       ELSE <<Interface("", "", <<List>>), Interface("", "", <<Command("stop", "L", TRUE)>>)>>]
Lines == {"version", "parser", "P", "list", "L", "node1", "node2", "M"} \X {"", "L", "S", "H"}
VARIABLES m_localCmdSet, m_modules, m_supportedRemoteModules, c_line,
          c_outcome
C == INSTANCE CommandLine
     WITH line <- c_line, outcome <- c_outcome, Nodes <- {"node1", "node2"}
cv == <<m_localCmdSet, m_modules, m_supportedRemoteModules, c_line,
       c_outcome>>

\* Two users of different versions, and a trace below another
VersionOf == <<1, 2>>
Paths == <<<<"a">>, <<"a", "b">>>>
StoreSelections == {[path |-> <<"a">>, star |-> TRUE], [path |-> <<"a">>, star |-> FALSE]}
StoreAsked ==
    <<{"Statistics", "Lba1", "LatencyHistogram", "Devices", "FileSystemStatistics"},
      {"Statistics", "Lba2", "SizeHistogram", "QueueDepthHistogram", "Parsed"}>>

Part(kind, name, oneof, set, value) ==
    [kind |-> kind, name |-> name, oneof |-> oneof, set |-> set, value |-> value]
Prim(name, value) == Part("primitive", name, "", TRUE, value)
Pair(kind, key, value) == [kind |-> kind, key |-> key, value |-> value]
Messages ==
    {<<Part("primitive", "device", "what", TRUE, 1), Part("repeated", "lba", "", TRUE, lba),
       Part("message", "read", "", set, <<Prim("count", 6)>>),
       Part("messages", "part", "", TRUE, parts), Part("map", "metric", "", TRUE, pairs)>> :
       lba \in {<<>>, <<4, 5>>}, set \in BOOLEAN, parts \in {<<>>, <<<<Prim("id", 7)>>>>},
       pairs \in {<<>>, <<Pair("primitive", 50, 8)>>,
                 <<Pair("message", 90, <<Prim("count", 9)>>), Pair("primitive", 50, 3)>>}}
Buckets(begins) == [n \in DOMAIN begins |-> [begin |-> begins[n], end |-> begins[n] + 1, count |-> 2 * begins[n]]]
OneHistogram ==
    [desc : {<<Prim("device", 1)>>},
     read : {Buckets(<<>>), Buckets(<<0, 2>>)}, write : {Buckets(<<1>>), Buckets(<<2, 3>>)}]
VARIABLES answer, histograms, i, table, tables
T == INSTANCE Tables
     WITH Answers <- {<<>>} \cup [1 .. 2 -> Messages],
          Histograms <- {<<>>} \cup [1 .. 2 -> OneHistogram]
tv == <<answer, histograms, i, table, tables>>

\* Two objects of one process and one of another, which is privileged
ObjectProcess == [o \in Objects |-> o \div 10]
MessageSize == [long |-> 2, short |-> 1]

FileName(prefix, ext, length) ==
    [prefix |-> prefix, rest |-> "", ext |-> ext, length |-> length]
TreeStart == [id \in {Root, DirA, DirB} |->
            CASE id = Root -> [parent |-> Root, name |-> FileName("", "", 1)]
              [] id = DirA -> [parent |-> Root, name |-> FileName("a", "", 1)]
              [] id = DirB -> [parent |-> DirA, name |-> FileName("b", "", 1)]]
VARIABLES n_version, tree, n_lost, n_fileInfo, m_devices, m_queue, given, steps
N == INSTANCE FileNames
     WITH Start <- TreeStart,
          version <- n_version, lost <- n_lost, m_fileInfo <- n_fileInfo,
          Files <- {<<1, 5, 1>>, <<1, 5, 2>>},
          Names <- {FileName("a", "", 1), FileName("b", "x", 3)}, PATH_MAX <- 4,
          MaxSteps <- 4, Devices <- {1}, QueueLimit <- 2, DepthMod <- 64
nv == <<n_version, tree, n_lost, n_fileInfo, m_devices, m_queue, given, steps>>

\* Of three extensions, entries for some of three IOs, with and without a result
Entries(sids, unset) == [n \in DOMAIN sids |-> [sid |-> sids[n], set |-> sids[n] \notin unset]]
Contained == {Entries(sids, unset) :
                sids \in {<<>>, <<2>>, <<1, 3>>, <<1, 2, 3>>}, unset \in {{}, {1, 2}}}

\* Each type of event with all its values other than those of another
Hdr(n) == [sid |-> n, timestamp |-> 10 + n]
InodeOf(n) == [id |-> n, tv_sec |-> 20 + n, tv_nsec |-> 30 + n]
Trace(type, size, n, fields) == [type |-> type, size |-> size, hdr |-> Hdr(n), fields |-> fields]
IoOf(n, op, flags) == [operation |-> op, flags |-> flags, lba |-> n, len |-> n + 1,
                       dev_id |-> n + 2, write_hint |-> n + 3, id |-> n + 4]
FileEvent(n, type) == [file_id |-> InodeOf(n), partition_id |-> n + 1, fs_event_type |-> type]
Pushed ==
    UNION {{Trace("device_desc", "exact", n, [id |-> n, device_name |-> "name" \o ToString(n),
                                              device_size |-> n, device_model |-> "model" \o ToString(n)]),
            Trace("io_cmpl", "exact", n, [lba |-> n, len |-> n + 1, error |-> n - 1, dev_id |-> n + 2,
                                          ref_id |-> n + 3]),
            Trace("fs_meta", "exact", n, [ref_id |-> n, file_offset |-> n + 1, file_size |-> n + 2,
                                          file_id |-> InodeOf(n), partition_id |-> n + 3]),
            Trace("fs_file_name", "exact", n,
                  [file_name |-> "file" \o ToString(n), file_id |-> InodeOf(n),
                   file_parent_id |-> InodeOf(n + 1), partition_id |-> n + 3]),
            Trace("io_cmpl", IF n = 1 THEN "short" ELSE "other", n, <<>>),
            Trace("fs_file_event", "exact", 5, FileEvent(5, "unlink"))} : n \in 1 .. 2}
    \cup {Trace("io", "exact", n, IoOf(n, <<"R", "W", "D", "X">>[n],
                                      <<{}, {"flush", "fua"}, {"metadata", "direct", "readahead"}, {}>>[n])) :
            n \in 1 .. 4}
    \cup {Trace("fs_file_event", "exact", n,
                FileEvent(n, <<"create", "delete", "move_to", "move_from">>[n])) : n \in 1 .. 4}
-----------------------------------------------------------------------------
Init ==
    /\ scenario \in Scenarios
    /\ IF scenario = "parsing" THEN V!Init
       ELSE version = 0 /\ h = 0 /\ submitted = 0 /\ clock = 0 /\
            parsing = 0 /\ queued = 0
    /\ IF scenario = "statistics" THEN I!Init
       ELSE s_map = 0 /\ m_lbaHistEnabled = 0 /\ builders = 0 /\ ios = 0
    /\ IF scenario = "tree" THEN F!Init
       ELSE phase = 0 /\ events = 0 /\ m_fileInfo = 0 /\ extension = 0 /\
            f_children = 0 /\ f_ios = 0 /\ crashed = 0
    /\ IF scenario = "merge" THEN G!Init
       ELSE m_file = 0 /\ compare = 0 /\ complete = 0 /\ m_readers = 0 /\
            m_events = 0 /\ returned = 0 /\ m_devList = 0 /\
            m_cancelRequested = 0 /\ parser = 0
    /\ IF scenario = "file" THEN W!Init
       ELSE w = 0 /\ records = 0 /\ r = 0 /\ out = 0
    /\ ExtensionsInit
    /\ scenario # "extensions" => lst = {} /\ together = CHOOSE b \in Together : TRUE
    /\ IF scenario = "options" THEN O!Init
       ELSE command = 0 /\ line = 0 /\ list = 0 /\ param = 0 /\ outcome = 0
            /\ message = 0
    /\ IF scenario = "commands" THEN C!Init
       ELSE m_localCmdSet = 0 /\ m_modules = 0 /\
            m_supportedRemoteModules = 0 /\ c_line = 0 /\ c_outcome = 0
    /\ StoreInit
    /\ scenario # "store" => state = [t \in Traces |-> "running"]
    /\ IF scenario = "tables" THEN T!Init /\ (answer = <<>> \/ histograms = <<>>)
       ELSE answer = 0 /\ histograms = 0 /\ i = 0 /\ table = 0 /\ tables = 0
    /\ FileInit
    /\ scenario # "sharing" => path = Closed
    /\ IF scenario = "names" THEN N!Init
       ELSE n_version = 0 /\ tree = 0 /\ n_lost = 0 /\ n_fileInfo = 0 /\
            m_devices = 0 /\ m_queue = 0 /\ given = 0 /\ steps = 0
    /\ scenario # "join" =>
         format = "other" /\ busy = {} /\ supplied = FALSE /\ failed = FALSE
         /\ built = [b \in Builders |-> <<>>]
    /\ BuildInit
    /\ ConvertInit

Next ==
    \/ scenario = "parsing" /\ V!Next /\ UNCHANGED <<scenario, iv, fv, gv, wv, evars, ov, cv, storevars, tv, filevars, nv, bvars, cvars>>
    \/ scenario = "statistics" /\ I!Next /\ UNCHANGED <<scenario, vv, fv, gv, wv, evars, ov, cv, storevars, tv, filevars, nv, bvars, cvars>>
    \/ scenario = "tree" /\ F!Next /\ UNCHANGED <<scenario, vv, iv, gv, wv, evars, ov, cv, storevars, tv, filevars, nv, bvars, cvars>>
    \/ scenario = "merge" /\ G!Next /\ UNCHANGED <<scenario, vv, iv, fv, wv, evars, ov, cv, storevars, tv, filevars, nv, bvars, cvars>>
    \/ scenario = "file" /\ W!Next /\ UNCHANGED <<scenario, vv, iv, fv, gv, evars, ov, cv, storevars, tv, filevars, nv, bvars, cvars>>
    \/ scenario = "extensions" /\ ExtensionsNext /\ UNCHANGED <<scenario, vv, iv, fv, gv, wv, ov, cv, storevars, tv, filevars, nv, bvars, cvars>>
    \/ scenario = "options" /\ O!Next /\ UNCHANGED <<scenario, vv, iv, fv, gv, wv, evars, cv, storevars, tv, filevars, nv, bvars, cvars>>
    \/ scenario = "commands" /\ C!Next /\ UNCHANGED <<scenario, vv, iv, fv, gv, wv, evars, ov, storevars, tv, filevars, nv, bvars, cvars>>
    \/ scenario = "store" /\ StoreNext /\ UNCHANGED <<scenario, vv, iv, fv, gv, wv, evars, ov, cv, tv, filevars, nv, bvars, cvars>>
    \/ scenario = "tables" /\ T!Next /\ UNCHANGED <<scenario, vv, iv, fv, gv, wv, evars, ov, cv, storevars, filevars, nv, bvars, cvars>>
    \/ scenario = "sharing" /\ FileNext /\ UNCHANGED <<scenario, vv, iv, fv, gv, wv, evars, ov, cv, storevars, tv, nv, bvars, cvars>>
    \/ scenario = "names" /\ N!Next /\ UNCHANGED <<scenario, vv, iv, fv, gv, wv, evars, ov, cv, storevars, tv, filevars, bvars, cvars>>
    \/ scenario = "join" /\ BuildNext /\ UNCHANGED <<scenario, vv, iv, fv, gv, wv, evars, ov, cv, storevars, tv, filevars, nv, cvars>>
    \/ scenario = "convert" /\ ConvertNext /\ UNCHANGED <<scenario, vv, iv, fv, gv, wv, evars, ov, cv, storevars, tv, filevars, nv, bvars>>

vars == <<scenario, vv, iv, fv, gv, wv, evars, ov, cv, storevars, tv, filevars, nv, bvars, cvars>>

Spec == Init /\ [][Next]_vars
-----------------------------------------------------------------------------
\* The events of a trace leave its handler once and in order, with a latency
\* and a queue depth that are those of the IO they are reported for; what
\* several sources hold comes together in the order of the trace
EventsTrue ==
    /\ scenario = "parsing" => V!InOrderOnce /\ V!OwnLatency /\ V!DepthBalance
    /\ scenario = "merge" => G!MergedInOrder

\* What is computed from the same IOs in different ways agrees with the IOs,
\* and files are placed where their names say
ConsumersAgree ==
    /\ scenario = "statistics" => I!WorksetSound /\ I!StatisticsAgree /\ I!LruExact
    /\ scenario = "tree" => F!TreeComplete
    /\ scenario = "names" => N!PathsTrue

\* What is written to disk, or printed, is read back as it was
StoresAgree ==
    /\ scenario = "file" => W!FileIntact
    /\ scenario = "tables" => T!StatisticsPrinted /\ T!HistogramsPrinted

\* The command that runs, and the message it runs with, are what the line says
CommandLineSound ==
    /\ scenario = "options" => O!OptionsSound
    /\ scenario = "commands" => C!LookupExact
=============================================================================
