----------------------------- MODULE ParsedIoV2 -----------------------------
(* The handler of version 2 traces (trace/parser/v2): it turns submissions,  *)
(* completions and filesystem events into parsed IOs.  A parsed IO waits in  *)
(* m_queue for its completion, which is found by the id of the IO, and       *)
(* leaves the queue in the order of submission.                              *)
(*                                                                           *)
(* A handler is a record and its methods are operators.  The pointers in     *)
(* m_idMapping are allocation numbers, paths are left to FilesystemTree, and *)
(* "no" stands for the fields of an event that are copied and not looked at. *)
EXTENDS Integers, Sequences, FiniteSets

CONSTANTS
    Devices,      \* device and partition ids
    QueueLimit,   \* ParsedIoTraceEventHandler_QueueLimit
    DepthMod,     \* 2^64 in the code
    NoFile        \* a parsed event without file information

RECURSIVE pushReady(_), pushOver(_, _)

Handler(subrange) ==
    [queue |-> <<>>, made |-> 0, idMapping |-> {}, refSid |-> 0,
     depth |-> [d \in Devices |-> [Value |-> 0, Adjustment |-> 0]],
     devices |-> {}, sizes |-> {}, offset |-> 0, sidOffset |-> 0,
     limit |-> QueueLimit, subrange |-> subrange, out |-> <<>>]

\* IOs and completions that lie wholly outside the subrange are skipped
skipped(h, e) ==
    /\ h.subrange[2] # 0
    /\ e.lba + e.len < h.subrange[1] \/ e.lba > h.subrange[2]

\* The first event that is not a device description starts the time
startTime(h, e) ==
    IF h.offset = 0 /\ e.type # "desc" THEN [h EXCEPT !.offset = e.ts] ELSE h

\* m_devices: descriptions by device or partition; operator[] adds an empty one
describe(h, key, id) ==
    [h EXCEPT !.devices = {d \in @ : d.key # key} \cup {[key |-> key, id |-> id]}]

described(h, key) == {d \in h.devices : d.key = key}

touched(h, key) ==
    IF described(h, key) = {} THEN describe(h, key, 0) ELSE h

idOf(h, key) == (CHOOSE d \in described(h, key) : TRUE).id

handleDescription(h, e) ==
    LET h1 == describe(h, e.dev, e.dev)
    IN [h1 EXCEPT !.limit = QueueLimit * Cardinality(h1.devices)]

ParsedIo(h, e, sid, qd) ==
    [io |-> TRUE, ptr |-> h.made + 1, no |-> e.no, sid |-> sid, ts |-> e.ts,
     dev |-> e.dev, part |-> e.dev, lba |-> e.lba, len |-> e.len,
     latency |-> 0, qd |-> qd, file |-> NoFile, size |-> 0]

ParsedFileEvent(h, e, size) ==
    [io |-> FALSE, ptr |-> h.made + 1, no |-> e.no, sid |-> e.sid, ts |-> e.ts,
     dev |-> idOf(h, e.part), part |-> e.part, lba |-> 0, len |-> 0,
     latency |-> 0, qd |-> 0, file |-> e.file, size |-> size]

enqueue(h, parsed) ==
    [h EXCEPT !.queue = Append(@, parsed), !.made = parsed.ptr]

\* Mutant: std::map::insert, which keeps the mapping of an earlier IO
Mut_addMapping(h, e) ==
    [h EXCEPT !.idMapping =
        IF e.id = 0 \/ \E m \in @ : m.id = e.id THEN @
        ELSE @ \cup {[id |-> e.id, ptr |-> h.made]}]

\* A new mapping replaces the one of an IO whose completion was dropped
addMapping(h, e) ==
    [h EXCEPT !.idMapping =
        IF e.id = 0 THEN @
        ELSE {m \in @ : m.id # e.id} \cup {[id |-> e.id, ptr |-> h.made]}]

\* An IO of the device is queued and counted
submit(h, e, sid) ==
    LET d == h.depth[e.dev].Value + 1
    IN [enqueue(touched(h, e.dev), ParsedIo(h, e, sid, d))
          EXCEPT !.depth[e.dev].Value = d]

\* The id is kept in the place of the sid
handleIo(h, e) ==
    addMapping(submit(h, e, IF e.id # 0 THEN e.id ELSE e.sid), e)

\* Positions in the queue of the events that id maps to: none or one
cachedById(h, id) ==
    {i \in DOMAIN h.queue : [id |-> id, ptr |-> h.queue[i].ptr] \in h.idMapping}

\* Erases by what the event holds in the place of its sid
delMapping(h, i) ==
    IF ~h.queue[i].io THEN h
    ELSE [h EXCEPT !.idMapping = {m \in @ : m.id # h.queue[i].sid},
                   !.queue[i].sid = 0]

pushOutEvent(h) ==
    LET h1 == delMapping(h, 1)
        e == h1.queue[1]
        depth == h1.depth[e.dev]
    IN [h1 EXCEPT
          !.refSid = @ + 1,
          !.out = Append(@, [e EXCEPT
                     !.sid = h1.refSid + 1,
                     !.qd = IF e.io THEN (@ - depth.Adjustment) % DepthMod ELSE @,
                     !.ts = IF @ > h1.offset THEN @ - h1.offset ELSE 0]),
          !.depth[e.dev].Adjustment =    \* its completion was lost
              IF e.io /\ e.latency = 0 THEN @ + 1 ELSE @,
          !.queue = Tail(@)]

pushReady(h) ==
    IF h.queue # <<>> /\ h.queue[1].latency # 0
    THEN pushReady(pushOutEvent(h)) ELSE h

pushOver(h, isFinished) ==
    IF h.queue # <<>> /\ (isFinished \/ Len(h.queue) >= h.limit)
    THEN pushOver(pushOutEvent(h), isFinished) ELSE h

\* Mutant: the last flush keeps what was never completed
Mut_flushEvents(h, isFinished) == pushOver(pushReady(h), FALSE)

\* The completed front of the queue, then what exceeds the limit, then all
flushEvents(h, isFinished) == pushOver(pushReady(h), isFinished)

\* The completion of the IO at position i
complete(h, e, i) ==
    LET h1 == delMapping(h, i)
        fixed == e.lba # 0 /\ e.len # 0
    IN IF e.ts < h.queue[i].ts THEN h1    \* probably that of a dropped IO
       ELSE [h1 EXCEPT
               !.queue[i].latency = e.ts - h.queue[i].ts,
               !.queue[i].lba = IF fixed THEN e.lba ELSE @,
               !.queue[i].len = IF fixed THEN e.len ELSE @,
               !.depth[e.dev].Value = IF @ > 0 THEN @ - 1 ELSE 0]

handleCompletion(h, e, isFinished) ==
    LET found == cachedById(h, e.id)
    IN flushEvents(IF found = {} THEN h
                   ELSE complete(h, e, CHOOSE i \in found : TRUE), isFinished)

\* Adds the file of the IO and the description of its partition
setFile(h, e, i) ==
    LET dev == h.queue[i].dev
        h1 == [h EXCEPT !.queue[i].file = e.file, !.queue[i].size = e.size,
                        !.queue[i].part = e.part]
    IN IF described(h, e.part) = {}
       THEN describe(touched(h1, dev), e.part, idOf(touched(h1, dev), dev))
       ELSE h1

handleFsMeta(h, e) ==
    LET found == cachedById(h, e.id)
    IN IF found = {} THEN h ELSE setFile(h, e, CHOOSE i \in found : TRUE)

\* size is 0 here: only versions 0 and 1 know it
fileEvent(h0, e, size) ==
    LET h == touched(h0, e.part) IN enqueue(h, ParsedFileEvent(h, e, size))

handleFileEvent(h, e) == fileEvent(h, e, 0)

handleEvent(h0, e, isFinished) ==
    LET h == startTime(h0, e)
    IN CASE e.type = "desc" -> handleDescription(h, e)
         [] e.type = "io"   -> IF skipped(h, e) THEN h ELSE handleIo(h, e)
         [] e.type = "cmpl" -> IF skipped(h, e) THEN h
                               ELSE handleCompletion(h, e, isFinished)
         [] e.type = "meta" -> handleFsMeta(h, e)
         [] e.type = "file" -> handleFileEvent(h, e)
         [] OTHER -> h
=============================================================================
