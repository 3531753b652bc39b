----------------------------- MODULE ParsedIoV0 -----------------------------
(* The handler of version 0 traces (trace/parser/v0), which have no ids: a   *)
(* completion is matched by device, LBA and length to the oldest cached IO   *)
(* without a latency, filesystem metadata by the sid of the IO.  The lists   *)
(* of class Map and m_sidMapping hold exactly the cached IOs, in the order   *)
(* of the queue (sids are unique), and are read off the queue here.          *)
EXTENDS Integers, Sequences

CONSTANTS Devices, QueueLimit, DepthMod, NoFile

V1 == INSTANCE ParsedIoV1
V2 == INSTANCE ParsedIoV2

RECURSIVE pushReady(_), pushOver(_, _)

Handler(subrange) == V1!Handler(subrange)

\* The first event of any kind starts the time and the sids
startTime(h, e) ==
    IF h.offset = 0 THEN [h EXCEPT !.offset = e.ts, !.sidOffset = e.sid] ELSE h

KeyOf(x) == <<x.dev, x.lba, x.len>>

handleIo(h, e) == V2!submit(h, e, e.sid)

\* Map::get: latency 0 means not set yet
MapGet(h, key) ==
    LET at == {i \in DOMAIN h.queue : /\ h.queue[i].io
                                      /\ KeyOf(h.queue[i]) = key
                                      /\ h.queue[i].latency = 0}
    IN {i \in at : \A j \in at : i <= j}

sidMapping(h, sid) ==
    {i \in DOMAIN h.queue : h.queue[i].io /\ h.queue[i].sid = sid}

oneLess(n) == IF n > 0 THEN n - 1 ELSE 0

\* An IO less is outstanding; below the adjustment both counters start anew
lessDepth(depth) ==
    LET value == depth.Value - 1
    IN IF depth.Value = 0 THEN depth
       ELSE IF value < depth.Adjustment THEN [Value |-> 0, Adjustment |-> 0]
       ELSE [depth EXCEPT !.Value = value]

complete(h, e) ==
    LET found == MapGet(h, KeyOf(e))
        i == CHOOSE j \in found : TRUE
    IN IF found = {} \/ e.ts < h.queue[i].ts     \* a submission was dropped
       THEN [h EXCEPT !.depth[e.dev].Adjustment = oneLess(@)]
       ELSE [h EXCEPT !.queue[i].latency = e.ts - h.queue[i].ts,
                      !.depth[e.dev] = lessDepth(@)]

pushOutEvent(h) ==
    LET e == h.queue[1]
        adjust == h.depth[e.dev].Adjustment
    IN [h EXCEPT
          !.out = Append(@, [e EXCEPT
                     !.sid = @ - h.sidOffset,
                     !.qd = IF ~e.io THEN @
                            ELSE IF adjust < @ THEN @ - adjust ELSE 1,
                     !.ts = IF @ > h.offset THEN @ - h.offset ELSE 0]),
          !.depth[e.dev].Adjustment =
              IF e.io /\ e.latency = 0 THEN @ + 1 ELSE @,
          !.queue = Tail(@)]

pushReady(h) ==
    IF h.queue # <<>> /\ h.queue[1].latency # 0
    THEN pushReady(pushOutEvent(h)) ELSE h

pushOver(h, isFinished) ==
    IF h.queue # <<>> /\ (isFinished \/ Len(h.queue) >= h.limit)
    THEN pushOver(pushOutEvent(h), isFinished) ELSE h

flushEvents(h, isFinished) == pushOver(pushReady(h), isFinished)

handleFsMeta(h, e) ==
    LET found == sidMapping(h, e.refsid)
    IN IF found = {} THEN h
       ELSE V1!setSize(V2!setFile(h, e, CHOOSE i \in found : TRUE), e.file, e.size)

handleFileEvent(h, e) == V1!handleFileEvent(h, e)

handleDescription(h, e) == V2!handleDescription(h, e)

handleEvent(h0, e, isFinished) ==
    LET h == startTime(h0, e)
    IN CASE e.type = "desc" -> handleDescription(h, e)
         [] e.type = "io"   -> IF V2!skipped(h, e) THEN h ELSE handleIo(h, e)
         [] e.type = "cmpl" -> IF V2!skipped(h, e) THEN h
                               ELSE flushEvents(complete(h, e), isFinished)
         [] e.type = "meta" -> handleFsMeta(h, e)
         [] e.type = "file" -> handleFileEvent(h, e)
         [] OTHER -> h
-----------------------------------------------------------------------------
\* FileSystemViewer, as in version 1
getFileName(info, id) == V1!getFileName(info, id)
getFileNamePrefix(info, id) == V1!getFileNamePrefix(info, id)
getFileExtension(info, id) == V1!getFileExtension(info, id)
getParentId(info, id) == V1!getParentId(info, id)
getPath(info, id, left) == V1!getPath(info, id, left)
getDirPath(info, id, PATH_MAX) == V1!getDirPath(info, id, PATH_MAX)
getFilePath(info, id, PATH_MAX) == V1!getFilePath(info, id, PATH_MAX)
getFileSystemViewer(devices, partition) == V1!getFileSystemViewer(devices, partition)
handleFileName(info, e) == V1!handleFileName(info, e)
getDevicesSize(h, size) == V1!getDevicesSize(h, size)
=============================================================================
