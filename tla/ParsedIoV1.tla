----------------------------- MODULE ParsedIoV1 -----------------------------
(* The handler of version 1 traces (trace/parser/v1).  IOs and completions   *)
(* are handled as in version 2.  File information is kept by the handler     *)
(* itself, with sizes; filesystem metadata refer to an IO by its id too.     *)
EXTENDS Integers, Sequences, FiniteSetsExt

CONSTANTS Devices, QueueLimit, DepthMod, NoFile

V2 == INSTANCE ParsedIoV2

Handler(subrange) == V2!Handler(subrange)

handleIo(h, e) == V2!handleIo(h, e)

handleCompletion(h, e, isFinished) == V2!handleCompletion(h, e, isFinished)

flushEvents(h, isFinished) == V2!flushEvents(h, isFinished)

pushOutEvent(h) == V2!pushOutEvent(h)

addMapping(h, e) == V2!addMapping(h, e)

delMapping(h, i) == V2!delMapping(h, i)

setSize(h, file, size) ==
    [h EXCEPT !.sizes = {s \in @ : s.file # file}
                          \cup {[file |-> file, size |-> size]}]

handleFsMeta(h, e) ==
    LET found == V2!cachedById(h, e.id)
    IN IF found = {} THEN h
       ELSE setSize(V2!setFile(h, e, CHOOSE i \in found : TRUE), e.file, e.size)

\* The size known of the file, 0 if none; a deleted file is forgotten
handleFileEvent(h, e) ==
    LET known == {s \in h.sizes : s.file = e.file}
        size == IF known = {} THEN 0 ELSE (CHOOSE s \in known : TRUE).size
        h1 == V2!fileEvent(h, e, size)
    IN IF e.delete THEN [h1 EXCEPT !.sizes = @ \ known]
       ELSE setSize(h1, e.file, size)

\* Whole devices, whose key is their id, count; copies for partitions do not
getDevicesSize(h, size) ==
    LET whole == {d \in h.devices : d.key = d.id}
    IN FoldSet(LAMBDA d, sum : sum + size[d.key], 0, whole)

handleEvent(h0, e, isFinished) ==
    LET h == V2!startTime(h0, e)
    IN CASE e.type = "desc" -> V2!handleDescription(h, e)
         [] e.type = "io"   -> IF V2!skipped(h, e) THEN h ELSE handleIo(h, e)
         [] e.type = "cmpl" -> IF V2!skipped(h, e) THEN h
                               ELSE handleCompletion(h, e, isFinished)
         [] e.type = "meta" -> handleFsMeta(h, e)
         [] e.type = "file" -> handleFileEvent(h, e)
         [] OTHER -> h
-----------------------------------------------------------------------------
\* FileSystemViewer: the names known when it is asked, by exact id.  A name is
\* a record of its prefix, the rest of it, its extension and its length.
NoId == <<0, 0, 0>>
NoName == [prefix |-> "", rest |-> "", ext |-> "", length |-> 0]
NewInfo == [parent |-> NoId, name |-> NoName]

FileInfo(info, id) == IF id \in DOMAIN info THEN info[id] ELSE NewInfo

getFileName(info, id) == FileInfo(info, id).name
getFileNamePrefix(info, id) == getFileName(info, id).prefix
getFileExtension(info, id) == getFileName(info, id).ext
getParentId(info, id) == FileInfo(info, id).parent

RECURSIVE getPath(_, _, _)
\* The names from the root down; none if one is not known, or when they are
\* longer than is left of PATH_MAX, which ends the search along a cycle
getPath(info, id, left) ==
    IF id \notin DOMAIN info \/ getFileName(info, id).length > left THEN <<>>
    ELSE LET i == info[id]
             above == getPath(info, i.parent, left - i.name.length)
         IN  IF id = i.parent THEN <<i.name>>
             ELSE IF above = <<>> THEN <<>> ELSE Append(above, i.name)

getDirPath(info, id, PATH_MAX) ==
    IF id \in DOMAIN info THEN getPath(info, info[id].parent, PATH_MAX) ELSE <<>>

\* The name of the file itself does not count for its length
getFilePath(info, id, PATH_MAX) ==
    LET dir == getDirPath(info, id, PATH_MAX)
    IN  IF dir = <<>> THEN <<>> ELSE Append(dir, getFileName(info, id))

\* kFilesystemFileName, and what asks m_fileInfo for a file makes an entry
SetInfo(info, id, new) ==
    [k \in DOMAIN info \cup {id} |-> IF k = id THEN new ELSE info[k]]

handleFileName(info, e) == SetInfo(info, e.id, [parent |-> e.parent, name |-> e.name])

\* getFileSystemViewer throws for a partition that is not among the devices
getFileSystemViewer(devices, partition) == partition \in devices
=============================================================================
