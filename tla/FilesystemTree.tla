---------------------------- MODULE FilesystemTree ----------------------------
(* The view of the filesystem built from the file names of a trace (v2),      *)
(* kept in the extension .FilesystemTree for the next handler, and the IO     *)
(* statistics by directory, file extension and name prefix (FilesystemStati-  *)
(* stics).  A FileId is <<partition, inode, creation date>>; a name is a      *)
(* record of its prefix, the rest of it and its extension.                    *)
EXTENDS Integers, Sequences, FiniteSets, FiniteSetsExt, SequencesExt, Functions

CONSTANTS
    NameEvents,   \* [id, parent, name] that a trace may hold
    Files,        \* ids of the files IOs are for
    MaxNames, MaxIos

VARIABLES
    phase,       \* "build" the view, "cached": read from the extension, "count"
    events,      \* file names in the trace so far
    m_fileInfo,  \* FileId -> FileInfo, the viewers of all partitions
    extension,   \* events written to .FilesystemTree
    m_children,  \* statistics by the keys on their way: [ios, discards]
    ios,         \* files IOs were counted for
    crashed      \* the recursion along a cycle of parents

tvars == <<phase, events, m_fileInfo, extension, m_children, ios, crashed>>

NoId == <<0, 0, 0>>
Slash == [prefix |-> "", rest |-> "/", ext |-> ""]
NoName == [prefix |-> "", rest |-> "", ext |-> ""]

Init ==
    /\ phase = "build"
    /\ events = <<>> /\ m_fileInfo = <<>> /\ extension = <<>>
    /\ m_children = <<>> /\ ios = <<>>
    /\ crashed = FALSE
-----------------------------------------------------------------------------
\* FileSystemViewer.  Without an entry of that very creation date the last one
\* before it is taken.
find(info, id) ==
    LET same == {k \in DOMAIN info : k[1] = id[1] /\ k[2] = id[2] /\ k[3] <= id[3]}
    IN {k \in same : \A j \in same : j[3] <= k[3]}

InfoOf(info, id) == info[CHOOSE k \in find(info, id) : TRUE]

\* Mutant: an earlier file of the same inode will do
Mut_hasFile(info, id) == find(info, id) # {}

hasFile(info, id) == id \in DOMAIN info

addFile(info, id, parent, name) ==
    [k \in DOMAIN info \cup {id} |->
        IF k = id THEN [parent |-> parent, name |-> name] ELSE info[k]]

getParentId(id) == IF find(m_fileInfo, id) = {} THEN NoId ELSE InfoOf(m_fileInfo, id).parent
getFileName(id) == IF find(m_fileInfo, id) = {} THEN NoName ELSE InfoOf(m_fileInfo, id).name
getFileExtension(id) == getFileName(id).ext
getFileNamePrefix(id) == getFileName(id).prefix

RECURSIVE getPath(_, _, _)
\* The names from the root, none if an ancestor is unknown; len is what is left
\* of PATH_MAX, which ends the search along a cycle
getPath(info, id, len) ==
    IF find(info, id) = {} \/ len = 0 THEN <<>>
    ELSE LET i == InfoOf(info, id)
             above == getPath(info, i.parent, len - 1)
         IN IF id = i.parent \/ i.name = Slash THEN <<i.name>>
            ELSE IF above = <<>> THEN <<>> ELSE Append(above, i.name)

PathMax == Cardinality(DOMAIN m_fileInfo) + 1

getDirPath(id) ==
    IF find(m_fileInfo, id) = {} THEN <<>>
    ELSE getPath(m_fileInfo, InfoOf(m_fileInfo, id).parent, PathMax)

getFilePath(id) ==
    IF getDirPath(id) = <<>> THEN <<>> ELSE Append(getDirPath(id), getFileName(id))

\* handleEvent of TraceEventHandlerFilesystemTree, while a writer is there
HandleName(view, ext, e) ==
    [view |-> addFile(view, e.id, e.parent, e.name),
     ext |-> IF hasFile(view, e.id) THEN ext ELSE Append(ext, e)]

handleEvent(e) ==
    /\ phase = "build" /\ Len(events) < MaxNames
    /\ LET new == HandleName(m_fileInfo, extension, e)
       IN m_fileInfo' = new.view /\ extension' = new.ext
    /\ events' = Append(events, e)
    /\ UNCHANGED <<phase, m_children, ios, crashed>>

\* init, once the trace has been read: the extension is committed
commit ==
    /\ phase = "build"
    /\ phase' = "count"
    /\ UNCHANGED <<events, m_fileInfo, extension, m_children, ios, crashed>>

\* init of a later handler: the events of the extension
Cached ==
    FoldLeft(LAMBDA view, e : addFile(view, e.id, e.parent, e.name), <<>>, extension)

initCached ==
    /\ phase = "count" /\ ~crashed
    /\ phase' = "cached"
    /\ m_fileInfo' = Cached
    /\ m_children' = <<>> /\ ios' = <<>>
    /\ UNCHANGED <<events, extension, crashed>>
-----------------------------------------------------------------------------
\* FilesystemStatistics.  The way of keys to the statistics of a directory;
\* the recursion ends at an id that is its own parent, as NoId is
Key(case, name, part) == <<case, name, part>>

RECURSIVE getStatisticsByIds(_, _)
getStatisticsByIds(dirId, len) ==
    LET parentId == getParentId(dirId)
        key == Key("directory", getFileName(dirId), dirId[1])
    IN IF parentId = dirId \/ len = 0 THEN <<key>>
       ELSE Append(getStatisticsByIds(parentId, len - 1), key)

Cyclic(id) ==
    LET up[n \in 0 .. PathMax + 1] == IF n = 0 THEN id ELSE getParentId(up[n - 1])
    IN up[PathMax] # up[PathMax + 1]

\* getStatisticsByKey creates what is missing on the way
StatsAt(ways) ==
    [x \in DOMAIN m_children \cup UNION {Prefixes(way) \ {<<>>} : way \in ways} |->
        LET old == IF x \in DOMAIN m_children THEN m_children[x] ELSE [ios |-> 0, discards |-> 0]
        IN IF x \in ways THEN [old EXCEPT !.ios = @ + 1] ELSE old]

CountedAt(id) ==
    {getStatisticsByIds(getParentId(id), PathMax)} \cup
    {<<Key("extension", e, id[1])>> : e \in {getFileExtension(id)} \ {""}} \cup
    {<<Key("prefix", p, id[1])>> : p \in {getFileNamePrefix(id)} \ {""}}

count(id) ==
    /\ phase \in {"count", "cached"} /\ Len(ios) < MaxIos /\ ~crashed
    /\ IF Cyclic(id) THEN crashed' = TRUE /\ UNCHANGED <<m_children, ios>>
       ELSE /\ m_children' = StatsAt(CountedAt(id))
            /\ ios' = Append(ios, id)
            /\ UNCHANGED crashed
    /\ UNCHANGED <<phase, events, m_fileInfo, extension>>

\* A discard belongs to all statistics of its device there are
discard ==
    /\ phase \in {"count", "cached"} /\ m_children # <<>>
    /\ \A x \in DOMAIN m_children : m_children[x].discards = 0
    /\ m_children' = [x \in DOMAIN m_children |-> [m_children[x] EXCEPT !.discards = @ + 1]]
    /\ UNCHANGED <<phase, events, m_fileInfo, extension, ios, crashed>>

\* fillProtoStatistics leaves out what has no name, and all below it.  (The
\* entries that are not directories are filtered by their write invalidation
\* factor as well, which is not modelled.)
Reported ==
    {x \in DOMAIN m_children :
        \A i \in DOMAIN x : x[i][1] = "directory" => x[i][2] # NoName}

PathOf(x) == [i \in DOMAIN x |-> x[i][2]]

Next ==
    \/ \E e \in NameEvents : handleEvent(e)
    \/ commit \/ initCached \/ discard
    \/ \E id \in Files : count(id)

Spec == Init /\ [][Next]_tvars
-----------------------------------------------------------------------------
CountOf(P(_)) == FoldLeft(LAMBDA n, id : IF P(id) THEN n + 1 ELSE n, 0, ios)
DirsAt(path) == {x \in Reported : x[1][1] = "directory" /\ PathOf(x) = path}
DirIos(path) == MapThenSumSet(LAMBDA x : m_children[x].ios, DirsAt(path))

(* What is reported of a directory is what the viewer says of each file: the  *)
(* IOs of the files whose directory has that path, wherever they were counted *)
(* in the tree; IOs of files that cannot be placed are not reported, no IO is *)
(* in two directories; a prefix and an extension hold all IOs of their files. *)
DirectoriesAgree ==
    /\ \A x \in Reported :
         IF x[1][1] = "directory"
         THEN DirIos(PathOf(x)) = CountOf(LAMBDA id : getDirPath(id) = PathOf(x))
         ELSE m_children[x].ios = CountOf(LAMBDA id :
                /\ id[1] = x[1][3]
                /\ x[1][2] = (IF x[1][1] = "prefix" THEN getFileNamePrefix(id)
                                                    ELSE getFileExtension(id)))
    /\ \A i \in DOMAIN ios : getDirPath(ios[i]) # <<>> => DirsAt(getDirPath(ios[i])) # {}

Renamed == \E i, j \in DOMAIN events : events[i].id = events[j].id /\ events[i] # events[j]

View == FoldLeft(LAMBDA v, e : addFile(v, e.id, e.parent, e.name), <<>>, events)

(* A handler that reads the view from the extension has the view of the one   *)
(* that built it, as long as no file got a second name: only the first name   *)
(* is written.                                                                *)
CachedViewAgrees == phase = "cached" /\ ~Renamed => m_fileInfo = View

(* The recursion of the statistics ends unless the names of the trace make a  *)
(* cycle.                                                                     *)
TreeComplete ==
    /\ DirectoriesAgree
    /\ CachedViewAgrees
    /\ crashed => \E id \in Files : Cyclic(id)
=============================================================================
