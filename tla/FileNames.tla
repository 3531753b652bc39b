----------------------------- MODULE FileNames -----------------------------
(* The paths of files in traces of versions 0 and 1.  The filesystem names,  *)
(* moves and deletes files, and IOs are made to them.  The handler learns of *)
(* each when it is traced, but asks the viewer for the path only when the    *)
(* event leaves its queue, in order, and by then the view is ahead of it.    *)
EXTENDS Integers, Sequences, FiniteSets, Functions

CONSTANTS
    Root, Files,         \* ids: <<partition, inode, creation date>>
    Start,               \* the root and the directories, named already
    Names,
    PATH_MAX,
    MaxSteps,            \* bound: what the filesystem does
    Devices, QueueLimit, DepthMod, NoFile

V0 == INSTANCE ParsedIoV0
V1 == INSTANCE ParsedIoV1

VARIABLES
    version,
    tree,        \* the filesystem: id -> [parent, name]
    lost,        \* a name was not traced
    m_fileInfo, m_devices, m_queue,
    given,       \* the last event that was handed out
    steps

vars == <<version, tree, lost, m_fileInfo, m_devices, m_queue, given, steps>>

Ids == DOMAIN Start \cup Files
Nothing == [viewed |-> <<>>, truth |-> <<>>, thrown |-> FALSE]

Init ==
    /\ version \in {0, 1}
    /\ tree = Start
    /\ lost = FALSE
    /\ m_fileInfo = tree /\ m_devices = {} /\ m_queue = <<>>
    /\ given = Nothing /\ steps = 0

Step == steps < MaxSteps /\ steps' = steps + 1
traced == <<m_devices, m_queue>>

\* A directory is not moved below itself
Below(id) ==
    LET up[i \in DOMAIN tree, n \in 0 .. Cardinality(Ids)] ==
          i = id \/ (n > 0 /\ up[tree[i].parent, n - 1])
    IN  {i \in DOMAIN tree : up[i, Cardinality(Ids)]}

handleFileName(e) ==
    IF version = 0 THEN V0!handleFileName(m_fileInfo, e)
                   ELSE V1!handleFileName(m_fileInfo, e)

\* A file is made or moved; its name may be lost
Name(id, parent, name) ==
    /\ Step
    /\ id # Root /\ parent \in DOMAIN tree \ (Files \cup Below(id))
    /\ \A i \in DOMAIN tree \ {id} : tree[i].parent = parent => tree[i].name # name
    /\ tree' = V1!SetInfo(tree, id, [parent |-> parent, name |-> name])
    /\ \/ m_fileInfo' = handleFileName([id |-> id, parent |-> parent, name |-> name])
          /\ UNCHANGED lost
       \/ lost' = TRUE /\ UNCHANGED m_fileInfo
    /\ UNCHANGED <<version, traced, given>>

\* The metadata of an IO, or an event of the file: an entry of the file is made
\* for its size, and its partition becomes a device
Refers(id) ==
    /\ m_queue' = Append(m_queue, id)
    /\ m_devices' = m_devices \cup {id[1]}

\* The file may have been deleted and be open still
Access(id) ==
    /\ Step
    /\ Refers(id)
    /\ m_fileInfo' = V1!SetInfo(m_fileInfo, id, V1!FileInfo(m_fileInfo, id))
    /\ UNCHANGED <<version, tree, lost, given>>

Mut_Erased(info, id) == info
Erased(info, id) == [k \in DOMAIN info \ {id} |-> info[k]]

\* What is deleted has no files in it
Delete(id) ==
    /\ Step
    /\ id \in DOMAIN tree \ {Root} /\ \A i \in DOMAIN tree : tree[i].parent # id
    /\ Refers(id)
    /\ m_fileInfo' = Erased(m_fileInfo, id)
    /\ tree' = [i \in DOMAIN tree \ {id} |-> tree[i]]
    /\ UNCHANGED <<version, lost, given>>

\* What the filesystem would say: the path of a file that is there, whose
\* directories are not too long, and its name and directory
Path(id) ==
    LET up[n \in 0 .. Cardinality(Ids)] ==
          IF n = 0 THEN tree[id].parent ELSE tree[up[n - 1]].parent
        depth == CHOOSE n \in DOMAIN up : up[n] = Root /\ \A k \in 0 .. n - 1 : up[k] # Root
        dir == [n \in 1 .. depth + 1 |-> tree[up[depth + 1 - n]].name]
    IN  IF SumFunction([n \in DOMAIN dir |-> dir[n].length]) <= PATH_MAX
        THEN Append(dir, tree[id].name) ELSE <<>>

Truth(id) ==
    IF id \in DOMAIN tree
    THEN <<Path(id), tree[id].name.prefix, tree[id].name.ext, tree[id].parent>>
    ELSE <<<<>>, "", "", V1!NoId>>

Viewed(id) ==
    IF version = 0
    THEN <<V0!getFilePath(m_fileInfo, id, PATH_MAX), V0!getFileNamePrefix(m_fileInfo, id),
           V0!getFileExtension(m_fileInfo, id), V0!getParentId(m_fileInfo, id)>>
    ELSE <<V1!getFilePath(m_fileInfo, id, PATH_MAX), V1!getFileNamePrefix(m_fileInfo, id),
           V1!getFileExtension(m_fileInfo, id), V1!getParentId(m_fileInfo, id)>>

Throws(id) ==
    IF version = 0 THEN ~V0!getFileSystemViewer(m_devices, id[1])
                   ELSE ~V1!getFileSystemViewer(m_devices, id[1])

pushOutEvent ==
    /\ m_queue # <<>>
    /\ LET id == Head(m_queue)
       IN  given' = [viewed |-> Viewed(id), truth |-> Truth(id), thrown |-> Throws(id)]
    /\ m_queue' = Tail(m_queue)
    /\ UNCHANGED <<version, tree, lost, m_fileInfo, m_devices, steps>>

Next ==
    \/ \E id \in Ids, parent \in Ids, name \in Names : Name(id, parent, name)
    \/ \E id \in Files : Access(id)
    \/ \E id \in Ids : Delete(id)
    \/ pushOutEvent

Spec == Init /\ [][Next]_vars
-----------------------------------------------------------------------------
(* While no name is lost, what is handed out with a path has the one it has   *)
(* at that time, though other events of the file were handled since; and what  *)
(* is handed out without, an IO that waited behind the deletion of its file or *)
(* the deletion itself, has none any more.  The viewer is always there.        *)
PathsTrue == ~given.thrown /\ (~lost => given.viewed = given.truth)
=============================================================================
