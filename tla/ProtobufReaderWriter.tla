------------------------- MODULE ProtobufReaderWriter -------------------------
(* One file that holds a protocol buffer message (utils/ProtobufReaderWriter): *)
(* the objects of a few processes that read, write, remove and lock it. A      *)
(* thread uses its own object, as the code does. A lock is two locks: the      *)
(* mutex of the path in the process, and the lock of the operating system on   *)
(* path.lock. The latter belongs to the process, and the system drops it when  *)
(* ANY descriptor of that file is closed by the process. A write is two system *)
(* calls, so that a reader without the lock, or a crash, may come between.     *)
(* The process is able to reach the directory, and nothing is a link.          *)
EXTENDS Integers, Sequences, FiniteSets

CONSTANTS
    Objects, ProcessOf,  \* [Objects -> the processes]
    Privileged,          \* the processes that may write what is read-only
    Size,                \* [messages -> the number of parts in their text]
    Initially,           \* the messages the file may hold at first
    MaxInodes,           \* bound: how often the file is made
    MaxCalls,            \* bound: how many calls reach the file itself
    NoObject

\* No text is empty, and no message is named as a call or a state of the file.
ASSUME SizeAssumption ==
    /\ \A m \in DOMAIN Size : Size[m] \in Nat \ {0}
    /\ DOMAIN Size \cap {"none", "dead", "lock", "empty", "unknown", "spoiled"} = {}
ASSUME InitiallyAssumption == Initially \subseteq DOMAIN Size
ASSUME NoObjectAssumption ==
    NoObject \notin Objects /\ \A o \in Objects : ProcessOf[o] # NoObject

VARIABLES
    rw,                  \* the objects
    FileMutexMap,        \* of each process: the object that has the mutex
    fileLock,            \* the process that has the lock on path.lock
    path,                \* the inode that has the file's name, or Closed
    inode,               \* the inodes made so far
    calls,
    latest,              \* what was last written to the file under the lock
    got,                 \* the last read: what it gave and what it should give
    leaked               \* a left descriptor was closed, see unlock

filevars == <<rw, FileMutexMap, fileLock, path, inode, calls, latest, got, leaked>>

Processes == {ProcessOf[o] : o \in Objects}
Closed == 0
Nul == <<"nul", 0>>
Text(message) == [n \in 1 .. Size[message] |-> <<message, n>>]

New == [m_readFd |-> Closed, m_writeFd |-> Closed, offset |-> 0,
        m_lockFd |-> FALSE, m_lock |-> FALSE, call |-> "none"]
\* Of an object that was destructed nothing is left, another would begin as New
Dead == [New EXCEPT !.call = "dead"]
Ready(o) == rw[o].call = "none"

\* Its lock() has returned and nothing has closed its descriptor
Holds(o) == rw[o].m_lock /\ rw[o].m_lockFd /\ rw[o].call # "lock"

FileInit ==
    /\ rw = [o \in Objects |-> New]
    /\ FileMutexMap = [p \in Processes |-> NoObject]
    /\ fileLock = NoObject /\ calls = 0
    /\ \/ path = Closed /\ inode = <<>> /\ latest = "none"
       \/ path = 1 /\ latest \in Initially /\
          inode = <<[text |-> Text(latest), writable |-> TRUE]>>
    /\ got = [is |-> "none", should |-> "none"]
    /\ leaked = FALSE

locks == <<FileMutexMap, fileLock, leaked>>
disk == <<path, inode, calls, latest>>

\* A call that reaches the file
Called(o) == Ready(o) /\ calls < MaxCalls /\ calls' = calls + 1
-----------------------------------------------------------------------------
\* lock(): the mutex is waited for, then the lock of the file
Mut_getFileMutex(o, taken) == TRUE
getFileMutex(o, taken) == (FileMutexMap[ProcessOf[o]] # NoObject) = taken

openFileToLock(o) == [rw EXCEPT ![o].m_lockFd = TRUE]

lock(o) ==
    /\ Ready(o) /\ ~rw[o].m_lock /\ getFileMutex(o, FALSE)
    /\ FileMutexMap' = [FileMutexMap EXCEPT ![ProcessOf[o]] = o]
    /\ rw' = [openFileToLock(o) EXCEPT ![o].m_lock = TRUE, ![o].call = "lock"]
    /\ UNCHANGED <<fileLock, leaked, disk, got>>

lockGranted(o) ==
    /\ rw[o].call = "lock" /\ fileLock \in {NoObject, ProcessOf[o]}
    /\ fileLock' = ProcessOf[o]
    /\ rw' = [rw EXCEPT ![o].call = "none"]
    /\ UNCHANGED <<FileMutexMap, leaked, disk, got>>

\* When another process has the lock the mutex is given back, and m_lockFd
\* stays open
tryLock(o) ==
    /\ Ready(o) /\ ~rw[o].m_lock
    /\ \/ /\ getFileMutex(o, TRUE)
          /\ UNCHANGED <<rw, locks>>
       \/ /\ getFileMutex(o, FALSE) /\ fileLock \notin {NoObject, ProcessOf[o]}
          /\ rw' = openFileToLock(o)
          /\ UNCHANGED locks
       \/ /\ getFileMutex(o, FALSE) /\ fileLock \in {NoObject, ProcessOf[o]}
          /\ FileMutexMap' = [FileMutexMap EXCEPT ![ProcessOf[o]] = o]
          /\ fileLock' = ProcessOf[o]
          /\ rw' = [openFileToLock(o) EXCEPT ![o].m_lock = TRUE]
          /\ UNCHANGED leaked
    /\ UNCHANGED <<disk, got>>

\* A close of m_lockFd drops the lock of the whole process
CloseLock(o) ==
    /\ fileLock' = IF rw[o].m_lockFd /\ fileLock = ProcessOf[o] THEN NoObject ELSE fileLock
    /\ leaked' = (leaked \/ (rw[o].m_lockFd /\ ~rw[o].m_lock /\
                             \E x \in Objects \ {o} : Holds(x) /\ ProcessOf[x] = ProcessOf[o]))

ReleaseMutex(o) ==
    FileMutexMap' = [p \in Processes |->
        IF rw[o].m_lock /\ FileMutexMap[p] = o THEN NoObject ELSE FileMutexMap[p]]

unlock(o) ==
    /\ Ready(o) /\ (rw[o].m_lockFd \/ rw[o].m_lock)
    /\ CloseLock(o) /\ ReleaseMutex(o)
    /\ rw' = [rw EXCEPT ![o].m_lockFd = FALSE, ![o].m_lock = FALSE]
    /\ UNCHANGED <<disk, got>>

Destruct(o) ==
    /\ Ready(o)
    /\ CloseLock(o) /\ ReleaseMutex(o)
    /\ rw' = [rw EXCEPT ![o] = Dead]
    /\ UNCHANGED <<disk, got>>
-----------------------------------------------------------------------------
\* A descriptor that is open already is used again, whatever has the name now
openFileToRead(o) == IF rw[o].m_readFd # Closed THEN rw[o].m_readFd ELSE path

\* The descriptor for writing, and whether the file is made for it
openFileToWrite(o) ==
    CASE rw[o].m_writeFd # Closed -> [fd |-> rw[o].m_writeFd, made |-> FALSE]
      [] rw[o].m_writeFd = Closed /\ path = Closed -> [fd |-> Len(inode) + 1, made |-> TRUE]
      [] rw[o].m_writeFd = Closed /\ path # Closed ->
           [fd |-> IF inode[path].writable \/ ProcessOf[o] \in Privileged
                   THEN path ELSE Closed, made |-> FALSE]

MayMake(opened) == opened.made => Len(inode) < MaxInodes
Inodes(opened) ==
    IF opened.made THEN Append(inode, [text |-> <<>>, writable |-> TRUE]) ELSE inode
PathAfter(opened) == IF opened.made THEN opened.fd ELSE path

\* What the file should hold after its text was set through a descriptor. What
\* is written without the lock spoils it: that may end at any time
Latest(o, fd, named, text) ==
    CASE fd # named \/ latest = "spoiled" -> latest
      [] fd = named /\ latest # "spoiled" -> IF Holds(o) THEN text ELSE "spoiled"

Parse(text) ==
    CASE text = <<>> -> "empty"
      [] \E m \in DOMAIN Size : text = Text(m) -> CHOOSE m \in DOMAIN Size : text = Text(m)
      [] OTHER -> "bad"

read(o) ==
    LET fd == openFileToRead(o)
        is == IF fd = Closed THEN "none" ELSE Parse(inode[fd].text)
    IN  /\ Called(o)
        /\ rw' = [rw EXCEPT ![o].m_readFd = fd]
        /\ got' = [is |-> is, should |-> IF Holds(o) /\ fd = path THEN latest ELSE "unknown"]
        /\ UNCHANGED <<locks, path, inode, latest>>

\* The file that is asked for stays open, for what reads it later
isFileAvailable(o) ==
    /\ Called(o)
    /\ rw' = [rw EXCEPT ![o].m_readFd = openFileToRead(o)]
    /\ UNCHANGED <<locks, path, inode, latest, got>>

\* A file that is not available is empty
isEmpty(o) ==
    LET fd == openFileToRead(o)
        Answer(empty) == IF empty THEN "nothing" ELSE "something"
        known == Holds(o) /\ fd = path /\ latest \notin {"unknown", "spoiled"}
    IN  /\ Called(o)
        /\ rw' = [rw EXCEPT ![o].m_readFd = fd]
        /\ got' = [is |-> Answer(fd = Closed \/ (fd # Closed /\ inode[fd].text = <<>>)),
                   should |-> IF known THEN Answer(latest \in {"none", "empty"}) ELSE "unknown"]
        /\ UNCHANGED <<locks, path, inode, latest>>

Mut_Truncated(text) == text
Truncated(text) == <<>>

\* write(): the file is opened and cut to nothing, then the text is written
\* where the last write of this object ended
writeBegins(o, message) ==
    LET opened == openFileToWrite(o)
    IN  /\ Called(o) /\ MayMake(opened) /\ opened.fd # Closed
        /\ rw' = [rw EXCEPT ![o].m_writeFd = opened.fd, ![o].call = message]
        /\ inode' = [Inodes(opened) EXCEPT ![opened.fd].text = Truncated(@)]
        /\ path' = PathAfter(opened)
        /\ latest' = Latest(o, opened.fd, PathAfter(opened), "unknown")
        /\ UNCHANGED <<locks, got>>

\* write(2) does not go back to the end of a file that was cut: a gap is NULs
WrittenAt(text, offset, new) ==
    [n \in 1 .. (IF Len(text) > offset + Len(new) THEN Len(text) ELSE offset + Len(new)) |->
        CASE n \in offset + 1 .. offset + Len(new) -> new[n - offset]
          [] n \notin offset + 1 .. offset + Len(new) /\ n <= Len(text) -> text[n]
          [] OTHER -> Nul]

writeEnds(o) ==
    LET message == rw[o].call
        fd == rw[o].m_writeFd
        offset == rw[o].offset
    IN  /\ message \in DOMAIN Size
        /\ inode' = [inode EXCEPT ![fd].text = WrittenAt(@, offset, Text(message))]
        /\ rw' = [rw EXCEPT ![o].call = "none", ![o].offset = offset + Size[message]]
        /\ latest' = Latest(o, fd, path, IF offset = 0 THEN message ELSE "unknown")
        /\ UNCHANGED <<locks, path, calls, got>>

clear(o) ==
    LET opened == openFileToWrite(o)
    IN  /\ Called(o) /\ MayMake(opened) /\ opened.fd # Closed
        /\ rw' = [rw EXCEPT ![o].m_writeFd = opened.fd]
        /\ inode' = [Inodes(opened) EXCEPT ![opened.fd].text = <<>>]
        /\ path' = PathAfter(opened)
        /\ latest' = Latest(o, opened.fd, PathAfter(opened), "empty")
        /\ UNCHANGED <<locks, got>>

\* closeFile() closes the descriptor of the lock also; the mutex is kept
removeFile(o) ==
    /\ Called(o) /\ path # Closed
    /\ path' = Closed /\ latest' = IF latest = "spoiled" THEN latest ELSE "none"
    /\ CloseLock(o)
    /\ rw' = [rw EXCEPT ![o].m_readFd = Closed, ![o].m_writeFd = Closed,
                        ![o].offset = 0, ![o].m_lockFd = FALSE]
    /\ UNCHANGED <<FileMutexMap, inode, got>>
-----------------------------------------------------------------------------
\* The descriptor for writing is given up
makeReadOnly(o) ==
    LET fd == IF rw[o].m_writeFd # Closed THEN rw[o].m_writeFd ELSE openFileToRead(o)
    IN  /\ Called(o) /\ fd # Closed
        /\ inode' = [inode EXCEPT ![fd].writable = FALSE]
        /\ rw' = [rw EXCEPT ![o].m_writeFd = Closed, ![o].offset = 0,
                            ![o].m_readFd = IF rw[o].m_writeFd # Closed THEN @ ELSE fd]
        /\ UNCHANGED <<locks, path, latest, got>>

\* What cannot be opened for writing is changed through the other descriptor
makeWritable(o) ==
    LET opened == openFileToWrite(o)
        readFd == IF opened.fd # Closed THEN rw[o].m_readFd ELSE openFileToRead(o)
        fd == IF opened.fd # Closed THEN opened.fd ELSE readFd
    IN  /\ Called(o) /\ MayMake(opened)
        /\ inode' = [Inodes(opened) EXCEPT ![fd].writable = TRUE]
        /\ path' = PathAfter(opened)
        /\ latest' = IF opened.made /\ latest # "spoiled" THEN "empty" ELSE latest
        /\ rw' = [rw EXCEPT ![o].m_writeFd = opened.fd, ![o].m_readFd = readFd]
        /\ UNCHANGED <<locks, got>>

\* A process is killed in a write: the system closes its files and drops its lock
Kill(p) ==
    /\ \E o \in Objects : ProcessOf[o] = p /\ rw[o].call \in DOMAIN Size
    /\ rw' = [o \in Objects |-> IF ProcessOf[o] = p THEN Dead ELSE rw[o]]
    /\ FileMutexMap' = [FileMutexMap EXCEPT ![p] = NoObject]
    /\ fileLock' = IF fileLock = p THEN NoObject ELSE fileLock
    /\ UNCHANGED <<leaked, disk, got>>

FileNext ==
    \/ \E o \in Objects :
         \/ Destruct(o)
         \/ lock(o) \/ lockGranted(o) \/ tryLock(o) \/ unlock(o)
         \/ read(o) \/ isFileAvailable(o) \/ isEmpty(o) \/ writeEnds(o)
         \/ clear(o) \/ removeFile(o) \/ makeReadOnly(o) \/ makeWritable(o)
         \/ \E m \in DOMAIN Size : writeBegins(o, m)
    \/ \E p \in Processes : Kill(p)

FileSpec == FileInit /\ [][FileNext]_filevars
-----------------------------------------------------------------------------
AtMostOneHolds == Cardinality({o \in Objects : Holds(o)}) <= 1

\* Who reads under the lock gets the whole of what was last written under it,
\* and two objects do not have the lock, unless a descriptor that a refused
\* tryLock left open was closed while its process had the lock
FileShared ==
    leaked \/ (AtMostOneHolds /\ got.should \in {"unknown", "spoiled", got.is})

\* "To make sure access synchronization works, each invocation of read and
\* write needs to be preceded by calling lock" (ProtobufReaderWriter.h)
LockExcludes == AtMostOneHolds
=============================================================================
