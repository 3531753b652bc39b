------------------------------ MODULE Files_proofs -----------------------------
(* What becomes of the files of the framework: a file that processes share     *)
(* under its lock (ProtobufReaderWriter!FileShared), for any processes,        *)
(* objects, messages and number of calls, and the messages that a job writes   *)
(* of its traces (TraceConverter!ConvertedTrue), for any traces.               *)
EXTENDS ProtobufReaderWriter, TraceConverter, FiniteSetTheorems, SequenceTheorems,
        TLAPS
-----------------------------------------------------------------------------
(* ProtobufReaderWriter: the file and its lock.                               *)

\* What the variables hold.
Bytes == ((DOMAIN Size) \X Nat) \cup {Nul}
Inode == [text : Seq(Bytes), writable : BOOLEAN]
Object ==
    [m_readFd : Nat, m_writeFd : Nat, offset : Nat, m_lockFd : BOOLEAN,
     m_lock : BOOLEAN, call : {"none", "dead", "lock"} \cup DOMAIN Size]

Writing(o) == rw[o].call \in DOMAIN Size

FileType ==
    /\ rw \in [Objects -> Object]
    /\ FileMutexMap \in [Processes -> Objects \cup {NoObject}]
    /\ leaked \in BOOLEAN
    /\ inode \in Seq(Inode) /\ path \in 0..Len(inode)
    /\ \A o \in Objects :
         /\ rw[o].m_readFd \in 0..Len(inode)
         /\ rw[o].m_writeFd \in 0..Len(inode)
         /\ Writing(o) => rw[o].m_writeFd # Closed

\* m_lock is the mutex of the path, and who holds the lock has the lock of the
\* operating system for its process.
MutexSound ==
    \A o \in Objects : rw[o].m_lock <=> FileMutexMap[ProcessOf[o]] = o
FileLockSound ==
    \A o \in Objects : Holds(o) => fileLock = ProcessOf[o]

\* What is known of the file is true of it.
LatestSound ==
    /\ latest = "none" => path = Closed
    /\ latest = "empty" => path # Closed /\ inode[path].text = <<>>
    /\ latest \in DOMAIN Size =>
         path # Closed /\ inode[path].text = Text(latest)
    /\ latest \in {"none", "empty", "unknown", "spoiled"} \cup DOMAIN Size

\* Who is in the middle of a write to the file has spoiled it, or has the lock
\* and finds the file as it has cut it.
WriteSound ==
    \A o \in Objects :
      Writing(o) /\ rw[o].m_writeFd = path /\ latest # "spoiled" =>
        Holds(o) /\ inode[path].text = <<>>

GotSound == got.should \in {"unknown", "spoiled", got.is}

FileInv ==
    /\ FileType /\ MutexSound
    /\ ~leaked => FileLockSound /\ LatestSound /\ WriteSound /\ GotSound

\* The text of a message is not empty and tells which message it is.
LEMMA TextSound ==
    /\ \A m \in DOMAIN Size :
         /\ Text(m) \in Seq(Bytes) /\ Len(Text(m)) = Size[m]
         /\ Text(m) # <<>> /\ Parse(Text(m)) = m
    /\ Parse(<<>>) = "empty"
<1>1. ASSUME NEW m \in DOMAIN Size
      PROVE  /\ Text(m) \in Seq(Bytes) /\ Len(Text(m)) = Size[m]
             /\ Text(m) # <<>> /\ Text(m)[1] = <<m, 1>>
  <2>1. Size[m] \in Nat /\ Size[m] # 0 /\ 1 \in 1..Size[m]
    BY SizeAssumption
  <2>2. \A n \in 1..Size[m] : <<m, n>> \in Bytes
    BY <2>1 DEF Bytes
  <2> QED
    BY <2>1, <2>2 DEF Text
<1>2. ASSUME NEW m \in DOMAIN Size, NEW n \in DOMAIN Size, Text(m) = Text(n)
      PROVE  m = n
  <2>1. <<m, 1>> = <<n, 1>>
    BY <1>1, <1>2
  <2> QED
    BY <2>1
<1>3. ASSUME NEW m \in DOMAIN Size PROVE Parse(Text(m)) = m
  <2>1. (CHOOSE n \in DOMAIN Size : Text(m) = Text(n)) = m
    BY <1>2
  <2>2. Text(m) # <<>> /\ \E n \in DOMAIN Size : Text(m) = Text(n)
    BY <1>1
  <2> QED
    BY <2>1, <2>2 DEF Parse
<1>4. Parse(<<>>) = "empty"
  BY <1>1 DEF Parse
<1> QED
  BY <1>1, <1>3, <1>4

\* A text that is written into a file that was cut is the file's text.
LEMMA WrittenSound ==
    ASSUME NEW text \in Seq(Bytes), NEW offset \in Nat, NEW m \in DOMAIN Size
    PROVE  /\ WrittenAt(text, offset, Text(m)) \in Seq(Bytes)
           /\ text = <<>> /\ offset = 0 => WrittenAt(text, offset, Text(m)) = Text(m)
<1> DEFINE new == Text(m)
           n == IF Len(text) > offset + Len(new) THEN Len(text)
                ELSE offset + Len(new)
           Byte(k) ==
             CASE k \in offset + 1 .. offset + Len(new) -> new[k - offset]
               [] k \notin offset + 1 .. offset + Len(new) /\ k <= Len(text)
                    -> text[k]
               [] OTHER -> Nul
<1>1. new \in Seq(Bytes) /\ Len(new) \in Nat
  BY TextSound
<1>2. n \in Nat
  BY <1>1
<1>3. WrittenAt(text, offset, new) = [k \in 1..n |-> Byte(k)]
  BY DEF WrittenAt
<1>4. ASSUME NEW k \in 1..n PROVE Byte(k) \in Bytes
  <2>1. k \in Nat /\ k >= 1
    BY <1>2
  <2>2. CASE k \in offset + 1 .. offset + Len(new)
    <3>1. k - offset \in 1..Len(new)
      BY <2>1, <2>2, <1>1
    <3>2. Byte(k) = new[k - offset]
      BY <2>2
    <3> HIDE DEF new, Byte
    <3> QED
      BY <3>1, <3>2, <1>1
  <2>3. CASE k \notin offset + 1 .. offset + Len(new) /\ k <= Len(text)
    <3>1. k \in 1..Len(text)
      BY <2>1, <2>3
    <3>2. Byte(k) = text[k]
      BY <2>3
    <3> HIDE DEF Byte
    <3> QED
      BY <3>1, <3>2
  <2>4. CASE k \notin offset + 1 .. offset + Len(new) /\ ~(k <= Len(text))
    <3>1. Byte(k) = Nul
      BY <2>4
    <3> QED
      BY <3>1 DEF Bytes
  <2> QED
    BY <2>2, <2>3, <2>4
<1>5. [k \in 1..n |-> Byte(k)] \in Seq(Bytes)
  <2> HIDE DEF n, Byte
  <2> QED
    BY <1>2, <1>4
<1>6. ASSUME text = <<>>, offset = 0
      PROVE  [k \in 1..n |-> Byte(k)] = new
  <2>1. n = Len(new)
    BY <1>1, <1>6
  <2>2. \A k \in 1..Len(new) : Byte(k) = new[k]
    BY <1>1, <1>6
  <2> HIDE DEF n, Byte, new
  <2> QED
    BY <2>1, <2>2, <1>1
<1> QED
  BY <1>3, <1>5, <1>6

\* The descriptor a file is written through, and the inodes with it.
LEMMA OpenedSound ==
    ASSUME FileType, NEW o \in Objects
    PROVE  LET opened == openFileToWrite(o)
           IN  /\ opened.made \in BOOLEAN
               /\ opened.made => /\ path = Closed
                                 /\ opened.fd = Len(inode) + 1
               /\ ~opened.made => opened.fd \in 0..Len(inode)
               /\ PathAfter(opened) = IF opened.made THEN Len(inode) + 1 ELSE path
               /\ Inodes(opened) \in Seq(Inode)
               /\ Len(Inodes(opened)) =
                    IF opened.made THEN Len(inode) + 1 ELSE Len(inode)
               /\ \A n \in 1..Len(inode) : Inodes(opened)[n] = inode[n]
               /\ opened.made => Inodes(opened)[Len(inode) + 1].text = <<>>
               /\ opened.fd = Closed => path # Closed
<1> DEFINE opened == openFileToWrite(o)
<1>1. /\ rw[o].m_writeFd \in 0..Len(inode) /\ path \in 0..Len(inode)
      /\ inode \in Seq(Inode) /\ Len(inode) \in Nat /\ Closed = 0
  BY DEF FileType, Closed
<1>2. /\ opened.made \in BOOLEAN
      /\ opened.made => path = Closed /\ opened.fd = Len(inode) + 1
      /\ ~opened.made => opened.fd \in 0..Len(inode)
      /\ opened.fd = Closed => path # Closed
  <2>1. CASE rw[o].m_writeFd # Closed
    <3>1. opened = [fd |-> rw[o].m_writeFd, made |-> FALSE]
      BY <2>1 DEF openFileToWrite
    <3> QED
      BY <2>1, <3>1, <1>1
  <2>2. CASE rw[o].m_writeFd = Closed /\ path = Closed
    <3>1. opened = [fd |-> Len(inode) + 1, made |-> TRUE]
      BY <2>2 DEF openFileToWrite
    <3> QED
      BY <2>2, <3>1, <1>1
  <2>3. CASE rw[o].m_writeFd = Closed /\ path # Closed
    <3>1. opened = [fd |-> IF inode[path].writable \/ ProcessOf[o] \in Privileged
                           THEN path ELSE Closed, made |-> FALSE]
      BY <2>3 DEF openFileToWrite
    <3>2. opened.made = FALSE /\ opened.fd \in {path, Closed}
      BY <3>1
    <3> QED
      BY <2>3, <3>2, <1>1
  <2> QED
    BY <2>1, <2>2, <2>3
<1> HIDE DEF opened
<1>3. PathAfter(opened) = IF opened.made THEN Len(inode) + 1 ELSE path
  BY <1>2 DEF PathAfter
<1> DEFINE new == [text |-> <<>>, writable |-> TRUE]
<1>4. new \in Inode
  BY DEF Inode
<1>5. /\ Inodes(opened) \in Seq(Inode)
      /\ Len(Inodes(opened)) =
           IF opened.made THEN Len(inode) + 1 ELSE Len(inode)
      /\ \A n \in 1..Len(inode) : Inodes(opened)[n] = inode[n]
      /\ opened.made => Inodes(opened)[Len(inode) + 1].text = <<>>
  <2>1. CASE opened.made
    <3>1. Inodes(opened) = Append(inode, new)
      BY <2>1 DEF Inodes
    <3>2. new.text = <<>>
      OBVIOUS
    <3> HIDE DEF new
    <3> QED
      BY <2>1, <3>1, <3>2, <1>1, <1>4
  <2>2. CASE ~opened.made
    BY <2>2, <1>1 DEF Inodes
  <2> QED
    BY <2>1, <2>2, <1>2
<1> QED
  BY <1>2, <1>3, <1>5 DEF opened

\* An inode whose text is set, and one whose mode is set.
LEMMA TextSet ==
    ASSUME NEW s \in Seq(Inode), NEW n \in 1..Len(s), NEW text \in Seq(Bytes)
    PROVE  LET t == [s EXCEPT ![n].text = text]
           IN  /\ t \in Seq(Inode) /\ Len(t) = Len(s) /\ t[n].text = text
               /\ \A k \in 1..Len(s) : k # n => t[k] = s[k]
<1> DEFINE t == [s EXCEPT ![n].text = text]
<1>1. s \in [1..Len(s) -> Inode] /\ Len(s) \in Nat
  OBVIOUS
<1>2. t \in [1..Len(s) -> Inode] /\ t[n].text = text
  BY <1>1 DEF Inode
<1>3. t \in Seq(Inode) /\ Len(t) = Len(s)
  BY <1>1, <1>2
<1> QED
  BY <1>1, <1>2, <1>3

LEMMA ModeSet ==
    ASSUME NEW s \in Seq(Inode), NEW n \in 1..Len(s), NEW mode \in BOOLEAN
    PROVE  LET t == [s EXCEPT ![n].writable = mode]
           IN  /\ t \in Seq(Inode) /\ Len(t) = Len(s)
               /\ \A k \in 1..Len(s) : t[k].text = s[k].text
<1> DEFINE t == [s EXCEPT ![n].writable = mode]
<1>1. s \in [1..Len(s) -> Inode] /\ Len(s) \in Nat
  OBVIOUS
<1>2. t \in [1..Len(s) -> Inode] /\ \A k \in 1..Len(s) : t[k].text = s[k].text
  BY <1>1 DEF Inode
<1>3. t \in Seq(Inode) /\ Len(t) = Len(s)
  BY <1>1, <1>2
<1> QED
  BY <1>2, <1>3

LEMMA FileStarts == FileInit => FileInv
<1> SUFFICES ASSUME FileInit PROVE FileInv
  OBVIOUS
<1>1. /\ rw \in [Objects -> Object]
      /\ \A o \in Objects :
           /\ rw[o].call = "none" /\ ~rw[o].m_lock
           /\ rw[o].m_readFd = 0 /\ rw[o].m_writeFd = 0
  BY DEF FileInit, New, Object, Closed
<1>2. \/ path = 0 /\ inode = <<>> /\ latest = "none"
      \/ /\ path = 1 /\ latest \in DOMAIN Size
         /\ inode = <<[text |-> Text(latest), writable |-> TRUE]>>
  BY InitiallyAssumption DEF FileInit, Closed
<1>3. inode \in Seq(Inode) /\ path \in 0..Len(inode)
  <2>1. CASE path = 0 /\ inode = <<>>
    BY <2>1
  <2>2. CASE /\ path = 1 /\ latest \in DOMAIN Size
             /\ inode = <<[text |-> Text(latest), writable |-> TRUE]>>
    <3>1. [text |-> Text(latest), writable |-> TRUE] \in Inode
      BY <2>2, TextSound DEF Inode
    <3> QED
      BY <2>2, <3>1
  <2> QED
    BY <1>2, <2>1, <2>2
<1>4. ASSUME NEW o \in Objects PROVE ~Writing(o) /\ ~Holds(o)
  BY <1>1, <1>4, SizeAssumption DEF Writing, Holds
<1>5. FileType
  <2>1. 0 \in 0..Len(inode)
    BY <1>3
  <2>2. /\ FileMutexMap \in [Processes -> Objects \cup {NoObject}]
        /\ leaked \in BOOLEAN
    BY DEF FileInit
  <2> QED
    BY <1>1, <1>3, <1>4, <2>1, <2>2 DEF FileType
<1>6. MutexSound
  BY <1>1, NoObjectAssumption DEF FileInit, MutexSound, Processes
<1>7. LatestSound
  BY <1>2, SizeAssumption DEF LatestSound, Closed
<1> QED
  BY <1>4, <1>5, <1>6, <1>7 DEF FileInit, FileInv, FileLockSound, WriteSound,
                                GotSound

\* Two objects do not hold the lock.
LEMMA HoldsAlone ==
    ASSUME MutexSound, FileLockSound, NEW x \in Objects, NEW y \in Objects,
           Holds(x), Holds(y)
    PROVE  x = y
BY DEF MutexSound, FileLockSound, Holds

\* A step of o on the file leaves the locks as they are.
LEMMA DiskLocks ==
    ASSUME FileInv, NEW o \in Objects,
           UNCHANGED <<FileMutexMap, fileLock, leaked>>,
           \A x \in Objects \ {o} : rw'[x] = rw[x],
           rw'[o].m_lock = rw[o].m_lock, rw'[o].m_lockFd = rw[o].m_lockFd,
           rw[o].call # "lock", rw'[o].call # "lock"
    PROVE  /\ \A x \in Objects : Holds(x)' <=> Holds(x)
           /\ MutexSound'
           /\ FileLockSound => FileLockSound'
BY DEF FileInv, MutexSound, FileLockSound, Holds

\* A step that leaves the text of the file alone.
LEMMA StillSound ==
    ASSUME FileType, LatestSound, WriteSound,
           UNCHANGED <<path, latest>>,
           path # Closed => inode'[path].text = inode[path].text,
           \A x \in Objects :
             /\ Writing(x)' => /\ Writing(x)
                               /\ rw'[x].m_writeFd = rw[x].m_writeFd
                               /\ Holds(x) => Holds(x)'
    PROVE  LatestSound' /\ WriteSound'
<1>1. LatestSound'
  BY DEF LatestSound
<1>2. ASSUME NEW x \in Objects, Writing(x)', rw'[x].m_writeFd = path',
             latest' # "spoiled"
      PROVE  Holds(x)' /\ inode'[path'].text = <<>>
  <2>1. Holds(x) /\ inode[path].text = <<>>
    BY <1>2 DEF WriteSound
  <2>2. path # Closed
    BY <1>2 DEF FileType
  <2> QED
    BY <1>2, <2>1, <2>2
<1> QED
  BY <1>1, <1>2 DEF WriteSound

\* A step of o that sets the text of an inode, which may be a new one.
LEMMA TextStep ==
    ASSUME FileType, MutexSound, FileLockSound, LatestSound, WriteSound,
           NEW o \in Objects, NEW fd \in Nat \ {0}, NEW text, NEW known,
           inode'[fd].text = text,
           \A n \in 1..Len(inode) : n # fd => inode'[n].text = inode[n].text,
           \/ path' = path
           \/ path = Closed /\ path' = Len(inode) + 1 /\ fd = path',
           latest' = Latest(o, fd, path', known),
           known \in {"unknown", "empty"} \cup DOMAIN Size,
           known = "empty" => text = <<>>,
           known \in DOMAIN Size /\ fd = path /\ Holds(o)
             /\ latest # "spoiled" => text = Text(known),
           known \in DOMAIN Size => path' = path,
           \A x \in Objects \ {o} : rw'[x] = rw[x],
           \A x \in Objects : Holds(x)' <=> Holds(x),
           Writing(o)' => rw'[o].m_writeFd = fd /\ text = <<>>
    PROVE  LatestSound' /\ WriteSound'
<1>a. /\ path \in Nat /\ Len(inode) \in Nat /\ Closed = 0
      /\ path \in 0..Len(inode)
  BY DEF FileType, Closed
<1>b. /\ fd # path' \/ latest = "spoiled" => latest' = latest
      /\ fd = path' /\ latest # "spoiled" =>
           latest' = IF Holds(o) THEN known ELSE "spoiled"
  BY DEF Latest
<1>1. LatestSound'
  <2>1. CASE latest = "spoiled"
    BY <2>1, <1>b, SizeAssumption DEF LatestSound
  <2>2. CASE latest # "spoiled" /\ fd # path'
    <3>1. path' = path /\ latest' = latest
      BY <2>2, <1>b
    <3>2. path # Closed => inode'[path].text = inode[path].text
      BY <2>2, <3>1, <1>a
    <3> QED
      BY <3>1, <3>2 DEF LatestSound
  <2>3. CASE latest # "spoiled" /\ fd = path'
    <3>1. path' # Closed /\ inode'[path'].text = text
      BY <2>3, <1>a
    <3>2. CASE Holds(o)
      <4>1. latest' = known
        BY <2>3, <3>2, <1>b
      <4>2. known \in DOMAIN Size => text = Text(known)
        BY <2>3, <3>2
      <4> QED
        BY <3>1, <4>1, <4>2, SizeAssumption DEF LatestSound
    <3>3. CASE ~Holds(o)
      BY <2>3, <3>3, <1>b, SizeAssumption DEF LatestSound
    <3> QED
      BY <3>2, <3>3
  <2> QED
    BY <2>1, <2>2, <2>3
<1>2. ASSUME NEW x \in Objects, Writing(x)', rw'[x].m_writeFd = path',
             latest' # "spoiled"
      PROVE  Holds(x)' /\ inode'[path'].text = <<>>
  <2>1. latest # "spoiled" /\ (fd = path' => Holds(o))
    BY <1>2, <1>b
  <2>2. CASE x = o
    BY <1>2, <2>1, <2>2
  <2>3. CASE x # o
    <3>1. /\ Writing(x) /\ rw[x].m_writeFd = path'
          /\ rw[x].m_writeFd \in 1..Len(inode)
      BY <1>2, <2>3, <1>a DEF FileType, Writing
    <3>2. path' = path
      BY <3>1, <1>a
    <3>3. Holds(x) /\ inode[path].text = <<>>
      BY <2>1, <3>1, <3>2 DEF WriteSound
    <3>4. fd # path
      BY <2>1, <2>3, <3>2, <3>3, HoldsAlone
    <3> QED
      BY <3>1, <3>2, <3>3, <3>4
  <2> QED
    BY <2>2, <2>3
<1> QED
  BY <1>1, <1>2 DEF WriteSound

\* The object of a step of o that sets some of its descriptors.
LEMMA ObjectType ==
    ASSUME FileType, NEW o \in Objects, NEW record \in Object,
           rw' = [rw EXCEPT ![o] = record]
    PROVE  /\ rw' \in [Objects -> Object] /\ rw'[o] = record
           /\ \A x \in Objects \ {o} : rw'[x] = rw[x]
BY DEF FileType

\* Reading: what it gives is what it should give.
LEMMA ReadInv ==
    ASSUME FileInv, NEW o \in Objects,
           read(o) \/ isFileAvailable(o) \/ isEmpty(o)
    PROVE  FileInv'
<1> DEFINE fd == openFileToRead(o)
           record == [rw[o] EXCEPT !.m_readFd = fd]
<1>a. /\ FileType /\ MutexSound /\ Ready(o)
      /\ UNCHANGED <<FileMutexMap, fileLock, leaked, path, inode, latest>>
  BY DEF FileInv, read, isFileAvailable, isEmpty, Called, locks
<1>b. fd \in 0..Len(inode) /\ Len(inode) \in Nat /\ rw[o] \in Object
  BY <1>a DEF openFileToRead, FileType
<1>1. rw' = [rw EXCEPT ![o] = record]
  BY <1>a DEF read, isFileAvailable, isEmpty, FileType, Object
<1>2. /\ record \in Object /\ record.m_readFd = fd
      /\ record.m_writeFd = rw[o].m_writeFd /\ record.call = rw[o].call
      /\ record.m_lock = rw[o].m_lock /\ record.m_lockFd = rw[o].m_lockFd
  BY <1>b DEF Object
<1> HIDE DEF record
<1>3. /\ rw' \in [Objects -> Object] /\ rw'[o] = record
      /\ \A x \in Objects \ {o} : rw'[x] = rw[x]
  BY <1>1, <1>2, <1>a, ObjectType
<1>4. rw[o].call = "none"
  BY <1>a DEF Ready
<1>5. /\ \A x \in Objects : Holds(x)' <=> Holds(x)
      /\ MutexSound' /\ (FileLockSound => FileLockSound')
  BY <1>2, <1>3, <1>4, <1>a, DiskLocks
<1>6. \A x \in Objects : /\ rw'[x].m_writeFd = rw[x].m_writeFd
                         /\ Writing(x)' <=> Writing(x)
  BY <1>2, <1>3 DEF Writing
<1>7. FileType'
  <2>1. \A x \in Objects : rw'[x].m_readFd \in 0..Len(inode)
    BY <1>2, <1>3, <1>a, <1>b DEF FileType
  <2> QED
    BY <1>a, <1>3, <1>6, <2>1 DEF FileType
<1>8. ASSUME ~leaked', LatestSound, GotSound PROVE GotSound'
  <2>1. CASE read(o)
    <3> DEFINE is == IF fd = Closed THEN "none" ELSE Parse(inode[fd].text)
               should == IF Holds(o) /\ fd = path THEN latest ELSE "unknown"
    <3>1. got' = [is |-> is, should |-> should]
      BY <2>1 DEF read
    <3>2. fd = path => \/ latest \in {"unknown", "spoiled"}
                       \/ latest = is
      <4> SUFFICES ASSUME fd = path, latest \notin {"unknown", "spoiled"}
                   PROVE  latest = is
        OBVIOUS
      <4>1. CASE latest = "none"
        BY <4>1, <1>8 DEF LatestSound
      <4>2. CASE latest = "empty"
        <5>1. path # Closed /\ inode[path].text = <<>>
          BY <4>2, <1>8 DEF LatestSound
        <5> QED
          BY <4>2, <5>1, TextSound
      <4>3. CASE latest \in DOMAIN Size
        <5>1. path # Closed /\ inode[path].text = Text(latest)
          BY <4>3, <1>8 DEF LatestSound
        <5> QED
          BY <4>3, <5>1, TextSound
      <4> QED
        BY <4>1, <4>2, <4>3, <1>8 DEF LatestSound
    <3> HIDE DEF is
    <3> QED
      BY <3>1, <3>2 DEF GotSound
  <2>2. CASE isFileAvailable(o)
    BY <2>2, <1>8 DEF isFileAvailable, GotSound
  <2>3. CASE isEmpty(o)
    <3> DEFINE nothing == fd = Closed \/ (fd # Closed /\ inode[fd].text = <<>>)
               Answer(empty) == IF empty THEN "nothing" ELSE "something"
               known == Holds(o) /\ fd = path
                          /\ latest \notin {"unknown", "spoiled"}
               should == IF known THEN Answer(latest \in {"none", "empty"})
                         ELSE "unknown"
    <3>1. got' = [is |-> Answer(nothing), should |-> should]
      BY <2>3 DEF isEmpty
    <3>2. ASSUME known PROVE nothing <=> latest \in {"none", "empty"}
      <4>1. CASE latest \in {"none", "empty"}
        BY <3>2, <4>1, <1>8 DEF LatestSound
      <4>2. CASE latest \in DOMAIN Size
        <5>1. path # Closed /\ inode[path].text = Text(latest)
          BY <4>2, <1>8 DEF LatestSound
        <5>2. Text(latest) # <<>> /\ latest \notin {"none", "empty"}
          BY <4>2, TextSound, SizeAssumption
        <5> QED
          BY <3>2, <5>1, <5>2
      <4> QED
        BY <3>2, <4>1, <4>2, <1>8 DEF LatestSound
    <3>3. known => Answer(nothing) = should
      BY <3>2
    <3>4. ~known => should = "unknown"
      OBVIOUS
    <3> HIDE DEF nothing, Answer, known, should
    <3> QED
      BY <3>1, <3>3, <3>4 DEF GotSound
  <2> QED
    BY <2>1, <2>2, <2>3
<1>9. ASSUME ~leaked' PROVE LatestSound' /\ WriteSound' /\ GotSound'
  BY <1>9, <1>5, <1>6, <1>8, <1>a, StillSound DEF FileInv
<1> QED
  BY <1>5, <1>7, <1>9, <1>a DEF FileInv

\* The types after a step of o on the file.
LEMMA DiskType ==
    ASSUME FileType, NEW o \in Objects,
           inode' \in Seq(Inode), Len(inode') >= Len(inode),
           path' \in 0..Len(inode'),
           UNCHANGED <<FileMutexMap, fileLock, leaked>>,
           rw' \in [Objects -> Object],
           \A x \in Objects \ {o} : rw'[x] = rw[x],
           rw'[o].m_readFd \in 0..Len(inode'),
           rw'[o].m_writeFd \in 0..Len(inode'),
           Writing(o)' => rw'[o].m_writeFd # Closed
    PROVE  FileType'
<1>1. Len(inode) \in Nat /\ Len(inode') \in Nat
  BY DEF FileType
<1>2. ASSUME NEW x \in Objects \ {o}
      PROVE  /\ rw'[x].m_readFd \in 0..Len(inode')
             /\ rw'[x].m_writeFd \in 0..Len(inode')
             /\ Writing(x)' => rw'[x].m_writeFd # Closed
  BY <1>1 DEF FileType, Writing
<1> QED
  BY <1>2 DEF FileType

\* A write begins, or the file is cleared.
LEMMA CutInv ==
    ASSUME FileInv, NEW o \in Objects,
           clear(o) \/ \E m \in DOMAIN Size : writeBegins(o, m)
    PROVE  FileInv'
<1> DEFINE opened == openFileToWrite(o)
           fd == opened.fd
<1>1. /\ FileType /\ MutexSound /\ rw[o].call = "none" /\ rw[o] \in Object
      /\ fd # Closed /\ path' = PathAfter(opened)
      /\ UNCHANGED <<FileMutexMap, fileLock, leaked, got>>
      /\ inode' = [Inodes(opened) EXCEPT ![fd].text = <<>>]
  BY DEF FileInv, FileType, clear, writeBegins, Called, Ready, locks, Truncated
<1>2. PICK call \in {"none"} \cup DOMAIN Size, known \in {"unknown", "empty"} :
        /\ rw' = [rw EXCEPT ![o].m_writeFd = fd, ![o].call = call]
        /\ latest' = Latest(o, fd, path', known)
  <2>1. CASE clear(o)
    <3>1. /\ rw' = [rw EXCEPT ![o].m_writeFd = fd]
          /\ latest' = Latest(o, fd, path', "empty")
      BY <2>1 DEF clear
    <3>2. rw' = [rw EXCEPT ![o].m_writeFd = fd, ![o].call = "none"]
      BY <3>1, <1>1 DEF FileType, Object
    <3> QED
      BY <3>1, <3>2
  <2>2. ASSUME NEW m \in DOMAIN Size, writeBegins(o, m)
        PROVE  /\ rw' = [rw EXCEPT ![o].m_writeFd = fd, ![o].call = m]
               /\ latest' = Latest(o, fd, path', "unknown")
    BY <2>2 DEF writeBegins
  <2> QED
    BY <2>1, <2>2
<1>3. /\ opened.made \in BOOLEAN
      /\ opened.made => path = Closed /\ fd = Len(inode) + 1
      /\ ~opened.made => fd \in 0..Len(inode)
      /\ path' = IF opened.made THEN Len(inode) + 1 ELSE path
      /\ Inodes(opened) \in Seq(Inode)
      /\ Len(Inodes(opened)) =
           IF opened.made THEN Len(inode) + 1 ELSE Len(inode)
      /\ \A n \in 1..Len(inode) : Inodes(opened)[n] = inode[n]
      /\ Len(inode) \in Nat /\ path \in 0..Len(inode)
  BY <1>1, OpenedSound DEF FileType
<1> HIDE DEF opened
<1>4. fd \in 1..Len(Inodes(opened)) /\ fd \in Nat \ {0}
  BY <1>1, <1>3 DEF Closed
<1>5. /\ inode' \in Seq(Inode) /\ Len(inode') = Len(Inodes(opened))
      /\ inode'[fd].text = <<>>
      /\ \A n \in 1..Len(inode) : n # fd => inode'[n] = inode[n]
  <2> DEFINE s == Inodes(opened)
             text == <<>>
  <2>1. text \in Seq(Bytes)
    OBVIOUS
  <2>2. /\ s \in Seq(Inode) /\ fd \in 1..Len(s)
        /\ inode' = [s EXCEPT ![fd].text = text]
    BY <1>1, <1>3, <1>4
  <2>3. \A n \in 1..Len(inode) : n \in 1..Len(s) /\ s[n] = inode[n]
    BY <1>3
  <2> HIDE DEF fd, s, text
  <2>4. /\ inode' \in Seq(Inode) /\ Len(inode') = Len(s)
        /\ inode'[fd].text = text
        /\ \A n \in 1..Len(s) : n # fd => inode'[n] = s[n]
    BY <2>1, <2>2, TextSet
  <2> QED
    BY <2>3, <2>4 DEF s, text
<1> DEFINE record == [rw[o] EXCEPT !.m_writeFd = fd, !.call = call]
<1>6. /\ record \in Object /\ rw' = [rw EXCEPT ![o] = record]
      /\ record.m_writeFd = fd /\ record.call = call
      /\ record.m_readFd = rw[o].m_readFd
      /\ record.m_lock = rw[o].m_lock /\ record.m_lockFd = rw[o].m_lockFd
  BY <1>1, <1>2, <1>4 DEF FileType, Object
<1> HIDE DEF record
<1>7. /\ rw' \in [Objects -> Object] /\ rw'[o] = record
      /\ \A x \in Objects \ {o} : rw'[x] = rw[x]
  BY <1>1, <1>6, ObjectType
<1>8. FileType'
  <2>1. Len(inode') >= Len(inode) /\ path' \in 0..Len(inode')
    BY <1>3, <1>5
  <2>2. /\ rw'[o].m_readFd \in 0..Len(inode')
        /\ rw'[o].m_writeFd \in 0..Len(inode') /\ rw'[o].m_writeFd # Closed
    BY <1>1, <1>3, <1>4, <1>5, <1>6, <1>7 DEF FileType
  <2> QED
    BY <1>1, <1>5, <1>7, <2>1, <2>2, DiskType
<1>9. /\ \A x \in Objects : Holds(x)' <=> Holds(x)
      /\ MutexSound' /\ (FileLockSound => FileLockSound')
  <2>1. call # "lock"
    BY SizeAssumption
  <2> QED
    BY <1>1, <1>6, <1>7, <2>1, DiskLocks
<1>10. ASSUME ~leaked'
       PROVE  FileLockSound' /\ LatestSound' /\ WriteSound' /\ GotSound'
  <2>1. FileLockSound /\ LatestSound /\ WriteSound /\ GotSound
    BY <1>10, <1>1 DEF FileInv
  <2>2. \/ path' = path
        \/ path = Closed /\ path' = Len(inode) + 1 /\ fd = path'
    BY <1>3
  <2>3. Writing(o)' => rw'[o].m_writeFd = fd
    BY <1>6, <1>7
  <2>4. known \notin DOMAIN Size
    BY SizeAssumption
  <2> HIDE DEF fd
  <2>5. LatestSound' /\ WriteSound'
    BY <1>1, <1>2, <1>4, <1>5, <1>7, <1>9, <2>1, <2>2, <2>3, <2>4, TextStep
  <2> QED
    BY <1>1, <1>9, <2>1, <2>5 DEF GotSound
<1> QED
  BY <1>8, <1>9, <1>10 DEF FileInv

\* The text is written.
LEMMA WriteEndsInv ==
    ASSUME FileInv, NEW o \in Objects, writeEnds(o)
    PROVE  FileInv'
<1> DEFINE m == rw[o].call
           fd == rw[o].m_writeFd
           offset == rw[o].offset
           text == WrittenAt(inode[fd].text, offset, Text(m))
           known == IF offset = 0 THEN m ELSE "unknown"
           record == [rw[o] EXCEPT !.call = "none", !.offset = offset + Size[m]]
<1>1. /\ FileType /\ MutexSound /\ m \in DOMAIN Size
      /\ inode' = [inode EXCEPT ![fd].text = text]
      /\ rw' = [rw EXCEPT ![o].call = "none", ![o].offset = offset + Size[m]]
      /\ latest' = Latest(o, fd, path, known)
      /\ UNCHANGED <<FileMutexMap, fileLock, leaked, path, got>>
  BY DEF FileInv, writeEnds, locks
<1>2. /\ rw[o] \in Object /\ fd \in 1..Len(inode) /\ fd \in Nat \ {0}
      /\ offset \in Nat /\ inode \in Seq(Inode) /\ Len(inode) \in Nat
      /\ Size[m] \in Nat /\ offset + Size[m] \in Nat
  <2>1. rw[o] \in Object /\ fd \in 0..Len(inode) /\ fd # 0
    BY <1>1 DEF FileType, Writing, Closed
  <2>2. inode \in Seq(Inode) /\ Len(inode) \in Nat /\ Size[m] \in Nat
    BY <1>1, SizeAssumption DEF FileType
  <2> QED
    BY <2>1, <2>2 DEF Object
<1>3. inode[fd].text \in Seq(Bytes)
  <2>1. inode[fd] \in Inode
    BY <1>2
  <2> QED
    BY <2>1 DEF Inode
<1>4. /\ text \in Seq(Bytes)
      /\ inode[fd].text = <<>> /\ offset = 0 => text = Text(m)
  BY <1>1, <1>2, <1>3, WrittenSound
<1> HIDE DEF text
<1>5. /\ inode' \in Seq(Inode) /\ Len(inode') = Len(inode)
      /\ inode'[fd].text = text
      /\ \A n \in 1..Len(inode) : n # fd => inode'[n] = inode[n]
  <2> HIDE DEF fd
  <2> QED
    BY <1>1, <1>2, <1>4, TextSet
<1>6. /\ record \in Object /\ rw' = [rw EXCEPT ![o] = record]
      /\ record.m_writeFd = fd /\ record.call = "none"
      /\ record.m_readFd = rw[o].m_readFd
      /\ record.m_lock = rw[o].m_lock /\ record.m_lockFd = rw[o].m_lockFd
  BY <1>1, <1>2 DEF FileType, Object
<1> HIDE DEF record
<1>7. /\ rw' \in [Objects -> Object] /\ rw'[o] = record
      /\ \A x \in Objects \ {o} : rw'[x] = rw[x]
  BY <1>1, <1>6, ObjectType
<1>8. ~Writing(o)' /\ m # "lock"
  BY <1>1, <1>6, <1>7, SizeAssumption DEF Writing
<1>9. FileType'
  <2>1. Len(inode') >= Len(inode) /\ path' \in 0..Len(inode')
    BY <1>1, <1>5, <1>2 DEF FileType
  <2>2. /\ rw'[o].m_readFd \in 0..Len(inode')
        /\ rw'[o].m_writeFd \in 0..Len(inode')
    BY <1>1, <1>5, <1>6, <1>7 DEF FileType
  <2> QED
    BY <1>1, <1>5, <1>7, <1>8, <2>1, <2>2, DiskType
<1>10. /\ \A x \in Objects : Holds(x)' <=> Holds(x)
       /\ MutexSound' /\ (FileLockSound => FileLockSound')
  BY <1>1, <1>6, <1>7, <1>8, DiskLocks
<1>11. ASSUME ~leaked'
       PROVE  FileLockSound' /\ LatestSound' /\ WriteSound' /\ GotSound'
  <2>1. FileLockSound /\ LatestSound /\ WriteSound /\ GotSound
    BY <1>11, <1>1 DEF FileInv
  <2>2. known \in {"unknown"} \cup DOMAIN Size
    BY <1>1
  <2>3. ASSUME known \in DOMAIN Size, fd = path, Holds(o), latest # "spoiled"
        PROVE  text = Text(known)
    <3>1. offset = 0 /\ known = m
      BY <2>3, SizeAssumption
    <3>2. inode[fd].text = <<>>
      BY <2>1, <2>3, <1>1 DEF WriteSound, Writing
    <3> QED
      BY <3>1, <3>2, <1>4
  <2>4. latest' = Latest(o, fd, path', known) /\ path' = path
    BY <1>1
  <2>5. known # "empty"
    BY <2>2, SizeAssumption
  <2> HIDE DEF fd, known
  <2>6. LatestSound' /\ WriteSound'
    BY <1>1, <1>2, <1>5, <1>7, <1>8, <1>10, <2>1, <2>2, <2>3, <2>4, <2>5,
       TextStep
  <2> QED
    BY <1>1, <1>10, <2>1, <2>6 DEF GotSound
<1> QED
  BY <1>9, <1>10, <1>11 DEF FileInv

\* A step that leaves the file alone.
LEMMA LockStep ==
    ASSUME FileInv, UNCHANGED <<path, inode, latest, got>>,
           rw' \in [Objects -> Object],
           \A x \in Objects :
             \/ rw'[x] = rw[x]
             \/ /\ ~Writing(x)'
                /\ rw'[x].m_readFd \in {Closed, rw[x].m_readFd}
                /\ rw'[x].m_writeFd \in {Closed, rw[x].m_writeFd},
           FileMutexMap' \in [Processes -> Objects \cup {NoObject}],
           leaked' \in BOOLEAN, leaked => leaked',
           MutexSound', ~leaked' => FileLockSound'
    PROVE  FileInv'
<1>1. FileType
  BY DEF FileInv
<1>2. FileType'
  <2>1. ASSUME NEW x \in Objects
        PROVE  /\ rw'[x].m_readFd \in 0..Len(inode)
               /\ rw'[x].m_writeFd \in 0..Len(inode)
               /\ Writing(x)' => rw'[x].m_writeFd # Closed
    <3>1. 0 \in 0..Len(inode) /\ Closed = 0
      BY <1>1 DEF FileType, Closed
    <3> QED
      BY <1>1, <3>1 DEF FileType, Writing
  <2> QED
    BY <1>1, <2>1 DEF FileType
<1>3. ASSUME ~leaked' PROVE LatestSound' /\ WriteSound' /\ GotSound'
  <2>1. LatestSound /\ WriteSound /\ GotSound
    BY <1>3 DEF FileInv
  <2>2. \A x \in Objects :
          Writing(x)' => /\ Writing(x) /\ rw'[x].m_writeFd = rw[x].m_writeFd
                         /\ Holds(x) => Holds(x)'
    BY DEF Writing, Holds
  <2> QED
    BY <1>1, <2>1, <2>2, StillSound DEF GotSound
<1> QED
  BY <1>2, <1>3 DEF FileInv

\* To close its descriptor of the lock takes the lock from no other object,
\* unless the descriptor was left by a tryLock that was refused.
LEMMA CloseKept ==
    ASSUME MutexSound, FileLockSound, NEW o \in Objects, CloseLock(o), ~leaked',
           NEW x \in Objects, x # o, Holds(x)
    PROVE  fileLock' = ProcessOf[x]
<1>1. fileLock = ProcessOf[x] /\ FileMutexMap[ProcessOf[x]] = x
  BY DEF MutexSound, FileLockSound, Holds
<1>2. CASE rw[o].m_lockFd /\ fileLock = ProcessOf[o]
  <2>1. rw[o].m_lock
    BY <1>1, <1>2 DEF CloseLock
  <2>2. FileMutexMap[ProcessOf[o]] = o
    BY <2>1 DEF MutexSound
  <2> QED
    BY <1>1, <1>2, <2>2
<1>3. CASE ~(rw[o].m_lockFd /\ fileLock = ProcessOf[o])
  BY <1>1, <1>3 DEF CloseLock
<1> QED
  BY <1>2, <1>3

\* The lock is waited for, granted, tried.
LEMMA LockInv ==
    ASSUME FileInv, NEW o \in Objects, lock(o) \/ lockGranted(o) \/ tryLock(o)
    PROVE  FileInv'
<1>1. /\ FileType /\ MutexSound /\ (~leaked => FileLockSound)
      /\ rw[o] \in Object /\ ProcessOf[o] \in Processes /\ leaked \in BOOLEAN
      /\ FileMutexMap \in [Processes -> Objects \cup {NoObject}]
  BY DEF FileInv, FileType, Processes
<1>2. UNCHANGED <<path, inode, latest, got, leaked>>
  BY DEF lock, lockGranted, tryLock, disk, locks
<1>3. ASSUME NEW fdOfLock \in BOOLEAN, NEW locked \in BOOLEAN,
             NEW call \in {"none", "lock"},
             rw' = [rw EXCEPT ![o].m_lockFd = fdOfLock, ![o].m_lock = locked,
                              ![o].call = call]
      PROVE  /\ rw' \in [Objects -> Object]
             /\ rw'[o].m_lockFd = fdOfLock /\ rw'[o].m_lock = locked
             /\ rw'[o].call = call
             /\ rw'[o].m_readFd = rw[o].m_readFd
             /\ rw'[o].m_writeFd = rw[o].m_writeFd
             /\ \A x \in Objects \ {o} : rw'[x] = rw[x]
  <2> DEFINE record == [rw[o] EXCEPT !.m_lockFd = fdOfLock, !.m_lock = locked,
                                     !.call = call]
  <2>1. /\ record \in Object /\ rw' = [rw EXCEPT ![o] = record]
        /\ record.m_lockFd = fdOfLock /\ record.m_lock = locked
        /\ record.call = call
        /\ record.m_readFd = rw[o].m_readFd
        /\ record.m_writeFd = rw[o].m_writeFd
    BY <1>1, <1>3 DEF Object, FileType
  <2> HIDE DEF record
  <2> QED
    BY <1>1, <2>1, ObjectType
<1>4. CASE lock(o)
  <2>1. /\ rw[o].call = "none" /\ ~rw[o].m_lock
        /\ FileMutexMap[ProcessOf[o]] = NoObject
        /\ FileMutexMap' = [FileMutexMap EXCEPT ![ProcessOf[o]] = o]
        /\ UNCHANGED fileLock
        /\ rw' = [rw EXCEPT ![o].m_lockFd = TRUE, ![o].m_lock = TRUE,
                            ![o].call = "lock"]
    BY <1>4, <1>1 DEF lock, Ready, getFileMutex, openFileToLock, FileType, Object
  <2>2. /\ rw' \in [Objects -> Object]
        /\ rw'[o].m_lock /\ rw'[o].call = "lock"
        /\ rw'[o].m_readFd = rw[o].m_readFd
        /\ rw'[o].m_writeFd = rw[o].m_writeFd
        /\ \A x \in Objects \ {o} : rw'[x] = rw[x]
    BY <2>1, <1>3
  <2>3. MutexSound'
    BY <1>1, <2>1, <2>2, NoObjectAssumption DEF MutexSound
  <2>4. FileLockSound => FileLockSound'
    BY <2>1, <2>2 DEF FileLockSound, Holds
  <2>5. ~Writing(o)'
    BY <2>2, SizeAssumption DEF Writing
  <2>6. FileMutexMap' \in [Processes -> Objects \cup {NoObject}]
    BY <1>1, <2>1
  <2> QED
    BY <1>1, <1>2, <2>2, <2>3, <2>4, <2>5, <2>6, LockStep
<1>5. CASE lockGranted(o)
  <2>1. /\ rw[o].call = "lock" /\ fileLock \in {NoObject, ProcessOf[o]}
        /\ fileLock' = ProcessOf[o] /\ UNCHANGED FileMutexMap
        /\ rw' = [rw EXCEPT ![o].m_lockFd = rw[o].m_lockFd,
                            ![o].m_lock = rw[o].m_lock, ![o].call = "none"]
    BY <1>5, <1>1 DEF lockGranted, FileType, Object
  <2>2. /\ rw' \in [Objects -> Object]
        /\ rw'[o].m_lock = rw[o].m_lock /\ rw'[o].call = "none"
        /\ rw'[o].m_readFd = rw[o].m_readFd
        /\ rw'[o].m_writeFd = rw[o].m_writeFd
        /\ \A x \in Objects \ {o} : rw'[x] = rw[x]
    BY <2>1, <1>1, <1>3 DEF Object
  <2>3. MutexSound'
    BY <1>1, <2>1, <2>2 DEF MutexSound
  <2>4. FileLockSound => FileLockSound'
    BY <2>1, <2>2, NoObjectAssumption DEF FileLockSound, Holds
  <2>5. ~Writing(o)'
    BY <2>2, SizeAssumption DEF Writing
  <2> QED
    BY <1>1, <1>2, <2>1, <2>2, <2>3, <2>4, <2>5, LockStep
<1>6. CASE tryLock(o)
  <2>1. rw[o].call = "none" /\ ~rw[o].m_lock
    BY <1>6 DEF tryLock, Ready
  <2>2. CASE UNCHANGED <<rw, FileMutexMap, fileLock>>
    <3>1. MutexSound' /\ (FileLockSound => FileLockSound')
      BY <1>1, <2>2 DEF MutexSound, FileLockSound, Holds
    <3>2. \A x \in Objects : rw'[x] = rw[x]
      BY <2>2
    <3>3. rw' \in [Objects -> Object]
      BY <1>1, <2>2 DEF FileType
    <3> QED
      BY <1>1, <1>2, <2>2, <3>1, <3>2, <3>3, LockStep
  <2>3. CASE UNCHANGED <<FileMutexMap, fileLock>> /\ rw' = openFileToLock(o)
    <3>1. rw' = [rw EXCEPT ![o].m_lockFd = TRUE, ![o].m_lock = FALSE,
                           ![o].call = "none"]
      BY <1>1, <2>1, <2>3 DEF openFileToLock, FileType, Object
    <3>2. /\ rw' \in [Objects -> Object]
          /\ ~rw'[o].m_lock /\ rw'[o].call = "none"
          /\ rw'[o].m_readFd = rw[o].m_readFd
          /\ rw'[o].m_writeFd = rw[o].m_writeFd
          /\ \A x \in Objects \ {o} : rw'[x] = rw[x]
      BY <3>1, <1>3
    <3>3. MutexSound'
      BY <1>1, <2>1, <2>3, <3>2 DEF MutexSound
    <3>4. FileLockSound => FileLockSound'
      BY <2>3, <3>2 DEF FileLockSound, Holds
    <3>5. ~Writing(o)'
      BY <3>2, SizeAssumption DEF Writing
    <3> QED
      BY <1>1, <1>2, <2>3, <3>2, <3>3, <3>4, <3>5, LockStep
  <2>4. CASE /\ FileMutexMap[ProcessOf[o]] = NoObject
             /\ fileLock \in {NoObject, ProcessOf[o]}
             /\ FileMutexMap' = [FileMutexMap EXCEPT ![ProcessOf[o]] = o]
             /\ fileLock' = ProcessOf[o]
             /\ rw' = [openFileToLock(o) EXCEPT ![o].m_lock = TRUE]
    <3>1. rw' = [rw EXCEPT ![o].m_lockFd = TRUE, ![o].m_lock = TRUE,
                           ![o].call = "none"]
      BY <1>1, <2>1, <2>4 DEF openFileToLock, FileType, Object
    <3>2. /\ rw' \in [Objects -> Object]
          /\ rw'[o].m_lock /\ rw'[o].call = "none"
          /\ rw'[o].m_readFd = rw[o].m_readFd
          /\ rw'[o].m_writeFd = rw[o].m_writeFd
          /\ \A x \in Objects \ {o} : rw'[x] = rw[x]
      BY <3>1, <1>3
    <3>3. MutexSound'
      BY <1>1, <2>4, <3>2, NoObjectAssumption DEF MutexSound
    <3>4. FileLockSound => FileLockSound'
      BY <2>4, <3>2, NoObjectAssumption DEF FileLockSound, Holds
    <3>5. ~Writing(o)'
      BY <3>2, SizeAssumption DEF Writing
    <3>6. FileMutexMap' \in [Processes -> Objects \cup {NoObject}]
      BY <1>1, <2>4
    <3> QED
      BY <1>1, <1>2, <2>4, <3>2, <3>3, <3>4, <3>5, <3>6, LockStep
  <2> QED
    BY <1>6, <2>2, <2>3, <2>4 DEF tryLock, getFileMutex, locks
<1> QED
  BY <1>4, <1>5, <1>6

\* The lock is given up, by an object that lives on or ends.
LEMMA UnlockInv ==
    ASSUME FileInv, NEW o \in Objects, unlock(o) \/ Destruct(o)
    PROVE  FileInv'
<1>1. /\ FileType /\ MutexSound /\ (~leaked => FileLockSound)
      /\ rw[o] \in Object /\ ProcessOf[o] \in Processes /\ leaked \in BOOLEAN
      /\ FileMutexMap \in [Processes -> Objects \cup {NoObject}]
      /\ rw[o].call = "none"
  BY DEF FileInv, FileType, Processes, unlock, Destruct, Ready
<1>2. /\ UNCHANGED <<path, inode, latest, got>>
      /\ CloseLock(o) /\ ReleaseMutex(o)
  BY DEF unlock, Destruct, disk
<1>3. PICK record \in Object :
        /\ rw' = [rw EXCEPT ![o] = record]
        /\ ~record.m_lock /\ ~record.m_lockFd /\ record.call \in {"none", "dead"}
        /\ record.m_readFd \in {Closed, rw[o].m_readFd}
        /\ record.m_writeFd \in {Closed, rw[o].m_writeFd}
  <2>1. CASE unlock(o)
    <3> DEFINE record == [rw[o] EXCEPT !.m_lockFd = FALSE, !.m_lock = FALSE]
    <3>1. /\ record \in Object /\ rw' = [rw EXCEPT ![o] = record]
          /\ record.m_lockFd = FALSE /\ record.m_lock = FALSE
          /\ record.call = "none"
          /\ record.m_readFd = rw[o].m_readFd
          /\ record.m_writeFd = rw[o].m_writeFd
      BY <1>1, <2>1 DEF unlock, FileType, Object
    <3> HIDE DEF record
    <3> QED
      BY <3>1
  <2>2. CASE Destruct(o)
    <3>1. /\ Dead \in Object /\ ~Dead.m_lock /\ ~Dead.m_lockFd
          /\ Dead.call = "dead"
          /\ Dead.m_readFd = Closed /\ Dead.m_writeFd = Closed
      BY DEF Dead, New, Object, Closed
    <3>2. rw' = [rw EXCEPT ![o] = Dead]
      BY <2>2 DEF Destruct
    <3> QED
      BY <3>1, <3>2
  <2> QED
    BY <2>1, <2>2
<1>4. /\ rw' \in [Objects -> Object] /\ rw'[o] = record
      /\ \A x \in Objects \ {o} : rw'[x] = rw[x]
  BY <1>1, <1>3, ObjectType
<1>5. ~Writing(o)'
  BY <1>3, <1>4, SizeAssumption DEF Writing
<1>6. /\ FileMutexMap' \in [Processes -> Objects \cup {NoObject}]
      /\ leaked' \in BOOLEAN /\ (leaked => leaked')
  BY <1>1, <1>2 DEF ReleaseMutex, CloseLock
<1>7. MutexSound'
  <2>1. ASSUME NEW x \in Objects
        PROVE  rw'[x].m_lock <=> FileMutexMap'[ProcessOf[x]] = x
    <3>1. ProcessOf[x] \in Processes /\ NoObject # x
      BY NoObjectAssumption DEF Processes
    <3>2. FileMutexMap'[ProcessOf[x]] =
            IF rw[o].m_lock /\ FileMutexMap[ProcessOf[x]] = o THEN NoObject
            ELSE FileMutexMap[ProcessOf[x]]
      BY <1>2, <3>1 DEF ReleaseMutex
    <3> QED
      BY <1>1, <1>3, <1>4, <3>1, <3>2 DEF MutexSound
  <2> QED
    BY <2>1 DEF MutexSound
<1>8. ASSUME ~leaked' PROVE FileLockSound'
  <2>1. ASSUME NEW x \in Objects, Holds(x)' PROVE fileLock' = ProcessOf[x]
    <3>1. x # o /\ Holds(x)
      BY <2>1, <1>3, <1>4 DEF Holds
    <3> QED
      BY <3>1, <1>1, <1>2, <1>6, <1>8, CloseKept
  <2> QED
    BY <2>1 DEF FileLockSound
<1> QED
  BY <1>2, <1>3, <1>4, <1>5, <1>6, <1>7, <1>8, LockStep

\* The file is removed.
LEMMA RemoveInv ==
    ASSUME FileInv, NEW o \in Objects, removeFile(o)
    PROVE  FileInv'
<1> DEFINE record == [rw[o] EXCEPT !.m_readFd = Closed, !.m_writeFd = Closed,
                                   !.offset = 0, !.m_lockFd = FALSE]
<1>1. /\ FileType /\ MutexSound /\ rw[o] \in Object /\ rw[o].call = "none"
      /\ path' = Closed /\ CloseLock(o) /\ leaked \in BOOLEAN
      /\ latest' = IF latest = "spoiled" THEN latest ELSE "none"
      /\ UNCHANGED <<FileMutexMap, inode, got>>
  BY DEF FileInv, FileType, removeFile, Called, Ready
<1>2. /\ record \in Object /\ rw' = [rw EXCEPT ![o] = record]
      /\ record.m_readFd = 0 /\ record.m_writeFd = 0 /\ record.call = "none"
      /\ record.m_lock = rw[o].m_lock /\ ~record.m_lockFd
  BY <1>1 DEF removeFile, FileType, Object, Closed
<1> HIDE DEF record
<1>3. /\ rw' \in [Objects -> Object] /\ rw'[o] = record
      /\ \A x \in Objects \ {o} : rw'[x] = rw[x]
  BY <1>1, <1>2, ObjectType
<1>4. ~Writing(o)'
  BY <1>2, <1>3, SizeAssumption DEF Writing
<1>5. leaked' \in BOOLEAN /\ (leaked => leaked')
  BY <1>1 DEF CloseLock
<1>6. FileType'
  <2>1. Len(inode) \in Nat
    BY <1>1 DEF FileType
  <2>2. ASSUME NEW x \in Objects
        PROVE  /\ rw'[x].m_readFd \in 0..Len(inode)
               /\ rw'[x].m_writeFd \in 0..Len(inode)
               /\ Writing(x)' => rw'[x].m_writeFd # Closed
    BY <1>1, <1>2, <1>3, <1>4, <2>1 DEF FileType, Writing
  <2>3. path' \in 0..Len(inode)
    BY <1>1, <2>1 DEF Closed
  <2> QED
    BY <1>1, <1>3, <1>5, <2>2, <2>3 DEF FileType
<1>7. MutexSound'
  BY <1>1, <1>2, <1>3 DEF MutexSound
<1>8. ASSUME ~leaked'
      PROVE  FileLockSound' /\ LatestSound' /\ WriteSound' /\ GotSound'
  <2>1. FileLockSound /\ LatestSound /\ GotSound
    BY <1>5, <1>8 DEF FileInv
  <2>2. ASSUME NEW x \in Objects, Holds(x)' PROVE fileLock' = ProcessOf[x]
    <3>1. x # o /\ Holds(x)
      BY <2>2, <1>2, <1>3 DEF Holds
    <3> QED
      BY <3>1, <1>1, <1>8, <2>1, CloseKept
  <2>3. LatestSound'
    BY <1>1, SizeAssumption DEF LatestSound
  <2>4. ASSUME NEW x \in Objects, Writing(x)' PROVE rw'[x].m_writeFd # path'
    BY <2>4, <1>1, <1>6 DEF FileType
  <2> QED
    BY <1>1, <2>1, <2>2, <2>3, <2>4 DEF FileLockSound, WriteSound, GotSound
<1> QED
  BY <1>6, <1>7, <1>8 DEF FileInv

\* The mode of the file is changed.
LEMMA ReadOnlyInv ==
    ASSUME FileInv, NEW o \in Objects, makeReadOnly(o)
    PROVE  FileInv'
<1> DEFINE fd == IF rw[o].m_writeFd # Closed THEN rw[o].m_writeFd
                 ELSE openFileToRead(o)
           readFd == IF rw[o].m_writeFd # Closed THEN rw[o].m_readFd ELSE fd
           record == [rw[o] EXCEPT !.m_writeFd = Closed, !.offset = 0,
                                   !.m_readFd = readFd]
<1>1. /\ FileType /\ MutexSound /\ rw[o] \in Object /\ rw[o].call = "none"
      /\ fd # Closed /\ inode' = [inode EXCEPT ![fd].writable = FALSE]
      /\ inode \in Seq(Inode) /\ Len(inode) \in Nat /\ path \in 0..Len(inode)
      /\ UNCHANGED <<FileMutexMap, fileLock, leaked, path, latest, got>>
  BY DEF FileInv, FileType, makeReadOnly, Called, Ready, locks
<1>2. fd \in 1..Len(inode) /\ readFd \in 0..Len(inode)
  <2>1. fd \in 0..Len(inode) /\ rw[o].m_readFd \in 0..Len(inode)
    BY <1>1 DEF FileType, openFileToRead
  <2> QED
    BY <1>1, <2>1 DEF Closed
<1>3. /\ rw' = [rw EXCEPT ![o] = record] /\ record \in Object
      /\ record.m_readFd = readFd /\ record.m_writeFd = 0
      /\ record.call = "none"
      /\ record.m_lock = rw[o].m_lock /\ record.m_lockFd = rw[o].m_lockFd
  <2>1. rw' = [rw EXCEPT ![o] = record]
    BY <1>1 DEF makeReadOnly, FileType, Object
  <2>2. rw[o] \in Object /\ readFd \in Nat /\ rw[o].call = "none" /\ Closed = 0
    BY <1>1, <1>2 DEF Closed
  <2> HIDE DEF readFd, fd
  <2> QED
    BY <2>1, <2>2 DEF Object
<1> HIDE DEF record
<1>4. /\ inode' \in Seq(Inode) /\ Len(inode') = Len(inode)
      /\ \A k \in 1..Len(inode) : inode'[k].text = inode[k].text
  <2> DEFINE mode == FALSE
  <2>1. mode \in BOOLEAN /\ inode' = [inode EXCEPT ![fd].writable = mode]
    BY <1>1
  <2>2. inode \in Seq(Inode) /\ fd \in 1..Len(inode)
    BY <1>1, <1>2
  <2> HIDE DEF fd, mode
  <2> QED
    BY <2>1, <2>2, ModeSet
<1>5. /\ rw' \in [Objects -> Object] /\ rw'[o] = record
      /\ \A x \in Objects \ {o} : rw'[x] = rw[x]
  BY <1>1, <1>3, ObjectType
<1>6. ~Writing(o)'
  BY <1>3, <1>5, SizeAssumption DEF Writing
<1>7. FileType'
  <2>1. rw'[o].m_readFd \in 0..Len(inode') /\ rw'[o].m_writeFd \in 0..Len(inode')
    BY <1>1, <1>2, <1>3, <1>4, <1>5
  <2>2. path' \in 0..Len(inode') /\ Len(inode') >= Len(inode)
    BY <1>1, <1>4
  <2> QED
    BY <1>1, <1>4, <1>5, <1>6, <2>1, <2>2, DiskType
<1>8. /\ \A x \in Objects : Holds(x)' <=> Holds(x)
      /\ MutexSound' /\ (FileLockSound => FileLockSound')
  BY <1>1, <1>3, <1>5, DiskLocks
<1>9. ASSUME ~leaked'
      PROVE  FileLockSound' /\ LatestSound' /\ WriteSound' /\ GotSound'
  <2>1. FileLockSound /\ LatestSound /\ WriteSound /\ GotSound
    BY <1>1, <1>9 DEF FileInv
  <2>2. \A x \in Objects :
          Writing(x)' => /\ Writing(x) /\ rw'[x].m_writeFd = rw[x].m_writeFd
                         /\ Holds(x) => Holds(x)'
    BY <1>5, <1>6, <1>8 DEF Writing
  <2>3. path # Closed => inode'[path].text = inode[path].text
    BY <1>1, <1>4 DEF Closed
  <2>4. LatestSound' /\ WriteSound'
    BY <1>1, <2>1, <2>2, <2>3, StillSound
  <2> QED
    BY <1>1, <1>8, <2>1, <2>4 DEF GotSound
<1> QED
  BY <1>7, <1>8, <1>9 DEF FileInv

LEMMA WritableInv ==
    ASSUME FileInv, NEW o \in Objects, makeWritable(o)
    PROVE  FileInv'
<1> DEFINE opened == openFileToWrite(o)
           s == Inodes(opened)
           readFd == IF opened.fd # Closed THEN rw[o].m_readFd
                     ELSE openFileToRead(o)
           fd == IF opened.fd # Closed THEN opened.fd ELSE readFd
           record == [rw[o] EXCEPT !.m_writeFd = opened.fd, !.m_readFd = readFd]
<1>1. /\ FileType /\ MutexSound /\ rw[o] \in Object /\ rw[o].call = "none"
      /\ inode' = [s EXCEPT ![fd].writable = TRUE]
      /\ path' = PathAfter(opened)
      /\ latest' = IF opened.made /\ latest # "spoiled" THEN "empty" ELSE latest
      /\ rw' = [rw EXCEPT ![o].m_writeFd = opened.fd, ![o].m_readFd = readFd]
      /\ UNCHANGED <<FileMutexMap, fileLock, leaked, got>>
  BY DEF FileInv, FileType, makeWritable, Called, Ready, locks
<1>2. /\ opened.made \in BOOLEAN
      /\ opened.made => path = Closed /\ opened.fd = Len(inode) + 1
      /\ ~opened.made => opened.fd \in 0..Len(inode)
      /\ path' = IF opened.made THEN Len(inode) + 1 ELSE path
      /\ s \in Seq(Inode)
      /\ Len(s) = IF opened.made THEN Len(inode) + 1 ELSE Len(inode)
      /\ \A n \in 1..Len(inode) : s[n] = inode[n]
      /\ opened.made => s[Len(inode) + 1].text = <<>>
      /\ opened.fd = Closed => path # Closed
      /\ Len(inode) \in Nat /\ path \in 0..Len(inode)
      /\ rw[o].m_readFd \in 0..Len(inode)
  BY <1>1, OpenedSound DEF FileType
<1> HIDE DEF opened, s
<1>3. /\ fd \in 1..Len(s) /\ readFd \in 0..Len(s) /\ opened.fd \in 0..Len(s)
      /\ opened.fd \in Nat /\ readFd \in Nat
  <2>1. opened.fd \in 0..Len(s) /\ Len(s) \in Nat
    BY <1>2
  <2>2. CASE opened.fd # Closed
    <3>1. fd = opened.fd /\ readFd = rw[o].m_readFd
      BY <2>2
    <3> HIDE DEF fd, readFd
    <3> QED
      BY <2>1, <2>2, <3>1, <1>2 DEF Closed
  <2>3. CASE opened.fd = Closed
    <3>1. fd = readFd /\ readFd = openFileToRead(o)
      BY <2>3
    <3>2. openFileToRead(o) \in 1..Len(inode)
      BY <2>3, <1>2 DEF openFileToRead, Closed
    <3> HIDE DEF fd, readFd
    <3> QED
      BY <2>1, <3>1, <3>2, <1>2
  <2> QED
    BY <2>2, <2>3
<1>4. /\ inode' \in Seq(Inode) /\ Len(inode') = Len(s)
      /\ \A k \in 1..Len(s) : inode'[k].text = s[k].text
  <2> DEFINE mode == TRUE
  <2>1. mode \in BOOLEAN /\ inode' = [s EXCEPT ![fd].writable = mode]
    BY <1>1
  <2> HIDE DEF fd, mode
  <2> QED
    BY <1>2, <1>3, <2>1, ModeSet
<1>5. /\ \A k \in 1..Len(inode) : inode'[k].text = inode[k].text
      /\ opened.made => inode'[Len(inode) + 1].text = <<>>
  <2>1. \A k \in 1..Len(inode) : k \in 1..Len(s)
    BY <1>2
  <2>2. opened.made => Len(inode) + 1 \in 1..Len(s)
    BY <1>2
  <2> QED
    BY <1>2, <1>4, <2>1, <2>2
<1> HIDE DEF fd, readFd
<1>6. /\ rw' = [rw EXCEPT ![o] = record] /\ record \in Object
      /\ record.m_readFd = readFd /\ record.m_writeFd = opened.fd
      /\ record.call = "none"
      /\ record.m_lock = rw[o].m_lock /\ record.m_lockFd = rw[o].m_lockFd
  BY <1>1, <1>3 DEF FileType, Object
<1> HIDE DEF record
<1>7. /\ rw' \in [Objects -> Object] /\ rw'[o] = record
      /\ \A x \in Objects \ {o} : rw'[x] = rw[x]
  BY <1>1, <1>6, ObjectType
<1>8. ~Writing(o)'
  BY <1>6, <1>7, SizeAssumption DEF Writing
<1>9. FileType'
  <2>1. rw'[o].m_readFd \in 0..Len(inode') /\ rw'[o].m_writeFd \in 0..Len(inode')
    BY <1>3, <1>4, <1>6, <1>7
  <2>2. path' \in 0..Len(inode') /\ Len(inode') >= Len(inode)
    BY <1>2, <1>4
  <2> QED
    BY <1>1, <1>4, <1>7, <1>8, <2>1, <2>2, DiskType
<1>10. /\ \A x \in Objects : Holds(x)' <=> Holds(x)
       /\ MutexSound' /\ (FileLockSound => FileLockSound')
  BY <1>1, <1>6, <1>7, DiskLocks
<1>11. ASSUME ~leaked'
       PROVE  FileLockSound' /\ LatestSound' /\ WriteSound' /\ GotSound'
  <2>1. FileLockSound /\ LatestSound /\ WriteSound /\ GotSound
    BY <1>1, <1>11 DEF FileInv
  <2>2. \A x \in Objects :
          Writing(x)' => /\ Writing(x) /\ rw'[x].m_writeFd = rw[x].m_writeFd
                         /\ Holds(x) => Holds(x)'
    BY <1>7, <1>8, <1>10 DEF Writing
  <2>3. ASSUME ~opened.made PROVE LatestSound' /\ WriteSound'
    <3>1. UNCHANGED <<path, latest>>
      BY <1>1, <1>2, <2>3
    <3>2. path # Closed => inode'[path].text = inode[path].text
      BY <1>2, <1>5 DEF Closed
    <3> QED
      BY <1>1, <2>1, <2>2, <3>1, <3>2, StillSound
  <2>4. ASSUME opened.made PROVE LatestSound' /\ WriteSound'
    <3>1. path' = Len(inode) + 1 /\ path' # Closed /\ inode'[path'].text = <<>>
      BY <1>2, <1>5, <2>4 DEF Closed
    <3>2. latest' \in {"empty", "spoiled"}
      BY <1>1, <2>4
    <3>3. LatestSound'
      BY <3>1, <3>2, SizeAssumption DEF LatestSound
    <3>4. ASSUME NEW x \in Objects, Writing(x)' PROVE rw'[x].m_writeFd # path'
      <4>1. rw'[x].m_writeFd \in 0..Len(inode)
        BY <1>1, <2>2, <3>4 DEF FileType
      <4> QED
        BY <1>2, <3>1, <4>1
    <3> QED
      BY <3>3, <3>4 DEF WriteSound
  <2> QED
    BY <1>1, <1>2, <1>10, <2>1, <2>3, <2>4 DEF GotSound
<1> QED
  BY <1>9, <1>10, <1>11 DEF FileInv

\* A process is killed.
LEMMA KillInv ==
    ASSUME FileInv, NEW p \in Processes, Kill(p)
    PROVE  FileInv'
<1>1. /\ FileType /\ MutexSound /\ (~leaked => FileLockSound)
      /\ leaked \in BOOLEAN /\ rw \in [Objects -> Object]
      /\ FileMutexMap \in [Processes -> Objects \cup {NoObject}]
  BY DEF FileInv, FileType
<1>2. /\ rw' = [o \in Objects |-> IF ProcessOf[o] = p THEN Dead ELSE rw[o]]
      /\ FileMutexMap' = [FileMutexMap EXCEPT ![p] = NoObject]
      /\ fileLock' = IF fileLock = p THEN NoObject ELSE fileLock
      /\ UNCHANGED <<path, inode, latest, got, leaked>>
  BY DEF Kill, disk
<1>3. /\ Dead \in Object /\ ~Dead.m_lock /\ ~Dead.m_lockFd
      /\ Dead.call = "dead"
      /\ Dead.m_readFd = Closed /\ Dead.m_writeFd = Closed
  BY DEF Dead, New, Object, Closed
<1> HIDE DEF Dead
<1>4. /\ rw' \in [Objects -> Object]
      /\ \A x \in Objects :
           \/ ProcessOf[x] # p /\ rw'[x] = rw[x]
           \/ ProcessOf[x] = p /\ rw'[x] = Dead
  BY <1>1, <1>2, <1>3
<1>5. \A x \in Objects :
        \/ rw'[x] = rw[x]
        \/ /\ ~Writing(x)'
           /\ rw'[x].m_readFd \in {Closed, rw[x].m_readFd}
           /\ rw'[x].m_writeFd \in {Closed, rw[x].m_writeFd}
  BY <1>3, <1>4, SizeAssumption DEF Writing
<1>6. FileMutexMap' \in [Processes -> Objects \cup {NoObject}]
  BY <1>1, <1>2
<1>7. MutexSound'
  <2>1. ASSUME NEW x \in Objects
        PROVE  rw'[x].m_lock <=> FileMutexMap'[ProcessOf[x]] = x
    <3>1. ProcessOf[x] \in Processes /\ NoObject # x
      BY NoObjectAssumption DEF Processes
    <3> QED
      BY <1>1, <1>2, <1>3, <1>4, <3>1 DEF MutexSound
  <2> QED
    BY <2>1 DEF MutexSound
<1>8. ~leaked' => FileLockSound'
  BY <1>1, <1>2, <1>3, <1>4 DEF FileLockSound, Holds
<1> QED
  BY <1>1, <1>2, <1>4, <1>5, <1>6, <1>7, <1>8, LockStep

\* Who reads a file under the lock gets what was last written under it, and two
\* objects do not have the lock, whatever processes and objects there are and
\* however often one of them is killed while it writes: unless tryLock left a
\* descriptor that was closed while its process had the lock.
THEOREM FileCorrect == FileSpec => []FileShared
<1>1. FileInv /\ [FileNext]_filevars => FileInv'
  <2> SUFFICES ASSUME FileInv, [FileNext]_filevars PROVE FileInv'
    OBVIOUS
  <2>1. CASE UNCHANGED filevars
    BY <2>1 DEF filevars, FileInv, FileType, MutexSound, FileLockSound, LatestSound,
                WriteSound, GotSound, Holds, Writing
  <2>2. ASSUME NEW o \in Objects, lock(o) \/ lockGranted(o) \/ tryLock(o)
        PROVE  FileInv'
    BY <2>2, LockInv
  <2>3. ASSUME NEW o \in Objects, unlock(o) \/ Destruct(o)
        PROVE  FileInv'
    BY <2>3, UnlockInv
  <2>4. ASSUME NEW o \in Objects, read(o) \/ isFileAvailable(o) \/ isEmpty(o)
        PROVE  FileInv'
    BY <2>4, ReadInv
  <2>5. ASSUME NEW o \in Objects,
               clear(o) \/ \E m \in DOMAIN Size : writeBegins(o, m)
        PROVE  FileInv'
    BY <2>5, CutInv
  <2>6. ASSUME NEW o \in Objects, writeEnds(o)
        PROVE  FileInv'
    BY <2>6, WriteEndsInv
  <2>7. ASSUME NEW o \in Objects, removeFile(o)
        PROVE  FileInv'
    BY <2>7, RemoveInv
  <2>8. ASSUME NEW o \in Objects, makeReadOnly(o)
        PROVE  FileInv'
    BY <2>8, ReadOnlyInv
  <2>9. ASSUME NEW o \in Objects, makeWritable(o)
        PROVE  FileInv'
    BY <2>9, WritableInv
  <2>10. ASSUME NEW p \in Processes, Kill(p)
         PROVE  FileInv'
    BY <2>10, KillInv
  <2> QED
    BY <2>1, <2>2, <2>3, <2>4, <2>5, <2>6, <2>7, <2>8, <2>9, <2>10 DEF FileNext
<1>2. FileInv => FileShared
  <2> SUFFICES ASSUME FileInv, ~leaked PROVE FileShared
    BY DEF FileShared
  <2> DEFINE H == {o \in Objects : Holds(o)}
  <2>1. MutexSound /\ FileLockSound /\ GotSound
    BY DEF FileInv
  <2>2. H = {} \/ \E x \in H : H = {x}
    BY <2>1, HoldsAlone
  <2>3. Cardinality(H) <= 1
    <3> HIDE DEF H
    <3>1. CASE H = {}
      BY <3>1, FS_EmptySet
    <3>2. ASSUME NEW x, H = {x} PROVE Cardinality(H) = 1
      BY <3>2, FS_Singleton
    <3> QED
      BY <2>2, <3>1, <3>2
  <2> QED
    BY <2>1, <2>3 DEF FileShared, AtMostOneHolds, GotSound
<1> QED
  BY <1>1, <1>2, FileStarts, PTL DEF FileSpec
-----------------------------------------------------------------------------
(* TraceConverter: the traces of a ring become messages.                      *)

EventTypes == {"device_desc", "io", "io_cmpl", "fs_meta", "fs_file_name", "fs_file_event"}

ConvertInv ==
    /\ DOMAIN m_ev = EventTypes
    /\ pushed \in Seq(Pushable) /\ \E S : serialized \in Seq(S)
    /\ jobState \in {"RUNNING", "ERROR"}
    /\ ConvertedTrue

\* The fields that are set are as they were set, the others as they were.
LEMMA Overlaid ==
    ASSUME NEW f, NEW g
    PROVE  /\ DOMAIN Over(f, g) = DOMAIN f \cup DOMAIN g
           /\ \A n \in DOMAIN f : Over(f, g)[n] = f[n]
           /\ \A n \in DOMAIN g \ DOMAIN f : Over(f, g)[n] = g[n]
BY DEF Over

\* What is set of a message stays, whatever the message held before.
LEMMA FieldsSet ==
    ASSUME NEW hdr, NEW set, NEW old, "header" \notin DOMAIN set
    PROVE  LET message == Over(Over([header |-> hdr], set), old)
           IN  /\ message.header = hdr
               /\ \A n \in DOMAIN set : message[n] = set[n]
<1> DEFINE H == [header |-> hdr]
<1>1. DOMAIN H = {"header"} /\ H.header = hdr
  OBVIOUS
<1> HIDE DEF H
<1>2. /\ DOMAIN Over(H, set) = {"header"} \cup DOMAIN set
      /\ Over(H, set)["header"] = hdr
      /\ \A n \in DOMAIN set : Over(H, set)[n] = set[n]
  <2>1. /\ DOMAIN Over(H, set) = DOMAIN H \cup DOMAIN set
        /\ \A n \in DOMAIN H : Over(H, set)[n] = H[n]
        /\ \A n \in DOMAIN set \ DOMAIN H : Over(H, set)[n] = set[n]
    BY Overlaid
  <2> QED
    BY <1>1, <2>1
<1>3. \A n \in DOMAIN Over(H, set) : Over(Over(H, set), old)[n] = Over(H, set)[n]
  BY Overlaid
<1> QED
  BY <1>2, <1>3 DEF H

\* Each type of event by itself: what is set says what the struct says.
LEMMA SetSays ==
    ASSUME NEW trace \in Pushable, NEW old, trace.size = "exact",
           trace.type \in EventTypes, ~Unknown(trace)
    PROVE  Says(Over(Over([header |-> trace.hdr], SetBy(trace.type, trace.fields)), old),
                trace)
<1> DEFINE e == trace.fields
           set == SetBy(trace.type, e)
           message == Over(Over([header |-> trace.hdr], set), old)
<1> HIDE DEF e
<1>1. ASSUME "header" \notin DOMAIN set
      PROVE  message.header = trace.hdr /\ \A n \in DOMAIN set : message[n] = set[n]
  <2> HIDE DEF set
  <2> QED
    BY <1>1, FieldsSet
<1>2. CASE trace.type = "device_desc"
  <2>1. set = [id |-> e.id, name |-> e.device_name, size |-> e.device_size,
               model |-> e.device_model]
    BY <1>2 DEF SetBy
  <2> HIDE DEF set
  <2>2. /\ DOMAIN set = {"id", "name", "size", "model"} /\ set.id = e.id
        /\ set.name = e.device_name /\ set.size = e.device_size
        /\ set.model = e.device_model
    BY <2>1
  <2>3. /\ message.header = trace.hdr /\ message.id = e.id
        /\ message.name = e.device_name /\ message.size = e.device_size
        /\ message.model = e.device_model
    <3> HIDE DEF message
    <3> QED
      BY <1>1, <2>2
  <2> HIDE DEF message
  <2>4. Says(message, trace)
    BY <1>2, <2>3 DEF Says, Same, e
  <2> QED
    BY <2>4 DEF message, set, e
<1>3. CASE trace.type = "io"
  <2> DEFINE I == [operation |-> Operations[e.operation], lba |-> e.lba, len |-> e.len,
                   deviceId |-> e.dev_id, writeHint |-> e.write_hint, id |-> e.id]
  <2>1. e.operation \in DOMAIN Operations /\ set = Over(FlagsOf(e), I)
    BY <1>3 DEF SetBy, Unknown, e
  <2>2. /\ DOMAIN I = {"operation", "lba", "len", "deviceId", "writeHint", "id"}
        /\ I.operation = Operations[e.operation] /\ I.lba = e.lba /\ I.len = e.len
        /\ I.deviceId = e.dev_id /\ I.writeHint = e.write_hint /\ I.id = e.id
    OBVIOUS
  <2> HIDE DEF set, I
  <2>3. /\ DOMAIN FlagsOf(e) = Flags
        /\ \A f \in Flags : FlagsOf(e)[f] = (f \in e.flags)
    BY DEF FlagsOf
  <2>4. /\ DOMAIN set = Flags \cup DOMAIN I
        /\ \A f \in Flags : set[f] = (f \in e.flags)
        /\ \A n \in DOMAIN I \ Flags : set[n] = I[n]
    <3>1. /\ DOMAIN Over(FlagsOf(e), I) = DOMAIN FlagsOf(e) \cup DOMAIN I
          /\ \A n \in DOMAIN FlagsOf(e) : Over(FlagsOf(e), I)[n] = FlagsOf(e)[n]
          /\ \A n \in DOMAIN I \ DOMAIN FlagsOf(e) : Over(FlagsOf(e), I)[n] = I[n]
      BY Overlaid
    <3> QED
      BY <2>1, <2>3, <3>1
  <2>5. "header" \notin DOMAIN set /\ DOMAIN I \ Flags = DOMAIN I
    BY <2>2, <2>4 DEF Flags
  <2>6. /\ message.header = trace.hdr
        /\ \A f \in Flags : message[f] = (f \in e.flags)
        /\ \A n \in DOMAIN I : message[n] = I[n]
    <3> HIDE DEF message
    <3> QED
      BY <1>1, <2>4, <2>5
  <2> HIDE DEF message
  <2>7. {f \in Flags : message[f]} = e.flags
    <3>1. e.flags \subseteq Flags
      BY <1>3, PushableAssumption DEF e
    <3> QED
      BY <2>6, <3>1
  <2>8. /\ message.operation = Operations[e.operation] /\ message.lba = e.lba
        /\ message.len = e.len /\ message.deviceId = e.dev_id
        /\ message.writeHint = e.write_hint /\ message.id = e.id
    BY <2>2, <2>6
  <2>9. Says(message, trace)
    BY <1>3, <2>6, <2>7, <2>8 DEF Says, Same, e
  <2> QED
    BY <2>9 DEF message, set, e
<1>4. CASE trace.type = "io_cmpl"
  <2>1. set = [lba |-> e.lba, len |-> e.len, error |-> e.error # 0,
               deviceId |-> e.dev_id, refId |-> e.ref_id]
    BY <1>4 DEF SetBy
  <2> HIDE DEF set
  <2>2. /\ DOMAIN set = {"lba", "len", "error", "deviceId", "refId"}
        /\ set.lba = e.lba /\ set.len = e.len /\ set.error = (e.error # 0)
        /\ set.deviceId = e.dev_id /\ set.refId = e.ref_id
    BY <2>1
  <2>3. /\ message.header = trace.hdr /\ message.lba = e.lba /\ message.len = e.len
        /\ message.error = (e.error # 0) /\ message.deviceId = e.dev_id
        /\ message.refId = e.ref_id
    <3> HIDE DEF message
    <3> QED
      BY <1>1, <2>2
  <2> HIDE DEF message
  <2>4. Says(message, trace)
    BY <1>4, <2>3 DEF Says, Same, e
  <2> QED
    BY <2>4 DEF message, set, e
<1>5. CASE trace.type = "fs_meta"
  <2>1. set = [refId |-> e.ref_id, fileOffset |-> e.file_offset,
               fileSize |-> e.file_size, fileId |-> FileId(e.file_id, e.partition_id)]
    BY <1>5 DEF SetBy
  <2> HIDE DEF set
  <2>2. /\ DOMAIN set = {"refId", "fileOffset", "fileSize", "fileId"}
        /\ set.refId = e.ref_id /\ set.fileOffset = e.file_offset
        /\ set.fileSize = e.file_size
        /\ set.fileId = FileId(e.file_id, e.partition_id)
    BY <2>1
  <2>3. /\ message.header = trace.hdr /\ message.refId = e.ref_id
        /\ message.fileOffset = e.file_offset /\ message.fileSize = e.file_size
        /\ message.fileId = FileId(e.file_id, e.partition_id)
    <3> HIDE DEF message
    <3> QED
      BY <1>1, <2>2
  <2> HIDE DEF message
  <2>4. Says(message, trace)
    BY <1>5, <2>3 DEF Says, Same, IsFile, FileId, e
  <2> QED
    BY <2>4 DEF message, set, e
<1>6. CASE trace.type = "fs_file_name"
  <2>1. set = [fileName |-> e.file_name, fileId |-> FileId(e.file_id, e.partition_id),
               fileParentId |-> FileId(e.file_parent_id, e.partition_id)]
    BY <1>6 DEF SetBy
  <2> HIDE DEF set
  <2>2. /\ DOMAIN set = {"fileName", "fileId", "fileParentId"}
        /\ set.fileName = e.file_name
        /\ set.fileId = FileId(e.file_id, e.partition_id)
        /\ set.fileParentId = FileId(e.file_parent_id, e.partition_id)
    BY <2>1
  <2>3. /\ message.header = trace.hdr /\ message.fileName = e.file_name
        /\ message.fileId = FileId(e.file_id, e.partition_id)
        /\ message.fileParentId = FileId(e.file_parent_id, e.partition_id)
    <3> HIDE DEF message
    <3> QED
      BY <1>1, <2>2
  <2> HIDE DEF message
  <2>4. Says(message, trace)
    BY <1>6, <2>3 DEF Says, IsFile, FileId, e
  <2> QED
    BY <2>4 DEF message, set, e
<1>7. CASE trace.type = "fs_file_event"
  <2> DEFINE K == IF e.fs_event_type \notin DOMAIN FsEventTypes THEN <<>>
                  ELSE [fsEventType |-> FsEventTypes[e.fs_event_type]]
             J == [fileId |-> FileId(e.file_id, e.partition_id)]
  <2>1. set = Over(K, J)
    BY <1>7 DEF SetBy
  <2>2. /\ DOMAIN J = {"fileId"} /\ J.fileId = FileId(e.file_id, e.partition_id)
        /\ DOMAIN K \subseteq {"fsEventType"}
        /\ e.fs_event_type \in DOMAIN FsEventTypes =>
             /\ "fsEventType" \in DOMAIN K
             /\ K.fsEventType = FsEventTypes[e.fs_event_type]
    OBVIOUS
  <2> HIDE DEF set, K, J
  <2>3. /\ DOMAIN set = DOMAIN K \cup {"fileId"}
        /\ set.fileId = FileId(e.file_id, e.partition_id)
        /\ \A n \in DOMAIN K : set[n] = K[n]
    <3>1. /\ DOMAIN Over(K, J) = DOMAIN K \cup DOMAIN J
          /\ \A n \in DOMAIN K : Over(K, J)[n] = K[n]
          /\ \A n \in DOMAIN J \ DOMAIN K : Over(K, J)[n] = J[n]
      BY Overlaid
    <3> QED
      BY <2>1, <2>2, <3>1
  <2>4. /\ message.header = trace.hdr
        /\ message.fileId = FileId(e.file_id, e.partition_id)
        /\ e.fs_event_type \in DOMAIN FsEventTypes =>
             message.fsEventType = FsEventTypes[e.fs_event_type]
    <3> HIDE DEF message
    <3> QED
      BY <1>1, <2>2, <2>3
  <2> HIDE DEF message
  <2>5. Says(message, trace)
    BY <1>7, <2>4 DEF Says, IsFile, FileId, e
  <2> QED
    BY <2>5 DEF message, set, e
<1> QED
  BY <1>2, <1>3, <1>4, <1>5, <1>6, <1>7 DEF EventTypes

\* One trace is taken from the ring.
LEMMA SerializeInv ==
    ASSUME ConvertInv, serialize
    PROVE  ConvertInv'
<1>1. PICK trace \in Pushable :
        /\ jobState = "RUNNING" /\ pushed' = Append(pushed, trace)
        /\ m_ev' = convertTrace(trace)
        /\ IF RefusedTrace(trace) \/ Unknown(trace)
           THEN jobState' = "ERROR" /\ UNCHANGED <<serialized, m_traceCount>>
           ELSE /\ serialized' = Append(serialized, m_ev'[trace.type])
                /\ m_traceCount' = m_traceCount + 1
                /\ UNCHANGED jobState
  BY DEF serialize
<1>2. PICK S : serialized \in Seq(S)
  BY DEF ConvertInv
<1>3. DOMAIN m_ev' = EventTypes
  BY <1>1 DEF convertTrace, ConvertInv
<1>4. /\ pushed' \in Seq(Pushable) /\ Len(pushed') = Len(pushed) + 1
      /\ Len(pushed) = Len(serialized) /\ Len(serialized) \in Nat
      /\ DOMAIN serialized = 1..Len(serialized)
      /\ \A n \in 1..Len(pushed) : pushed'[n] = pushed[n]
      /\ pushed'[Len(pushed) + 1] = trace
      /\ m_traceCount = Len(serialized)
      /\ \A n \in 1..Len(serialized) : Says(serialized[n], pushed[n])
  BY <1>1, <1>2 DEF ConvertInv, ConvertedTrue
<1>5. CASE RefusedTrace(trace) \/ Unknown(trace)
  BY <1>1, <1>2, <1>3, <1>4, <1>5 DEF ConvertInv, ConvertedTrue
<1>6. CASE ~RefusedTrace(trace) /\ ~Unknown(trace)
  <2> DEFINE message == Over(Over([header |-> trace.hdr],
                                  SetBy(trace.type, trace.fields)), m_ev[trace.type])
  <2>1. trace.size = "exact" /\ trace.type \in EventTypes
    BY <1>6 DEF RefusedTrace, ConvertInv
  <2>2. m_ev'[trace.type] = message
    BY <1>1, <1>6, <2>1 DEF convertTrace, ConvertInv
  <2>3. Says(message, trace)
    BY <1>6, <2>1, SetSays
  <2> HIDE DEF message
  <2>4. /\ serialized' = Append(serialized, message) /\ jobState' = "RUNNING"
        /\ m_traceCount' = m_traceCount + 1
    BY <1>1, <1>6, <2>2
  <2>5. serialized \in Seq(S \cup {message})
    BY <1>2
  <2>6. /\ serialized' \in Seq(S \cup {message})
        /\ Len(serialized') = Len(serialized) + 1
        /\ DOMAIN serialized' = 1..Len(serialized) + 1
        /\ serialized'[Len(serialized) + 1] = message
        /\ \A n \in 1..Len(serialized) : serialized'[n] = serialized[n]
    BY <2>4, <2>5
  <2>7. \A n \in 1..Len(serialized) + 1 : Says(serialized'[n], pushed'[n])
    <3> TAKE n \in 1..Len(serialized) + 1
    <3>1. CASE n = Len(serialized) + 1
      BY <1>4, <2>3, <2>6, <3>1
    <3>2. CASE n \in 1..Len(serialized)
      BY <1>4, <2>6, <3>2
    <3> QED
      BY <1>4, <3>1, <3>2
  <2>8. ConvertedTrue'
    <3>1. /\ m_traceCount' = Len(serialized')
          /\ Len(pushed') = Len(serialized') + IF jobState' = "ERROR" THEN 1 ELSE 0
          /\ DOMAIN serialized' = 1..Len(serialized) + 1
      BY <1>4, <2>4, <2>6
    <3>2. \A n \in DOMAIN serialized' : Says(serialized'[n], pushed'[n])
      BY <2>7, <3>1
    <3> QED
      BY <3>1, <3>2 DEF ConvertedTrue, Says, Same, IsFile
  <2> QED
    BY <1>3, <1>4, <2>4, <2>6, <2>8 DEF ConvertInv
<1> QED
  BY <1>5, <1>6

\* The file of a job holds the traces that were pushed: for any traces and any
\* number of them.
THEOREM ConvertCorrect == ConvertSpec => []ConvertedTrue
<1>1. ConvertInit => ConvertInv
  <2> SUFFICES ASSUME ConvertInit PROVE ConvertInv
    OBVIOUS
  <2>1. DOMAIN m_ev = EventTypes
    BY DEF ConvertInit, EventTypes
  <2>2. /\ pushed = <<>> /\ serialized = <<>> /\ m_traceCount = 0
        /\ jobState = "RUNNING"
    BY DEF ConvertInit
  <2>3. pushed \in Seq(Pushable) /\ serialized \in Seq({})
    BY <2>2
  <2>4. /\ Len(pushed) = 0 /\ Len(serialized) = 0
        /\ \A n \in DOMAIN serialized : FALSE
    BY <2>2
  <2>5. ConvertedTrue
    BY <2>2, <2>4 DEF ConvertedTrue
  <2> QED
    BY <2>1, <2>2, <2>3, <2>5 DEF ConvertInv
<1>2. ASSUME ConvertInv, UNCHANGED cvars PROVE ConvertInv'
  BY <1>2 DEF ConvertInv, ConvertedTrue, cvars
<1>3. ConvertInv => ConvertedTrue
  BY DEF ConvertInv
<1> QED
  BY <1>1, <1>2, <1>3, SerializeInv, PTL DEF ConvertSpec, ConvertNext
=============================================================================
