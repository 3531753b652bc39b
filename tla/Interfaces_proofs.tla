---------------------------- MODULE Interfaces_proofs --------------------------
(* What the interfaces over recorded traces answer: the traces on disk answer, *)
(* and are removed, as TraceStore!StoreSound says, and the extensions of a     *)
(* trace are joined as BuildExtensions!RowsJoin says, for any users, traces,   *)
(* analyses, builders and contents.                                            *)
EXTENDS TraceStore, BuildExtensions, WellFoundedInduction, TLAPS
-----------------------------------------------------------------------------
\* A nonempty set of natural numbers has a least one.
LEMMA LeastFound ==
    ASSUME NEW S \in SUBSET Nat, S # {}
    PROVE  \E x \in S : \A y \in S : x =< y
<1> DEFINE R == {ss \in Nat \X Nat : ss[1] < ss[2]}
<1>1. IsWellFoundedOn(R, Nat)
  BY NatLessThanWellFounded DEF OpToRel
<1>2. \E x \in S : \A y \in S : ~ (<<y, x>> \in R)
  <2> HIDE DEF R
  <2> QED
    BY <1>1, WFMin
<1>3. \A x, y \in S : ~ (<<y, x>> \in R) => x =< y
  OBVIOUS
<1> QED
  <2> HIDE DEF R
  <2> QED
    BY <1>2, <1>3

(* TraceStore: requests, the cache and the removal of traces.                 *)

\* What the variables hold.
Keys == {"Statistics"} \cup UNION {Asked[u] : u \in StoreUsers}
Versions == {StoreVersion[u] : u \in StoreUsers}
Answers == (Traces \X Keys \X Versions) \cup {<<>>}
Entry == [key : Keys, version : Versions, value : Answers]
Kinds == {"summary", "data", "cache", "lock"}
Places == {"idle", "answered", "failed", "lookup", "parse", "write", "clear",
           "remove", "unlink"}
UserRecord ==
    [pc : Places, trace : Traces \cup {IdleUser.trace}, key : Keys,
     value : Answers, todo : SUBSET Traces, force : BOOLEAN,
     seen : SUBSET Kinds]

StoreType ==
    /\ dir \in SUBSET Traces /\ forced \in SUBSET Traces
    /\ removed \in SUBSET Traces
    /\ files \in [Traces -> SUBSET Kinds]
    /\ state \in [Traces -> {"running", "complete"}]
    /\ cache \in [Traces -> Seq(Entry) \cup {Torn}]
    /\ client \in [StoreUsers -> UserRecord]

\* An entry is what the analysis of its version makes of its trace.
EntryTrue(t, e) == e.value = <<t, e.key, e.version>>
CacheTrue ==
    \A t \in Traces : cache[t] # Torn =>
      \A n \in 1..Len(cache[t]) : EntryTrue(t, cache[t][n])

MayRemove(t) == t \in forced \/ state[t] = "complete"

\* What the user is about to cache or has answered is true, it works on a trace
\* there is, and it removes what may be removed only.
UserSound(u) ==
    /\ client[u].pc \in {"write", "answered"}
         => client[u].value = <<client[u].trace, client[u].key, StoreVersion[u]>>
    /\ client[u].pc \in {"lookup", "parse", "write", "unlink"}
         => client[u].trace \in Traces
    /\ client[u].pc \in {"remove", "unlink"}
         => \A t \in client[u].todo : MayRemove(t)
    /\ client[u].pc = "unlink" => MayRemove(client[u].trace)

RemovedGone == \A t \in removed : t \notin dir /\ files[t] = {}

RunningKept ==
    \A t \in Traces \ forced :
      state[t] = "running" => {"summary", "data"} \subseteq files[t]

StoreInv ==
    /\ StoreType
    /\ CacheTrue
    /\ \A u \in StoreUsers : UserSound(u)
    /\ RemovedGone
    /\ RunningKept

\* Min() of a nonempty set of natural numbers is in it.
LEMMA MinFound ==
    ASSUME NEW S \in SUBSET Nat, S # {}
    PROVE  Min(S) \in S
<1>1. \E x \in S : \A y \in S : x =< y
  BY LeastFound
<1> QED
  BY <1>1 DEF Min

\* find() returns the place of an entry with the key, if it returns any.
LEMMA FindSound ==
    ASSUME NEW t, NEW k, cache[t] \in Seq(Entry), find(t, k) # 0
    PROVE  find(t, k) \in 1..Len(cache[t]) /\ cache[t][find(t, k)].key = k
<1> DEFINE I == {n \in 1..Len(cache[t]) : cache[t][n].key = k}
<1>1. find(t, k) = IF I # {} THEN Min(I) ELSE 0
  BY DEF find, SelectInSeq
<1>2. I \in SUBSET Nat
  OBVIOUS
<1> QED
  BY <1>1, <1>2, MinFound

\* A client that is idle, and the requests it begins with.
LEMMA RequestType ==
    /\ IdleUser \in UserRecord
    /\ \A t \in Traces, k \in Keys, pc \in Places :
         [IdleUser EXCEPT !.trace = t, !.key = k, !.pc = pc] \in UserRecord
    /\ \A S \in SUBSET Traces, b \in BOOLEAN, pc \in Places :
         /\ [IdleUser EXCEPT !.pc = pc, !.todo = S] \in UserRecord
         /\ [IdleUser EXCEPT !.pc = pc, !.todo = S, !.force = b] \in UserRecord
<1>1. IdleUser \in UserRecord
  <2>1. "Statistics" \in Keys /\ <<>> \in Answers /\ "idle" \in Places
    BY DEF Keys, Answers, Places
  <2>2. IdleUser.trace = CHOOSE t \in Traces : TRUE
    BY DEF IdleUser
  <2> HIDE DEF Keys, Answers, Places
  <2> QED
    BY <2>1, <2>2 DEF IdleUser, UserRecord
<1> QED
  BY <1>1 DEF UserRecord

\* What the steps of one client mean to the others.
LEMMA OthersSound ==
    ASSUME StoreType, \A v \in StoreUsers : UserSound(v), NEW u \in StoreUsers,
           \A v \in StoreUsers \ {u} : client'[v] = client[v],
           forced \subseteq forced',
           \A t \in Traces : state[t] = "complete" => state'[t] = "complete",
           UserSound(u)'
    PROVE  \A v \in StoreUsers : UserSound(v)'
<1> SUFFICES ASSUME NEW v \in StoreUsers, v # u PROVE UserSound(v)'
  OBVIOUS
<1>1. UserSound(v) /\ client'[v] = client[v] /\ client[v] \in UserRecord
  BY DEF StoreType
<1>2. client[v].todo \subseteq Traces
  BY <1>1 DEF UserRecord
<1>3. \A t \in Traces : MayRemove(t) => MayRemove(t)'
  BY DEF MayRemove
<1> QED
  BY <1>1, <1>2, <1>3 DEF UserSound

LEMMA StoreStarts == StoreInit => StoreInv
<1> SUFFICES ASSUME StoreInit PROVE StoreInv
  OBVIOUS
<1>1. StoreType
  <2>1. client \in [StoreUsers -> UserRecord]
    BY RequestType DEF StoreInit
  <2>2. cache \in [Traces -> Seq(Entry) \cup {Torn}]
    BY DEF StoreInit
  <2>3. files \in [Traces -> SUBSET Kinds]
    BY DEF StoreInit, Kinds
  <2> QED
    BY <2>1, <2>2, <2>3 DEF StoreInit, StoreType
<1>2. \A u \in StoreUsers : client[u].pc = "idle"
  BY DEF StoreInit, IdleUser
<1> QED
  BY <1>1, <1>2 DEF StoreInit, StoreInv, CacheTrue, UserSound, RemovedGone,
                    RunningKept

\* TraceManager completes a trace.
LEMMA CompleteInv ==
    ASSUME StoreInv, NEW t \in Traces, Complete(t)
    PROVE  StoreInv'
<1>1. /\ state' = [state EXCEPT ![t] = "complete"] /\ t \in dir
      /\ files' = [files EXCEPT ![t] = files[t] \cup {"summary"}]
      /\ UNCHANGED <<dir, cache, client, forced, removed>>
  BY DEF Complete
<1>2. StoreType'
  BY <1>1 DEF StoreInv, StoreType, Kinds
<1>3. \A u \in StoreUsers : UserSound(u)'
  <2>1. \A x \in Traces : MayRemove(x) => MayRemove(x)'
    BY <1>1 DEF StoreInv, StoreType, MayRemove
  <2>2. \A u \in StoreUsers : client[u] \in UserRecord /\ UserSound(u)
    BY DEF StoreInv, StoreType
  <2> QED
    BY <1>1, <2>1, <2>2 DEF UserSound, UserRecord
<1>4. CacheTrue' /\ RemovedGone' /\ RunningKept'
  BY <1>1 DEF StoreInv, StoreType, CacheTrue, RemovedGone, RunningKept
<1> QED
  BY <1>2, <1>3, <1>4 DEF StoreInv

\* A request begins.
LEMMA BeginInv ==
    ASSUME StoreInv, NEW u \in StoreUsers, NEW request \in UserRecord,
           BeginRequest(u, request), forced' \in SUBSET Traces,
           forced \subseteq forced',
           request.pc \in {"lookup", "parse", "failed", "clear", "remove"},
           request.pc \in {"lookup", "parse"} => request.trace \in Traces,
           request.pc = "remove" =>
             \A t \in request.todo : t \in forced' \/ state[t] = "complete"
    PROVE  StoreInv'
<1>1. /\ client' = [client EXCEPT ![u] = request]
      /\ UNCHANGED <<dir, files, state, cache, removed>>
  BY DEF BeginRequest
<1>2. StoreType'
  BY <1>1 DEF StoreInv, StoreType
<1>3. client'[u] = request /\ \A v \in StoreUsers \ {u} : client'[v] = client[v]
  BY <1>1 DEF StoreInv, StoreType
<1>4. UserSound(u)'
  BY <1>1, <1>3 DEF UserSound, MayRemove
<1>5. \A v \in StoreUsers : UserSound(v)'
  BY <1>1, <1>3, <1>4, OthersSound DEF StoreInv
<1>6. CacheTrue' /\ RemovedGone' /\ RunningKept'
  BY <1>1 DEF StoreInv, CacheTrue, RemovedGone, RunningKept
<1> QED
  BY <1>2, <1>5, <1>6 DEF StoreInv

\* Any of the requests for an analysis.
LEMMA RequestInv ==
    ASSUME StoreInv, NEW u \in StoreUsers, NEW kind, Request(u, kind)
    PROVE  StoreInv'
<1> PICK t \in Traces :
      BeginRequest(u, [IdleUser EXCEPT !.trace = t, !.key = kind,
                  !.pc = IF kind \in Uncached THEN "parse"
                         ELSE IF Available(t) THEN "lookup" ELSE "failed"])
  BY DEF Request
<1> DEFINE pc == IF kind \in Uncached THEN "parse"
                 ELSE IF Available(t) THEN "lookup" ELSE "failed"
           request == [IdleUser EXCEPT !.trace = t, !.key = kind, !.pc = pc]
<1>1. kind \in Keys /\ forced' = forced
  BY DEF Request, Keys
<1>2. pc \in {"lookup", "parse", "failed"} /\ pc \in Places
  BY DEF Places
<1>3. BeginRequest(u, request)
  OBVIOUS
<1> HIDE DEF pc
<1>4. request \in UserRecord
  BY <1>1, <1>2, RequestType
<1>5. request.pc = pc /\ request.trace = t
  BY DEF IdleUser
<1> HIDE DEF request
<1> QED
  BY <1>1, <1>2, <1>3, <1>4, <1>5, BeginInv DEF StoreInv, StoreType

\* The requests to clear caches and to remove traces.
LEMMA TracesInv ==
    ASSUME StoreInv, NEW u \in StoreUsers, ClearCache(u) \/ RemoveTraces(u)
    PROVE  StoreInv'
<1>a. forced \in SUBSET Traces
  BY DEF StoreInv, StoreType
<1>1. CASE ClearCache(u)
  <2> PICK p \in Selections :
        BeginRequest(u, [IdleUser EXCEPT !.pc = "clear", !.todo = getTraceList(p)])
    BY <1>1 DEF ClearCache
  <2> DEFINE request == [IdleUser EXCEPT !.pc = "clear", !.todo = getTraceList(p)]
  <2>1. getTraceList(p) \in SUBSET Traces /\ "clear" \in Places
    BY DEF getTraceList, Places
  <2>2. request \in UserRecord /\ request.pc = "clear"
    BY <2>1, RequestType DEF IdleUser
  <2>3. BeginRequest(u, request) /\ forced' = forced
    BY <1>1 DEF ClearCache
  <2> HIDE DEF request
  <2> QED
    BY <2>2, <2>3, <1>a, BeginInv
<1>2. CASE RemoveTraces(u)
  <2> PICK p \in Selections, force \in BOOLEAN :
        LET todo == {t \in getTraceList(p) : force \/ state[t] = "complete"}
        IN  /\ BeginRequest(u, [IdleUser EXCEPT !.pc = "remove", !.todo = todo,
                                     !.force = force])
            /\ forced' = IF force THEN forced \cup todo ELSE forced
    BY <1>2 DEF RemoveTraces
  <2> DEFINE todo == {t \in getTraceList(p) : force \/ state[t] = "complete"}
             request == [IdleUser EXCEPT !.pc = "remove", !.todo = todo,
                                     !.force = force]
  <2>1. todo \in SUBSET Traces /\ "remove" \in Places
    BY DEF getTraceList, Places
  <2>2. \A t \in todo : force \/ state[t] = "complete"
    OBVIOUS
  <2>3. BeginRequest(u, request) /\ forced' = IF force THEN forced \cup todo ELSE forced
    OBVIOUS
  <2> HIDE DEF todo
  <2>4. /\ request \in UserRecord /\ request.pc = "remove"
        /\ request.todo = todo
    BY <2>1, RequestType DEF IdleUser
  <2> HIDE DEF request
  <2> QED
    BY <2>1, <2>2, <2>3, <2>4, <1>a, BeginInv
<1> QED
  BY <1>1, <1>2

\* A step of u that only moves u on: the caches and the files of the traces are
\* dealt with separately.
LEMMA UserMoves ==
    ASSUME StoreInv, NEW u \in StoreUsers, NEW record \in UserRecord,
           client' = [client EXCEPT ![u] = record],
           UNCHANGED <<state, forced>>,
           dir' \subseteq dir, removed' \in SUBSET Traces,
           files' \in [Traces -> SUBSET Kinds],
           cache' \in [Traces -> Seq(Entry) \cup {Torn}],
           CacheTrue', RemovedGone', RunningKept',
           record.pc \in {"write", "answered"}
             => record.value = <<record.trace, record.key, StoreVersion[u]>>,
           record.pc \in {"lookup", "parse", "write", "unlink"}
             => record.trace \in Traces,
           record.pc \in {"remove", "unlink"}
             => \A t \in record.todo : MayRemove(t),
           record.pc = "unlink" => MayRemove(record.trace)
    PROVE  StoreInv'
<1>1. client'[u] = record /\ \A v \in StoreUsers \ {u} : client'[v] = client[v]
  BY DEF StoreInv, StoreType
<1>2. StoreType'
  BY DEF StoreInv, StoreType
<1>3. UserSound(u)'
  BY <1>1 DEF UserSound, MayRemove
<1>4. \A v \in StoreUsers : UserSound(v)'
  BY <1>1, <1>3, OthersSound DEF StoreInv
<1> QED
  BY <1>2, <1>4 DEF StoreInv

\* The same, of a step that only changes where u is.
LEMMA GotoMoves ==
    ASSUME StoreInv, NEW u \in StoreUsers, NEW pc \in Places, UserGoto(u, pc),
           UNCHANGED <<state, forced>>,
           dir' \subseteq dir, removed' \in SUBSET Traces,
           files' \in [Traces -> SUBSET Kinds],
           cache' \in [Traces -> Seq(Entry) \cup {Torn}],
           CacheTrue', RemovedGone', RunningKept',
           pc \notin {"lookup", "write", "unlink"},
           pc = "answered" => client[u].pc \in {"write", "answered"},
           pc = "parse" => client[u].trace \in Traces,
           pc = "remove" => client[u].pc = "unlink"
    PROVE  StoreInv'
<1> DEFINE record == [client[u] EXCEPT !.pc = pc]
<1>1. /\ client[u] \in UserRecord /\ UserSound(u)
      /\ client \in [StoreUsers -> UserRecord]
  BY DEF StoreInv, StoreType
<1>2. /\ record \in UserRecord /\ record.pc = pc
      /\ record.trace = client[u].trace /\ record.key = client[u].key
      /\ record.value = client[u].value /\ record.todo = client[u].todo
  BY <1>1 DEF UserRecord
<1>3. client' = [client EXCEPT ![u] = record]
  BY <1>1 DEF UserGoto, UserRecord
<1> HIDE DEF record
<1>4. /\ pc = "answered" =>
           record.value = <<record.trace, record.key, StoreVersion[u]>>
      /\ pc = "parse" => record.trace \in Traces
      /\ pc = "remove" => \A t \in record.todo : MayRemove(t)
  BY <1>1, <1>2 DEF UserSound
<1> QED
  BY <1>2, <1>3, <1>4, UserMoves

\* Values that are answers.
LEMMA AnswerType ==
    ASSUME NEW t \in Traces, NEW k \in Keys, NEW u \in StoreUsers
    PROVE  <<t, k, StoreVersion[u]>> \in Answers
BY DEF Answers, Versions

\* Entries that are copies of one that was there are as true as that.
LEMMA ErasedTrue ==
    ASSUME NEW t, NEW s \in Seq(Entry), NEW n \in 1..Len(s),
           \A m \in 1..Len(s) : EntryTrue(t, s[m])
    PROVE  /\ Erased(s, n) \in Seq(Entry)
           /\ \A m \in 1..Len(Erased(s, n)) : EntryTrue(t, Erased(s, n)[m])
<1>1. Len(s) \in Nat /\ s[n] \in Entry /\ 1 .. Len(s) - 1 = 1 .. (Len(s) - 1)
  OBVIOUS
<1>2. Len(s) - 1 \in Nat
  BY <1>1
<1>3. Erased(s, n) \in Seq(Entry) /\ Len(Erased(s, n)) = Len(s) - 1
  BY <1>1, <1>2 DEF Erased
<1>4. \A m \in 1..(Len(s) - 1) : Erased(s, n)[m] = s[n]
  BY DEF Erased
<1> QED
  BY <1>3, <1>4

\* A cache is asked: what it answers is true.
LEMMA CacheReadInv ==
    ASSUME StoreInv, NEW u \in StoreUsers, CacheRead(u)
    PROVE  StoreInv'
<1> DEFINE t == client[u].trace
           k == client[u].key
<1>a. /\ client[u] \in UserRecord /\ client[u].pc = "lookup" /\ t \in Traces
      /\ k \in Keys /\ UserSound(u)
      /\ {"failed", "parse", "answered"} \subseteq Places
  <2>1. client[u] \in UserRecord /\ client[u].pc = "lookup" /\ UserSound(u)
    BY DEF StoreInv, StoreType, CacheRead, UserAt
  <2> QED
    BY <2>1 DEF UserSound, UserRecord, Places
<1>b. /\ StoreType /\ CacheTrue /\ RemovedGone /\ RunningKept
      /\ UNCHANGED <<dir, state, forced, removed>>
  BY DEF StoreInv, CacheRead
<1>1. CASE t \notin dir
  <2>1. UserGoto(u, "failed") /\ UNCHANGED <<files, cache>>
    BY <1>1 DEF CacheRead
  <2>2. CacheTrue' /\ RemovedGone' /\ RunningKept'
    BY <2>1, <1>b DEF CacheTrue, RemovedGone, RunningKept
  <2> QED
    BY <2>1, <2>2, <1>a, <1>b, GotoMoves DEF StoreType
<1>2. CASE t \in dir
  <2>1. files' = [files EXCEPT ![t] = files[t] \cup {"lock"}]
    BY <1>2 DEF CacheRead
  <2>2. files' \in [Traces -> SUBSET Kinds] /\ RemovedGone' /\ RunningKept'
    BY <2>1, <1>a, <1>b, <1>2 DEF StoreType, Kinds, RemovedGone, RunningKept
  <2>3. CASE UserGoto(u, "parse") /\ UNCHANGED cache
    <3>1. CacheTrue'
      BY <2>3, <1>b DEF CacheTrue
    <3> QED
      BY <2>2, <2>3, <3>1, <1>a, <1>b, GotoMoves DEF StoreType
  <2>4. CASE ~("cache" \notin files[t] \/ cache[t] = Torn \/ find(t, k) = 0)
    <3>1. /\ cache[t] # Torn /\ cache[t] \in Seq(Entry)
          /\ find(t, k) \in 1..Len(cache[t])
          /\ cache[t][find(t, k)].key = k
      BY <2>4, <1>a, <1>b, FindSound DEF StoreType
    <3> DEFINE e == cache[t][find(t, k)]
    <3>2. e \in Entry /\ EntryTrue(t, e) /\ e.key = k
      BY <3>1, <1>a, <1>b DEF CacheTrue
    <3>3. CASE isCacheEntryValid(e, u)
      <4>1. /\ client' = [client EXCEPT ![u].pc = "answered",
                                    ![u].value = e.value]
            /\ UNCHANGED cache
        BY <1>2, <2>4, <3>3 DEF CacheRead
      <4> DEFINE record == [client[u] EXCEPT !.pc = "answered",
                                           !.value = e.value]
      <4>2. e.value = <<t, k, StoreVersion[u]>> /\ e.value \in Answers
        BY <3>2, <3>3 DEF isCacheEntryValid, EntryTrue, Entry
      <4> HIDE DEF e
      <4>3. /\ record \in UserRecord /\ record.pc = "answered"
            /\ record.trace = t /\ record.key = k /\ record.value = e.value
            /\ client' = [client EXCEPT ![u] = record]
        BY <4>1, <4>2, <1>a, <1>b DEF UserRecord, StoreType
      <4>4. CacheTrue'
        BY <4>1, <1>b DEF CacheTrue
      <4> HIDE DEF record
      <4> QED
        BY <4>1, <4>2, <4>3, <4>4, <2>2, <1>b, UserMoves DEF StoreType
    <3>4. CASE ~isCacheEntryValid(e, u)
      <4>1. /\ UserGoto(u, "parse")
            /\ cache' = [cache EXCEPT ![t] = Erased(cache[t], find(t, k))]
        BY <1>2, <2>4, <3>4 DEF CacheRead
      <4>2. \A m \in 1..Len(cache[t]) : EntryTrue(t, cache[t][m])
        BY <3>1, <1>a, <1>b DEF CacheTrue
      <4> DEFINE erased == Erased(cache[t], find(t, k))
      <4>3. /\ erased \in Seq(Entry)
            /\ \A m \in 1..Len(erased) : EntryTrue(t, erased[m])
        BY <3>1, <4>2, ErasedTrue
      <4>4. cache' = [cache EXCEPT ![t] = erased]
        BY <4>1
      <4> HIDE DEF erased
      <4>5. cache' \in [Traces -> Seq(Entry) \cup {Torn}] /\ CacheTrue'
        BY <4>3, <4>4, <1>a, <1>b DEF StoreType, CacheTrue
      <4> QED
        BY <4>1, <4>5, <2>2, <1>a, <1>b, GotoMoves DEF StoreType
    <3> QED
      BY <3>3, <3>4
  <2> QED
    BY <1>2, <2>3, <2>4 DEF CacheRead
<1> QED
  BY <1>1, <1>2

\* A trace is parsed.
LEMMA ParseInv ==
    ASSUME StoreInv, NEW u \in StoreUsers, processEvents(u)
    PROVE  StoreInv'
<1> DEFINE t == client[u].trace
           k == client[u].key
<1>a. /\ client[u] \in UserRecord /\ t \in Traces /\ k \in Keys
      /\ {"failed", "write", "answered"} \subseteq Places
  <2>1. client[u] \in UserRecord /\ client[u].pc = "parse" /\ UserSound(u)
    BY DEF StoreInv, StoreType, processEvents, UserAt
  <2> QED
    BY <2>1 DEF UserSound, UserRecord, Places
<1>b. /\ StoreType /\ CacheTrue /\ RemovedGone /\ RunningKept
      /\ UNCHANGED <<dir, files, state, cache, forced, removed>>
  BY DEF StoreInv, processEvents
<1>c. CacheTrue' /\ RemovedGone' /\ RunningKept'
  BY <1>b DEF CacheTrue, RemovedGone, RunningKept
<1>1. CASE UserGoto(u, "failed")
  BY <1>1, <1>a, <1>b, <1>c, GotoMoves DEF StoreType
<1>2. CASE ~UserGoto(u, "failed")
  <2> DEFINE pc == IF client[u].key \in Uncached THEN "answered" ELSE "write"
             value == <<t, k, StoreVersion[u]>>
             record == [client[u] EXCEPT !.pc = pc, !.value = value]
  <2>1. client' = [client EXCEPT ![u].pc = pc, ![u].value = value]
    BY <1>2 DEF processEvents
  <2>2. pc \in {"answered", "write"} /\ value \in Answers
    BY <1>a, AnswerType
  <2>v. value = <<t, k, StoreVersion[u]>>
    OBVIOUS
  <2> HIDE DEF pc, value
  <2>3. /\ record \in UserRecord /\ record.pc = pc /\ record.trace = t
        /\ record.key = k /\ record.value = value
        /\ client' = [client EXCEPT ![u] = record]
    BY <2>1, <2>2, <1>a, <1>b DEF UserRecord, StoreType
  <2> HIDE DEF record
  <2> QED
    BY <2>2, <2>3, <2>v, <1>a, <1>b, <1>c, UserMoves DEF StoreType
<1> QED
  BY <1>1, <1>2

\* The entry of u takes its place in the cache.
LEMMA UpdatedTrue ==
    ASSUME NEW t, NEW e \in Entry, EntryTrue(t, e),
           "cache" \in files[t] =>
             /\ cache[t] \in Seq(Entry)
             /\ \A m \in 1..Len(cache[t]) : EntryTrue(t, cache[t][m])
    PROVE  /\ Updated(t, e) \in Seq(Entry)
           /\ \A m \in 1..Len(Updated(t, e)) : EntryTrue(t, Updated(t, e)[m])
<1>1. CASE "cache" \notin files[t]
  <2>1. Updated(t, e) = <<e>>
    BY <1>1 DEF Updated
  <2> QED
    BY <2>1
<1>2. CASE "cache" \in files[t] /\ find(t, e.key) # 0
  <2>1. find(t, e.key) \in 1..Len(cache[t])
    BY <1>2, FindSound
  <2>2. Updated(t, e) = [cache[t] EXCEPT ![find(t, e.key)] = e]
    BY <1>2 DEF Updated
  <2> QED
    BY <1>2, <2>1, <2>2
<1>3. CASE "cache" \in files[t] /\ find(t, e.key) = 0
  <2>1. Updated(t, e) = Append(cache[t], e)
    BY <1>3 DEF Updated
  <2> QED
    BY <1>3, <2>1
<1> QED
  BY <1>1, <1>2, <1>3

LEMMA CacheWriteInv ==
    ASSUME StoreInv, NEW u \in StoreUsers, CacheWrite(u)
    PROVE  StoreInv'
<1> DEFINE t == client[u].trace
           e == [key |-> client[u].key, version |-> StoreVersion[u],
                 value |-> client[u].value]
<1>a. /\ client[u] \in UserRecord /\ t \in Traces
      /\ client[u].key \in Keys /\ client[u].value \in Answers
      /\ client[u].value = <<t, client[u].key, StoreVersion[u]>>
      /\ client[u].pc = "write" /\ {"failed", "answered"} \subseteq Places
  <2>1. client[u] \in UserRecord /\ client[u].pc = "write" /\ UserSound(u)
    BY DEF StoreInv, StoreType, CacheWrite, UserAt
  <2> QED
    BY <2>1 DEF UserSound, UserRecord, Places
<1>b. /\ StoreType /\ CacheTrue /\ RemovedGone /\ RunningKept
      /\ UNCHANGED <<dir, state, forced, removed>>
  BY DEF StoreInv, CacheWrite
\* Of the step: where u goes, the files and the cache of the trace.
<1>1. /\ \E pc \in {"failed", "answered"} : UserGoto(u, pc)
      /\ \/ UNCHANGED files
         \/ /\ t \in dir
            /\ \E F \in SUBSET Kinds :
                 files' = [files EXCEPT ![t] = files[t] \cup F]
      /\ \/ UNCHANGED cache
         \/ cache' = [cache EXCEPT ![t] = Torn]
         \/ /\ ~("cache" \in files[t] /\ cache[t] = Torn)
            /\ cache' = [cache EXCEPT ![t] = Updated(t, e)]
  <2>1. CASE t \notin dir
    BY <2>1 DEF CacheWrite
  <2>2. CASE t \in dir /\ "cache" \in files[t] /\ cache[t] = Torn
    BY <2>2 DEF CacheWrite, Kinds
  <2>3. CASE t \in dir /\ ~("cache" \in files[t] /\ cache[t] = Torn)
    BY <2>3 DEF CacheWrite, Kinds
  <2> QED
    BY <2>1, <2>2, <2>3
<1>2. files' \in [Traces -> SUBSET Kinds] /\ RemovedGone' /\ RunningKept'
  <2>1. CASE UNCHANGED files
    BY <2>1, <1>b DEF StoreType, RemovedGone, RunningKept
  <2>2. ASSUME t \in dir, NEW F \in SUBSET Kinds,
               files' = [files EXCEPT ![t] = files[t] \cup F]
        PROVE  files' \in [Traces -> SUBSET Kinds] /\ RemovedGone'
                 /\ RunningKept'
    BY <2>2, <1>a, <1>b DEF StoreType, RemovedGone, RunningKept
  <2> QED
    BY <1>1, <2>1, <2>2
<1>3. cache' \in [Traces -> Seq(Entry) \cup {Torn}] /\ CacheTrue'
  <2>1. CASE UNCHANGED cache
    BY <2>1, <1>b DEF StoreType, CacheTrue
  <2>2. CASE cache' = [cache EXCEPT ![t] = Torn]
    BY <2>2, <1>a, <1>b DEF StoreType, CacheTrue
  <2>3. CASE /\ ~("cache" \in files[t] /\ cache[t] = Torn)
             /\ cache' = [cache EXCEPT ![t] = Updated(t, e)]
    <3>1. e \in Entry /\ EntryTrue(t, e)
      BY <1>a DEF Entry, EntryTrue, Versions
    <3> DEFINE updated == Updated(t, e)
    <3>2. "cache" \in files[t] =>
            /\ cache[t] \in Seq(Entry)
            /\ \A m \in 1..Len(cache[t]) : EntryTrue(t, cache[t][m])
      BY <2>3, <1>a, <1>b DEF StoreType, CacheTrue
    <3> HIDE DEF e
    <3>3. /\ updated \in Seq(Entry)
          /\ \A m \in 1..Len(updated) : EntryTrue(t, updated[m])
      BY <3>1, <3>2, UpdatedTrue
    <3>4. cache' = [cache EXCEPT ![t] = updated]
      BY <2>3
    <3> HIDE DEF updated
    <3> QED
      BY <3>3, <3>4, <1>a, <1>b DEF StoreType, CacheTrue
  <2> QED
    BY <1>1, <2>1, <2>2, <2>3
<1>4. PICK pc \in {"failed", "answered"} : UserGoto(u, pc)
  BY <1>1
<1> QED
  BY <1>2, <1>3, <1>4, <1>a, <1>b, GotoMoves DEF StoreType

\* A request to clear or to remove is over, or the cache of the next trace is
\* cleared, or the directory of the next one is opened.
LEMMA EndRequestInv ==
    ASSUME StoreInv, NEW u \in StoreUsers, EndRequest(u)
    PROVE  StoreInv'
<1>1. /\ UserGoto(u, "idle") /\ "idle" \in Places
      /\ UNCHANGED <<dir, files, state, cache, forced, removed>>
  BY DEF EndRequest, Places
<1>2. CacheTrue' /\ RemovedGone' /\ RunningKept'
  BY <1>1 DEF StoreInv, CacheTrue, RemovedGone, RunningKept
<1> QED
  BY <1>1, <1>2, GotoMoves DEF StoreInv, StoreType

LEMMA ClearInv ==
    ASSUME StoreInv, NEW u \in StoreUsers, CacheClear(u)
    PROVE  StoreInv'
<1>a. /\ client[u] \in UserRecord /\ client[u].pc = "clear" /\ "failed" \in Places
      /\ StoreType /\ CacheTrue /\ RemovedGone /\ RunningKept
      /\ UNCHANGED <<dir, state, forced, removed>>
  BY DEF StoreInv, StoreType, CacheClear, UserAt, Places
<1> PICK t \in client[u].todo :
      IF t \notin dir THEN UserGoto(u, "failed") /\ UNCHANGED <<files, cache>>
      ELSE /\ client' = [client EXCEPT ![u].todo = @ \ {t}]
           /\ files' = [files EXCEPT ![t] = (@ \ {"cache"}) \cup {"lock"}]
           /\ cache' = [cache EXCEPT ![t] = <<>>]
  BY DEF CacheClear
<1>b. t \in Traces
  BY <1>a DEF UserRecord
<1>1. CASE t \notin dir
  <2>1. UserGoto(u, "failed") /\ UNCHANGED <<files, cache>>
    BY <1>1
  <2>2. CacheTrue' /\ RemovedGone' /\ RunningKept'
    BY <1>a, <2>1 DEF CacheTrue, RemovedGone, RunningKept
  <2> QED
    BY <1>a, <2>1, <2>2, GotoMoves DEF StoreType
<1>2. CASE t \in dir
  <2> DEFINE record == [client[u] EXCEPT !.todo = client[u].todo \ {t}]
  <2>1. /\ client' = [client EXCEPT ![u].todo = client[u].todo \ {t}]
        /\ files' = [files EXCEPT ![t] = (files[t] \ {"cache"}) \cup {"lock"}]
        /\ cache' = [cache EXCEPT ![t] = <<>>]
    BY <1>2
  <2>2. /\ record \in UserRecord /\ record.pc = "clear"
        /\ client' = [client EXCEPT ![u] = record]
    BY <2>1, <1>a DEF UserRecord, StoreType
  <2>3. files' \in [Traces -> SUBSET Kinds] /\ RemovedGone' /\ RunningKept'
    BY <2>1, <1>a, <1>b, <1>2 DEF StoreType, Kinds, RemovedGone, RunningKept
  <2>4. cache' \in [Traces -> Seq(Entry) \cup {Torn}] /\ CacheTrue'
    BY <2>1, <1>a, <1>b DEF StoreType, CacheTrue
  <2> HIDE DEF record
  <2> QED
    BY <1>a, <2>2, <2>3, <2>4, UserMoves DEF StoreType
<1> QED
  BY <1>1, <1>2

LEMMA RemoveTraceInv ==
    ASSUME StoreInv, NEW u \in StoreUsers, RemoveTrace(u)
    PROVE  StoreInv'
<1>a. /\ client[u] \in UserRecord /\ client[u].pc = "remove" /\ StoreType
      /\ UserSound(u)
      /\ UNCHANGED <<dir, files, state, cache, forced, removed>>
  BY DEF StoreInv, StoreType, RemoveTrace, UserAt
<1>b. CacheTrue' /\ RemovedGone' /\ RunningKept'
  BY <1>a DEF StoreInv, CacheTrue, RemovedGone, RunningKept
<1> PICK t \in client[u].todo :
      client' = [client EXCEPT ![u].todo = @ \ {t}, ![u].trace = t,
                  ![u].pc = IF t \in dir THEN "unlink" ELSE "remove",
                  ![u].seen = IF t \in dir THEN files[t] ELSE {}]
  BY DEF RemoveTrace
<1> DEFINE pc == IF t \in dir THEN "unlink" ELSE "remove"
           seen == IF t \in dir THEN files[t] ELSE {}
           record == [client[u] EXCEPT !.todo = client[u].todo \ {t}, !.trace = t,
                                     !.pc = pc, !.seen = seen]
<1>1. client' = [client EXCEPT ![u].todo = client[u].todo \ {t}, ![u].trace = t,
                           ![u].pc = pc, ![u].seen = seen]
  OBVIOUS
<1>2. /\ t \in Traces /\ seen \in SUBSET Kinds
      /\ pc \in {"unlink", "remove"} /\ pc \in Places
  BY <1>a DEF UserRecord, StoreType, Places
<1> HIDE DEF pc, seen
<1>3. /\ record \in UserRecord /\ record.pc = pc /\ record.trace = t
      /\ record.todo = client[u].todo \ {t}
      /\ client' = [client EXCEPT ![u] = record]
  BY <1>1, <1>2, <1>a DEF UserRecord, StoreType
<1>4. MayRemove(t) /\ \A s \in client[u].todo : MayRemove(s)
  BY <1>a DEF UserSound
<1> HIDE DEF record
<1>5. /\ \A s \in record.todo : MayRemove(s)
      /\ record.pc \in {"unlink", "remove"}
      /\ record.trace \in Traces /\ MayRemove(record.trace)
  BY <1>2, <1>3, <1>4
<1> QED
  BY <1>3, <1>5, <1>a, <1>b, UserMoves DEF StoreType

\* A file is removed: of a trace that may be removed.
LEMMA UnlinkInv ==
    ASSUME StoreInv, NEW u \in StoreUsers, Unlink(u)
    PROVE  StoreInv'
<1> DEFINE t == client[u].trace
<1>a. /\ client[u] \in UserRecord /\ client[u].pc = "unlink" /\ StoreType
      /\ UserSound(u) /\ CacheTrue /\ RemovedGone /\ RunningKept
      /\ UNCHANGED <<dir, state, forced, removed>>
  BY DEF StoreInv, StoreType, Unlink, UserAt
<1>b. /\ t \in Traces /\ MayRemove(t)
      /\ \A s \in client[u].todo : MayRemove(s)
  BY <1>a DEF UserSound
<1> PICK f \in client[u].seen \cup files[t] :
      /\ client' = [client EXCEPT ![u].seen = IF f \in files[t] THEN @ \ {f} ELSE {}]
      /\ files' = [files EXCEPT ![t] = @ \ {f}]
      /\ cache' = IF f = "cache" THEN [cache EXCEPT ![t] = <<>>] ELSE cache
  BY DEF Unlink
<1> DEFINE seen == IF f \in files[t] THEN client[u].seen \ {f} ELSE {}
           record == [client[u] EXCEPT !.seen = seen]
<1>1. client' = [client EXCEPT ![u].seen = seen]
  OBVIOUS
<1>2. seen \in SUBSET Kinds
  BY <1>a DEF UserRecord
<1> HIDE DEF seen
<1>3. /\ record \in UserRecord /\ record.pc = "unlink" /\ record.trace = t
      /\ record.todo = client[u].todo
      /\ client' = [client EXCEPT ![u] = record]
  BY <1>1, <1>2, <1>a DEF UserRecord, StoreType
<1>4. files' \in [Traces -> SUBSET Kinds] /\ RemovedGone'
  BY <1>a, <1>b DEF StoreType, RemovedGone
<1>5. RunningKept'
  BY <1>a, <1>b DEF StoreType, RunningKept, MayRemove
<1>6. cache' \in [Traces -> Seq(Entry) \cup {Torn}] /\ CacheTrue'
  BY <1>a, <1>b DEF StoreType, CacheTrue
<1> HIDE DEF record
<1> QED
  BY <1>3, <1>4, <1>5, <1>6, <1>a, <1>b, UserMoves DEF StoreType

LEMMA RemoveDirectoryInv ==
    ASSUME StoreInv, NEW u \in StoreUsers, RemoveDirectory(u)
    PROVE  StoreInv'
<1> DEFINE t == client[u].trace
<1>a. /\ client[u] \in UserRecord /\ client[u].pc = "unlink" /\ StoreType
      /\ UserSound(u) /\ UserGoto(u, "remove") /\ "remove" \in Places
      /\ UNCHANGED <<files, state, cache, forced>>
  BY DEF StoreInv, StoreType, RemoveDirectory, UserAt, Places
<1>b. t \in Traces /\ \A s \in client[u].todo : MayRemove(s)
  BY <1>a DEF UserSound
<1>1. /\ dir' \subseteq dir /\ removed' \in SUBSET Traces
      /\ RemovedGone'
  BY <1>a, <1>b DEF RemoveDirectory, StoreInv, StoreType, RemovedGone
<1>2. CacheTrue' /\ RunningKept'
  BY <1>a DEF StoreInv, CacheTrue, RunningKept
<1> QED
  BY <1>1, <1>2, <1>a, <1>b, GotoMoves DEF StoreType

\* Whoever wrote the cache, and whatever was removed, cleared or left torn in
\* between (ParsedIoTraceEventHandler, TraceLibrary): an answer is what the
\* analysis of its own version makes of the trace, a removed trace leaves
\* nothing behind, and one that is still recorded keeps its files.
THEOREM StoreCorrect == StoreSpec => []StoreSound
<1>1. StoreInv /\ [StoreNext]_storevars => StoreInv'
  <2> SUFFICES ASSUME StoreInv, [StoreNext]_storevars PROVE StoreInv'
    OBVIOUS
  <2>1. CASE \E t \in Traces : Complete(t)
    BY <2>1, CompleteInv
  <2>2. ASSUME NEW u \in StoreUsers,
               \/ GetTraceStatistics(u) \/ GetLatencyHistogram(u)
               \/ GetLbaHistogram(u) \/ GetSizeHistogram(u)
               \/ GetQueueDepthHistogram(u) \/ GetFileSystemStatistics(u)
               \/ GetDeviceList(u) \/ ParseTrace(u)
        PROVE  StoreInv'
    BY <2>2, RequestInv
       DEF GetTraceStatistics, GetLatencyHistogram, GetLbaHistogram,
           GetSizeHistogram, GetQueueDepthHistogram, GetFileSystemStatistics,
           GetDeviceList, ParseTrace
  <2>3. CASE UNCHANGED storevars
    BY <2>3 DEF storevars, StoreInv, StoreType, CacheTrue, UserSound, MayRemove,
                RemovedGone, RunningKept
  <2> QED
    BY <2>1, <2>2, <2>3, CacheReadInv, ParseInv, CacheWriteInv, TracesInv,
       ClearInv, RemoveTraceInv, UnlinkInv, RemoveDirectoryInv, EndRequestInv
       DEF StoreNext
<1>2. StoreInv => StoreSound
  BY DEF StoreInv, StoreSound, UserSound, RemovedGone, RunningKept, UserAt
<1> QED
  BY <1>1, <1>2, StoreStarts, PTL DEF StoreSpec
-----------------------------------------------------------------------------
(* BuildExtensions: the extensions are joined row by row.                     *)

BuiltEntry == [sid : Nat, set : BOOLEAN]
Features == {NoFeature} \cup (Builders \X Nat)
Row == [sid : Nat, feature : [Builders -> Features]]

JoinType ==
    /\ built \in [Builders -> Contents]
    /\ at \in [Builders -> Nat]
    /\ \A b \in Builders : at[b] <= Len(built[b])
    /\ msg \in Row /\ rows \in Seq(Row)
    /\ call \in {"begun", "reading", "done", "thrown"}

\* The set holds the next entry of each extension that has one, and what was
\* read comes before what was not.
SetExact ==
    m_set = {TraceExtensionEntry(b, at[b]) : b \in {x \in Builders : hasNext(x, at[x])}}
Ordered ==
    \A b, c \in Builders : \A n \in 1..at[b], k \in at[c] + 1..Len(built[c]) :
      built[b][n].sid <= built[c][k].sid

\* The IOs that were printed were read and are before what was not read; what
\* was read is printed, unless the next entry is of the same IO.
Printed == {rows[n].sid : n \in DOMAIN rows}
PrintedRead ==
    \A s \in Printed :
      /\ \E b \in Builders : \E n \in 1..at[b] : built[b][n].sid = s
      /\ \A b \in Builders : \A k \in at[b] + 1..Len(built[b]) : s < built[b][k].sid
ReadPrinted ==
    \A b \in Builders : \A n \in 1..at[b] :
      built[b][n].sid \in Printed
        \/ (m_set # {} /\ built[b][n].sid = Smallest(m_set).sid)

\* The message holds the features of the last entries that were not printed.
MessageSound ==
    \A b \in Builders :
      msg.feature[b] =
        IF at[b] # 0 /\ built[b][at[b]].set /\ built[b][at[b]].sid \notin Printed
        THEN Feature(b, built[b][at[b]].sid) ELSE Missing(Len(rows) + 1, b)

RowsSound ==
    \A n \in DOMAIN rows :
      /\ n > 1 => rows[n - 1].sid < rows[n].sid
      /\ \A b \in Builders :
           rows[n].feature[b] = IF Found(b, rows[n].sid) THEN Feature(b, rows[n].sid)
                                ELSE Missing(n, b)

JoinInv ==
    /\ JoinType /\ RowsSound
    /\ call = "begun" =>
         rows = <<>> /\ msg = Cleared /\ \A b \in Builders : at[b] = 0
    /\ call \in {"reading", "done"} =>
         SetExact /\ Ordered /\ PrintedRead /\ ReadPrinted /\ MessageSound
    /\ call = "done" => m_set = {}

\* What an extension holds, in the order of the IOs.
LEMMA BuiltSound ==
    ASSUME JoinType, NEW b \in Builders
    PROVE  /\ built[b] \in Seq(BuiltEntry) /\ Len(built[b]) \in Nat
           /\ at[b] \in Nat /\ at[b] <= Len(built[b]) /\ b \in Nat
           /\ \A n \in 1..Len(built[b]) : built[b][n].sid \in Nat
           /\ \A n, k \in 1..Len(built[b]) :
                n < k => built[b][n].sid < built[b][k].sid
<1>1. built[b] \in Contents /\ b \in Nat
  BY BuildersAssumption DEF JoinType
<1>2. built[b] \in Seq(BuiltEntry)
  BY <1>1, ContentsAssumption DEF BuiltEntry
<1>3. \A n \in 1..Len(built[b]) : built[b][n] \in BuiltEntry
  BY <1>2
<1>4. DOMAIN built[b] = 1..Len(built[b]) /\ Len(built[b]) \in Nat
  BY <1>2
<1>5. \A n, k \in 1..Len(built[b]) : n < k => built[b][n].sid < built[b][k].sid
  BY <1>1, <1>4, ContentsAssumption
<1>6. at[b] \in Nat /\ at[b] <= Len(built[b])
  BY DEF JoinType
<1> QED
  BY <1>1, <1>2, <1>3, <1>4, <1>5, <1>6 DEF BuiltEntry

\* begin() of the set is the least entry in it.
LEMMA SmallestFound ==
    ASSUME NEW S \in SUBSET [ext : Nat, sid : Nat], S # {}
    PROVE  Smallest(S) \in S /\ \A x \in S : Smallest(S).sid <= x.sid
<1>1. PICK s \in {x.sid : x \in S} : \A y \in {x.sid : x \in S} : s <= y
  <2>1. {x.sid : x \in S} \in SUBSET Nat /\ {x.sid : x \in S} # {}
    OBVIOUS
  <2> QED
    BY <2>1, LeastFound
<1> DEFINE T == {x \in S : x.sid = s}
<1>2. PICK m \in {x.ext : x \in T} : \A y \in {x.ext : x \in T} : m <= y
  <2>1. {x.ext : x \in T} \in SUBSET Nat /\ {x.ext : x \in T} # {}
    BY <1>1
  <2> QED
    BY <2>1, LeastFound
<1>3. PICK e \in T : e.ext = m
  BY <1>2
<1>4. \A x \in S \ {e} : operatorLess(e, x)
  <2> SUFFICES ASSUME NEW x \in S, x # e PROVE operatorLess(e, x)
    OBVIOUS
  <2>1. e.sid = s /\ s <= x.sid /\ e \in S
    BY <1>1, <1>3
  <2>2. CASE x.sid = s
    <3>1. m <= x.ext
      BY <1>2, <2>2
    <3>2. x.ext # m
      BY <1>3, <2>1, <2>2
    <3> QED
      BY <1>3, <2>1, <2>2, <3>1, <3>2 DEF operatorLess
  <2>3. CASE x.sid # s
    BY <1>1, <2>1, <2>3 DEF operatorLess
  <2> QED
    BY <2>2, <2>3
<1>5. Smallest(S) \in S /\ \A x \in S \ {Smallest(S)} : operatorLess(Smallest(S), x)
  <2>1. \E z \in S : \A x \in S \ {z} : operatorLess(z, x)
    BY <1>3, <1>4
  <2> QED
    BY <2>1 DEF Smallest
<1> QED
  BY <1>5 DEF operatorLess

\* The next entry that is read.
LEMMA NextRead ==
    ASSUME JoinType, SetExact, m_set # {}
    PROVE  LET e == Smallest(m_set)
           IN  /\ e \in m_set /\ e.ext \in Builders /\ hasNext(e.ext, at[e.ext])
               /\ e = TraceExtensionEntry(e.ext, at[e.ext])
               /\ \A b \in Builders : \A k \in at[b] + 1..Len(built[b]) :
                    e.sid <= built[b][k].sid
<1>1. m_set \in SUBSET [ext : Nat, sid : Nat]
  <2>1. ASSUME NEW b \in Builders, hasNext(b, at[b])
        PROVE  TraceExtensionEntry(b, at[b]) \in [ext : Nat, sid : Nat]
    BY <2>1, BuiltSound DEF hasNext, TraceExtensionEntry
  <2> QED
    BY <2>1 DEF SetExact
<1> DEFINE e == Smallest(m_set)
<1>2. e \in m_set /\ \A x \in m_set : e.sid <= x.sid
  BY <1>1, SmallestFound
<1> HIDE DEF e
<1>3. PICK b \in Builders : hasNext(b, at[b]) /\ e = TraceExtensionEntry(b, at[b])
  BY <1>2 DEF SetExact
<1>4. e.ext = b
  BY <1>3 DEF TraceExtensionEntry
<1>5. ASSUME NEW c \in Builders, NEW k \in at[c] + 1..Len(built[c])
      PROVE  e.sid <= built[c][k].sid
  <2>1. /\ at[c] + 1 \in 1..Len(built[c]) /\ k \in 1..Len(built[c])
        /\ hasNext(c, at[c]) /\ at[c] + 1 <= k
    BY BuiltSound DEF hasNext
  <2>2. e.sid <= built[c][at[c] + 1].sid
    <3>1. TraceExtensionEntry(c, at[c]) \in m_set
      BY <2>1 DEF SetExact
    <3>2. e.sid <= TraceExtensionEntry(c, at[c]).sid
      BY <1>2, <3>1
    <3> QED
      BY <3>2 DEF TraceExtensionEntry
  <2>3. built[c][at[c] + 1].sid <= built[c][k].sid
    BY <2>1, BuiltSound
  <2>4. e.sid \in Nat /\ built[c][at[c] + 1].sid \in Nat /\ built[c][k].sid \in Nat
    BY <1>1, <1>2, <2>1, BuiltSound
  <2> QED
    BY <2>2, <2>3, <2>4
<1> QED
  BY <1>2, <1>3, <1>4, <1>5 DEF e


\* One turn of the loop.
LEMMA TurnInv ==
    ASSUME JoinInv, Turn
    PROVE  JoinInv'
<1> DEFINE e == Smallest(m_set)
           b == e.ext
           s == e.sid
           n == at[b] + 1
           filled == Filled(e)
<1>1. /\ JoinType /\ RowsSound /\ call = "reading" /\ m_set # {}
      /\ SetExact /\ Ordered /\ PrintedRead /\ ReadPrinted /\ MessageSound
      /\ at' = [at EXCEPT ![b] = n]
      /\ m_set' = (m_set \ {e}) \cup
           (IF hasNext(b, n) THEN {TraceExtensionEntry(b, n)} ELSE {})
      /\ UNCHANGED <<format, built>>
      /\ \/ /\ ~EventEnds(m_set', s) /\ msg' = filled
            /\ UNCHANGED <<rows, call>>
         \/ call' = "thrown" /\ msg' = filled /\ UNCHANGED rows
         \/ /\ EventEnds(m_set', s) /\ rows' = Append(rows, filled)
            /\ msg' = Cleared /\ UNCHANGED call
  BY DEF JoinInv, Turn, readEntry
<1>2. /\ e \in m_set /\ b \in Builders /\ e = TraceExtensionEntry(b, at[b])
      /\ at[b] \in Nat /\ n \in 1..Len(built[b]) /\ at[b] < n
      /\ s = built[b][n].sid /\ s \in Nat /\ built[b][n] \in BuiltEntry
      /\ built[b] \in Seq(BuiltEntry)
      /\ \A c \in Builders : \A k \in at[c] + 1..Len(built[c]) :
           s <= built[c][k].sid
  <2>1. /\ e \in m_set /\ b \in Builders /\ hasNext(b, at[b])
        /\ e = TraceExtensionEntry(b, at[b])
        /\ \A c \in Builders : \A k \in at[c] + 1..Len(built[c]) :
             s <= built[c][k].sid
    BY <1>1, NextRead
  <2>2. s = built[b][n].sid
    BY <2>1 DEF TraceExtensionEntry
  <2> HIDE DEF e
  <2>3. /\ at[b] \in Nat /\ n \in 1..Len(built[b]) /\ at[b] < n
        /\ built[b] \in Seq(BuiltEntry)
    BY <1>1, <2>1, BuiltSound DEF hasNext
  <2>4. built[b][n] \in BuiltEntry
    BY <2>3
  <2> QED
    BY <2>1, <2>2, <2>3, <2>4 DEF BuiltEntry
<1> HIDE DEF e, b, n, s, filled
<1>3. /\ at' \in [Builders -> Nat] /\ at'[b] = n
      /\ \A c \in Builders \ {b} : at'[c] = at[c]
      /\ \A c \in Builders : at'[c] <= Len(built[c])
      /\ n = at[b] + 1
  <2>1. at \in [Builders -> Nat] /\ \A c \in Builders : at[c] <= Len(built[c])
    BY <1>1 DEF JoinType
  <2> QED
    BY <1>1, <1>2, <2>1 DEF n
<1>4. SetExact'
  <2>1. \A c \in Builders : at'[c] = IF c = b THEN n ELSE at[c]
    BY <1>3
  <2>2. \A c \in Builders, k \in Nat : /\ TraceExtensionEntry(c, k)' = TraceExtensionEntry(c, k)
                                       /\ hasNext(c, k)' = hasNext(c, k)
    BY <1>1 DEF TraceExtensionEntry, hasNext
  <2>3. \A c \in Builders : \A k : TraceExtensionEntry(c, k).ext = c
    BY DEF TraceExtensionEntry
  <2>4. SetExact' <=> m_set' = {TraceExtensionEntry(c, at'[c]) :
                                  c \in {x \in Builders : hasNext(x, at'[x])}}
    BY <1>1 DEF SetExact, TraceExtensionEntry, hasNext
  <2>5. ASSUME NEW y \in m_set'
        PROVE  \E c \in Builders : hasNext(c, at'[c]) /\ y = TraceExtensionEntry(c, at'[c])
    <3>1. CASE y \in m_set /\ y # e
      <4>1. PICK c \in Builders : hasNext(c, at[c]) /\ y = TraceExtensionEntry(c, at[c])
        BY <1>1, <3>1 DEF SetExact
      <4>2. c # b
        BY <1>2, <3>1, <4>1
      <4> QED
        BY <2>1, <4>1, <4>2
    <3>2. CASE hasNext(b, n) /\ y = TraceExtensionEntry(b, n)
      BY <1>2, <2>1, <3>2
    <3> QED
      BY <1>1, <3>1, <3>2
  <2>6. ASSUME NEW c \in Builders, hasNext(c, at'[c])
        PROVE  TraceExtensionEntry(c, at'[c]) \in m_set'
    <3>1. CASE c = b
      BY <1>1, <2>1, <2>6, <3>1
    <3>2. CASE c # b
      <4>1. TraceExtensionEntry(c, at[c]) \in m_set
        BY <1>1, <2>1, <2>6, <3>2 DEF SetExact
      <4>2. TraceExtensionEntry(c, at[c]) # e
        BY <1>2, <2>3, <3>2
      <4> QED
        BY <1>1, <2>1, <3>2, <4>1, <4>2
    <3> QED
      BY <3>1, <3>2
  <2> QED
    BY <2>4, <2>5, <2>6
<1>5. ASSUME NEW c \in Builders, NEW k \in 1..Len(built[c])
      PROVE  /\ built[c][k].sid \in Nat /\ at[c] \in Nat /\ at'[c] \in Nat
             /\ k <= at'[c] => built[c][k].sid <= s
             /\ k <= at[c] => built[c][k].sid <= s
             /\ k > at'[c] => built[c][k].sid >= s
             /\ k > at[c] => built[c][k].sid >= s
             /\ k <= at[c] => k <= at'[c]
             /\ k > at'[c] /\ c = b => built[c][k].sid > s
  <2>1. /\ built[c][k].sid \in Nat /\ at[c] \in Nat /\ Len(built[c]) \in Nat
        /\ c = b => (k < n => built[c][k].sid < s) /\ (n < k => s < built[c][k].sid)
    BY <1>1, <1>2, BuiltSound
  <2>2. k <= at[c] => built[c][k].sid <= s
    <3> HAVE k <= at[c]
    <3>1. k \in 1..at[c] /\ n \in at[b] + 1..Len(built[b])
      BY <1>2, <1>3, <2>1
    <3> QED
      BY <1>1, <1>2, <3>1 DEF Ordered
  <2>3. k > at[c] => k \in at[c] + 1..Len(built[c])
    BY <2>1
  <2> QED
    BY <1>2, <1>3, <2>1, <2>2, <2>3
<1>6. Ordered'
  <2>1. ASSUME NEW c \in Builders, NEW d \in Builders,
               NEW k \in 1..at'[c], NEW l \in at'[d] + 1..Len(built[d])
        PROVE  built[c][k].sid <= built[d][l].sid
    <3>1. k \in 1..Len(built[c]) /\ k <= at'[c]
      BY <1>1, <1>3, BuiltSound
    <3>2. l \in 1..Len(built[d]) /\ l > at'[d]
      BY <1>1, <1>3, BuiltSound
    <3>3. /\ built[c][k].sid \in Nat /\ built[c][k].sid <= s
          /\ built[d][l].sid \in Nat /\ built[d][l].sid >= s
      BY <1>5, <3>1, <3>2
    <3> QED
      BY <1>2, <3>3
  <2> QED
    BY <1>1, <2>1 DEF Ordered
<1>7. \A p \in Printed : p \in Nat /\ p < s
  <2> TAKE p \in Printed
  <2>1. p \in Nat
    <3>1. rows \in Seq(Row)
      BY <1>1 DEF JoinType
    <3>2. \A k \in DOMAIN rows : rows[k] \in Row
      BY <3>1
    <3> QED
      BY <3>2 DEF Printed, Row
  <2>2. n \in at[b] + 1..Len(built[b])
    BY <1>2, <1>3
  <2> QED
    BY <1>1, <1>2, <2>1, <2>2 DEF PrintedRead
<1>8. ASSUME NEW c \in Builders, NEW k \in 1..Len(built[c]), k <= at'[c]
      PROVE  built[c][k].sid \in Printed \/ built[c][k].sid = s
  <2>1. CASE k <= at[c]
    <3>1. k \in 1..at[c]
      BY <1>5, <2>1
    <3> QED
      BY <1>1, <3>1 DEF ReadPrinted, s, e
  <2>2. CASE ~(k <= at[c])
    <3>1. c = b /\ k = n
      BY <1>3, <1>5, <1>8, <2>2
    <3> QED
      BY <1>2, <3>1
  <2> QED
    BY <2>1, <2>2
<1>9. /\ filled \in Row /\ filled.sid = s
      /\ \A c \in Builders :
           filled.feature[c] =
             IF at'[c] # 0 /\ built[c][at'[c]].set /\ built[c][at'[c]].sid \notin Printed
             THEN Feature(c, built[c][at'[c]].sid) ELSE Missing(Len(rows) + 1, c)
  <2> DEFINE feature == IF built[b][n].set
                        THEN [msg.feature EXCEPT ![b] = Feature(b, s)]
                        ELSE msg.feature
  <2>1. filled = [sid |-> s, feature |-> feature]
    BY <1>3 DEF filled, Filled, s, b
  <2>2. msg.feature \in [Builders -> Features]
    BY <1>1 DEF JoinType, Row
  <2>3. Feature(b, s) \in Features
    BY <1>2 DEF Feature, Features
  <2>4. feature \in [Builders -> Features]
    BY <2>2, <2>3
  <2>5. \A c \in Builders \ {b} : feature[c] = msg.feature[c]
    BY <2>2
  <2>6. built[b][n].set => feature[b] = Feature(b, s)
    BY <1>2, <2>2
  <2>7. ~built[b][n].set => feature[b] = msg.feature[b]
    OBVIOUS
  <2>8. filled \in Row /\ filled.sid = s /\ filled.feature = feature
    <3> HIDE DEF feature
    <3> QED
      BY <1>2, <2>1, <2>4 DEF Row
  <2> HIDE DEF feature
  <2>9. s \notin Printed
    BY <1>2, <1>7
  <2>10. ~built[b][n].set => feature[b] = Missing(Len(rows) + 1, b)
    <3> HAVE ~built[b][n].set
    <3>1. at[b] # 0 => built[b][at[b]].sid \in Printed
      <4> HAVE at[b] # 0
      <4>1. at[b] \in 1..at[b] /\ at[b] \in 1..Len(built[b]) /\ at[b] < n
        BY <1>2, <1>3
      <4>2. built[b][at[b]].sid < built[b][n].sid
        BY <1>1, <1>2, <4>1, BuiltSound
      <4>3. built[b][at[b]].sid # s /\ s = Smallest(m_set).sid
        BY <1>2, <1>5, <4>1, <4>2 DEF s, e
      <4> QED
        BY <1>1, <1>2, <4>1, <4>3 DEF ReadPrinted
    <3> QED
      BY <1>1, <1>2, <2>7, <3>1 DEF MessageSound
  <2>11. n # 0
    BY <1>2
  <2> QED
    BY <1>1, <1>2, <1>3, <2>5, <2>6, <2>8, <2>9, <2>10, <2>11 DEF MessageSound
<1>10. JoinType /\ call' \in {"reading", "thrown"}
  BY <1>1
<1>11. CASE ~EventEnds(m_set', s) /\ msg' = filled /\ UNCHANGED <<rows, call>>
  <2>1. m_set' # {} /\ Smallest(m_set').sid = s
    BY <1>11 DEF EventEnds
  <2>2. JoinType'
    BY <1>1, <1>3, <1>9, <1>11 DEF JoinType
  <2>3. RowsSound'
    BY <1>1, <1>11 DEF RowsSound, Found, Missing
  <2>4. Printed' = Printed
    BY <1>11 DEF Printed
  <2>5. PrintedRead'
    <3>1. ASSUME NEW p \in Printed
          PROVE  /\ \E c \in Builders : \E k \in 1..at'[c] : built[c][k].sid = p
                 /\ \A c \in Builders : \A k \in at'[c] + 1..Len(built[c]) :
                      p < built[c][k].sid
      <4>0. PICK c \in Builders : \E k \in 1..at[c] : built[c][k].sid = p
        BY <1>1 DEF PrintedRead
      <4>1. PICK k \in 1..at[c] : built[c][k].sid = p
        BY <4>0
      <4>2. k \in 1..at'[c]
        BY <1>1, <1>3, <1>5, BuiltSound
      <4>3. ASSUME NEW d \in Builders, NEW l \in at'[d] + 1..Len(built[d])
            PROVE  p < built[d][l].sid
        <5>1. l \in 1..Len(built[d]) /\ l > at'[d]
          BY <1>1, <1>3, BuiltSound
        <5>2. built[d][l].sid >= s /\ built[d][l].sid \in Nat
          BY <1>5, <5>1
        <5> QED
          BY <1>2, <1>7, <5>2
      <4> QED
        BY <4>1, <4>2, <4>3
    <3> QED
      BY <1>1, <2>4, <3>1 DEF PrintedRead
  <2>6. ReadPrinted'
    <3>1. ASSUME NEW c \in Builders, NEW k \in 1..at'[c]
          PROVE  built[c][k].sid \in Printed \/ built[c][k].sid = s
      <4>1. k \in 1..Len(built[c]) /\ k <= at'[c]
        BY <1>1, <1>3, BuiltSound
      <4> QED
        BY <1>8, <4>1
    <3> QED
      BY <1>1, <2>1, <2>4, <3>1 DEF ReadPrinted
  <2>7. MessageSound'
    BY <1>1, <1>9, <1>11, <2>4 DEF MessageSound, Feature, Missing
  <2> QED
    BY <1>1, <1>4, <1>6, <1>11, <2>2, <2>3, <2>5, <2>6, <2>7 DEF JoinInv
<1>12. CASE call' = "thrown" /\ msg' = filled /\ UNCHANGED rows
  <2>1. JoinType'
    BY <1>1, <1>3, <1>9, <1>12 DEF JoinType
  <2>2. RowsSound'
    BY <1>1, <1>12 DEF RowsSound, Found, Missing
  <2> QED
    BY <1>12, <2>1, <2>2 DEF JoinInv

<1>13. CASE /\ EventEnds(m_set', s) /\ rows' = Append(rows, filled)
            /\ msg' = Cleared /\ UNCHANGED call
  <2>1. /\ rows \in Seq(Row) /\ rows' \in Seq(Row)
        /\ Len(rows) \in Nat /\ Len(rows') = Len(rows) + 1
        /\ DOMAIN rows = 1..Len(rows) /\ DOMAIN rows' = 1..Len(rows) + 1
        /\ rows'[Len(rows) + 1] = filled
        /\ \A k \in 1..Len(rows) : rows'[k] = rows[k] /\ rows[k] \in Row
    BY <1>1, <1>9, <1>13 DEF JoinType
  <2>2. Printed' = Printed \cup {s}
    <3>1. \A p \in Printed' : p \in Printed \cup {s}
      BY <1>9, <2>1 DEF Printed
    <3>2. \A p \in Printed : p \in Printed'
      <4> TAKE p \in Printed
      <4>1. PICK k \in 1..Len(rows) : p = rows[k].sid
        BY <2>1 DEF Printed
      <4>2. k \in DOMAIN rows' /\ rows'[k].sid = p
        BY <2>1, <4>1
      <4> QED
        BY <4>2 DEF Printed
    <3>3. s \in Printed'
      <4>1. Len(rows) + 1 \in DOMAIN rows'
        BY <2>1
      <4> QED
        BY <1>9, <2>1, <4>1 DEF Printed
    <3> QED
      BY <3>1, <3>2, <3>3
  \* What was not read is of later IOs.
  <2>3. ASSUME NEW c \in Builders, NEW k \in at'[c] + 1..Len(built[c])
        PROVE  s < built[c][k].sid
    <3>1. /\ k \in 1..Len(built[c]) /\ k > at'[c]
          /\ at'[c] + 1 \in 1..Len(built[c]) /\ at'[c] + 1 <= k
      BY <1>1, <1>3, BuiltSound
    <3>2. built[c][at'[c] + 1].sid <= built[c][k].sid
      BY <1>1, <3>1, BuiltSound
    <3>3. /\ built[c][k].sid \in Nat /\ built[c][at'[c] + 1].sid \in Nat
          /\ built[c][at'[c] + 1].sid >= s /\ at'[c] \in Nat
      BY <1>5, <3>1
    <3>4. built[c][at'[c] + 1].sid # s
      <4> SUFFICES ASSUME built[c][at'[c] + 1].sid = s PROVE FALSE
        OBVIOUS
      <4> DEFINE y == [ext |-> c, sid |-> built[c][at'[c] + 1].sid]
      <4>1. m_set' = {[ext |-> d, sid |-> built[d][at'[d] + 1].sid] :
                        d \in {x \in Builders : at'[x] < Len(built[x])}}
        BY <1>1, <1>4 DEF SetExact, TraceExtensionEntry, hasNext
      <4>2. y \in m_set' /\ y.sid = s
        BY <3>1, <3>3, <4>1
      <4>3. m_set' \in SUBSET [ext : Nat, sid : Nat]
        <5>1. ASSUME NEW d \in Builders, at'[d] < Len(built[d])
              PROVE  [ext |-> d, sid |-> built[d][at'[d] + 1].sid] \in [ext : Nat, sid : Nat]
          <6>1. at'[d] + 1 \in 1..Len(built[d]) /\ d \in Nat
            <7>1. at'[d] \in Nat
              BY <1>3
            <7>2. Len(built[d]) \in Nat /\ d \in Nat
              BY <1>1, BuiltSound
            <7> QED
              BY <5>1, <7>1, <7>2
          <6>2. built[d][at'[d] + 1].sid \in Nat
            BY <1>5, <6>1
          <6> QED
            BY <6>1, <6>2
        <5> QED
          BY <4>1, <5>1
      <4>4. Smallest(m_set') \in m_set' /\ Smallest(m_set').sid <= s
        <5> HIDE DEF y
        <5> QED
          BY <4>2, <4>3, SmallestFound
      <4>5. PICK d \in Builders : /\ at'[d] < Len(built[d])
                                  /\ Smallest(m_set').sid = built[d][at'[d] + 1].sid
        <5>1. \A z \in m_set' : \E d \in Builders :
                at'[d] < Len(built[d]) /\ z.sid = built[d][at'[d] + 1].sid
          BY <4>1
        <5> QED
          BY <4>4, <5>1
      <4>6. at'[d] + 1 \in 1..Len(built[d]) /\ at'[d] + 1 > at'[d]
        <5>1. at'[d] \in Nat
          BY <1>3
        <5>2. Len(built[d]) \in Nat
          BY <1>1, BuiltSound
        <5> QED
          BY <4>5, <5>1, <5>2
      <4>7. built[d][at'[d] + 1].sid >= s /\ built[d][at'[d] + 1].sid \in Nat
        BY <1>5, <4>6
      <4> QED
        BY <1>2, <1>13, <4>2, <4>4, <4>5, <4>7 DEF EventEnds
    <3>5. s \in Nat /\ built[c][k].sid \in Nat
      BY <1>2, <1>5, <3>1
    <3> QED
      BY <3>2, <3>3, <3>4, <3>5
  <2>4. JoinType'
    <3>1. Cleared \in Row
      BY DEF Cleared, Row, Features
    <3> QED
      BY <1>1, <1>3, <1>13, <2>1, <3>1 DEF JoinType
  <2>5. PrintedRead'
    <3>1. ASSUME NEW p \in Printed \cup {s}
          PROVE  /\ \E c \in Builders : \E k \in 1..at'[c] : built[c][k].sid = p
                 /\ \A c \in Builders : \A k \in at'[c] + 1..Len(built[c]) :
                      p < built[c][k].sid
      <4>1. CASE p = s
        <5>1. n \in 1..at'[b]
          BY <1>2, <1>3
        <5> QED
          BY <1>2, <2>3, <4>1, <5>1
      <4>2. CASE p \in Printed
        <5>0. PICK c \in Builders : \E k \in 1..at[c] : built[c][k].sid = p
          BY <1>1, <4>2 DEF PrintedRead
        <5>1. PICK k \in 1..at[c] : built[c][k].sid = p
          BY <5>0
        <5>2. k \in 1..at'[c]
          BY <1>1, <1>3, <1>5, BuiltSound
        <5>3. p \in Nat /\ p < s
          BY <1>7, <4>2
        <5>4. ASSUME NEW d \in Builders, NEW l \in at'[d] + 1..Len(built[d])
              PROVE  p < built[d][l].sid
          <6>1. s < built[d][l].sid
            BY <2>3
          <6>2. l \in 1..Len(built[d])
            BY <1>1, <1>3, BuiltSound
          <6>3. built[d][l].sid \in Nat
            BY <1>5, <6>2
          <6> QED
            BY <1>2, <5>3, <6>1, <6>3
        <5> QED
          BY <5>1, <5>2, <5>4
      <4> QED
        BY <3>1, <4>1, <4>2
    <3> QED
      BY <1>1, <2>2, <3>1 DEF PrintedRead
  <2>6. \A c \in Builders : \A k \in 1..Len(built[c]) :
          k <= at'[c] => built[c][k].sid \in Printed'
    BY <1>8, <2>2
  <2>7. ReadPrinted'
    <3>1. \A c \in Builders : \A k \in 1..at'[c] : built[c][k].sid \in Printed'
      <4> TAKE c \in Builders
      <4> TAKE k \in 1..at'[c]
      <4>1. k \in 1..Len(built[c]) /\ k <= at'[c]
        BY <1>1, <1>3, BuiltSound
      <4> QED
        BY <2>6, <4>1
    <3> QED
      BY <1>1, <3>1 DEF ReadPrinted
  <2>8. MessageSound'
    <3> SUFFICES ASSUME NEW c \in Builders
                 PROVE  Cleared.feature[c] =
                          IF at'[c] # 0 /\ built[c][at'[c]].set
                               /\ built[c][at'[c]].sid \notin Printed'
                          THEN Feature(c, built[c][at'[c]].sid)
                          ELSE Missing(Len(rows') + 1, c)
      BY <1>1, <1>13 DEF MessageSound, Feature, Missing
    <3>1. at'[c] # 0 => built[c][at'[c]].sid \in Printed'
      <4> HAVE at'[c] # 0
      <4>1. at'[c] \in 1..Len(built[c]) /\ at'[c] <= at'[c]
        BY <1>1, <1>3, BuiltSound
      <4> QED
        BY <2>6, <4>1
    <3>2. Missing(Len(rows') + 1, c) = NoFeature
      BY <2>1 DEF Missing
    <3>3. Cleared.feature[c] = NoFeature
      BY DEF Cleared
    <3> QED
      BY <3>1, <3>2, <3>3
  <2>9. ASSUME NEW c \in Builders
        PROVE  filled.feature[c] = IF Found(c, s) THEN Feature(c, s)
                                   ELSE Missing(Len(rows) + 1, c)
    <3>1. /\ built[c] \in Seq(BuiltEntry) /\ DOMAIN built[c] = 1..Len(built[c])
          /\ \A k \in 1..Len(built[c]) : built[c][k] \in BuiltEntry
      BY <1>1, BuiltSound
    <3>2. s \notin Printed
      BY <1>2, <1>7
    <3>3. CASE Found(c, s)
      <4>1. PICK k \in 1..Len(built[c]) : built[c][k] = [sid |-> s, set |-> TRUE]
        BY <3>1, <3>3 DEF Found
      <4>2. built[c][k].sid = s /\ built[c][k].set
        BY <4>1
      <4>3. k <= at'[c] /\ at'[c] \in 1..Len(built[c])
        <5>1. ~(k \in at'[c] + 1..Len(built[c]))
          BY <1>2, <2>3, <4>2
        <5> QED
          BY <1>1, <1>3, <5>1, BuiltSound
      <4>4. k = at'[c]
        <5>1. built[c][at'[c]].sid <= s
          BY <1>5, <4>3
        <5>2. k < at'[c] => built[c][k].sid < built[c][at'[c]].sid
          BY <1>1, <4>3, BuiltSound
        <5>3. built[c][at'[c]].sid \in Nat
          BY <1>5, <4>3
        <5> QED
          BY <1>2, <4>2, <4>3, <5>1, <5>2, <5>3
      <4>5. at'[c] # 0 /\ built[c][at'[c]].set /\ built[c][at'[c]].sid = s
        BY <4>2, <4>3, <4>4
      <4> QED
        BY <1>9, <3>2, <3>3, <4>5
    <3>4. CASE ~Found(c, s)
      <4>1. ~(/\ at'[c] # 0 /\ built[c][at'[c]].set
              /\ built[c][at'[c]].sid \notin Printed)
        <5> SUFFICES ASSUME at'[c] # 0, built[c][at'[c]].set,
                            built[c][at'[c]].sid \notin Printed
                     PROVE  FALSE
          OBVIOUS
        <5>1. at'[c] \in 1..Len(built[c]) /\ at'[c] <= at'[c]
          BY <1>1, <1>3, BuiltSound
        <5>2. built[c][at'[c]].sid = s
          BY <1>8, <5>1
        <5>3. built[c][at'[c]] \in BuiltEntry
          BY <3>1, <5>1
        <5>4. built[c][at'[c]] = [sid |-> s, set |-> TRUE]
          BY <5>2, <5>3 DEF BuiltEntry
        <5> QED
          BY <3>1, <3>4, <5>1, <5>4 DEF Found
      <4> QED
        BY <1>9, <3>4, <4>1
    <3> QED
      BY <3>3, <3>4
  <2>10. RowsSound'
    <3>1. ASSUME NEW k \in 1..Len(rows) + 1
          PROVE  /\ k > 1 => rows'[k - 1].sid < rows'[k].sid
                 /\ \A c \in Builders :
                      rows'[k].feature[c] =
                        IF Found(c, rows'[k].sid) THEN Feature(c, rows'[k].sid)
                        ELSE Missing(k, c)
      <4>1. CASE k = Len(rows) + 1
        <5>1. rows'[k] = filled
          BY <2>1, <4>1
        <5>2. k > 1 => rows'[k - 1].sid < s
          <6> HAVE k > 1
          <6>1. k - 1 \in 1..Len(rows)
            BY <2>1, <4>1
          <6>2. rows'[k - 1] = rows[k - 1] /\ rows[k - 1].sid \in Printed
            BY <2>1, <6>1 DEF Printed
          <6> QED
            BY <1>7, <6>2
        <5> QED
          BY <1>9, <2>9, <4>1, <5>1, <5>2
      <4>2. CASE k # Len(rows) + 1
        <5>1. k \in 1..Len(rows) /\ (k > 1 => k - 1 \in 1..Len(rows))
          BY <2>1, <4>2
        <5> QED
          BY <1>1, <2>1, <5>1 DEF RowsSound
      <4> QED
        BY <4>1, <4>2
    <3> QED
      BY <1>1, <2>1, <3>1 DEF RowsSound, Found, Feature, Missing
  <2> QED
    BY <1>1, <1>4, <1>6, <1>13, <2>4, <2>5, <2>7, <2>8, <2>10 DEF JoinInv
<1> QED
  BY <1>1, <1>11, <1>12, <1>13

\* The rows are those of the IOs of the extensions, in their order, each with
\* the features of its IO: for any builders and any contents in the order of
\* the IOs.
THEOREM RowsCorrect == BuildSpec => []RowsJoin
<1>1. BuildInit => JoinInv
  <2> SUFFICES ASSUME BuildInit PROVE JoinInv
    OBVIOUS
  <2>1. Cleared \in Row
    BY DEF Cleared, Row, Features
  <2>2. \A b \in Builders : Len(built[b]) \in Nat /\ at[b] = 0
    BY ContentsAssumption DEF BuildInit
  <2>3. JoinType
    BY <2>1, <2>2 DEF BuildInit, JoinType
  <2> QED
    BY <2>2, <2>3 DEF BuildInit, JoinInv, RowsSound
<1>2. ASSUME JoinInv, Begin PROVE JoinInv'
  <2>1. /\ JoinType /\ rows = <<>> /\ msg = Cleared
        /\ \A b \in Builders : at[b] = 0
        /\ UNCHANGED <<format, built, at, rows>>
    BY <1>2 DEF JoinInv, Begin, Throw
  <2>2. RowsSound'
    BY <2>1 DEF RowsSound
  <2>3. CASE Throw
    BY <2>1, <2>2, <2>3 DEF Throw, JoinInv, JoinType
  <2>4. CASE /\ m_set' = addTraceExtension /\ call' = "reading"
             /\ msg' = IF format = "CSV"
                       THEN [Cleared EXCEPT !.feature = [b \in Builders |-> Prototype(b)]]
                       ELSE Cleared
    <3>1. msg' \in Row /\ \A b \in Builders : msg'.feature[b] = Missing(1, b)
      <4>1. CASE format = "CSV"
        <5>1. msg' = [sid |-> 0, feature |-> [b \in Builders |-> Prototype(b)]]
          BY <2>4, <4>1 DEF Cleared
        <5>2. \A b \in Builders : Prototype(b) \in Features /\ Prototype(b) = Missing(1, b)
          BY <4>1 DEF Prototype, Features, Missing
        <5> QED
          BY <5>1, <5>2 DEF Row
      <4>2. CASE format # "CSV"
        <5>1. msg' = [sid |-> 0, feature |-> [b \in Builders |-> NoFeature]]
          BY <2>4, <4>2 DEF Cleared
        <5>2. \A b \in Builders : NoFeature \in Features /\ NoFeature = Missing(1, b)
          BY <4>2 DEF Features, Missing
        <5> QED
          BY <5>1, <5>2 DEF Row
      <4> QED
        BY <4>1, <4>2
    <3>2. JoinType'
      BY <2>1, <2>4, <3>1 DEF JoinType
    <3>3. SetExact'
      BY <2>1, <2>4 DEF SetExact, addTraceExtension, TraceExtensionEntry, hasNext
    <3>4. Printed' = {} /\ Len(rows') = 0
      BY <2>1 DEF Printed
    <3>5. Ordered' /\ PrintedRead' /\ ReadPrinted'
      BY <2>1, <3>4 DEF Ordered, PrintedRead, ReadPrinted
    <3>6. MessageSound'
      <4>1. \A b \in Builders : at'[b] = 0 /\ msg'.feature[b] = Missing(Len(rows') + 1, b)
        BY <2>1, <3>1, <3>4
      <4>2. format' = format
        BY <2>1
      <4> QED
        BY <4>1, <4>2 DEF MessageSound, Missing
    <3> QED
      BY <2>2, <2>4, <3>2, <3>3, <3>5, <3>6 DEF JoinInv
  <2> QED
    BY <1>2, <2>3, <2>4 DEF Begin
<1>3. ASSUME JoinInv, Done PROVE JoinInv'
  <2>1. UNCHANGED <<format, built, m_set, at, msg, rows>>
    BY <1>3 DEF Done
  <2>2. JoinType /\ RowsSound
    BY <1>3 DEF JoinInv
  <2>3. call' \in {"begun", "reading", "done", "thrown"} /\ (JoinType')
    BY <1>3, <2>1, <2>2 DEF JoinType, Done
  <2>4. RowsSound'
    BY <2>1, <2>2 DEF RowsSound, Found, Feature, Missing
  <2>5. /\ SetExact => SetExact'
        /\ Ordered => Ordered'
        /\ PrintedRead => PrintedRead'
        /\ ReadPrinted => ReadPrinted'
        /\ MessageSound => MessageSound'
    BY <2>1 DEF SetExact, Ordered, PrintedRead, ReadPrinted, MessageSound, Printed,
                Feature, Missing, TraceExtensionEntry, hasNext
  <2> QED
    BY <1>3, <2>1, <2>3, <2>4, <2>5 DEF Done, JoinInv
<1>4. ASSUME JoinInv, UNCHANGED bvars PROVE JoinInv'
  <2>1. UNCHANGED <<format, built, m_set, at, msg, rows>>
    BY <1>4 DEF bvars
  <2>2. JoinType /\ RowsSound
    BY <1>4 DEF JoinInv
  <2>3. call' \in {"begun", "reading", "done", "thrown"} /\ (JoinType')
    BY <1>4, <2>1, <2>2 DEF JoinType, bvars
  <2>4. RowsSound'
    BY <2>1, <2>2 DEF RowsSound, Found, Feature, Missing
  <2>5. /\ SetExact => SetExact'
        /\ Ordered => Ordered'
        /\ PrintedRead => PrintedRead'
        /\ ReadPrinted => ReadPrinted'
        /\ MessageSound => MessageSound'
    BY <2>1 DEF SetExact, Ordered, PrintedRead, ReadPrinted, MessageSound, Printed,
                Feature, Missing, TraceExtensionEntry, hasNext
  <2> QED
    BY <1>4, <2>1, <2>3, <2>4, <2>5 DEF bvars, JoinInv
<1>5. JoinInv => RowsJoin
  <2> SUFFICES ASSUME JoinInv, call = "done"
               PROVE  Printed = UNION {Sids(b) : b \in Builders}
    BY DEF JoinInv, RowsJoin, RowsSound, Printed
  <2>1. /\ JoinType /\ SetExact /\ PrintedRead /\ ReadPrinted /\ m_set = {}
    BY DEF JoinInv
  <2>2. ASSUME NEW b \in Builders
        PROVE  at[b] = Len(built[b]) /\ DOMAIN built[b] = 1..Len(built[b])
    <3>1. ~hasNext(b, at[b])
      BY <2>1 DEF SetExact
    <3> QED
      BY <2>1, <3>1, BuiltSound DEF hasNext
  <2>3. \A b \in Builders : \A n \in DOMAIN built[b] : built[b][n].sid \in Printed
    BY <2>1, <2>2 DEF ReadPrinted
  <2>4. \A p \in Printed : \E b \in Builders : \E n \in DOMAIN built[b] : built[b][n].sid = p
    BY <2>1, <2>2 DEF PrintedRead
  <2> QED
    BY <2>3, <2>4 DEF Sids
<1> QED
  BY <1>1, <1>2, <1>3, <1>4, <1>5, TurnInv, PTL DEF BuildSpec, BuildNext
=============================================================================
