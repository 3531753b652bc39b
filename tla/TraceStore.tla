------------------------------- MODULE TraceStore -------------------------------
(* The traces on disk and the requests about them: the analysis of a trace is   *)
(* looked up in its cache, computed from its files if it is not there and       *)
(* cached; caches are cleared and traces removed, file by file, while others    *)
(* use them.  Each user is a process of some version of the framework.          *)
EXTENDS Integers, Sequences, SequencesExt, FiniteSets

CONSTANTS
    StoreUsers, StoreVersion,   \* [StoreUsers -> their version of the framework]
    Traces, StorePath,        \* [Traces -> the path, a sequence of characters]
    Selections,            \* [path, star], what traces are selected by
    Asked,                 \* [StoreUsers -> the kinds of analysis they ask for]
    LbaKeys,               \* those of the histograms of LBAs
    Torn,                  \* a cache file whose writer died
    MaxRequests, MaxEntries  \* bounds

VARIABLES
    dir,        \* the traces whose directory exists
    files,      \* of each trace, within "summary", "data", "cache", "lock"
    state,      \* of each trace, in its summary
    cache,      \* of each trace: the entries [key, version, value], or Torn
    client,     \* pc, trace, key, value, todo, force, seen of each user
    forced,     \* the traces somebody removes by force
    removed,    \* the traces that were reported as removed
    requests

storevars == <<dir, files, state, cache, client, forced, removed, requests>>

IdleUser == [pc |-> "idle", trace |-> CHOOSE t \in Traces : TRUE, key |-> "Statistics",
         value |-> <<>>, todo |-> {}, force |-> FALSE, seen |-> {}]

Uncached == {"Devices", "Parsed"}

StoreInit ==
    /\ dir = Traces
    /\ files = [t \in Traces |-> {"summary", "data"}]
    /\ state \in [Traces -> {"running", "complete"}]
    /\ cache = [t \in Traces |-> <<>>]
    /\ client = [u \in StoreUsers |-> IdleUser]
    /\ forced = {} /\ removed = {} /\ requests = 0

UserAt(u, pc) == client[u].pc = pc
UserGoto(u, pc) == client' = [client EXCEPT ![u].pc = pc]
Available(t) == t \in dir /\ "summary" \in files[t]
-----------------------------------------------------------------------------
\* TraceManager completes the trace: its summary is written once more
Complete(t) ==
    /\ state[t] = "running" /\ t \in dir
    /\ state' = [state EXCEPT ![t] = "complete"]
    /\ files' = [files EXCEPT ![t] = @ \cup {"summary"}]
    /\ UNCHANGED <<dir, cache, client, forced, removed, requests>>

BeginRequest(u, request) ==
    /\ client[u].pc \in {"idle", "answered", "failed"} /\ requests < MaxRequests
    /\ requests' = requests + 1
    /\ client' = [client EXCEPT ![u] = request]
    /\ UNCHANGED <<dir, files, state, cache, removed>>

\* getTrace() reads the summary before the cache is asked; the devices and the
\* parsed trace are not cached
Request(u, kind) ==
    /\ kind \in Asked[u]
    /\ \E t \in Traces :
         BeginRequest(u, [IdleUser EXCEPT !.trace = t, !.key = kind,
                      !.pc = IF kind \in Uncached THEN "parse"
                             ELSE IF Available(t) THEN "lookup" ELSE "failed"])
    /\ UNCHANGED forced

GetTraceStatistics(u) == Request(u, "Statistics")
GetLatencyHistogram(u) == Request(u, "LatencyHistogram")
GetSizeHistogram(u) == Request(u, "SizeHistogram")
GetQueueDepthHistogram(u) == Request(u, "QueueDepthHistogram")
GetFileSystemStatistics(u) == Request(u, "FileSystemStatistics")
GetDeviceList(u) == Request(u, "Devices")
ParseTrace(u) == Request(u, "Parsed")

\* The key is the request itself, with the size of the buckets and the subrange
GetLbaHistogram(u) == \E key \in LbaKeys : Request(u, key)

find(t, k) == SelectInSeq(cache[t], LAMBDA e : e.key = k)
\* Mutant: an entry of another version of the library is served
Mut_isCacheEntryValid(e, u) == TRUE
isCacheEntryValid(e, u) == e.version = StoreVersion[u]

\* eraseCacheEntry() writes as many copies of the entry as there were others
Erased(entries, i) == [j \in 1 .. Len(entries) - 1 |-> entries[i]]

\* With its lock file, that is made here; a hit is the answer
CacheRead(u) ==
    LET t == client[u].trace
        k == client[u].key
    IN  /\ UserAt(u, "lookup")
        /\ IF t \notin dir
           THEN UserGoto(u, "failed") /\ UNCHANGED <<files, cache>>
           ELSE /\ files' = [files EXCEPT ![t] = @ \cup {"lock"}]
                /\ IF "cache" \notin files[t] \/ cache[t] = Torn \/ find(t, k) = 0
                   THEN UserGoto(u, "parse") /\ UNCHANGED cache
                   ELSE LET e == cache[t][find(t, k)]
                        IN  IF isCacheEntryValid(e, u)
                            THEN /\ client' = [client EXCEPT ![u].pc = "answered", ![u].value = e.value]
                                 /\ UNCHANGED cache
                            ELSE /\ UserGoto(u, "parse")
                                 /\ cache' = [cache EXCEPT ![t] = Erased(@, find(t, k))]
        /\ UNCHANGED <<dir, state, forced, removed, requests>>

\* Only a complete trace is parsed
processEvents(u) ==
    LET t == client[u].trace
    IN  /\ UserAt(u, "parse")
        /\ IF Available(t) /\ state[t] = "complete" /\ "data" \in files[t]
           THEN client' = [client EXCEPT ![u].pc = IF client[u].key \in Uncached THEN "answered" ELSE "write",
                                     ![u].value = <<t, client[u].key, StoreVersion[u]>>]
           ELSE UserGoto(u, "failed")
        /\ UNCHANGED <<dir, files, state, cache, forced, removed, requests>>

Updated(t, e) ==
    IF "cache" \notin files[t] THEN <<e>>
    ELSE IF find(t, e.key) # 0 THEN [cache[t] EXCEPT ![find(t, e.key)] = e]
    ELSE Append(cache[t], e)

\* A process that dies here leaves a file that nobody can read
CacheWrite(u) ==
    LET t == client[u].trace
        e == [key |-> client[u].key, version |-> StoreVersion[u], value |-> client[u].value]
    IN  /\ UserAt(u, "write")
        /\ IF t \notin dir
           THEN UserGoto(u, "failed") /\ UNCHANGED <<files, cache>>
           ELSE IF "cache" \in files[t] /\ cache[t] = Torn
           THEN /\ UserGoto(u, "answered") /\ UNCHANGED cache
                /\ files' = [files EXCEPT ![t] = @ \cup {"lock"}]
           ELSE /\ files' = [files EXCEPT ![t] = @ \cup {"lock", "cache"}]
                /\ Len(Updated(t, e)) <= MaxEntries
                /\ \/ UserGoto(u, "answered") /\ cache' = [cache EXCEPT ![t] = Updated(t, e)]
                   \/ UserGoto(u, "failed") /\ cache' = [cache EXCEPT ![t] = Torn]
        /\ UNCHANGED <<dir, state, forced, removed, requests>>
-----------------------------------------------------------------------------
isMatchingPrefix(t, p) ==
    IF p.star \/ p.path = <<>> THEN IsPrefix(p.path, StorePath[t]) ELSE p.path = StorePath[t]
getTraceList(p) == {t \in Traces : Available(t) /\ isMatchingPrefix(t, p)}

\* The list, and what it says of the state of each trace, is read only once
ClearCache(u) ==
    \E p \in Selections :
        /\ BeginRequest(u, [IdleUser EXCEPT !.pc = "clear", !.todo = getTraceList(p)])
        /\ UNCHANGED forced

RemoveTraces(u) ==
    \E p \in Selections, force \in BOOLEAN :
        LET todo == {t \in getTraceList(p) : force \/ state[t] = "complete"}
        IN  /\ BeginRequest(u, [IdleUser EXCEPT !.pc = "remove", !.todo = todo, !.force = force])
            /\ forced' = IF force THEN forced \cup todo ELSE forced

EndRequest(u) ==
    /\ client[u].pc \in {"clear", "remove"} /\ client[u].todo = {}
    /\ UserGoto(u, "idle")
    /\ UNCHANGED <<dir, files, state, cache, forced, removed, requests>>

\* clear(): a trace that is gone ends the request
CacheClear(u) ==
    /\ UserAt(u, "clear")
    /\ \E t \in client[u].todo :
         IF t \notin dir THEN UserGoto(u, "failed") /\ UNCHANGED <<files, cache>>
         ELSE /\ client' = [client EXCEPT ![u].todo = @ \ {t}]
              /\ files' = [files EXCEPT ![t] = (@ \ {"cache"}) \cup {"lock"}]
              /\ cache' = [cache EXCEPT ![t] = <<>>]
    /\ UNCHANGED <<dir, state, forced, removed, requests>>

\* remove() of the next trace: the directory is opened
RemoveTrace(u) ==
    /\ UserAt(u, "remove")
    /\ \E t \in client[u].todo :
         client' = [client EXCEPT ![u].todo = @ \ {t}, ![u].trace = t,
                      ![u].pc = IF t \in dir THEN "unlink" ELSE "remove",
                      ![u].seen = IF t \in dir THEN files[t] ELSE {}]
    /\ UNCHANGED <<dir, files, state, cache, forced, removed, requests>>

\* A file that somebody else removed first ends the loop; one that was made
\* since may or may not be found
Unlink(u) ==
    LET t == client[u].trace
    IN  /\ UserAt(u, "unlink")
        /\ \E f \in client[u].seen \cup files[t] :
             /\ client' = [client EXCEPT ![u].seen = IF f \in files[t] THEN @ \ {f} ELSE {}]
             /\ files' = [files EXCEPT ![t] = @ \ {f}]
             /\ cache' = IF f = "cache" THEN [cache EXCEPT ![t] = <<>>] ELSE cache
        /\ UNCHANGED <<dir, state, forced, removed, requests>>

RemoveDirectory(u) ==
    LET t == client[u].trace
    IN  /\ UserAt(u, "unlink") /\ client[u].seen = {}
        /\ IF t \in dir /\ files[t] = {}
           THEN dir' = dir \ {t} /\ removed' = removed \cup {t}
           ELSE UNCHANGED <<dir, removed>>
        /\ UserGoto(u, "remove")
        /\ UNCHANGED <<files, state, cache, forced, requests>>

StoreNext ==
    \/ \E t \in Traces : Complete(t)
    \/ \E u \in StoreUsers :
         \/ GetTraceStatistics(u) \/ GetLatencyHistogram(u) \/ GetLbaHistogram(u)
         \/ GetSizeHistogram(u) \/ GetQueueDepthHistogram(u)
         \/ GetFileSystemStatistics(u) \/ GetDeviceList(u) \/ ParseTrace(u)
         \/ CacheRead(u) \/ processEvents(u) \/ CacheWrite(u)
         \/ ClearCache(u) \/ CacheClear(u)
         \/ RemoveTraces(u) \/ RemoveTrace(u) \/ Unlink(u) \/ RemoveDirectory(u)
         \/ EndRequest(u)

StoreSpec == StoreInit /\ [][StoreNext]_storevars
-----------------------------------------------------------------------------
\* Whoever wrote the cache, and whatever was removed, cleared or left torn in
\* between: an answer is what the analysis of its own version makes of the
\* trace; a trace that was reported as removed leaves nothing behind, and one
\* that is still recorded keeps its files unless it is removed by force.
StoreSound ==
    /\ \A u \in StoreUsers : UserAt(u, "answered") =>
         client[u].value = <<client[u].trace, client[u].key, StoreVersion[u]>>
    /\ \A t \in removed : t \notin dir /\ files[t] = {}
    /\ \A t \in Traces \ forced : state[t] = "running" => {"summary", "data"} \subseteq files[t]
=============================================================================
