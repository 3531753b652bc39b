------------------------------ MODULE TraceMerge ------------------------------
(* Ordered reading of several sources that are ordered each: TraceFileParser  *)
(* over the queue files of a trace, driven by TraceEventHandler, and          *)
(* TraceExtensionSet over extensions.  m_events is a std::set of the next     *)
(* item of each source, kept as a sequence in the order of the set.           *)
EXTENDS Integers, Sequences, FiniteSets, SequencesExt, Functions

CONSTANTS
    Queues,      \* 1 .. n; also the order of the extensions' names
    Files,       \* contents of the queue files, <<[sid, dev], ...>> each
    Compares     \* orders of the set that are in use, see Before

VARIABLES
    file,          \* of each queue
    compare,       \* order of this parser
    complete,      \* the summary says so
    m_readers,     \* items each reader has read
    m_events,      \* <<[queue, sid, dev], ...>>
    returned,
    m_devList,     \* of TraceEventHandlerDevicesList
    m_cancelRequested,
    parser         \* "new", "ready", "error"

gvars == <<file, compare, complete, m_readers, m_events, returned, m_devList,
           m_cancelRequested, parser>>

Init ==
    /\ file \in [Queues -> Files]
    /\ compare \in Compares
    /\ complete \in BOOLEAN
    /\ m_readers = [q \in Queues |-> 0]
    /\ m_events = <<>> /\ returned = <<>> /\ m_devList = {}
    /\ m_cancelRequested = FALSE
    /\ parser = "new"

\* The orders: by sid; by sid and then by name; and the default of
\* TraceEventHandler, for which any event is before any other
Before(a, b) ==
    CASE compare = "sid" -> a.sid < b.sid
      [] compare = "name" -> a.sid < b.sid \/ (a.sid = b.sid /\ a.queue < b.queue)
      [] compare = "none" -> TRUE

\* Mutant: what is equal replaces the element that is there
Mut_Insert(set, e) ==
    LET less == SelectSeq(set, LAMBDA x : Before(x, e) /\ ~Before(e, x))
    IN less \o <<e>> \o SelectSeq(set, LAMBDA x : Before(e, x) /\ ~Before(x, e))

\* Insertion into a std::set: an element equal to another one is dropped.  The
\* descent goes left wherever e is before the node it meets.
Insert(set, e) ==
    LET pos == {i \in 1 .. Len(set) + 1 : /\ \A j \in 1 .. i - 1 : ~Before(e, set[j])
                                          /\ i <= Len(set) => Before(e, set[i])}
        at == CHOOSE i \in pos : TRUE
    IN IF at > 1 /\ ~Before(set[at - 1], e) THEN set ELSE InsertAt(set, at, e)

Finished(q) == m_readers[q] = Len(file[q])
ReadFrom(q, n) == [queue |-> q, sid |-> file[q][n].sid, dev |-> file[q][n].dev]

NonEmpty == SetToSortSeq({q \in Queues : file[q] # <<>>}, <)

\* init: the first event of each file; addTraceExtension for an extension
init ==
    /\ parser = "new"
    /\ IF ~complete THEN parser' = "error" /\ UNCHANGED <<m_readers, m_events>>
       ELSE /\ parser' = "ready"
            /\ m_readers' = [q \in Queues |-> IF file[q] = <<>> THEN 0 ELSE 1]
            /\ m_events' = FoldLeft(LAMBDA set, q : Insert(set, ReadFrom(q, 1)), <<>>, NonEmpty)
    /\ UNCHANGED <<file, compare, complete, returned, m_devList, m_cancelRequested>>

isFinished == m_events = <<>> /\ \A q \in Queues : Finished(q)

\* TraceEventHandlerDevicesList::handleEvent, for the order it leaves as it is
handleEvent(e) ==
    IF compare = "none"
    THEN /\ m_devList' = IF e.dev # 0 THEN m_devList \cup {e.dev} ELSE m_devList
         /\ m_cancelRequested' = (m_cancelRequested \/ e.dev = 0)
    ELSE UNCHANGED <<m_devList, m_cancelRequested>>

\* The smallest event, for which the next one of its queue is inserted;
\* TraceExtensionSet::read does the same
parseTraceEvent ==
    LET e == Head(m_events)
        q == e.queue
    IN /\ returned' = Append(returned, e)
       /\ handleEvent(e)
       /\ IF Finished(q) THEN m_events' = Tail(m_events) /\ UNCHANGED m_readers
          ELSE /\ m_readers' = [m_readers EXCEPT ![q] = @ + 1]
               /\ m_events' = Insert(Tail(m_events), ReadFrom(q, m_readers[q] + 1))

\* One turn of TraceEventHandler::processEvents.  The parser throws if it has
\* no event although a reader has not finished.
processEvents ==
    /\ parser = "ready" /\ ~isFinished /\ ~m_cancelRequested
    /\ IF m_events = <<>>
       THEN parser' = "error" /\ UNCHANGED <<m_readers, m_events, returned, m_devList,
                                             m_cancelRequested>>
       ELSE parseTraceEvent /\ UNCHANGED parser
    /\ UNCHANGED <<file, compare, complete>>

cancel ==
    /\ parser = "ready" /\ ~m_cancelRequested
    /\ m_cancelRequested' = TRUE
    /\ UNCHANGED <<file, compare, complete, m_readers, m_events, returned, m_devList, parser>>

\* A builder with several steps reads the trace again: deinit and init
reinit ==
    /\ parser = "ready" /\ returned # <<>> /\ (isFinished \/ m_cancelRequested)
    /\ compare # "none"
    /\ parser' = "new"
    /\ m_readers' = [q \in Queues |-> 0] /\ m_events' = <<>>
    /\ m_cancelRequested' = FALSE
    /\ returned' = <<>>
    /\ UNCHANGED <<file, compare, complete, m_devList>>

Next == init \/ processEvents \/ cancel \/ reinit

Spec == Init /\ [][Next]_gvars
-----------------------------------------------------------------------------
Sids(q) == [i \in DOMAIN file[q] |-> file[q][i].sid]
Of(q) == SelectSeq(returned, LAMBDA e : e.queue = q)
Shared == \E p, q \in Queues : p # q /\ Range(Sids(p)) \cap Range(Sids(q)) # {}

(* As long as no two queues share a sid (extensions may), nothing is lost or  *)
(* returned twice, the sids of the whole trace come in order, each source in  *)
(* its own order whatever the comparison, and the parser ends with everything *)
(* returned instead of an exception.  Where all devices are described first   *)
(* in each file, the list of devices finds every one of the files it read.    *)
MergedInOrder ==
    compare = "name" \/ ~Shared =>
        /\ \A q \in Queues :
             [i \in DOMAIN Of(q) |-> Of(q)[i].sid] = SubSeq(Sids(q), 1, Len(Of(q)))
        /\ compare # "none" =>
             \A i \in 1 .. Len(returned) - 1 :
                 Before(returned[i], returned[i + 1]) /\ ~Before(returned[i + 1], returned[i])
        /\ parser = "error" => ~complete
        /\ parser = "ready" /\ isFinished =>
             \A q \in Queues : Len(Of(q)) = Len(file[q])
        /\ compare = "none" /\ parser = "ready" =>
             m_devList = {e.dev : e \in Range(returned)} \ {0}
=============================================================================
