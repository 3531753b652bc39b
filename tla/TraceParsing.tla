---------------------------- MODULE TraceParsing ----------------------------
(* A traced application against the handler that parses its trace.           *)
(*                                                                           *)
(* The application submits IOs, which complete in any order; the tracer may  *)
(* drop any event, and the clocks of CPUs may differ, so that a completion   *)
(* can seem older than its submission.  What is traced is handled at once:   *)
(* the trace file parser only puts events into order (TraceMerge).  The      *)
(* handler is chosen by the version of the trace, as in                      *)
(* octf::ParsedIoTraceEventHandler.                                          *)
EXTENDS Integers, Sequences, FiniteSets, SequencesExt

CONSTANTS
    Versions, QueueLimit, DepthMod, NoFile,
    Device,       \* the device of the IOs
    Partition,    \* the partition of the file
    Ids,          \* ids of IOs; an id is also the block the IO is for
    Discards,     \* ids whose completions carry no block (old kernels)
    Subranges,    \* values given to setExclusiveSubrange, <<0, 0>> for none
    MaxEvents     \* bound: submissions and completions

Devices == {0, Device, Partition}   \* 0 is that of an empty description

V0 == INSTANCE ParsedIoV0
V1 == INSTANCE ParsedIoV1
V2 == INSTANCE ParsedIoV2

VARIABLES
    version,  \* of the trace summary
    h,        \* the handler
    ios,      \* the IOs of the application in order of submission
    clock,    \* time, greater than 0
    parsing,  \* "more" events, the "last" one handled, or "done"
    queued    \* numbers of the events a parsed event is owed for

vars == <<version, h, ios, clock, parsing, queued>>

Handle(e, isFinished) ==
    CASE version = 0 -> V0!handleEvent(h, e, isFinished)
      [] version = 1 -> V1!handleEvent(h, e, isFinished)
      [] version = 2 -> V2!handleEvent(h, e, isFinished)

Flush(isFinished) ==
    CASE version = 0 -> V0!flushEvents(h, isFinished)
      [] version = 1 -> V1!flushEvents(h, isFinished)
      [] version = 2 -> V2!flushEvents(h, isFinished)

Init ==
    /\ version \in Versions
    /\ \E subrange \in Subranges : h = V2!Handler(subrange)
    /\ ios = <<>>
    /\ clock = 1
    /\ parsing = "more"
    /\ queued = <<>>

Events == Len(ios) + Len(SelectSeq(ios, LAMBDA io : io.end # 0))

UnderWay == {i \in DOMAIN ios : ios[i].end = 0}

Proceed == parsing = "more" /\ UNCHANGED version

\* The event reaches the trace and is handled
Trace(e) == h' = Handle(e, FALSE) /\ UNCHANGED parsing

\* The same for one that flushes, where it matters whether it is the last one
TraceMaybeLast(e) ==
    \E last \in BOOLEAN :
        /\ h' = Handle(e, last)
        /\ parsing' = IF last THEN "last" ELSE "more"

\* The device is described before it is used
Describe ==
    /\ Proceed
    /\ V2!described(h, Device) = {}
    /\ Trace([type |-> "desc", dev |-> Device, ts |-> clock, sid |-> clock])
    /\ UNCHANGED <<ios, clock, queued>>

\* Two IOs under way have different ids and blocks
Submit(id, traced) ==
    /\ Proceed
    /\ V2!described(h, Device) # {}
    /\ Events < MaxEvents
    /\ \A i \in UnderWay : ios[i].id # id
    /\ clock' = clock + 1
    /\ LET e == [type |-> "io", no |-> Len(ios) + 1, dev |-> Device, id |-> id,
                 sid |-> 10 + Len(ios), ts |-> clock', lba |-> id, len |-> 1]
       IN /\ ios' = Append(ios, [id |-> id, start |-> clock', end |-> 0,
                                 traced |-> traced, known |-> FALSE])
          /\ IF traced THEN Trace(e) ELSE UNCHANGED <<h, parsing>>
          /\ queued' = IF traced /\ ~V2!skipped(h, e)
                       THEN Append(queued, e.no) ELSE queued

Complete(i) ==
    /\ Proceed
    /\ Events < MaxEvents
    /\ i \in UnderWay
    /\ \E t \in {ios[i].start - 1, clock, clock + 1} :
         LET none == version # 0 /\ ios[i].id \in Discards
         IN /\ clock' = IF t > clock THEN t ELSE clock
            /\ ios' = [ios EXCEPT ![i].end = t, ![i].known = TRUE]
            /\ TraceMaybeLast([type |-> "cmpl", dev |-> Device, id |-> ios[i].id,
                               sid |-> 10, ts |-> t,
                               lba |-> IF none THEN 0 ELSE ios[i].id,
                               len |-> IF none THEN 0 ELSE 1])
    /\ UNCHANGED queued

LoseCompletion(i) ==
    /\ Proceed
    /\ Events < MaxEvents
    /\ i \in UnderWay
    /\ ios' = [ios EXCEPT ![i].end = clock]
    /\ UNCHANGED <<h, clock, parsing, queued>>

\* The filesystem says which file and partition an IO under way belongs to
Meta(i) ==
    /\ Proceed
    /\ i \in UnderWay
    /\ \A p \in Range(h.queue \o h.out) : p.file = NoFile
    /\ Trace([type |-> "meta", id |-> ios[i].id, refsid |-> 9 + i, file |-> 1,
              size |-> 8, part |-> Partition, ts |-> clock, sid |-> 10])
    /\ UNCHANGED <<ios, clock, queued>>

\* A file is created, moved or deleted, once; the event has number 0
FileEvent(delete) ==
    /\ Proceed
    /\ V2!described(h, Device) # {}
    /\ 0 \notin Range(queued)
    /\ Trace([type |-> "file", no |-> 0, file |-> 1, part |-> Partition,
              delete |-> delete, ts |-> clock, sid |-> 10])
    /\ queued' = Append(queued, 0)
    /\ UNCHANGED <<ios, clock>>

\* processEvents leaves its loop when the parser has finished, and flushes
Finish ==
    /\ parsing \in {"more", "last"}
    /\ h' = Flush(TRUE)
    /\ parsing' = "done"
    /\ UNCHANGED <<version, ios, clock, queued>>

Next ==
    \/ Describe
    \/ \E id \in Ids, traced \in BOOLEAN : Submit(id, traced)
    \/ \E i \in DOMAIN ios : Complete(i) \/ LoseCompletion(i) \/ Meta(i)
    \/ \E delete \in BOOLEAN : FileEvent(delete)
    \/ Finish

Spec == Init /\ [][Next]_vars
-----------------------------------------------------------------------------
NoOf(seq) == [i \in DOMAIN seq |-> seq[i].no]

(* Every event that was traced and is not filtered is delivered exactly      *)
(* once, "respecting the IOs queuing order", with a sid that counts from 1   *)
(* (versions 1 and 2); nothing is left in the queue at the end.              *)
InOrderOnce ==
    /\ NoOf(h.out \o h.queue) = queued
    /\ parsing = "done" => h.queue = <<>>
    /\ version # 0 => \A i \in DOMAIN h.out : h.out[i].sid = i

ZeroLatency ==
    \E i, j \in DOMAIN ios :
        ios[i].known /\ ios[i].id = ios[j].id /\ ios[i].end = ios[j].start

(* A latency belongs to the IO it is reported for, as long as no submission  *)
(* was lost: whatever completions were lost, however ids are used again.     *)
(* Version 0 matches by block, where a completion that was lost, or came in  *)
(* the tick of its submission, leaves its IO to the next one of the block.   *)
OwnLatency ==
    LET lost == \E i \in DOMAIN ios : ~ios[i].traced
        open == \E i \in DOMAIN ios :
                  ios[i].end # 0 /\ (~ios[i].known \/ ios[i].end <= ios[i].start)
    IN ~lost /\ (version = 0 => ~open) =>
        \A p \in Range(h.out \o h.queue) :
            p.io /\ p.latency # 0 =>
                /\ ios[p.no].known
                /\ p.latency = ios[p.no].end - ios[p.no].start

(* The depth counter of a device is what is outstanding plus what is known   *)
(* to be lost, so that adjusting an IO by the losses before it gives the     *)
(* depth at its submission, at least the IO itself.  Completions in the same *)
(* tick as their submission break it: latency 0 means "not completed".       *)
DepthBalance ==
    version # 0 /\ ~ZeroLatency =>
        /\ \A d \in Devices :
             h.depth[d].Value = h.depth[d].Adjustment +
               Cardinality({i \in DOMAIN h.queue : /\ h.queue[i].io
                                                   /\ h.queue[i].dev = d
                                                   /\ h.queue[i].latency = 0})
        /\ \A i \in DOMAIN h.out :
             h.out[i].io => h.out[i].qd \in 1 .. Len(ios)
=============================================================================
