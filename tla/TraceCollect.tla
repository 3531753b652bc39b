----------------------------- MODULE TraceCollect -----------------------------
(***************************************************************************)
(* One tracing session of an IO trace plug-in:                             *)
(*   - IO threads push events (IOTracePluginC::push in c/iotrace_plugin.cpp *)
(*     down to TraceProducerLocal::pushTrace);                             *)
(*   - one job thread per IO queue sleeps in TraceProducerLocal::wait and   *)
(*     drains its ring into the trace file (TraceJob::doWork,               *)
(*     TraceJob::consumeTraces);                                           *)
(*   - the management thread creates the jobs, opens the gate for the IO    *)
(*     threads, closes it, and stops and joins the jobs                    *)
(*     (TraceManager::handleJobs).                                         *)
(* The ring is the queue of TraceQueue: each place is reserved, then        *)
(* completed, and only a completed head can be taken.                      *)
(***************************************************************************)
EXTENDS Naturals, Sequences, FiniteSets

CONSTANTS
    IoThreads,      \* application threads issuing traced IO
    QueueCount,     \* getTraceQueueCount()
    IoQueueIds,     \* queue ids the application passes to push
    ChecksActive,   \* the application asks is_tracing_active before a push
    RingCap,        \* events a ring has room for
    RingTrigger,    \* more events than this: free space below the trigger size
    MaxPushes,      \* bound on the pushes of a session
    Done            \* a completed event in a ring

ASSUME QueuesAssumption ==
    /\ QueueCount \in Nat \ {0}
    /\ IoQueueIds \subseteq Nat \ {QueueCount}
    /\ ChecksActive \in BOOLEAN
ASSUME RingAssumption ==
    /\ RingCap \in Nat \ {0}
    /\ RingTrigger \in 0..(RingCap - 1)
    /\ Done \notin IoThreads
ASSUME PushBoundAssumption == MaxPushes \in Nat

Queues == 0..(QueueCount - 1)

\* IOTracePluginC::push: ids beyond the queue count are folded.
queueOf(ioQueueId) ==
    IF ioQueueId > QueueCount THEN ioQueueId % QueueCount ELSE ioQueueId

VARIABLES
    mpc,            \* where the management thread is in handleJobs
    mq,             \* the queue its current loop has reached
    jobs,           \* m_jobs: the jobs 0..jobs-1 exist
    tracing_active, \* octf_iotrace_plugin_context::tracing_active
    traceStopping,  \* QueueContext::traceStopping
    tracingRef,     \* QueueContext::tracingRefCounter
    m_stop,         \* TraceProducerLocal::m_stop
    m_state,        \* TraceJob::m_state
    jpc,            \* where each job thread is
    finish,         \* "finish" in consumeTraces
    ring,           \* the ring of each queue, oldest event first
    lost,           \* octf_trace_get_lost_count
    m_traceCount,   \* TraceJob::m_traceCount
    ppc,            \* where each IO thread is
    target,         \* the queue each IO thread pushes to
    pushed,         \* history: pushes that reached the ring of each queue
    expired         \* history: jobs that ran into their own end time

jobVars == <<m_stop, m_state, jpc, finish, m_traceCount, expired>>
gateVars == <<tracing_active, traceStopping>>
ioVars == <<ppc, target, pushed>>
vars == <<mpc, mq, jobs, tracing_active, traceStopping, tracingRef, m_stop,
          m_state, jpc, finish, ring, lost, m_traceCount, ppc, target, pushed,
          expired>>

Init ==
    /\ mpc = "idle" /\ mq = 0 /\ jobs = 0
    /\ tracing_active = FALSE
    /\ traceStopping = [q \in Queues |-> TRUE]
    /\ tracingRef = [q \in Queues |-> 0]
    /\ m_stop = [q \in Queues |-> FALSE]
    /\ m_state = [q \in Queues |-> "NOT_STARTED"]
    /\ jpc = [q \in Queues |-> "none"]
    /\ finish = [q \in Queues |-> FALSE]
    /\ ring = [q \in Queues |-> <<>>]
    /\ lost = [q \in Queues |-> 0]
    /\ m_traceCount = [q \in Queues |-> 0]
    /\ ppc = [t \in IoThreads |-> "idle"]
    /\ target = [t \in IoThreads |-> 0]
    /\ pushed = [q \in Queues |-> 0]
    /\ expired = [q \in Queues |-> FALSE]

\* notify_all on m_checkTrigger: only a job that is waiting is woken.
Notified(q, pcs) == [pcs EXCEPT ![q] = IF @ = "waiting" THEN "woken" ELSE @]

-----------------------------------------------------------------------------
(* The management thread.                                                  *)

\* A new session: the jobs of the last one are deleted.
StartSession ==
    /\ mpc = "idle"
    /\ mpc' = "setup" /\ mq' = 0 /\ jobs' = 0
    /\ m_stop' = [q \in Queues |-> FALSE]
    /\ m_state' = [q \in Queues |-> "NOT_STARTED"]
    /\ jpc' = [q \in Queues |-> "none"]
    /\ finish' = [q \in Queues |-> FALSE]
    /\ ring' = [q \in Queues |-> <<>>]
    /\ lost' = [q \in Queues |-> 0]
    /\ m_traceCount' = [q \in Queues |-> 0]
    /\ pushed' = [q \in Queues |-> 0]
    /\ expired' = [q \in Queues |-> FALSE]
    /\ UNCHANGED <<gateVars, tracingRef, ppc, target>>

\* setupJobs: one iteration of the loop that constructs and starts the jobs.
SetupJob ==
    /\ mpc = "setup" /\ jobs < QueueCount
    /\ jobs' = jobs + 1
    /\ jpc' = [jpc EXCEPT ![jobs] = "start"]
    /\ UNCHANGED <<mpc, mq, gateVars, tracingRef, m_stop, m_state, finish,
                   ring, lost, m_traceCount, ioVars, expired>>

\* A TraceJob constructor throws (no buffer, no file): the jobs that were
\* already started are stopped at the end of handleJobs.
SetupFails ==
    /\ mpc = "setup" /\ jobs < QueueCount
    /\ mpc' = "stopjobs" /\ mq' = 0
    /\ UNCHANGED <<jobs, gateVars, tracingRef, jobVars, ring, lost, ioVars>>

\* waitForJobInitialization for every job; then startTrace sets tracing_active.
JobsInitialized ==
    /\ mpc = "setup" /\ jobs = QueueCount
    /\ \A q \in Queues : m_state[q] # "NOT_STARTED"
    /\ mpc' = "start" /\ mq' = 0
    /\ tracing_active' = TRUE
    /\ UNCHANGED <<jobs, traceStopping, tracingRef, jobVars, ring, lost,
                   ioVars>>

\* IOTracePluginC::startTrace opens the gate of one queue after the other.
StartTrace ==
    /\ mpc = "start" /\ mq < QueueCount
    /\ traceStopping' = [traceStopping EXCEPT ![mq] = FALSE]
    /\ mq' = mq + 1
    /\ mpc' = IF mq + 1 = QueueCount THEN "run" ELSE "start"
    /\ UNCHANGED <<jobs, tracing_active, tracingRef, jobVars, ring, lost,
                   ioVars>>

\* m_finish, the end time or the maximum file size ends the polling loop;
\* stopTrace clears tracing_active.
EndPolling ==
    /\ mpc = "run"
    /\ mpc' = "stop" /\ mq' = 0
    /\ tracing_active' = FALSE
    /\ UNCHANGED <<jobs, traceStopping, tracingRef, jobVars, ring, lost,
                   ioVars>>

\* IOTracePluginC::stopTrace closes the gate of one queue after the other.
CloseGate ==
    /\ mpc = "stop" /\ mq < QueueCount
    /\ traceStopping' = [traceStopping EXCEPT ![mq] = TRUE]
    /\ mq' = IF mq + 1 = QueueCount THEN 0 ELSE mq + 1
    /\ mpc' = IF mq + 1 = QueueCount THEN "poll" ELSE "stop"
    /\ UNCHANGED <<jobs, tracing_active, tracingRef, jobVars, ring, lost,
                   ioVars>>

\* Mutant: stopTrace does not wait for the pushes under way.
Mut_PollIdle ==
    /\ mpc = "poll"
    /\ mq' = IF mq + 1 = QueueCount THEN 0 ELSE mq + 1
    /\ mpc' = IF mq + 1 = QueueCount THEN "stopjobs" ELSE "poll"
    /\ UNCHANGED <<jobs, gateVars, tracingRef, jobVars, ring, lost, ioVars>>

\* isTraceOngoing reads the counters one by one; any count starts over.
PollIdle ==
    /\ mpc = "poll" /\ tracingRef[mq] = 0
    /\ mq' = IF mq + 1 = QueueCount THEN 0 ELSE mq + 1
    /\ mpc' = IF mq + 1 = QueueCount THEN "stopjobs" ELSE "poll"
    /\ UNCHANGED <<jobs, gateVars, tracingRef, jobVars, ring, lost, ioVars>>

PollBusy ==
    /\ mpc = "poll" /\ tracingRef[mq] # 0
    /\ mq' = 0
    /\ UNCHANGED <<mpc, jobs, gateVars, tracingRef, jobVars, ring, lost,
                   ioVars>>

\* TraceProducerLocal::stop of one job after the other: the flag under the
\* mutex, then the notification.
StopJobSet ==
    /\ mpc = "stopjobs" /\ mq < jobs
    /\ m_stop' = [m_stop EXCEPT ![mq] = TRUE]
    /\ mpc' = "notify"
    /\ UNCHANGED <<mq, jobs, gateVars, tracingRef, m_state, jpc, finish,
                   ring, lost, m_traceCount, ioVars, expired>>

StopJobNotify ==
    /\ mpc = "notify"
    /\ jpc' = Notified(mq, jpc)
    /\ mq' = mq + 1
    /\ mpc' = "stopjobs"
    /\ UNCHANGED <<jobs, gateVars, tracingRef, m_stop, m_state, finish,
                   ring, lost, m_traceCount, ioVars, expired>>

\* joinThread of every job, then the session is over.
JoinJobs ==
    /\ mpc = "stopjobs" /\ mq = jobs
    /\ \A q \in 0..(jobs - 1) : jpc[q] = "done"
    /\ mpc' = "idle" /\ mq' = 0
    /\ UNCHANGED <<jobs, gateVars, tracingRef, jobVars, ring, lost, ioVars>>

-----------------------------------------------------------------------------
(* Job threads.                                                            *)

DoWork(q) ==
    /\ jpc[q] = "start"
    /\ m_state' = [m_state EXCEPT ![q] = "RUNNING"]
    /\ jpc' = [jpc EXCEPT ![q] = "loop"]
    /\ UNCHANGED <<mpc, mq, jobs, gateVars, tracingRef, m_stop, finish,
                   ring, lost, m_traceCount, ioVars, expired>>

\* TraceProducerLocal::wait takes m_mutex and goes to sleep, without looking
\* at m_stop or at the ring.
Wait(q) ==
    /\ jpc[q] = "loop"
    /\ jpc' = [jpc EXCEPT ![q] = "waiting"]
    /\ UNCHANGED <<mpc, mq, jobs, gateVars, tracingRef, m_stop, m_state,
                   finish, ring, lost, m_traceCount, ioVars, expired>>

\* wait_until may return without a notification.
SpuriousWakeup(q) ==
    /\ jpc[q] = "waiting"
    /\ jpc' = [jpc EXCEPT ![q] = "woken"]
    /\ UNCHANGED <<mpc, mq, jobs, gateVars, tracingRef, m_stop, m_state,
                   finish, ring, lost, m_traceCount, ioVars, expired>>

WaitReturns(q) ==
    /\ jpc[q] = "woken"
    /\ finish' = [finish EXCEPT ![q] = m_stop[q]]
    /\ jpc' = [jpc EXCEPT ![q] = "drain"]
    /\ UNCHANGED <<mpc, mq, jobs, gateVars, tracingRef, m_stop, m_state,
                   ring, lost, m_traceCount, ioVars, expired>>

\* Mutant: a wait that times out is taken for one more wake-up.
Mut_WaitTimesOut(q) ==
    /\ jpc[q] = "waiting"
    /\ expired' = [expired EXCEPT ![q] = TRUE]
    /\ jpc' = [jpc EXCEPT ![q] = "drain"]
    /\ UNCHANGED <<mpc, mq, jobs, gateVars, tracingRef, m_stop, m_state,
                   finish, ring, lost, m_traceCount, ioVars>>

\* The end time of the job passes.
WaitTimesOut(q) ==
    /\ jpc[q] = "waiting"
    /\ finish' = [finish EXCEPT ![q] = TRUE]
    /\ expired' = [expired EXCEPT ![q] = TRUE]
    /\ jpc' = [jpc EXCEPT ![q] = "drain"]
    /\ UNCHANGED <<mpc, mq, jobs, gateVars, tracingRef, m_stop, m_state,
                   ring, lost, m_traceCount, ioVars>>

HeadReady(q) == ring[q] # <<>> /\ Head(ring[q]) = Done

\* Mutant: the event is written but its place is not released.
Mut_SerializeEvent(q) ==
    /\ jpc[q] = "drain" /\ HeadReady(q)
    /\ m_traceCount[q] < MaxPushes
    /\ m_traceCount' = [m_traceCount EXCEPT ![q] = @ + 1]
    /\ UNCHANGED <<mpc, mq, jobs, gateVars, tracingRef, m_stop, m_state,
                   jpc, finish, ring, lost, ioVars, expired>>

\* octf_trace_get_rd_buffer, serialize, octf_trace_release_rd_buffer.
SerializeEvent(q) ==
    /\ jpc[q] = "drain" /\ HeadReady(q)
    /\ ring' = [ring EXCEPT ![q] = Tail(@)]
    /\ m_traceCount' = [m_traceCount EXCEPT ![q] = @ + 1]
    /\ UNCHANGED <<mpc, mq, jobs, gateVars, tracingRef, m_stop, m_state,
                   jpc, finish, lost, ioVars, expired>>

\* serialize throws: the event stays in the ring and the job gives up.
SerializeFails(q) ==
    /\ jpc[q] = "drain" /\ HeadReady(q)
    /\ m_state' = [m_state EXCEPT ![q] = "ERROR"]
    /\ jpc' = [jpc EXCEPT ![q] = "done"]
    /\ UNCHANGED <<mpc, mq, jobs, gateVars, tracingRef, m_stop, finish,
                   ring, lost, m_traceCount, ioVars, expired>>

\* Mutant: a finishing job stops after the event it is at.
Mut_EndDrain(q) ==
    /\ jpc[q] = "drain"
    /\ IF finish[q]
       THEN /\ m_state' = [m_state EXCEPT ![q] = "COMPLETE"]
            /\ jpc' = [jpc EXCEPT ![q] = "done"]
       ELSE /\ jpc' = [jpc EXCEPT ![q] = "loop"]
            /\ UNCHANGED m_state
    /\ UNCHANGED <<mpc, mq, jobs, gateVars, tracingRef, m_stop, finish,
                   ring, lost, m_traceCount, ioVars, expired>>

\* The ring is empty, or its head is not ready (-EAGAIN): back to the wait,
\* or out of the loop.
EndDrain(q) ==
    /\ jpc[q] = "drain"
    /\ ~HeadReady(q)
    /\ IF finish[q]
       THEN /\ m_state' = [m_state EXCEPT ![q] = "COMPLETE"]
            /\ jpc' = [jpc EXCEPT ![q] = "done"]
       ELSE /\ jpc' = [jpc EXCEPT ![q] = "loop"]
            /\ UNCHANGED m_state
    /\ UNCHANGED <<mpc, mq, jobs, gateVars, tracingRef, m_stop, finish,
                   ring, lost, m_traceCount, ioVars, expired>>

-----------------------------------------------------------------------------
(* IO threads.                                                             *)

MoveIo(t, label) == ppc' = [ppc EXCEPT ![t] = label]
IoUnchanged == UNCHANGED <<mpc, mq, jobs, gateVars, m_stop, m_state,
                           finish, m_traceCount, expired>>

\* For the bound MaxPushes: pushes done, and pushes that may still count.
PushesUnder(q) ==
    pushed[q] +
      Cardinality({t \in IoThreads :
                     target[t] = q /\ ppc[t] \notin {"idle", "call"}})

\* What the documented use of the C interface does before it builds an event.
IsTracingActive(t) ==
    /\ ChecksActive /\ ppc[t] = "idle" /\ tracing_active
    /\ MoveIo(t, "call")
    /\ IoUnchanged /\ UNCHANGED <<tracingRef, jpc, ring, lost, target, pushed>>

PushEnter(t, id) ==
    /\ ppc[t] = IF ChecksActive THEN "call" ELSE "idle"
    /\ PushesUnder(queueOf(id)) < MaxPushes
    /\ target' = [target EXCEPT ![t] = queueOf(id)]
    /\ tracingRef' = [tracingRef EXCEPT ![queueOf(id)] = @ + 1]
    /\ MoveIo(t, "check")
    /\ IoUnchanged /\ UNCHANGED <<jpc, ring, lost, pushed>>

PushCheck(t) ==
    /\ ppc[t] = "check"
    /\ MoveIo(t, IF traceStopping[target[t]] THEN "leave" ELSE "push")
    /\ IoUnchanged /\ UNCHANGED <<tracingRef, jpc, ring, lost, target, pushed>>

\* TraceManager::pushTrace finds the job; TraceProducerLocal::pushTrace looks
\* at m_stop.
PushTrace(t) ==
    /\ ppc[t] = "push"
    /\ MoveIo(t, IF target[t] < jobs /\ ~m_stop[target[t]]
                 THEN "reserve" ELSE "leave")
    /\ IoUnchanged /\ UNCHANGED <<tracingRef, jpc, ring, lost, target, pushed>>

\* octf_trace_push, up to the reservation.
PushReserve(t) ==
    /\ ppc[t] = "reserve"
    /\ pushed' = [pushed EXCEPT ![target[t]] = @ + 1]
    /\ IF Len(ring[target[t]]) < RingCap
       THEN /\ ring' = [ring EXCEPT ![target[t]] = Append(@, t)]
            /\ MoveIo(t, "commit")
            /\ UNCHANGED lost
       ELSE /\ lost' = [lost EXCEPT ![target[t]] = @ + 1]
            /\ MoveIo(t, "leave")
            /\ UNCHANGED ring
    /\ IoUnchanged /\ UNCHANGED <<tracingRef, jpc, target>>

PushCommit(t) ==
    /\ ppc[t] = "commit"
    /\ ring' = [ring EXCEPT ![target[t]] =
                  [i \in DOMAIN @ |-> IF @[i] = t THEN Done ELSE @[i]]]
    /\ MoveIo(t, "trigger")
    /\ IoUnchanged /\ UNCHANGED <<tracingRef, jpc, lost, target, pushed>>

\* A successful push wakes the job when the free space is below the trigger
\* size; m_mutex is not taken for that.
PushTrigger(t) ==
    /\ ppc[t] = "trigger"
    /\ jpc' = IF Len(ring[target[t]]) > RingTrigger
              THEN Notified(target[t], jpc) ELSE jpc
    /\ MoveIo(t, "leave")
    /\ IoUnchanged /\ UNCHANGED <<tracingRef, ring, lost, target, pushed>>

PushLeave(t) ==
    /\ ppc[t] = "leave"
    /\ tracingRef' = [tracingRef EXCEPT ![target[t]] = @ - 1]
    /\ MoveIo(t, "idle")
    /\ target' = [target EXCEPT ![t] = 0]
    /\ IoUnchanged /\ UNCHANGED <<jpc, ring, lost, pushed>>

-----------------------------------------------------------------------------
Manage ==
    \/ SetupJob \/ JobsInitialized \/ StartTrace \/ EndPolling \/ CloseGate
    \/ PollIdle \/ PollBusy \/ StopJobSet \/ StopJobNotify \/ JoinJobs

Job(q) ==
    \/ DoWork(q) \/ Wait(q) \/ WaitReturns(q) \/ WaitTimesOut(q)
    \/ SerializeEvent(q) \/ EndDrain(q)

Push(t) ==
    \/ PushCheck(t) \/ PushTrace(t) \/ PushReserve(t) \/ PushCommit(t)
    \/ PushTrigger(t) \/ PushLeave(t)

Next ==
    \/ StartSession \/ SetupFails \/ Manage
    \/ \E q \in Queues : Job(q) \/ SpuriousWakeup(q) \/ SerializeFails(q)
    \/ \E t \in IoThreads :
         \/ IsTracingActive(t) \/ Push(t)
         \/ \E id \in IoQueueIds : PushEnter(t, id)

Spec == Init /\ [][Next]_vars

\* Threads run on, and the end time of a job passes.  Nothing is assumed of
\* the polling of isTraceOngoing: it is for the application to stop pushing
\* when tracing is not active any more.
FairSpec ==
    /\ Spec
    /\ WF_vars(Manage)
    /\ \A q \in Queues : WF_vars(Job(q)) /\ SF_vars(WaitTimesOut(q))
    /\ \A t \in IoThreads : WF_vars(Push(t))

-----------------------------------------------------------------------------
(* Properties.                                                             *)

TypeOK ==
    /\ mpc \in {"idle", "setup", "start", "run", "stop", "poll", "stopjobs",
                "notify"}
    /\ mq \in 0..QueueCount /\ jobs \in 0..QueueCount
    /\ tracing_active \in BOOLEAN
    /\ traceStopping \in [Queues -> BOOLEAN]
    /\ tracingRef \in [Queues -> 0..Cardinality(IoThreads)]
    /\ m_stop \in [Queues -> BOOLEAN]
    /\ m_state \in [Queues -> {"NOT_STARTED", "RUNNING", "COMPLETE", "ERROR"}]
    /\ jpc \in [Queues -> {"none", "start", "loop", "waiting", "woken",
                           "drain", "done"}]
    /\ finish \in [Queues -> BOOLEAN] /\ expired \in [Queues -> BOOLEAN]
    /\ ring \in [Queues -> Seq(IoThreads \cup {Done})]
    /\ \A q \in Queues : Len(ring[q]) <= RingCap
    /\ lost \in [Queues -> 0..MaxPushes]
    /\ m_traceCount \in [Queues -> 0..MaxPushes]
    /\ pushed \in [Queues -> 0..MaxPushes]
    /\ ppc \in [IoThreads -> {"idle", "call", "check", "push", "reserve",
                              "commit", "trigger", "leave"}]
    /\ target \in [IoThreads -> Queues]

InPush(t) == ppc[t] \in {"push", "reserve", "commit", "trigger"}

\* While an IO thread is inside TraceManager::pushTrace the job it pushes to
\* exists and has not been told to stop: jobs are created before the gate
\* opens, and stopTrace returns only when every push has left.
PushOnlyIntoLiveJob ==
    \A t \in IoThreads : InPush(t) =>
        /\ target[t] < jobs
        /\ mpc \in {"start", "run", "stop", "poll"}
        /\ m_state[target[t]] # "NOT_STARTED"
        /\ ~m_stop[target[t]]

\* Every event that got a place in a ring during the session is in the trace
\* file when the session ends, if no job ran into its own end time or failed
\* and the session was not aborted: the last drain runs after the last push.
CleanStopLosesNothing ==
    \A q \in Queues :
        /\ mpc = "idle" /\ jpc[q] = "done"
        /\ ~expired[q] /\ m_state[q] = "COMPLETE"
        => ring[q] = <<>> /\ pushed[q] = m_traceCount[q] + lost[q]

\* The file never holds an event twice, nor one that was counted as dropped,
\* and a place in a ring is never lost: what was pushed is written, dropped,
\* or still there.
NothingDuplicated ==
    \A q \in Queues : pushed[q] = m_traceCount[q] + lost[q] + Len(ring[q])

\* StopTracing, the deadline or the size limit ends the session: the
\* management thread gets through stopTrace and joins every job.
SessionEnds == (mpc \in {"stop", "stopjobs"}) ~> (mpc = "idle")

\* stop() wakes the job: "Waits until new traces are available or this->stop()
\* is called or until specified end time" (IRingTraceProducer.h).
StopWakesJob ==
    \A q \in Queues :
        (mpc = "stopjobs" /\ q < mq) => jpc[q] # "waiting"
===============================================================================
