-------------------------- MODULE TraceCollect_proofs --------------------------
(***************************************************************************)
(* Theorems about a tracing session, for every number of IO threads and    *)
(* queues, every size of the rings, and any number of sessions.            *)
(***************************************************************************)
EXTENDS TraceCollect, FiniteSetTheorems, TLAPS

MgrPlaces == {"idle", "setup", "start", "run", "stop", "poll", "stopjobs", "notify"}
IoPlaces == {"idle", "call", "check", "push", "reserve", "commit", "trigger", "leave"}
JobState == {"NOT_STARTED", "RUNNING", "COMPLETE", "ERROR"}

\* The types without the bounds of TypeOK, and without the guards' jpc
Types ==
    /\ mpc \in MgrPlaces /\ mq \in Nat /\ jobs \in Nat
    /\ traceStopping \in [Queues -> BOOLEAN]
    /\ tracingRef \in [Queues -> Nat]
    /\ m_stop \in [Queues -> BOOLEAN]
    /\ m_state \in [Queues -> JobState]
    /\ finish \in [Queues -> BOOLEAN] /\ expired \in [Queues -> BOOLEAN]
    /\ ring \in [Queues -> Seq(IoThreads \cup {Done})]
    /\ lost \in [Queues -> Nat]
    /\ m_traceCount \in [Queues -> Nat]
    /\ pushed \in [Queues -> Nat]
    /\ ppc \in [IoThreads -> IoPlaces]
    /\ target \in [IoThreads -> Queues]

\* The reference counter of a queue is the number of threads between
\* PushEnter and PushLeave.
Inside(q) == {t \in IoThreads : ppc[t] \notin {"idle", "call"} /\ target[t] = q}
RefExact == \A q \in Queues : tracingRef[q] = Cardinality(Inside(q))

\* The gates startTrace and stopTrace have not reached, or have passed
Gates ==
    /\ mpc \in {"idle", "setup", "poll", "stopjobs", "notify"}
         => \A q \in Queues : traceStopping[q]
    /\ mpc = "start" => \A q \in Queues : q >= mq => traceStopping[q]
    /\ mpc = "stop" => \A q \in Queues : q < mq => traceStopping[q]

\* The jobs while the gates may be open
Live ==
    /\ mpc \in {"setup", "start", "run", "stop", "poll"}
         => \A q \in Queues : ~m_stop[q]
    /\ mpc \in {"start", "run", "stop", "poll"}
         => /\ jobs = QueueCount
            /\ \A q \in Queues : m_state[q] # "NOT_STARTED"

\* A thread that has passed a gate is waited for: isTraceOngoing has not gone
\* beyond the counter of its queue.
Passed ==
    \A t \in IoThreads : InPush(t) =>
        /\ mpc \in {"start", "run", "stop", "poll"}
        /\ mpc = "poll" => target[t] >= mq

\* A place in a ring that is not done is that of a thread about to commit it.
Places ==
    \A q \in Queues : \A i \in 1..Len(ring[q]) :
        \/ ring[q][i] = Done
        \/ /\ ring[q][i] \in IoThreads
           /\ ppc[ring[q][i]] = "commit" /\ target[ring[q][i]] = q

\* Why a job finishes
Finishing == \A q \in Queues : finish[q] => m_stop[q] \/ expired[q]

\* A job that completed because it was told to has left nothing.
Completed ==
    \A q \in Queues : m_state[q] = "COMPLETE" /\ ~expired[q]
                        => m_stop[q] /\ ring[q] = <<>>

Control == Gates /\ Live /\ Passed

\* The inductive invariant.
IInv ==
    /\ Types /\ RefExact /\ Control
    /\ Places /\ Finishing /\ Completed /\ NothingDuplicated

-----------------------------------------------------------------------------
\* Init establishes the invariant.
LEMMA InitIInv == Init => IInv
<1> SUFFICES ASSUME Init PROVE IInv
  OBVIOUS
<1>1. 0 \in Queues
  BY QueuesAssumption DEF Queues
<1>2. Types
  <2>1. /\ traceStopping \in [Queues -> BOOLEAN] /\ m_stop \in [Queues -> BOOLEAN]
        /\ finish \in [Queues -> BOOLEAN] /\ expired \in [Queues -> BOOLEAN]
    BY Zenon DEF Init
  <2>2. ring \in [Queues -> Seq(IoThreads \cup {Done})]
    BY DEF Init
  <2> QED
    BY <1>1, <2>1, <2>2 DEF Init, Types, MgrPlaces, IoPlaces, JobState
<1>3. RefExact
  <2>1. \A q \in Queues : Inside(q) = {} /\ tracingRef[q] = 0
    BY DEF Init, Inside
  <2> QED
    BY <2>1, FS_EmptySet DEF RefExact
<1>4. Control
  BY DEF Init, Control, Gates, Live, Passed, InPush
<1>5. Places /\ Finishing /\ Completed
  BY DEF Init, Places, Finishing, Completed
<1>6. NothingDuplicated
  BY DEF Init, NothingDuplicated
<1> QED
  BY <1>2, <1>3, <1>4, <1>5, <1>6 DEF IInv

\* IOTracePluginC::push addresses a queue that exists.
LEMMA QueueExists == \A id \in IoQueueIds : queueOf(id) \in Queues
<1> SUFFICES ASSUME NEW id \in IoQueueIds PROVE queueOf(id) \in Queues
  OBVIOUS
<1>1. id \in Nat /\ id # QueueCount /\ QueueCount \in Nat \ {0}
  BY QueuesAssumption
<1>2. id % QueueCount \in 0..(QueueCount - 1)
  BY <1>1
<1> QED
  BY <1>1, <1>2 DEF queueOf, Queues

\* What no job touches
LEMMA JobsLeave ==
    ASSUME NEW q \in Queues, Job(q) \/ SpuriousWakeup(q) \/ SerializeFails(q)
    PROVE  UNCHANGED <<mpc, mq, jobs, traceStopping, tracingRef, m_stop, lost,
                       ppc, target, pushed>>
BY DEF Job, DoWork, Wait, SpuriousWakeup, WaitReturns, WaitTimesOut,
       SerializeEvent, SerializeFails, EndDrain, gateVars, ioVars

\* What no IO thread touches
LEMMA IoLeaves ==
    ASSUME NEW t \in IoThreads,
           IsTracingActive(t) \/ Push(t) \/ \E id \in IoQueueIds : PushEnter(t, id)
    PROVE  UNCHANGED <<mpc, mq, jobs, traceStopping, m_stop, m_state, finish,
                       m_traceCount, expired>>
BY DEF IsTracingActive, Push, PushEnter, PushCheck, PushTrace, PushReserve,
       PushCommit, PushTrigger, PushLeave, IoUnchanged, gateVars

-----------------------------------------------------------------------------
(* The counters of references.                                             *)

\* Only PushEnter and PushLeave take a thread in and out.
LEMMA RefKept ==
    ASSUME IsFiniteSet(IoThreads), Types, RefExact, [Next]_vars
    PROVE  RefExact'
<1>1. ASSUME NEW q \in Queues
      PROVE  IsFiniteSet(Inside(q)) /\ Cardinality(Inside(q)) \in Nat
  BY FS_Subset, FS_CardinalityType DEF Inside
<1>2. CASE UNCHANGED <<tracingRef, ppc, target>>
  BY <1>2 DEF RefExact, Inside
<1>3. ASSUME NEW t \in IoThreads, NEW id \in IoQueueIds, PushEnter(t, id) PROVE RefExact'
  <2> DEFINE p == queueOf(id)
  <2>1. /\ p \in Queues /\ ppc[t] \in {"idle", "call"}
        /\ ppc' = [ppc EXCEPT ![t] = "check"] /\ target' = [target EXCEPT ![t] = p]
        /\ tracingRef' = [tracingRef EXCEPT ![p] = @ + 1]
    BY <1>3, QueueExists DEF PushEnter, MoveIo
  <2> HIDE DEF p
  <2>2. /\ Inside(p)' = Inside(p) \cup {t} /\ t \notin Inside(p)
        /\ \A q \in Queues : q # p => Inside(q)' = Inside(q)
    BY <2>1 DEF Inside, Types
  <2>3. Cardinality(Inside(p)') = Cardinality(Inside(p)) + 1
    BY <1>1, <2>1, <2>2, FS_AddElement
  <2> QED
    BY <2>1, <2>2, <2>3 DEF RefExact, Types
<1>4. ASSUME NEW t \in IoThreads, PushLeave(t) PROVE RefExact'
  <2> PICK p \in Queues : p = target[t]
    BY DEF Types
  <2>1. /\ ppc[t] = "leave"
        /\ ppc' = [ppc EXCEPT ![t] = "idle"] /\ target' = [target EXCEPT ![t] = 0]
        /\ tracingRef' = [tracingRef EXCEPT ![p] = @ - 1]
    BY <1>4 DEF PushLeave, MoveIo, Types
  <2>2. /\ Inside(p)' = Inside(p) \ {t} /\ t \in Inside(p)
        /\ \A q \in Queues : q # p => Inside(q)' = Inside(q)
    BY <2>1 DEF Inside, Types
  <2>3. Cardinality(Inside(p)') = Cardinality(Inside(p)) - 1
    BY <1>1, <2>1, <2>2, FS_RemoveElement
  <2> QED
    BY <2>1, <2>2, <2>3 DEF RefExact, Types
<1>5. ASSUME NEW t \in IoThreads,
             \/ IsTracingActive(t) \/ PushCheck(t) \/ PushTrace(t) \/ PushReserve(t)
             \/ PushCommit(t) \/ PushTrigger(t)
      PROVE  RefExact'
  <2>1. PICK l : ppc' = [ppc EXCEPT ![t] = l] /\ (ppc[t] = "idle" => l = "call")
                 /\ (ppc[t] # "idle" => ppc[t] # "call" /\ l \notin {"idle", "call"})
    BY <1>5 DEF IsTracingActive, PushCheck, PushTrace, PushReserve, PushCommit,
                PushTrigger, MoveIo
  <2>2. target' = target /\ tracingRef' = tracingRef
    BY <1>5 DEF IsTracingActive, PushCheck, PushTrace, PushReserve, PushCommit, PushTrigger
  <2>3. \A q \in Queues : Inside(q)' = Inside(q)
    BY <2>1, <2>2 DEF Inside, Types
  <2> QED
    BY <2>2, <2>3 DEF RefExact
<1>6. ASSUME StartSession \/ SetupFails \/ Manage PROVE UNCHANGED <<tracingRef, ppc, target>>
  BY <1>6 DEF StartSession, SetupFails, Manage, SetupJob, JobsInitialized, StartTrace,
              EndPolling, CloseGate, PollIdle, PollBusy, StopJobSet, StopJobNotify,
              JoinJobs, ioVars
<1>7. CASE UNCHANGED vars
  BY <1>2, <1>7 DEF vars
<1> QED
  BY <1>2, <1>3, <1>4, <1>5, <1>6, <1>7, JobsLeave DEF Next, Push

-----------------------------------------------------------------------------
(* Types.                                                                  *)

\* A flag that is written stays one.
LEMMA FlagTyped ==
    ASSUME NEW f \in [Queues -> BOOLEAN], NEW q, NEW b \in BOOLEAN
    PROVE  [f EXCEPT ![q] = b] \in [Queues -> BOOLEAN]
BY Zenon

\* A count that goes up stays one, and one that goes down is an integer.
LEMMA CountTyped ==
    ASSUME NEW f \in [Queues -> Nat], NEW q \in Queues
    PROVE  /\ [f EXCEPT ![q] = @ + 1] \in [Queues -> Nat]
           /\ [f EXCEPT ![q] = @ - 1] \in [Queues -> Int]
<1>1. f[q] + 1 \in Nat /\ f[q] - 1 \in Int
  OBVIOUS
<1> QED
  BY <1>1

\* The management thread keeps the types.
LEMMA ManageTypes ==
    ASSUME Types, StartSession \/ SetupFails \/ Manage PROVE Types'
<1>1. QueueCount \in Nat \ {0}
  BY QueuesAssumption
<1>2. CASE StartSession
  <2>1. /\ m_stop' \in [Queues -> BOOLEAN] /\ finish' \in [Queues -> BOOLEAN]
        /\ expired' \in [Queues -> BOOLEAN]
    BY <1>2, Zenon DEF StartSession
  <2>2. ring' \in [Queues -> Seq(IoThreads \cup {Done})]
    BY <1>2 DEF StartSession
  <2>3. UNCHANGED <<traceStopping, tracingRef, ppc, target>>
    BY <1>2 DEF StartSession, gateVars
  <2> QED
    BY <1>1, <1>2, <2>1, <2>2, <2>3 DEF StartSession, Types, MgrPlaces, JobState
<1>3. CASE SetupFails \/ Manage
  <2>1. /\ UNCHANGED <<tracingRef, m_state, finish, expired, ring, lost, m_traceCount,
                       pushed, ppc, target>>
    BY <1>3 DEF SetupFails, Manage, SetupJob, JobsInitialized, StartTrace,
                EndPolling, CloseGate, PollIdle, PollBusy, StopJobSet, StopJobNotify,
                JoinJobs, ioVars, jobVars
  <2>2. mpc' \in MgrPlaces
    BY <1>3 DEF SetupFails, Manage, SetupJob, JobsInitialized, StartTrace,
                EndPolling, CloseGate, PollIdle, PollBusy, StopJobSet, StopJobNotify,
                JoinJobs, Types, MgrPlaces
  <2>3. jobs' \in Nat /\ mq' \in Nat
    BY <1>1, <1>3 DEF SetupFails, Manage, SetupJob, JobsInitialized, StartTrace,
                EndPolling, CloseGate, PollIdle, PollBusy, StopJobSet, StopJobNotify,
                JoinJobs, Types
  <2>4. traceStopping' = traceStopping \/ (\E b \in BOOLEAN : traceStopping' = [traceStopping EXCEPT ![mq] = b])
    BY <1>3, Zenon DEF SetupFails, Manage, SetupJob, JobsInitialized, StartTrace,
                EndPolling, CloseGate, PollIdle, PollBusy, StopJobSet, StopJobNotify,
                JoinJobs, gateVars
  <2>5. m_stop' = m_stop \/ m_stop' = [m_stop EXCEPT ![mq] = TRUE]
    BY <1>3, Zenon DEF SetupFails, Manage, SetupJob, JobsInitialized, StartTrace,
                EndPolling, CloseGate, PollIdle, PollBusy, StopJobSet, StopJobNotify,
                JoinJobs, jobVars
  <2>6. traceStopping' \in [Queues -> BOOLEAN] /\ m_stop' \in [Queues -> BOOLEAN]
    BY <2>4, <2>5, FlagTyped, Zenon DEF Types
  <2> QED
    BY <2>1, <2>2, <2>3, <2>6 DEF Types
<1> QED
  BY <1>2, <1>3

\* A job keeps the types.
LEMMA JobTypes ==
    ASSUME Types, NEW q \in Queues, Job(q) \/ SpuriousWakeup(q) \/ SerializeFails(q)
    PROVE  Types'
<1>1. m_state' = m_state \/ (\E s \in JobState : m_state' = [m_state EXCEPT ![q] = s])
  BY DEF Job, DoWork, Wait, SpuriousWakeup, WaitReturns, WaitTimesOut,
         SerializeEvent, SerializeFails, EndDrain, JobState
<1>2. /\ finish' = finish \/ (\E b \in BOOLEAN : finish' = [finish EXCEPT ![q] = b])
      /\ expired' = expired \/ expired' = [expired EXCEPT ![q] = TRUE]
  <2>1. m_stop[q] \in BOOLEAN
    BY Zenon DEF Types
  <2> QED
    BY <2>1, Zenon DEF Job, DoWork, Wait, SpuriousWakeup, WaitReturns, WaitTimesOut,
         SerializeEvent, SerializeFails, EndDrain
<1>3. finish' \in [Queues -> BOOLEAN] /\ expired' \in [Queues -> BOOLEAN]
  <2>1. finish \in [Queues -> BOOLEAN] /\ expired \in [Queues -> BOOLEAN]
    BY Zenon DEF Types
  <2>2. finish' \in [Queues -> BOOLEAN]
    BY <1>2, <2>1, FlagTyped, Zenon
  <2>3. expired' \in [Queues -> BOOLEAN]
    BY <1>2, <2>1, FlagTyped, Zenon
  <2> QED
    BY <2>2, <2>3
<1>4. /\ ring' = ring \/ (ring[q] # <<>> /\ ring' = [ring EXCEPT ![q] = Tail(@)])
      /\ m_traceCount' = m_traceCount \/ m_traceCount' = [m_traceCount EXCEPT ![q] = @ + 1]
  BY DEF Job, DoWork, Wait, SpuriousWakeup, WaitReturns, WaitTimesOut,
         SerializeEvent, SerializeFails, EndDrain, HeadReady
<1>5. /\ ring' \in [Queues -> Seq(IoThreads \cup {Done})]
      /\ m_traceCount' \in [Queues -> Nat] /\ m_state' \in [Queues -> JobState]
  <2>1. ring' \in [Queues -> Seq(IoThreads \cup {Done})]
    <3>1. CASE ring' = ring
      BY <3>1 DEF Types
    <3>2. CASE ring[q] # <<>> /\ ring' = [ring EXCEPT ![q] = Tail(@)]
      <4>1. ring[q] \in Seq(IoThreads \cup {Done}) /\ ring[q] # <<>>
        BY <3>2 DEF Types
      <4>2. Tail(ring[q]) \in Seq(IoThreads \cup {Done})
        BY <4>1
      <4> QED
        BY <3>2, <4>2 DEF Types
    <3> QED
      BY <1>4, <3>1, <3>2
  <2>2. m_traceCount' \in [Queues -> Nat]
    <3>1. m_traceCount \in [Queues -> Nat]
      BY DEF Types
    <3>2. [m_traceCount EXCEPT ![q] = @ + 1] \in [Queues -> Nat]
      BY <3>1, CountTyped
    <3> QED
      BY <1>4, <3>1, <3>2
  <2>3. m_state' \in [Queues -> JobState]
    BY <1>1 DEF Types
  <2> QED
    BY <2>1, <2>2, <2>3
<1> QED
  BY <1>3, <1>5, JobsLeave DEF Types

\* An IO thread keeps the types.
LEMMA IoTypes ==
    ASSUME IsFiniteSet(IoThreads), Types, RefExact', NEW t \in IoThreads,
           IsTracingActive(t) \/ Push(t) \/ \E id \in IoQueueIds : PushEnter(t, id)
    PROVE  Types'
<1>1. ppc' \in [IoThreads -> IoPlaces]
  BY DEF IsTracingActive, Push, PushEnter, PushCheck, PushTrace, PushReserve,
         PushCommit, PushTrigger, PushLeave, MoveIo, Types, IoPlaces
<1>2. target' = target \/ (\E q \in Queues : target' = [target EXCEPT ![t] = q])
  <2>1. 0 \in Queues
    BY QueuesAssumption DEF Queues
  <2> QED
    BY <2>1, QueueExists DEF IsTracingActive, Push, PushEnter, PushCheck, PushTrace,
         PushReserve, PushCommit, PushTrigger, PushLeave
<1>3. target[t] \in Queues /\ target' \in [IoThreads -> Queues]
  BY <1>2 DEF Types
<1>4. tracingRef' \in [Queues -> Nat]
  <2>1. \/ tracingRef' = tracingRef
        \/ \E q \in Queues : tracingRef' = [tracingRef EXCEPT ![q] = @ + 1]
        \/ \E q \in Queues : tracingRef' = [tracingRef EXCEPT ![q] = @ - 1]
    BY <1>3, QueueExists DEF IsTracingActive, Push, PushEnter, PushCheck, PushTrace,
         PushReserve, PushCommit, PushTrigger, PushLeave
  <2>2. tracingRef' \in [Queues -> Int]
    <3>1. tracingRef \in [Queues -> Nat] /\ tracingRef \in [Queues -> Int]
      BY DEF Types
    <3> QED
      BY <2>1, <3>1, CountTyped
  <2>3. \A q \in Queues : tracingRef'[q] \in Nat
    BY FS_Subset, FS_CardinalityType DEF RefExact, Inside
  <2> QED
    BY <2>2, <2>3
<1>5. ring' \in [Queues -> Seq(IoThreads \cup {Done})]
  <2>1. CASE ring' = ring
    BY <2>1 DEF Types
  <2>2. CASE ring' = [ring EXCEPT ![target[t]] = Append(@, t)]
    BY <1>3, <2>2 DEF Types
  <2>3. CASE PushCommit(t)
    <3> DEFINE s == ring[target[t]]
               c == [i \in DOMAIN s |-> IF s[i] = t THEN Done ELSE s[i]]
    <3>1. s \in Seq(IoThreads \cup {Done})
      BY <1>3 DEF Types
    <3>2. c \in [1..Len(s) -> IoThreads \cup {Done}] /\ Len(s) \in Nat
      BY <3>1
    <3>3. c \in Seq(IoThreads \cup {Done})
      BY <3>2
    <3>4. ring' = [ring EXCEPT ![target[t]] = c]
      BY <2>3 DEF PushCommit
    <3> HIDE DEF c
    <3> QED
      BY <1>3, <3>3, <3>4 DEF Types
  <2> QED
    BY <2>1, <2>2, <2>3 DEF IsTracingActive, Push, PushEnter, PushCheck, PushTrace,
         PushReserve, PushTrigger, PushLeave
<1>6. lost' \in [Queues -> Nat] /\ pushed' \in [Queues -> Nat]
  <2>1. /\ lost' = lost \/ lost' = [lost EXCEPT ![target[t]] = @ + 1]
        /\ pushed' = pushed \/ pushed' = [pushed EXCEPT ![target[t]] = @ + 1]
    BY DEF IsTracingActive, Push, PushEnter, PushCheck, PushTrace, PushReserve,
           PushCommit, PushTrigger, PushLeave
  <2> QED
    <3>1. lost \in [Queues -> Nat] /\ pushed \in [Queues -> Nat]
      BY DEF Types
    <3>2. /\ [lost EXCEPT ![target[t]] = @ + 1] \in [Queues -> Nat]
          /\ [pushed EXCEPT ![target[t]] = @ + 1] \in [Queues -> Nat]
      BY <1>3, <3>1, CountTyped
    <3> QED
      BY <2>1, <3>1, <3>2
<1> QED
  BY <1>1, <1>3, <1>4, <1>5, <1>6, IoLeaves DEF Types

-----------------------------------------------------------------------------
(* The gates and the jobs behind them.                                     *)

\* startTrace and stopTrace move one gate at a time.
LEMMA ManageControl ==
    ASSUME IsFiniteSet(IoThreads), Types, RefExact, Control,
           StartSession \/ SetupFails \/ Manage
    PROVE  Control'
<1> USE DEF Control, Gates, Live, Passed, InPush
<1>1. QueueCount \in Nat \ {0} /\ Queues = 0..(QueueCount - 1)
  BY QueuesAssumption DEF Queues
<1>2. UNCHANGED <<ppc, target>>
  BY DEF StartSession, SetupFails, Manage, SetupJob, JobsInitialized, StartTrace,
         EndPolling, CloseGate, PollIdle, PollBusy, StopJobSet, StopJobNotify,
         JoinJobs, ioVars
<1>3. CASE StartSession
  BY <1>2, <1>3 DEF StartSession, gateVars
<1>4. CASE SetupJob
  BY <1>2, <1>4 DEF SetupJob, gateVars
<1>5. CASE SetupFails \/ JoinJobs \/ StopJobNotify
  BY <1>2, <1>5 DEF SetupFails, JoinJobs, StopJobNotify, gateVars
<1>6. CASE StopJobSet
  BY <1>2, <1>6 DEF StopJobSet, gateVars
<1>7. CASE JobsInitialized
  BY <1>2, <1>7 DEF JobsInitialized, jobVars
<1>8. CASE StartTrace
  <2>1. /\ mpc = "start" /\ mpc' \in {"start", "run"} /\ mq' = mq + 1
        /\ traceStopping' = [traceStopping EXCEPT ![mq] = FALSE]
        /\ UNCHANGED <<jobs, m_stop, m_state>>
    BY <1>8 DEF StartTrace, jobVars
  <2>2. ASSUME NEW q \in Queues, q >= mq + 1 PROVE traceStopping'[q] = traceStopping[q] /\ q >= mq
    <3>1. q # mq /\ q >= mq
      BY <1>1, <2>2 DEF Types
    <3>2. traceStopping'[q] = traceStopping[q]
      BY <2>1, <3>1, Zenon DEF Types
    <3> QED
      BY <3>1, <3>2
  <2> QED
    BY <1>2, <2>1, <2>2
<1>9. CASE EndPolling
  BY <1>1, <1>2, <1>9 DEF EndPolling, jobVars
<1>10. CASE CloseGate
  <2>1. /\ mpc = "stop" /\ UNCHANGED <<jobs, m_stop, m_state>>
        /\ traceStopping' = [traceStopping EXCEPT ![mq] = TRUE]
        /\ IF mq + 1 = QueueCount THEN mpc' = "poll" /\ mq' = 0
                                  ELSE mpc' = "stop" /\ mq' = mq + 1
    BY <1>10 DEF CloseGate, jobVars
  <2>2. \A q \in Queues : q < mq + 1 => traceStopping'[q]
    <3>1. \A q \in Queues : q < mq + 1 => q = mq \/ q < mq
      BY <1>1 DEF Types
    <3>2. \A q \in Queues : q < mq => traceStopping[q]
      BY <2>1
    <3>3. \A q \in Queues : q = mq \/ traceStopping[q] => traceStopping'[q]
      BY <2>1, Zenon DEF Types
    <3> QED
      BY <3>1, <3>2, <3>3
  <2>3. \A t \in IoThreads : target[t] >= 0
    BY <1>1 DEF Types
  <2> QED
    <3>1. CASE mq + 1 = QueueCount
      <4>1. mpc' = "poll" /\ mq' = 0
        BY <2>1, <3>1
      <4>2. \A q \in Queues : q < mq + 1
        BY <1>1, <3>1 DEF Types
      <4>3. \A q \in Queues : traceStopping'[q]
        BY <2>2, <4>2
      <4> QED
        BY <1>2, <2>1, <2>3, <4>1, <4>3
    <3>2. CASE mq + 1 # QueueCount
      <4>1. mpc' = "stop" /\ mq' = mq + 1
        BY <2>1, <3>2
      <4> QED
        BY <1>2, <2>1, <2>2, <4>1
    <3> QED
      BY <3>1, <3>2
<1>11. CASE PollIdle
  <2>1. /\ mpc = "poll" /\ tracingRef[mq] = 0
        /\ UNCHANGED <<jobs, m_stop, m_state, traceStopping>>
        /\ IF mq + 1 = QueueCount THEN mpc' = "stopjobs" /\ mq' = 0
                                  ELSE mpc' = "poll" /\ mq' = mq + 1
    BY <1>11 DEF PollIdle, jobVars, gateVars
  <2>2. ASSUME NEW t \in IoThreads, InPush(t) PROVE target[t] >= mq + 1
    <3>1. target[t] \in Queues /\ target[t] >= mq
      BY <2>1, <2>2 DEF Types
    <3>2. IsFiniteSet(Inside(target[t])) /\ t \in Inside(target[t])
      BY <2>2, <3>1, FS_Subset DEF Inside
    <3>3. tracingRef[target[t]] # 0
      BY <3>1, <3>2, FS_EmptySet DEF RefExact
    <3>4. target[t] # mq
      BY <2>1, <3>3
    <3> QED
      BY <1>1, <3>1, <3>4 DEF Types
  <2>3. mq + 1 = QueueCount => \A t \in IoThreads : ~InPush(t)
    BY <1>1, <2>2 DEF Types
  <2> QED
    BY <1>2, <2>1, <2>2, <2>3
<1>12. CASE PollBusy
  <2>1. \A t \in IoThreads : target[t] >= 0
    BY <1>1 DEF Types
  <2> QED
    BY <1>2, <1>12, <2>1 DEF PollBusy, jobVars, gateVars
<1> QED
  BY <1>3, <1>4, <1>5, <1>6, <1>7, <1>8, <1>9, <1>10, <1>11, <1>12 DEF Manage

\* A job that runs does not go back.
LEMMA JobControl ==
    ASSUME Types, Control, NEW q \in Queues,
           Job(q) \/ SpuriousWakeup(q) \/ SerializeFails(q)
    PROVE  Control'
<1>1. \A p \in Queues : m_state[p] # "NOT_STARTED" => m_state'[p] # "NOT_STARTED"
  BY DEF Types, Job, DoWork, Wait, SpuriousWakeup, WaitReturns, WaitTimesOut,
         SerializeEvent, SerializeFails, EndDrain
<1> QED
  BY <1>1, JobsLeave DEF Control, Gates, Live, Passed, InPush

\* A thread passes a gate that is open only.
LEMMA IoControl ==
    ASSUME Types, Control, NEW t \in IoThreads,
           IsTracingActive(t) \/ Push(t) \/ \E id \in IoQueueIds : PushEnter(t, id)
    PROVE  Control'
<1>1. \A s \in IoThreads : s # t => ppc'[s] = ppc[s] /\ target'[s] = target[s]
  BY DEF IsTracingActive, Push, PushEnter, PushCheck, PushTrace, PushReserve,
         PushCommit, PushTrigger, PushLeave, MoveIo, Types
<1>2. ASSUME InPush(t)' PROVE InPush(t) \/ (~traceStopping[target[t]] /\ ppc[t] = "check")
  BY <1>2 DEF IsTracingActive, Push, PushEnter, PushCheck, PushTrace, PushReserve,
         PushCommit, PushTrigger, PushLeave, MoveIo, InPush, Types
<1>3. ASSUME InPush(t)' PROVE target' = target
  BY <1>3 DEF IsTracingActive, Push, PushEnter, PushCheck, PushTrace, PushReserve,
         PushCommit, PushTrigger, PushLeave, MoveIo, InPush, Types
<1>4. ASSUME ~traceStopping[target[t]] PROVE mpc \in {"start", "run", "stop"}
  BY <1>4 DEF Control, Gates, Types, MgrPlaces
<1> QED
  BY <1>1, <1>2, <1>3, <1>4, IoLeaves DEF Control, Gates, Live, Passed, InPush

-----------------------------------------------------------------------------
(* The events of a session.                                                *)

\* A commit completes the places of its thread and keeps all others.
LEMMA CommitLen ==
    ASSUME Types, NEW t \in IoThreads, PushCommit(t), NEW q \in Queues
    PROVE  /\ Len(ring'[q]) = Len(ring[q])
           /\ q # target[t] => ring'[q] = ring[q]
           /\ q = target[t] => \A i \in 1..Len(ring[q]) :
                ring'[q][i] = IF ring[q][i] = t THEN Done ELSE ring[q][i]
<1> DEFINE c == [i \in DOMAIN ring[q] |-> IF ring[q][i] = t THEN Done ELSE ring[q][i]]
<1>1. ring[q] \in Seq(IoThreads \cup {Done})
  BY DEF Types
<1>2. /\ c \in [1..Len(ring[q]) -> IoThreads \cup {Done}] /\ Len(ring[q]) \in Nat
      /\ \A i \in 1..Len(ring[q]) : c[i] = IF ring[q][i] = t THEN Done ELSE ring[q][i]
  BY <1>1
<1>3. c \in Seq(IoThreads \cup {Done}) /\ Len(c) = Len(ring[q])
  BY <1>2
<1>4. /\ q = target[t] => ring'[q] = c
      /\ q # target[t] => ring'[q] = ring[q]
  BY DEF PushCommit, Types
<1> HIDE DEF c
<1> QED
  BY <1>2, <1>3, <1>4

\* Each event is counted where it is.
LEMMA AccountsKept ==
    ASSUME Types, NothingDuplicated, [Next]_vars PROVE NothingDuplicated'
<1>1. CASE UNCHANGED <<pushed, m_traceCount, lost, ring>>
  BY <1>1 DEF NothingDuplicated
<1>2. CASE StartSession
  BY <1>2 DEF StartSession, NothingDuplicated
<1>3. ASSUME NEW q \in Queues, SerializeEvent(q) PROVE NothingDuplicated'
  <2>1. /\ ring' = [ring EXCEPT ![q] = Tail(@)] /\ ring[q] # <<>>
        /\ m_traceCount' = [m_traceCount EXCEPT ![q] = @ + 1]
        /\ UNCHANGED <<lost, pushed>>
    BY <1>3 DEF SerializeEvent, HeadReady, ioVars
  <2>2. ring[q] \in Seq(IoThreads \cup {Done})
    BY DEF Types
  <2>3. Len(Tail(ring[q])) = Len(ring[q]) - 1 /\ Len(ring[q]) \in Nat
    BY <2>1, <2>2
  <2>4. \A p \in Queues : p # q => ring'[p] = ring[p] /\ m_traceCount'[p] = m_traceCount[p]
    BY <2>1 DEF Types
  <2>5. ring'[q] = Tail(ring[q]) /\ m_traceCount'[q] = m_traceCount[q] + 1
    BY <2>1 DEF Types
  <2> QED
    BY <2>1, <2>3, <2>4, <2>5 DEF NothingDuplicated, Types
<1>4. ASSUME NEW t \in IoThreads, PushReserve(t) PROVE NothingDuplicated'
  <2> PICK q \in Queues : q = target[t]
    BY DEF Types
  <2>1. /\ pushed' = [pushed EXCEPT ![q] = @ + 1] /\ m_traceCount' = m_traceCount
        /\ \/ ring' = [ring EXCEPT ![q] = Append(@, t)] /\ lost' = lost
           \/ lost' = [lost EXCEPT ![q] = @ + 1] /\ ring' = ring
    BY <1>4 DEF PushReserve, IoUnchanged
  <2>2. ring[q] \in Seq(IoThreads \cup {Done})
    BY DEF Types
  <2>3. Len(Append(ring[q], t)) = Len(ring[q]) + 1 /\ Len(ring[q]) \in Nat
    BY <2>2
  <2>4. \A p \in Queues : p # q => /\ ring'[p] = ring[p] /\ lost'[p] = lost[p]
                                   /\ pushed'[p] = pushed[p]
    BY <2>1 DEF Types
  <2>5. /\ pushed'[q] = pushed[q] + 1
        /\ \/ ring'[q] = Append(ring[q], t) /\ lost'[q] = lost[q]
           \/ ring'[q] = ring[q] /\ lost'[q] = lost[q] + 1
    BY <2>1 DEF Types
  <2>6. ASSUME NEW p \in Queues
        PROVE  pushed'[p] = m_traceCount'[p] + lost'[p] + Len(ring'[p])
    <3> DEFINE a == pushed[p]        a2 == pushed'[p]
               b == m_traceCount[p]  b2 == m_traceCount'[p]
               c == lost[p]          c2 == lost'[p]
               d == Len(ring[p])     d2 == Len(ring'[p])
    <3>1. /\ a \in Nat /\ b \in Nat /\ c \in Nat
          /\ a = b + c + d
      BY DEF NothingDuplicated, Types
    <3>2. d \in Nat
      BY DEF Types
    <3>3. CASE p = q
      <4>1. a2 = a + 1 /\ b2 = b
        BY <2>1, <2>5, <3>3
      <4>2. \/ c2 = c /\ d2 = d + 1
            \/ c2 = c + 1 /\ d2 = d
        BY <2>3, <2>5, <3>3
      <4> HIDE DEF a, b, c, d, a2, b2, c2, d2
      <4>3. a2 = b2 + c2 + d2
        BY <3>1, <3>2, <4>1, <4>2
      <4> QED
        BY <4>3 DEF a2, b2, c2, d2
    <3>4. CASE p # q
      BY <2>1, <2>4, <3>1, <3>4
    <3> QED
      BY <3>3, <3>4
  <2> QED
    BY <2>6 DEF NothingDuplicated
<1>5. ASSUME NEW t \in IoThreads, PushCommit(t) PROVE NothingDuplicated'
  <2>1. /\ UNCHANGED <<pushed, m_traceCount, lost>>
        /\ \A q \in Queues : Len(ring'[q]) = Len(ring[q])
    BY <1>5, CommitLen DEF PushCommit, IoUnchanged
  <2> QED
    BY <2>1 DEF NothingDuplicated
<1>6. CASE SetupFails \/ Manage
  BY <1>1, <1>6 DEF SetupFails, Manage, SetupJob, JobsInitialized, StartTrace,
              EndPolling, CloseGate, PollIdle, PollBusy, StopJobSet, StopJobNotify,
              JoinJobs, ioVars, jobVars
<1>7. ASSUME NEW q \in Queues, Job(q) \/ SpuriousWakeup(q) \/ SerializeFails(q)
      PROVE  NothingDuplicated'
  BY <1>1, <1>3, <1>7 DEF Job, DoWork, Wait, SpuriousWakeup, WaitReturns, WaitTimesOut,
         SerializeFails, EndDrain, ioVars
<1>8. ASSUME NEW t \in IoThreads,
             IsTracingActive(t) \/ Push(t) \/ \E id \in IoQueueIds : PushEnter(t, id)
      PROVE  NothingDuplicated'
  BY <1>1, <1>4, <1>5, <1>8 DEF IsTracingActive, Push, PushEnter, PushCheck, PushTrace,
         PushTrigger, PushLeave, IoUnchanged
<1>9. CASE UNCHANGED vars
  BY <1>1, <1>9 DEF vars
<1> QED
  BY <1>2, <1>6, <1>7, <1>8, <1>9 DEF Next

\* A place belongs to the thread that reserved it until that thread commits.
LEMMA PlacesKept ==
    ASSUME Types, Places, [Next]_vars PROVE Places'
<1>1. \A q \in Queues : ring[q] \in Seq(IoThreads \cup {Done})
  BY DEF Types
<1>2. CASE UNCHANGED <<ring, ppc, target>>
  BY <1>2 DEF Places
<1>3. CASE StartSession
  BY <1>3 DEF StartSession, Places
<1>4. ASSUME NEW q \in Queues, SerializeEvent(q) PROVE Places'
  <2>1. /\ ring' = [ring EXCEPT ![q] = Tail(@)] /\ ring[q] # <<>>
        /\ UNCHANGED <<ppc, target>>
    BY <1>4 DEF SerializeEvent, HeadReady, ioVars
  <2>2. /\ ring'[q] = Tail(ring[q])
        /\ \A p \in Queues : p # q => ring'[p] = ring[p]
    BY <2>1 DEF Types
  <2>3. \A i \in 1..Len(ring'[q]) : i + 1 \in 1..Len(ring[q]) /\ ring'[q][i] = ring[q][i + 1]
    <3>1. ring[q] \in Seq(IoThreads \cup {Done}) /\ ring[q] # <<>>
      BY <1>1, <2>1
    <3>2. Len(Tail(ring[q])) = Len(ring[q]) - 1 /\ Len(ring[q]) \in Nat
      BY <3>1
    <3>3. \A i \in 1..Len(Tail(ring[q])) : Tail(ring[q])[i] = ring[q][i + 1]
      BY <3>1
    <3> QED
      BY <2>2, <3>2, <3>3
  <2> QED
    BY <2>1, <2>2, <2>3 DEF Places
<1>5. ASSUME NEW t \in IoThreads, PushReserve(t) PROVE Places'
  <2> PICK q \in Queues : q = target[t]
    BY DEF Types
  <2>1. /\ target' = target /\ ppc[t] = "reserve"
        /\ \/ ring' = [ring EXCEPT ![q] = Append(@, t)] /\ ppc' = [ppc EXCEPT ![t] = "commit"]
           \/ ring' = ring /\ ppc' = [ppc EXCEPT ![t] = "leave"]
    BY <1>5 DEF PushReserve, MoveIo
  <2>2. \A s \in IoThreads : s # t => ppc'[s] = ppc[s]
    BY <2>1 DEF Types
  <2>3. CASE ring' = ring
    BY <2>1, <2>2, <2>3 DEF Places
  <2>4. CASE ring' = [ring EXCEPT ![q] = Append(@, t)] /\ ppc' = [ppc EXCEPT ![t] = "commit"]
    <3>1. /\ \A p \in Queues : p # q => ring'[p] = ring[p]
          /\ ring'[q] = Append(ring[q], t) /\ ppc'[t] = "commit"
      BY <2>4 DEF Types
    <3>2. \A i \in 1..Len(ring'[q]) :
            ring'[q][i] = t \/ (i \in 1..Len(ring[q]) /\ ring'[q][i] = ring[q][i])
      BY <1>1, <3>1
    <3>3. ASSUME NEW p \in Queues, NEW i \in 1..Len(ring'[p])
          PROVE  \/ ring'[p][i] = t /\ p = q
                 \/ i \in 1..Len(ring[p]) /\ ring'[p][i] = ring[p][i]
      BY <3>1, <3>2, <3>3
    <3>4. \A s \in IoThreads : ppc[s] = "commit" => ppc'[s] = "commit"
      BY <2>1, <2>2
    <3>5. ASSUME NEW p \in Queues, NEW i \in 1..Len(ring'[p])
          PROVE  \/ ring'[p][i] = Done
                 \/ /\ ring'[p][i] \in IoThreads
                    /\ ppc'[ring'[p][i]] = "commit" /\ target[ring'[p][i]] = p
      <4>1. CASE ring'[p][i] = t /\ p = q
        BY <3>1, <4>1
      <4>2. CASE i \in 1..Len(ring[p]) /\ ring'[p][i] = ring[p][i]
        BY <3>4, <4>2 DEF Places
      <4> QED
        BY <3>3, <3>5, <4>1, <4>2
    <3> QED
      BY <2>1, <3>5 DEF Places
  <2> QED
    BY <2>1, <2>3, <2>4
<1>6. ASSUME NEW t \in IoThreads, PushCommit(t) PROVE Places'
  <2>1. /\ target' = target /\ ppc[t] = "commit"
        /\ \A s \in IoThreads : s # t => ppc'[s] = ppc[s]
    BY <1>6 DEF PushCommit, MoveIo, Types
  <2>2. \A q \in Queues : /\ Len(ring'[q]) = Len(ring[q])
                          /\ q # target[t] => ring'[q] = ring[q]
                          /\ q = target[t] => \A i \in 1..Len(ring[q]) :
                               ring'[q][i] = IF ring[q][i] = t THEN Done ELSE ring[q][i]
    BY <1>6, CommitLen
  <2>3. ASSUME NEW q \in Queues, NEW i \in 1..Len(ring'[q])
        PROVE  \/ ring'[q][i] = Done
               \/ /\ ring'[q][i] = ring[q][i] /\ ring[q][i] # t
                  /\ ring[q][i] \in IoThreads
                  /\ ppc[ring[q][i]] = "commit" /\ target[ring[q][i]] = q
    <3>1. i \in 1..Len(ring[q])
      BY <2>2, <2>3
    <3> QED
      BY <2>2, <3>1 DEF Places
  <2> QED
    BY <2>1, <2>3 DEF Places
<1>7. ASSUME NEW t \in IoThreads,
             \/ IsTracingActive(t) \/ PushCheck(t) \/ PushTrace(t) \/ PushTrigger(t)
             \/ PushLeave(t) \/ \E id \in IoQueueIds : PushEnter(t, id)
      PROVE  Places'
  <2>1. ring' = ring /\ ppc[t] # "commit"
    BY <1>7 DEF IsTracingActive, PushCheck, PushTrace, PushTrigger, PushLeave, PushEnter
  <2>2. \A s \in IoThreads : s # t => ppc'[s] = ppc[s] /\ target'[s] = target[s]
    BY <1>7 DEF IsTracingActive, PushCheck, PushTrace, PushTrigger, PushLeave, PushEnter,
                MoveIo, Types
  <2> QED
    BY <2>1, <2>2 DEF Places
<1>8. CASE SetupFails \/ Manage
  BY <1>2, <1>8 DEF SetupFails, Manage, SetupJob, JobsInitialized, StartTrace,
              EndPolling, CloseGate, PollIdle, PollBusy, StopJobSet, StopJobNotify,
              JoinJobs, ioVars
<1>9. ASSUME NEW q \in Queues, Job(q) \/ SpuriousWakeup(q) \/ SerializeFails(q)
      PROVE  Places'
  BY <1>2, <1>4, <1>9 DEF Job, DoWork, Wait, SpuriousWakeup, WaitReturns, WaitTimesOut,
         SerializeFails, EndDrain, ioVars
<1>10. CASE UNCHANGED vars
  BY <1>2, <1>10 DEF vars
<1> QED
  BY <1>3, <1>5, <1>6, <1>7, <1>8, <1>9, <1>10 DEF Next, Push

-----------------------------------------------------------------------------
(* What a finished job leaves.                                             *)

\* A job that was told to stop finds no event that is not ready.
LEMMA StoppedIsDone ==
    ASSUME Types, Control, Places, NEW q \in Queues, m_stop[q], ~HeadReady(q)
    PROVE  ring[q] = <<>>
<1>1. mpc \notin {"setup", "start", "run", "stop", "poll"}
  BY DEF Control, Live
<1>2. \A t \in IoThreads : ppc[t] # "commit"
  BY <1>1 DEF Control, Passed, InPush
<1>3. ASSUME ring[q] # <<>> PROVE FALSE
  <2>1. Len(ring[q]) > 0 /\ Head(ring[q]) = ring[q][1] /\ 1 \in 1..Len(ring[q])
    BY <1>3 DEF Types
  <2>2. ring[q][1] = Done
    BY <1>2, <2>1 DEF Places
  <2> QED
    BY <1>3, <2>1, <2>2 DEF HeadReady
<1> QED
  BY <1>3

\* Finishing and Completed, step by step
LEMMA FinishKept ==
    ASSUME Types, Control, Places, Finishing, Completed, [Next]_vars
    PROVE  Finishing' /\ Completed'
<1>1. CASE UNCHANGED <<m_stop, expired, finish, m_state, ring>>
  BY <1>1 DEF Finishing, Completed
<1>2. CASE StartSession
  BY <1>2 DEF StartSession, Finishing, Completed
<1>3. CASE StopJobSet
  <2>1. \A q \in Queues : m_stop[q] => m_stop'[q]
    BY <1>3, Zenon DEF StopJobSet, Types
  <2>2. UNCHANGED <<expired, finish, m_state, ring>>
    BY <1>3 DEF StopJobSet
  <2> QED
    BY <2>1, <2>2 DEF Finishing, Completed
<1>4. CASE SetupFails \/ Manage
  <2>1. CASE SetupFails \/ SetupJob \/ JobsInitialized \/ StartTrace \/ EndPolling
             \/ CloseGate \/ PollIdle \/ PollBusy \/ StopJobNotify \/ JoinJobs
    BY <1>1, <2>1 DEF SetupFails, SetupJob, JobsInitialized, StartTrace,
              EndPolling, CloseGate, PollIdle, PollBusy, StopJobNotify, JoinJobs, jobVars
  <2> QED
    BY <1>3, <1>4, <2>1 DEF Manage
<1>5. ASSUME NEW q \in Queues, Job(q) \/ SpuriousWakeup(q) \/ SerializeFails(q)
      PROVE  Finishing' /\ Completed'
  <2>1. m_stop' = m_stop
    BY <1>5, JobsLeave
  <2>2. CASE Wait(q) \/ SpuriousWakeup(q)
    BY <1>1, <2>1, <2>2 DEF Wait, SpuriousWakeup
  <2>3. CASE DoWork(q) \/ SerializeFails(q)
    <3>1. /\ UNCHANGED <<expired, finish, ring>>
          /\ m_state'[q] # "COMPLETE" /\ \A p \in Queues : p # q => m_state'[p] = m_state[p]
      BY <2>3 DEF DoWork, SerializeFails, Types
    <3> QED
      BY <2>1, <3>1 DEF Finishing, Completed
  <2>4. CASE WaitReturns(q)
    <3>1. UNCHANGED <<expired, m_state, ring>>
      BY <2>4 DEF WaitReturns
    <3>2. \A p \in Queues : finish'[p] => m_stop[p] \/ finish[p]
      BY <2>4, Zenon DEF WaitReturns, Types
    <3> QED
      BY <2>1, <3>1, <3>2 DEF Finishing, Completed
  <2>5. CASE WaitTimesOut(q)
    <3>1. UNCHANGED <<m_state, ring>>
      BY <2>5 DEF WaitTimesOut
    <3>2. \A p \in Queues : /\ finish'[p] => finish[p] \/ expired'[p]
                            /\ expired[p] => expired'[p]
      BY <2>5, Zenon DEF WaitTimesOut, Types
    <3> QED
      BY <2>1, <3>1, <3>2 DEF Finishing, Completed
  <2>6. CASE SerializeEvent(q)
    <3>1. /\ UNCHANGED <<expired, finish, m_state>> /\ ring[q] # <<>>
          /\ \A p \in Queues : p # q => ring'[p] = ring[p]
      BY <2>6 DEF SerializeEvent, HeadReady, Types
    <3> QED
      BY <2>1, <3>1 DEF Finishing, Completed
  <2>7. CASE EndDrain(q)
    <3>1. /\ UNCHANGED <<expired, finish, ring>> /\ ~HeadReady(q)
          /\ m_state' = m_state \/ (finish[q] /\ m_state' = [m_state EXCEPT ![q] = "COMPLETE"])
      BY <2>7 DEF EndDrain
    <3>2. \A p \in Queues : p # q => m_state'[p] = m_state[p]
      BY <3>1 DEF Types
    <3>3. ASSUME finish[q], ~expired[q] PROVE m_stop[q] /\ ring[q] = <<>>
      <4>1. m_stop[q]
        BY <3>3 DEF Finishing
      <4> QED
        BY <3>1, <4>1, StoppedIsDone
    <3>4. m_state'[q] = "COMPLETE" /\ ~expired[q] => m_stop[q] /\ ring[q] = <<>>
      BY <3>1, <3>3 DEF Completed
    <3> QED
      BY <2>1, <3>1, <3>2, <3>4 DEF Finishing, Completed
  <2> QED
    BY <1>5, <2>2, <2>3, <2>4, <2>5, <2>6, <2>7 DEF Job
<1>6. ASSUME NEW t \in IoThreads,
             IsTracingActive(t) \/ Push(t) \/ \E id \in IoQueueIds : PushEnter(t, id)
      PROVE  Finishing' /\ Completed'
  <2>1. UNCHANGED <<m_stop, expired, finish, m_state>>
    BY <1>6, IoLeaves
  <2>2. CASE ring' = ring
    BY <1>1, <2>1, <2>2
  <2>3. CASE PushReserve(t) \/ PushCommit(t)
    <3>1. InPush(t) /\ target[t] \in Queues
      BY <2>3 DEF PushReserve, PushCommit, InPush, Types
    <3>2. ~m_stop[target[t]]
      BY <3>1 DEF Control, Live, Passed
    <3>3. \A q \in Queues : q # target[t] => ring'[q] = ring[q]
      BY <2>3, <3>1 DEF PushReserve, PushCommit, Types
    <3> QED
      BY <2>1, <3>2, <3>3 DEF Finishing, Completed
  <2> QED
    BY <1>6, <2>2, <2>3 DEF IsTracingActive, Push, PushEnter, PushCheck, PushTrace,
         PushTrigger, PushLeave
<1>7. CASE UNCHANGED vars
  BY <1>1, <1>7 DEF vars
<1> QED
  BY <1>2, <1>4, <1>5, <1>6, <1>7 DEF Next

-----------------------------------------------------------------------------
\* Every step keeps the invariant.
LEMMA StepIInv ==
    ASSUME IsFiniteSet(IoThreads), IInv, [Next]_vars PROVE IInv'
<1>1. RefExact'
  BY RefKept DEF IInv
<1>2. Types' /\ Control'
  <2>1. CASE StartSession \/ SetupFails \/ Manage
    BY <2>1, ManageTypes, ManageControl DEF IInv
  <2>2. ASSUME NEW q \in Queues, Job(q) \/ SpuriousWakeup(q) \/ SerializeFails(q)
        PROVE  Types' /\ Control'
    BY <2>2, JobTypes, JobControl DEF IInv
  <2>3. ASSUME NEW t \in IoThreads,
               IsTracingActive(t) \/ Push(t) \/ \E id \in IoQueueIds : PushEnter(t, id)
        PROVE  Types' /\ Control'
    BY <1>1, <2>3, IoTypes, IoControl DEF IInv
  <2>4. CASE UNCHANGED vars
    BY <2>4 DEF vars, IInv, Types, Control, Gates, Live, Passed, InPush
  <2> QED
    BY <2>1, <2>2, <2>3, <2>4 DEF Next
<1>3. Places' /\ NothingDuplicated' /\ Finishing' /\ Completed'
  BY PlacesKept, AccountsKept, FinishKept DEF IInv
<1> QED
  BY <1>1, <1>2, <1>3 DEF IInv

\* The invariant holds in every reachable state.
THEOREM Invariant == ASSUME IsFiniteSet(IoThreads) PROVE Spec => []IInv
BY InitIInv, StepIInv, PTL DEF Spec

(* While a thread is inside TraceManager::pushTrace its job exists, is        *)
(* initialized and has not been told to stop: the reference counters that     *)
(* isTraceOngoing reads one after the other are enough, for every number of   *)
(* threads and queues, because no thread passes a gate that is closed.        *)
THEOREM LiveJobCorrect ==
    ASSUME IsFiniteSet(IoThreads) PROVE Spec => []PushOnlyIntoLiveJob
<1>1. IInv => PushOnlyIntoLiveJob
  <2>1. QueueCount \in Nat \ {0}
    BY QueuesAssumption
  <2> QED
    BY <2>1 DEF IInv, Types, Control, Live, Passed, PushOnlyIntoLiveJob, Queues
<1> QED
  BY <1>1, Invariant, PTL

(* What was pushed is in the file once, was counted as dropped, or is still   *)
(* in its ring.                                                               *)
THEOREM AccountsCorrect ==
    ASSUME IsFiniteSet(IoThreads) PROVE Spec => []NothingDuplicated
<1>1. IInv => NothingDuplicated
  BY DEF IInv
<1> QED
  BY <1>1, Invariant, PTL

(* When a session was stopped and no job failed or timed out, every event     *)
(* that got a place is in the file: the last drain of consumeTraces runs      *)
(* after the last push.                                                       *)
THEOREM CleanStopCorrect ==
    ASSUME IsFiniteSet(IoThreads) PROVE Spec => []CleanStopLosesNothing
<1>1. IInv => CleanStopLosesNothing
  <2> SUFFICES ASSUME IInv, NEW q \in Queues, m_state[q] = "COMPLETE", ~expired[q]
               PROVE  ring[q] = <<>> /\ pushed[q] = m_traceCount[q] + lost[q]
    BY DEF CleanStopLosesNothing
  <2>1. ring[q] = <<>>
    BY DEF IInv, Completed
  <2>2. pushed[q] = m_traceCount[q] + lost[q] + Len(ring[q]) /\ Len(ring[q]) = 0
    BY <2>1 DEF IInv, NothingDuplicated
  <2> QED
    BY <2>1, <2>2 DEF IInv, Types
<1> QED
  BY <1>1, Invariant, PTL

-----------------------------------------------------------------------------
(* The bounds of TypeOK.                                                   *)

JobPlaces == {"none", "start", "loop", "waiting", "woken", "drain", "done"}

\* The management thread addresses queues and jobs that exist.
Steps ==
    /\ mq <= QueueCount /\ jobs <= QueueCount
    /\ mpc = "notify" => mq < jobs
    /\ mpc = "poll" => mq < QueueCount

\* The threads whose push will count
Coming(q) == {t \in IoThreads : ppc[t] \in {"check", "push", "reserve"} /\ target[t] = q}

Counted == \A q \in Queues : pushed[q] + Cardinality(Coming(q)) <= MaxPushes

Fits == \A q \in Queues : Len(ring[q]) <= RingCap

Bounds ==
    /\ Steps /\ Counted /\ Fits
    /\ tracing_active \in BOOLEAN /\ jpc \in [Queues -> JobPlaces]

\* What comes is inside, and finite.
LEMMA ComingFinite ==
    ASSUME IsFiniteSet(IoThreads), NEW q \in Queues
    PROVE  /\ IsFiniteSet(Coming(q)) /\ Cardinality(Coming(q)) \in Nat
           /\ IsFiniteSet(Inside(q)) /\ Cardinality(Inside(q)) \in Nat
           /\ Cardinality(Coming(q)) <= Cardinality(Inside(q))
<1>1. /\ Coming(q) \in SUBSET IoThreads /\ Inside(q) \in SUBSET IoThreads
      /\ Coming(q) \in SUBSET Inside(q)
  BY DEF Coming, Inside
<1>2. IsFiniteSet(Coming(q)) /\ IsFiniteSet(Inside(q))
  BY <1>1, FS_Subset
<1> QED
  BY <1>1, <1>2, FS_Subset, FS_CardinalityType

\* Init establishes the bounds.
LEMMA InitBounds == Init => Bounds
<1> SUFFICES ASSUME Init PROVE Bounds
  OBVIOUS
<1>1. /\ QueueCount \in Nat \ {0} /\ RingCap \in Nat \ {0} /\ MaxPushes \in Nat
  BY QueuesAssumption, RingAssumption, PushBoundAssumption
<1>2. \A q \in Queues : Coming(q) = {} /\ pushed[q] = 0 /\ ring[q] = <<>>
  BY DEF Init, Coming
<1>3. Counted /\ Fits
  BY <1>1, <1>2, FS_EmptySet DEF Counted, Fits
<1>4. tracing_active \in BOOLEAN
  BY Zenon DEF Init
<1>5. jpc \in [Queues -> JobPlaces]
  BY DEF Init, JobPlaces
<1>6. Steps
  BY <1>1 DEF Init, Steps
<1> QED
  BY <1>3, <1>4, <1>5, <1>6 DEF Bounds

\* The management thread goes through the queues, then through the jobs.
LEMMA StepsKept == ASSUME Types, Steps, [Next]_vars PROVE Steps'
<1>1. QueueCount \in Nat \ {0} /\ mq \in Nat /\ jobs \in Nat
  BY QueuesAssumption DEF Types
<1>2. CASE UNCHANGED <<mpc, mq, jobs>>
  BY <1>2 DEF Steps
<1>3. CASE StartSession \/ SetupFails \/ SetupJob \/ JobsInitialized \/ StartTrace
  BY <1>1, <1>3 DEF StartSession, SetupFails, SetupJob, JobsInitialized, StartTrace, Steps
<1>4. CASE EndPolling \/ CloseGate \/ PollIdle \/ PollBusy
  BY <1>1, <1>4 DEF EndPolling, CloseGate, PollIdle, PollBusy, Steps
<1>5. CASE StopJobSet \/ StopJobNotify \/ JoinJobs
  BY <1>1, <1>5 DEF StopJobSet, StopJobNotify, JoinJobs, Steps
<1>6. CASE UNCHANGED vars
  BY <1>2, <1>6 DEF vars
<1> QED
  BY <1>2, <1>3, <1>4, <1>5, <1>6, JobsLeave, IoLeaves DEF Next, Manage

\* A push that enters is one of at most MaxPushes, and counts once.
LEMMA CountedKept ==
    ASSUME IsFiniteSet(IoThreads), Types, Counted, [Next]_vars PROVE Counted'
<1>1. \A q \in Queues : pushed[q] \in Nat /\ MaxPushes \in Nat
  BY PushBoundAssumption DEF Types
<1>2. CASE UNCHANGED <<ppc, target, pushed>>
  BY <1>2 DEF Counted, Coming
<1>3. CASE StartSession
  <2>1. \A q \in Queues : Coming(q)' = Coming(q) /\ pushed'[q] = 0
    BY <1>3 DEF StartSession, Coming
  <2> QED
    BY <1>1, <2>1, ComingFinite DEF Counted
<1>4. ASSUME NEW t \in IoThreads, NEW id \in IoQueueIds, PushEnter(t, id) PROVE Counted'
  <2> DEFINE p == queueOf(id)
  <2>1. /\ p \in Queues /\ ppc' = [ppc EXCEPT ![t] = "check"]
        /\ target' = [target EXCEPT ![t] = p] /\ pushed' = pushed
        /\ pushed[p] + Cardinality(Inside(p)) < MaxPushes
        /\ ppc[t] \in {"idle", "call"}
    <3>1. {u \in IoThreads : target[u] = p /\ ppc[u] \notin {"idle", "call"}} = Inside(p)
      BY DEF Inside
    <3> QED
      BY <1>4, <3>1, QueueExists DEF PushEnter, MoveIo, PushesUnder
  <2> HIDE DEF p
  <2>2. /\ Coming(p)' = Coming(p) \cup {t} /\ t \notin Coming(p)
        /\ \A q \in Queues : q # p => Coming(q)' = Coming(q)
    BY <2>1 DEF Coming, Types
  <2>3. Cardinality(Coming(p)') = Cardinality(Coming(p)) + 1
    BY <2>1, <2>2, ComingFinite, FS_AddElement
  <2>4. pushed[p] + Cardinality(Coming(p)') <= MaxPushes
    BY <1>1, <2>1, <2>3, ComingFinite
  <2> QED
    BY <2>1, <2>2, <2>4 DEF Counted
<1>5. ASSUME NEW t \in IoThreads, PushReserve(t) PROVE Counted'
  <2> PICK p \in Queues : p = target[t]
    BY DEF Types
  <2>1. /\ ppc[t] = "reserve" /\ target' = target
        /\ \E l \in {"commit", "leave"} : ppc' = [ppc EXCEPT ![t] = l]
        /\ pushed' = [pushed EXCEPT ![p] = @ + 1]
    BY <1>5 DEF PushReserve, MoveIo
  <2>2. /\ Coming(p)' = Coming(p) \ {t} /\ t \in Coming(p)
        /\ \A q \in Queues : q # p => Coming(q)' = Coming(q)
    BY <2>1 DEF Coming, Types
  <2>3. Cardinality(Coming(p)') = Cardinality(Coming(p)) - 1
    BY <2>2, ComingFinite, FS_RemoveElement
  <2>4. /\ pushed'[p] = pushed[p] + 1
        /\ \A q \in Queues : q # p => pushed'[q] = pushed[q]
    BY <2>1 DEF Types
  <2>5. pushed'[p] + Cardinality(Coming(p)') <= MaxPushes
    <3>1. pushed[p] + Cardinality(Coming(p)) <= MaxPushes
      BY DEF Counted
    <3> QED
      BY <1>1, <2>3, <2>4, <3>1, ComingFinite
  <2> QED
    BY <2>2, <2>4, <2>5 DEF Counted
<1>6. ASSUME NEW t \in IoThreads,
             \/ IsTracingActive(t) \/ PushCheck(t) \/ PushTrace(t)
             \/ PushCommit(t) \/ PushTrigger(t) \/ PushLeave(t)
      PROVE  Counted'
  <2>1. /\ pushed' = pushed
        /\ \E l : /\ ppc' = [ppc EXCEPT ![t] = l]
                  /\ l \in {"check", "push", "reserve"} => ppc[t] \in {"check", "push"}
        /\ target' = target \/ (target' = [target EXCEPT ![t] = 0] /\ ppc' = [ppc EXCEPT ![t] = "idle"])
    BY <1>6 DEF IsTracingActive, PushCheck, PushTrace, PushCommit, PushTrigger,
                PushLeave, MoveIo
  <2>2. \A q \in Queues : Coming(q)' \in SUBSET Coming(q)
    BY <2>1 DEF Coming, Types
  <2>3. \A q \in Queues : /\ Cardinality(Coming(q)') \in Nat
                          /\ Cardinality(Coming(q)') <= Cardinality(Coming(q))
    BY <2>2, ComingFinite, FS_Subset, FS_CardinalityType
  <2> QED
    <3> SUFFICES ASSUME NEW q \in Queues
                 PROVE  pushed'[q] + Cardinality(Coming(q)') <= MaxPushes
      BY DEF Counted
    <3>1. pushed[q] + Cardinality(Coming(q)) <= MaxPushes
      BY DEF Counted
    <3> QED
      BY <1>1, <2>1, <2>3, <3>1, ComingFinite
<1>7. ASSUME SetupFails \/ Manage PROVE UNCHANGED <<ppc, target, pushed>>
  BY <1>7 DEF SetupFails, Manage, SetupJob, JobsInitialized, StartTrace,
              EndPolling, CloseGate, PollIdle, PollBusy, StopJobSet, StopJobNotify,
              JoinJobs, ioVars
<1>8. CASE UNCHANGED vars
  BY <1>2, <1>8 DEF vars
<1> QED
  BY <1>2, <1>3, <1>4, <1>5, <1>6, <1>7, <1>8, JobsLeave DEF Next, Push

\* A ring takes no event more than it has room for.
LEMMA FitsKept == ASSUME Types, Fits, [Next]_vars PROVE Fits'
<1>1. RingCap \in Nat \ {0} /\ \A q \in Queues : ring[q] \in Seq(IoThreads \cup {Done})
  BY RingAssumption DEF Types
<1>2. CASE UNCHANGED ring
  BY <1>2 DEF Fits
<1>3. CASE StartSession
  <2>1. \A q \in Queues : ring'[q] = <<>>
    BY <1>3 DEF StartSession
  <2> QED
    BY <1>1, <2>1 DEF Fits
<1>4. ASSUME NEW q \in Queues, SerializeEvent(q) PROVE Fits'
  <2>1. ring' = [ring EXCEPT ![q] = Tail(@)] /\ ring[q] # <<>>
    BY <1>4 DEF SerializeEvent, HeadReady
  <2>2. Len(Tail(ring[q])) = Len(ring[q]) - 1 /\ Len(ring[q]) \in Nat
    BY <1>1, <2>1
  <2> QED
    BY <1>1, <2>1, <2>2 DEF Fits, Types
<1>5. ASSUME NEW t \in IoThreads, PushReserve(t) PROVE Fits'
  <2> PICK q \in Queues : q = target[t]
    BY DEF Types
  <2>1. CASE ring' = ring
    BY <2>1 DEF Fits
  <2>2. CASE Len(ring[q]) < RingCap /\ ring' = [ring EXCEPT ![q] = Append(@, t)]
    <3>1. Len(Append(ring[q], t)) = Len(ring[q]) + 1 /\ Len(ring[q]) \in Nat
      BY <1>1
    <3>2. Len(ring'[q]) <= RingCap /\ \A p \in Queues : p # q => ring'[p] = ring[p]
      BY <1>1, <2>2, <3>1 DEF Types
    <3> QED
      BY <3>2 DEF Fits
  <2> QED
    BY <1>5, <2>1, <2>2 DEF PushReserve
<1>6. ASSUME NEW t \in IoThreads, PushCommit(t) PROVE Fits'
  BY <1>6, CommitLen DEF Fits
<1>7. ASSUME SetupFails \/ Manage PROVE UNCHANGED ring
  BY <1>7 DEF SetupFails, Manage, SetupJob, JobsInitialized, StartTrace,
              EndPolling, CloseGate, PollIdle, PollBusy, StopJobSet, StopJobNotify,
              JoinJobs
<1>8. ASSUME NEW q \in Queues, Job(q) \/ SpuriousWakeup(q) \/ SerializeFails(q),
             ~SerializeEvent(q)
      PROVE  UNCHANGED ring
  BY <1>8 DEF Job, DoWork, Wait, SpuriousWakeup, WaitReturns, WaitTimesOut,
              SerializeFails, EndDrain
<1>9. ASSUME NEW t \in IoThreads,
             IsTracingActive(t) \/ Push(t) \/ \E id \in IoQueueIds : PushEnter(t, id),
             ~PushReserve(t), ~PushCommit(t)
      PROVE  UNCHANGED ring
  BY <1>9 DEF IsTracingActive, Push, PushEnter, PushCheck, PushTrace, PushTrigger, PushLeave
<1>10. CASE UNCHANGED vars
  BY <1>2, <1>10 DEF vars
<1> QED
  BY <1>2, <1>3, <1>4, <1>5, <1>6, <1>7, <1>8, <1>9, <1>10 DEF Next

\* A flag of tracing, and a place in doWork for each job
LEMMA PlacesTyped ==
    ASSUME Types, tracing_active \in BOOLEAN, jpc \in [Queues -> JobPlaces], [Next]_vars
    PROVE  tracing_active' \in BOOLEAN /\ jpc' \in [Queues -> JobPlaces]
<1>1. tracing_active' \in BOOLEAN
  <2>1. tracing_active' = tracing_active \/ tracing_active' = TRUE \/ tracing_active' = FALSE
    BY Zenon DEF Next, vars, gateVars, StartSession, SetupFails, Manage, SetupJob,
           JobsInitialized, StartTrace, EndPolling, CloseGate, PollIdle, PollBusy,
           StopJobSet, StopJobNotify, JoinJobs, Job, DoWork, Wait, SpuriousWakeup,
           WaitReturns, WaitTimesOut, SerializeEvent, SerializeFails, EndDrain,
           IsTracingActive, Push, PushEnter, PushCheck, PushTrace, PushReserve,
           PushCommit, PushTrigger, PushLeave, IoUnchanged
  <2> QED
    BY <2>1
<1>2. jpc' \in [Queues -> JobPlaces]
  <2>1. CASE UNCHANGED jpc
    BY <2>1
  <2>2. ASSUME NEW q, jpc' = Notified(q, jpc) PROVE jpc' \in [Queues -> JobPlaces]
    BY <2>2 DEF Notified, JobPlaces
  <2>3. ASSUME NEW q, NEW l \in JobPlaces, jpc' = [jpc EXCEPT ![q] = l]
        PROVE  jpc' \in [Queues -> JobPlaces]
    BY <2>3
  <2>4. CASE StartSession
    BY <2>4 DEF StartSession, JobPlaces
  <2>5. CASE SetupFails \/ Manage
    <3>1. \/ jpc' = jpc \/ jpc' = [jpc EXCEPT ![jobs] = "start"] \/ jpc' = Notified(mq, jpc)
      BY <2>5 DEF SetupFails, Manage, SetupJob, JobsInitialized, StartTrace,
              EndPolling, CloseGate, PollIdle, PollBusy, StopJobSet, StopJobNotify,
              JoinJobs, jobVars
    <3> QED
      BY <2>1, <2>2, <2>3, <3>1 DEF JobPlaces
  <2>6. ASSUME NEW q \in Queues, Job(q) \/ SpuriousWakeup(q) \/ SerializeFails(q)
        PROVE  jpc' \in [Queues -> JobPlaces]
    <3>1. \/ jpc' = jpc
          \/ \E l \in JobPlaces : jpc' = [jpc EXCEPT ![q] = l]
      BY <2>6 DEF Job, DoWork, Wait, SpuriousWakeup, WaitReturns, WaitTimesOut,
              SerializeEvent, SerializeFails, EndDrain, JobPlaces
    <3> QED
      BY <2>1, <2>3, <3>1
  <2>7. ASSUME NEW t \in IoThreads,
               IsTracingActive(t) \/ Push(t) \/ \E id \in IoQueueIds : PushEnter(t, id)
        PROVE  jpc' \in [Queues -> JobPlaces]
    <3>1. jpc' = jpc \/ jpc' = Notified(target[t], jpc)
      BY <2>7 DEF IsTracingActive, Push, PushEnter, PushCheck, PushTrace, PushReserve,
              PushCommit, PushTrigger, PushLeave
    <3> QED
      BY <2>1, <2>2, <3>1
  <2>8. CASE UNCHANGED vars
    BY <2>1, <2>8 DEF vars
  <2> QED
    BY <2>4, <2>5, <2>6, <2>7, <2>8 DEF Next
<1> QED
  BY <1>1, <1>2

\* The parts of a bounded sum are bounded.
LEMMA PartsBelow ==
    ASSUME NEW n \in Nat, NEW a \in Nat, NEW b \in Nat, NEW c \in Nat, NEW d \in Nat,
           NEW k \in Nat, a + k <= n, a = b + c + d
    PROVE  a \in 0..n /\ b \in 0..n /\ c \in 0..n
OBVIOUS

(* Every variable of a session has its type, and the bounds hold: a ring is   *)
(* never longer than its capacity, a reference counter never above the number *)
(* of threads, and a job is looked at only if setupJobs made it.              *)
THEOREM TypeCorrect == ASSUME IsFiniteSet(IoThreads) PROVE Spec => []TypeOK
<1>1. IInv /\ Bounds /\ [Next]_vars => Bounds'
  BY StepsKept, CountedKept, FitsKept, PlacesTyped DEF IInv, Bounds
<1>2. IInv /\ Bounds => TypeOK
  <2> SUFFICES ASSUME IInv, Bounds PROVE TypeOK
    OBVIOUS
  <2>1. /\ QueueCount \in Nat \ {0} /\ MaxPushes \in Nat
    BY QueuesAssumption, PushBoundAssumption
  <2>2. mq \in 0..QueueCount /\ jobs \in 0..QueueCount
    BY <2>1 DEF IInv, Types, Bounds, Steps
  <2>3. tracingRef \in [Queues -> 0..Cardinality(IoThreads)]
    <3>1. Cardinality(IoThreads) \in Nat
      BY FS_CardinalityType
    <3>2. \A q \in Queues : Cardinality(Inside(q)) <= Cardinality(IoThreads)
      BY FS_Subset DEF Inside
    <3>3. \A q \in Queues : tracingRef[q] \in 0..Cardinality(IoThreads)
      BY <3>1, <3>2 DEF IInv, Types, RefExact
    <3> QED
      BY <3>3 DEF IInv, Types
  <2>4. \A q \in Queues : /\ pushed[q] \in 0..MaxPushes /\ lost[q] \in 0..MaxPushes
                          /\ m_traceCount[q] \in 0..MaxPushes
    <3> SUFFICES ASSUME NEW q \in Queues
                 PROVE  /\ pushed[q] \in 0..MaxPushes /\ lost[q] \in 0..MaxPushes
                        /\ m_traceCount[q] \in 0..MaxPushes
      OBVIOUS
    <3>1. /\ pushed[q] \in Nat /\ lost[q] \in Nat /\ m_traceCount[q] \in Nat
          /\ ring[q] \in Seq(IoThreads \cup {Done})
      BY DEF IInv, Types
    <3>2. /\ pushed[q] + Cardinality(Coming(q)) <= MaxPushes
          /\ pushed[q] = m_traceCount[q] + lost[q] + Len(ring[q])
      BY DEF IInv, Bounds, Counted, NothingDuplicated
    <3>3. Len(ring[q]) \in Nat /\ Cardinality(Coming(q)) \in Nat
      BY <3>1, ComingFinite
    <3> QED
      BY <2>1, <3>1, <3>2, <3>3, PartsBelow
  <2>5. /\ pushed \in [Queues -> 0..MaxPushes] /\ lost \in [Queues -> 0..MaxPushes]
        /\ m_traceCount \in [Queues -> 0..MaxPushes]
    BY <2>4 DEF IInv, Types
  <2> QED
    BY <2>2, <2>3, <2>5 DEF IInv, Types, Bounds, Fits, TypeOK, MgrPlaces, IoPlaces,
                            JobState, JobPlaces
<1> QED
  BY InitIInv, InitBounds, StepIInv, <1>1, <1>2, PTL DEF Spec
=============================================================================
