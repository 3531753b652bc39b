----------------------------- MODULE TraceManager -----------------------------
(***************************************************************************)
(* The life of tracing sessions: interface/TraceManager.cpp, called by the  *)
(* RPC handlers of InterfaceTraceCreatingImpl.cpp, one thread per client    *)
(* connection, next to the management thread of the session.                *)
(*                                                                         *)
(* m_traceManagementMutex serialises startJobs and stopJobs only.  getState  *)
(* recomputes and stores the state, and rewrites the summary file, in        *)
(* whatever thread calls it.  updateState reads one job at a time, and       *)
(* setState stores the state, writes the file and seals it in three steps.   *)
(*                                                                         *)
(* What happens inside a session is the subject of TraceCollect; here a job  *)
(* is its m_state.                                                          *)
(***************************************************************************)
EXTENDS Naturals

CONSTANTS
    Clients,        \* threads that serve RPC calls
    Mgr,            \* the management thread
    QueueCount,     \* m_numberOfJobs
    Privileged,     \* writing to a read-only file succeeds (the user is root)
    MaxSessions     \* bound on the sessions that are started

ASSUME ClientsAssumption == Mgr \notin Clients /\ "free" \notin Clients
ASSUME QueueCountAssumption == QueueCount \in Nat \ {0}
ASSUME PrivilegedAssumption == Privileged \in BOOLEAN
ASSUME MaxSessionsAssumption == MaxSessions \in Nat

Threads == Clients \cup {Mgr}
Queues == 0..(QueueCount - 1)
Dirs == 0..MaxSessions
TracingState == {"NOT_STARTED", "INITIALIZING", "RUNNING", "COMPLETE", "ERROR"}
Ended == {"COMPLETE", "ERROR"}

VARIABLES
    m_state,    \* TraceManager::m_state
    m_finish,   \* TraceManager::m_finish
    m_dir,      \* m_traceDirRelativePath, as a number; 0 is none
    jobs,       \* m_jobs.size()
    jobState,   \* TraceJob::m_state of each job
    mutex,      \* m_traceManagementMutex: its holder, or "free"
    file,       \* the summary file in each trace directory
    aged,       \* the clock has left the second in which m_dir was named
    pc,         \* where each thread is; the management thread is "none" when
                \* m_thread is not joinable and "exited" when it has returned
    loc,        \* locals of updateState and setState in each thread
    sessions    \* sessions started, for the bound MaxSessions

vars == <<m_state, m_finish, m_dir, jobs, jobState, mutex, file, aged, pc,
          loc, sessions>>

\* Where a thread can be: inside updateState or setState, or elsewhere.
Updating == {"update", "scan", "store", "write", "seal"}
MgrLabels == {"none", "setup", "run", "stopjobs", "joinjobs", "exited"}
               \cup Updating
ClientLabels == {"idle", "start", "stop", "check", "dir", "join", "delete",
                 "spawn", "stop_join", "unlock", "report", "stopped"}
                  \cup Updating

NoFile == [state |-> "none", readOnly |-> FALSE]
NoLocals == [ret |-> "idle", arg |-> "NOT_STARTED", q |-> 0, seen |-> {},
             dir |-> 0]

Init ==
    /\ m_state = "NOT_STARTED" /\ m_finish = FALSE /\ m_dir = 0
    /\ jobs = 0 /\ jobState = [q \in Queues |-> "NOT_STARTED"]
    /\ mutex = "free" /\ aged = TRUE
    /\ file = [d \in Dirs |-> NoFile]
    /\ pc = [t \in Threads |-> IF t = Mgr THEN "none" ELSE "idle"]
    /\ loc = [t \in Threads |-> NoLocals]
    /\ sessions = 0

Goto(t, label) == pc' = [pc EXCEPT ![t] = label]

\* The calls updateState() and setState(st), made by t, which goes on at ret.
CallUpdateState(t, ret) ==
    /\ Goto(t, "update")
    /\ loc' = [loc EXCEPT ![t] = [NoLocals EXCEPT !.ret = ret]]

CallSetState(t, st, ret) ==
    /\ Goto(t, "store")
    /\ loc' = [loc EXCEPT ![t] = [NoLocals EXCEPT !.ret = ret, !.arg = st]]

-----------------------------------------------------------------------------
(* updateState and setState, in any thread.                                *)

UpdateState(t) ==
    /\ pc[t] = "update"
    /\ Goto(t, IF m_state = "RUNNING" THEN "scan" ELSE loc[t].ret)
    /\ UNCHANGED <<m_state, m_finish, m_dir, jobs, jobState, mutex, file,
                   aged, loc, sessions>>

ScanJob(t) ==
    /\ pc[t] = "scan" /\ loc[t].q < jobs
    /\ loc' = [loc EXCEPT ![t].seen = @ \cup {jobState[loc[t].q]},
                          ![t].q = @ + 1]
    /\ UNCHANGED <<m_state, m_finish, m_dir, jobs, jobState, mutex, file,
                   aged, pc, sessions>>

\* Mutant: a failed job does not count.
Mut_overall(seen) ==
    IF "RUNNING" \in seen THEN "RUNNING"
    ELSE IF "NOT_STARTED" \in seen THEN "NOT_STARTED"
    ELSE IF jobs > 0 THEN "COMPLETE" ELSE "NOT_STARTED"

\* What updateState makes of the job states it has seen.
overall(seen) ==
    IF "RUNNING" \in seen THEN "RUNNING"
    ELSE IF "NOT_STARTED" \in seen THEN "NOT_STARTED"
    ELSE IF "ERROR" \in seen THEN "ERROR"
    ELSE IF jobs > 0 THEN "COMPLETE" ELSE "NOT_STARTED"

EndScan(t) ==
    /\ pc[t] = "scan" /\ loc[t].q >= jobs
    /\ CallSetState(t, overall(loc[t].seen), loc[t].ret)
    /\ UNCHANGED <<m_state, m_finish, m_dir, jobs, jobState, mutex, file,
                   aged, sessions>>

StoreState(t) ==
    /\ pc[t] = "store"
    /\ m_state' = loc[t].arg
    /\ Goto(t, "write")
    /\ UNCHANGED <<m_finish, m_dir, jobs, jobState, mutex, file, aged, loc,
                   sessions>>

\* Mutant: a summary that cannot be written is tried again.
Mut_WriteSummary(t) ==
    /\ pc[t] = "write"
    /\ IF Privileged \/ ~file[m_dir].readOnly
       THEN /\ file' = [file EXCEPT ![m_dir].state = loc[t].arg]
            /\ loc' = [loc EXCEPT ![t].dir = m_dir]
            /\ Goto(t, "seal")
       ELSE UNCHANGED <<file, loc, pc>>
    /\ UNCHANGED <<m_state, m_finish, m_dir, jobs, jobState, mutex, aged,
                   sessions>>

\* The path is put together now.  An unprivileged open for writing fails on a
\* read-only file.
WriteSummary(t) ==
    /\ pc[t] = "write"
    /\ IF Privileged \/ ~file[m_dir].readOnly
       THEN /\ file' = [file EXCEPT ![m_dir].state = loc[t].arg]
            /\ UNCHANGED m_state
       ELSE /\ m_state' = "ERROR"
            /\ UNCHANGED file
    /\ loc' = [loc EXCEPT ![t].dir = m_dir]
    /\ Goto(t, "seal")
    /\ UNCHANGED <<m_finish, m_dir, jobs, jobState, mutex, aged,
                   sessions>>

\* m_state is read again.  The owner of the file can always chmod it.
SealSummary(t) ==
    /\ pc[t] = "seal"
    /\ file' = [file EXCEPT ![loc[t].dir].readOnly = @ \/ m_state \in Ended]
    /\ Goto(t, loc[t].ret)
    /\ loc' = [loc EXCEPT ![t].arg = "NOT_STARTED", ![t].dir = 0]
    /\ UNCHANGED <<m_state, m_finish, m_dir, jobs, jobState, mutex, aged,
                   sessions>>

SetState(t) ==
    UpdateState(t) \/ ScanJob(t) \/ EndScan(t)
      \/ StoreState(t) \/ WriteSummary(t) \/ SealSummary(t)

-----------------------------------------------------------------------------
(* RPC handlers.                                                           *)

StartTracing(c) ==
    /\ pc[c] = "idle"
    /\ Goto(c, "start")
    /\ UNCHANGED <<m_state, m_finish, m_dir, jobs, jobState, mutex, file,
                   aged, loc, sessions>>

StopTracing(c) ==
    /\ pc[c] = "idle"
    /\ Goto(c, "stop")
    /\ UNCHANGED <<m_state, m_finish, m_dir, jobs, jobState, mutex, file,
                   aged, loc, sessions>>

GetTraceSummary(c) ==
    /\ pc[c] = "idle"
    /\ CallUpdateState(c, "report")
    /\ UNCHANGED <<m_state, m_finish, m_dir, jobs, jobState, mutex, file,
                   aged, sessions>>

\* startJobs takes the mutex and asks for the state.
LockStart(c) ==
    /\ pc[c] = "start" /\ mutex = "free"
    /\ mutex' = c
    /\ CallUpdateState(c, "check")
    /\ UNCHANGED <<m_state, m_finish, m_dir, jobs, jobState, file, aged,
                   sessions>>

\* "Tracing already started." unlocks the mutex on the way out.  At the bound
\* MaxSessions every start is refused that way.
CheckState(c) ==
    /\ pc[c] = "check"
    /\ IF m_state \in {"RUNNING", "INITIALIZING"} \/ sessions = MaxSessions
       THEN /\ mutex' = "free"
            /\ Goto(c, "idle")
            /\ loc' = [loc EXCEPT ![c] = NoLocals]
       ELSE /\ Goto(c, "dir")
            /\ UNCHANGED <<mutex, loc>>
    /\ UNCHANGED <<m_state, m_finish, m_dir, jobs, jobState, file, aged,
                   sessions>>

\* initializeTraceDirectory names the directory after the current second; a
\* directory that exists already is as good as a new one.
InitializeTraceDirectory(c) ==
    /\ pc[c] = "dir"
    /\ \E d \in {m_dir, m_dir + 1} :
         /\ d = m_dir => m_dir # 0 /\ ~aged
         /\ m_dir' = d
    /\ sessions' = sessions + 1
    /\ aged' = FALSE
    /\ Goto(c, "join")
    /\ UNCHANGED <<m_state, m_finish, jobs, jobState, mutex, file, loc>>

\* No access to the trace directory: an exception, before anything changed.
DirectoryFails(c) ==
    /\ pc[c] = "dir"
    /\ mutex' = "free"
    /\ Goto(c, "idle")
    /\ loc' = [loc EXCEPT ![c] = NoLocals]
    /\ UNCHANGED <<m_state, m_finish, m_dir, jobs, jobState, file, aged,
                   sessions>>

\* Mutant: startJobs trusts the state and does not join.
Mut_JoinThread(c) ==
    /\ \/ /\ pc[c] = "join"
          /\ Goto(c, "delete")
          /\ UNCHANGED loc
       \/ /\ pc[c] = "stop_join" /\ pc[Mgr] \in {"none", "exited"}
          /\ pc' = [pc EXCEPT ![c] = "update", ![Mgr] = "none"]
          /\ loc' = [loc EXCEPT ![c] = [NoLocals EXCEPT !.ret = "unlock"]]
    /\ UNCHANGED <<m_state, m_finish, m_dir, jobs, jobState, mutex, file,
                   aged, sessions>>

JoinThread(c) ==
    /\ pc[c] \in {"join", "stop_join"}
    /\ pc[Mgr] \in {"none", "exited"}
    /\ IF pc[c] = "join"
       THEN /\ pc' = [pc EXCEPT ![c] = "delete", ![Mgr] = "none"]
            /\ UNCHANGED loc
       ELSE /\ pc' = [pc EXCEPT ![c] = "update", ![Mgr] = "none"]
            /\ loc' = [loc EXCEPT ![c] = [NoLocals EXCEPT !.ret = "unlock"]]
    /\ UNCHANGED <<m_state, m_finish, m_dir, jobs, jobState, mutex, file,
                   aged, sessions>>

DeleteJobs(c) ==
    /\ pc[c] = "delete"
    /\ jobs' = 0
    /\ jobState' = [q \in Queues |-> "NOT_STARTED"]
    /\ m_finish' = FALSE
    /\ CallSetState(c, "INITIALIZING", "spawn")
    /\ UNCHANGED <<m_state, m_dir, mutex, file, aged, sessions>>

\* m_thread = std::thread(&TraceManager::handleJobs, this)
SpawnManager(c) ==
    /\ pc[c] = "spawn"
    /\ pc' = [pc EXCEPT ![c] = "idle", ![Mgr] = "setup"]
    /\ loc' = [loc EXCEPT ![c] = NoLocals,
                          ![Mgr] = NoLocals]
    /\ mutex' = "free"
    /\ UNCHANGED <<m_state, m_finish, m_dir, jobs, jobState, file, aged,
                   sessions>>

LockStop(c) ==
    /\ pc[c] = "stop" /\ mutex = "free"
    /\ mutex' = c
    /\ m_finish' = TRUE
    /\ Goto(c, "stop_join")
    /\ UNCHANGED <<m_state, m_dir, jobs, jobState, file, aged, loc, sessions>>

\* The mutex is released; the summary for the reply asks for the state.
UnlockStop(c) ==
    /\ pc[c] = "unlock"
    /\ mutex' = "free"
    /\ CallUpdateState(c, "stopped")
    /\ UNCHANGED <<m_state, m_finish, m_dir, jobs, jobState, file, aged,
                   sessions>>

\* The state in the reply is m_state.
Report(c) ==
    /\ pc[c] \in {"report", "stopped"}
    /\ Goto(c, "idle")
    /\ loc' = [loc EXCEPT ![c] = NoLocals]
    /\ UNCHANGED <<m_state, m_finish, m_dir, jobs, jobState, mutex, file,
                   aged, sessions>>

-----------------------------------------------------------------------------
(* handleJobs, in the management thread, and the jobs.                     *)

SetupJob ==
    /\ pc[Mgr] = "setup" /\ jobs < QueueCount
    /\ jobs' = jobs + 1
    /\ jobState' = [jobState EXCEPT ![jobs] = "NOT_STARTED"]
    /\ UNCHANGED <<m_state, m_finish, m_dir, mutex, file, aged, pc, loc,
                   sessions>>

\* A TraceJob constructor throws.
SetupFails ==
    /\ pc[Mgr] = "setup" /\ jobs < QueueCount
    /\ CallSetState(Mgr, "ERROR", "stopjobs")
    /\ UNCHANGED <<m_state, m_finish, m_dir, jobs, jobState, mutex, file,
                   aged, sessions>>

JobsInitialized ==
    /\ pc[Mgr] = "setup" /\ jobs = QueueCount
    /\ \A q \in Queues : jobState[q] # "NOT_STARTED"
    /\ CallSetState(Mgr, "RUNNING", "run")
    /\ UNCHANGED <<m_state, m_finish, m_dir, jobs, jobState, mutex, file,
                   aged, sessions>>

\* The loop sleeps for a second before it looks at m_finish again or at the
\* time and the size limit.
PollingEnds ==
    /\ pc[Mgr] = "run"
    /\ aged' = TRUE
    /\ Goto(Mgr, "stopjobs")
    /\ UNCHANGED <<m_state, m_finish, m_dir, jobs, jobState, mutex, file,
                   loc, sessions>>

Finish == m_finish /\ PollingEnds
LimitReached == ~m_finish /\ PollingEnds

StopJobThreads ==
    /\ pc[Mgr] = "stopjobs"
    /\ Goto(Mgr, "joinjobs")
    /\ UNCHANGED <<m_state, m_finish, m_dir, jobs, jobState, mutex, file,
                   aged, loc, sessions>>

JoinJobs ==
    /\ pc[Mgr] = "joinjobs"
    /\ \A q \in 0..(jobs - 1) : jobState[q] \in Ended
    /\ CallUpdateState(Mgr, "exited")
    /\ UNCHANGED <<m_state, m_finish, m_dir, jobs, jobState, mutex, file,
                   aged, sessions>>

DoWork(q) ==
    /\ q < jobs /\ jobState[q] = "NOT_STARTED"
    /\ jobState' = [jobState EXCEPT ![q] = "RUNNING"]
    /\ UNCHANGED <<m_state, m_finish, m_dir, jobs, mutex, file, aged, pc,
                   loc, sessions>>

\* The job is stopped, runs into its own end time, or fails.
EndWork(q, endState) ==
    /\ q < jobs /\ jobState[q] = "RUNNING"
    /\ jobState' = [jobState EXCEPT ![q] = endState]
    /\ UNCHANGED <<m_state, m_finish, m_dir, jobs, mutex, file, aged, pc,
                   loc, sessions>>

-----------------------------------------------------------------------------
Serve(c) ==
    \/ LockStart(c) \/ CheckState(c) \/ InitializeTraceDirectory(c)
    \/ DirectoryFails(c) \/ JoinThread(c) \/ DeleteJobs(c) \/ SpawnManager(c)
    \/ LockStop(c) \/ UnlockStop(c) \/ Report(c) \/ SetState(c)

Manage ==
    \/ SetupJob \/ JobsInitialized \/ StopJobThreads \/ JoinJobs \/ Finish
    \/ SetState(Mgr)

Next ==
    \/ \E c \in Clients :
         StartTracing(c) \/ StopTracing(c) \/ GetTraceSummary(c) \/ Serve(c)
    \/ Manage \/ SetupFails \/ LimitReached
    \/ \E q \in Queues : DoWork(q) \/ \E s \in Ended : EndWork(q, s)

Spec == Init /\ [][Next]_vars

\* Threads run on, the time limit of a session passes (maxDuration is finite),
\* a mutex that is free again and again is obtained, and a job that was told
\* to stop ends (TraceCollect).
FairSpec ==
    /\ Spec
    /\ \A c \in Clients : WF_vars(Serve(c)) /\ SF_vars(LockStart(c))
                            /\ SF_vars(LockStop(c))
    /\ WF_vars(Manage) /\ WF_vars(LimitReached)
    /\ \A q \in Queues :
         /\ WF_vars(DoWork(q))
         /\ WF_vars(pc[Mgr] = "joinjobs" /\ \E s \in Ended : EndWork(q, s))

-----------------------------------------------------------------------------
(* Properties.                                                             *)

\* The management thread and the clients are at labels of their own code.
PcType ==
    /\ pc \in [Threads -> MgrLabels \cup ClientLabels]
    /\ pc[Mgr] \in MgrLabels
    /\ \A c \in Clients : pc[c] \in ClientLabels

Locals == [ret : MgrLabels \cup ClientLabels, arg : TracingState,
           q : 0..QueueCount, seen : SUBSET TracingState, dir : Dirs]

\* Every variable has its type.
TypeOK ==
    /\ m_state \in TracingState /\ m_finish \in BOOLEAN
    /\ m_dir \in Dirs /\ jobs \in 0..QueueCount
    /\ jobState \in [Queues -> TracingState \ {"INITIALIZING"}]
    /\ mutex \in Clients \cup {"free"} /\ aged \in BOOLEAN
    /\ file \in [Dirs -> [state : TracingState \cup {"none"},
                          readOnly : BOOLEAN]]
    /\ PcType
    /\ loc \in [Threads -> Locals]
    /\ sessions \in 0..MaxSessions

Joined(c) == pc[c] \in {"delete", "spawn", "unlock"}
               \/ loc[c].ret \in {"spawn", "unlock"}

\* After joinThread has returned in startJobs or stopJobs, and until that call
\* gives the mutex back, there is no management thread and no job runs: a
\* std::thread is never assigned over a joinable one, jobs are never deleted
\* while their threads run, and StopTracing returns with tracing stopped.
JoinedMeansOver ==
    \A c \in Clients : Joined(c) =>
        /\ mutex = c
        /\ pc[Mgr] = "none"
        /\ \A q \in 0..(jobs - 1) : jobState[q] \in Ended

\* StopTracing answers "complete" only when every job of the session it has
\* stopped has completed, whoever else evaluates and stores the state at the
\* same time.
StopReportsOutcome ==
    [][\A c \in Clients :
         (pc[c] = "stopped" /\ Report(c) /\ m_state = "COMPLETE")
           => jobs = QueueCount /\ \A q \in Queues : jobState[q] = "COMPLETE"
      ]_vars

\* Every RPC call returns: nobody waits for ever for the mutex or in
\* joinThread.
CallsReturn ==
    \A c \in Clients : pc[c] # "idle" ~> pc[c] = "idle"

\* "Tracing is finished, make trace summary read only" (setState): when the
\* management thread of a session is started, the summary of that session is
\* not read only yet.
SummaryWritable ==
    \A c \in Clients : pc[c] = "spawn" => ~file[m_dir].readOnly

\* "If they finished running without an error, the state is Complete"
\* (updateState): once a session with only complete jobs is over, the state
\* is not an error.
CompleteIsComplete ==
    (/\ pc[Mgr] = "none" /\ jobs = QueueCount
     /\ \A q \in Queues : jobState[q] = "COMPLETE")
    => m_state # "ERROR"
===============================================================================
