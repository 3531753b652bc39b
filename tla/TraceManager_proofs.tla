------------------------- MODULE TraceManager_proofs --------------------------
(***************************************************************************)
(* Theorems about the trace manager, for every number of clients, of jobs  *)
(* and of sessions, whether or not the process is privileged.              *)
(***************************************************************************)
EXTENDS TraceManager, TLAPS

\* Where each thread goes on after updateState or setState, by where it is
\* now.  "check", "spawn" and "unlock" are reached with the mutex held.
ClientReturns(c) ==
    /\ pc[c] \in {"idle", "start", "stop", "stop_join"} => loc[c].ret = "idle"
    /\ pc[c] \in {"check", "dir", "join", "delete"} => loc[c].ret = "check"
    /\ pc[c] \in {"spawn", "unlock", "report", "stopped"}
         => loc[c].ret = pc[c]
    /\ pc[c] \in Updating
         => loc[c].ret \in {"check", "spawn", "unlock", "report", "stopped"}

MgrReturns ==
    /\ pc[Mgr] \in Updating => loc[Mgr].ret \in {"run", "stopjobs", "exited"}
    /\ pc[Mgr] \in {"setup", "run", "stopjobs", "joinjobs"}
         => loc[Mgr].ret # "exited"

InSection(c) ==
    pc[c] = "stop_join" \/ loc[c].ret \in {"check", "spawn", "unlock"}

MutexExact == \A c \in Clients : InSection(c) <=> mutex = c

\* The bound on sessions is checked under the mutex, before the directory of
\* the next one is named.
SessionsBounded ==
    /\ m_dir <= sessions
    /\ \A c \in Clients : pc[c] = "dir" => sessions < MaxSessions

\* Once handleJobs has joined the jobs, and until the next session, no job
\* runs.
JobsJoined ==
    pc[Mgr] \in {"none", "exited"} \/ loc[Mgr].ret = "exited"
      => \A q \in 0..(jobs - 1) : jobState[q] \in Ended

\* The inductive invariant.
IInv ==
    /\ TypeOK
    /\ \A c \in Clients : ClientReturns(c)
    /\ MgrReturns
    /\ MutexExact
    /\ SessionsBounded
    /\ JobsJoined
    /\ JoinedMeansOver

-----------------------------------------------------------------------------
(* Types.                                                                  *)

\* A thread that moves on keeps every thread at a label of its own kind.
LEMMA GotoType ==
    ASSUME TypeOK, NEW t \in Threads, NEW l, Goto(t, l),
           l \in IF t = Mgr THEN MgrLabels ELSE ClientLabels
    PROVE  PcType'
<1>1. pc \in [Threads -> MgrLabels \cup ClientLabels] /\ PcType
  BY DEF TypeOK, PcType
<1>2. Mgr \in Threads /\ Clients \subseteq Threads /\ Mgr \notin Clients
  BY ClientsAssumption DEF Threads
<1>3. pc' = [pc EXCEPT ![t] = l]
  BY DEF Goto
<1> QED
  BY <1>1, <1>2, <1>3 DEF PcType

\* The locals with which updateState and setState are called.
LEMMA LocalsType ==
    /\ NoLocals \in Locals
    /\ \A r \in MgrLabels \cup ClientLabels :
         /\ [NoLocals EXCEPT !.ret = r] \in Locals
         /\ \A st \in TracingState :
              [NoLocals EXCEPT !.ret = r, !.arg = st] \in Locals
<1>1. 0 \in 0..QueueCount /\ 0 \in Dirs
  BY QueueCountAssumption, MaxSessionsAssumption DEF Dirs
<1>2. NoLocals \in Locals
  BY <1>1 DEF NoLocals, Locals, ClientLabels, TracingState
<1> QED
  BY <1>2 DEF Locals

\* Init establishes the types.
LEMMA InitType == Init => TypeOK
<1> SUFFICES ASSUME Init PROVE TypeOK
  OBVIOUS
<1>1. loc \in [Threads -> Locals]
  BY LocalsType DEF Init
<1>2. PcType
  BY ClientsAssumption DEF Init, PcType, Threads, MgrLabels, ClientLabels
<1>3. file \in [Dirs -> [state : TracingState \cup {"none"},
                         readOnly : BOOLEAN]]
  BY DEF Init, NoFile
<1>4. jobState \in [Queues -> TracingState \ {"INITIALIZING"}]
  BY DEF Init, TracingState
<1>5. 0 \in 0..QueueCount /\ 0 \in 0..MaxSessions
  BY QueueCountAssumption, MaxSessionsAssumption
<1> QED
  BY <1>1, <1>2, <1>3, <1>4, <1>5 DEF Init, TypeOK, Dirs, TracingState

\* Init establishes the invariant.
LEMMA InitInvariant == Init => IInv
<1> SUFFICES ASSUME Init PROVE IInv
  OBVIOUS
<1>1. TypeOK
  BY InitType
<1>2. \A t \in Threads : loc[t].ret = "idle"
  BY DEF Init, NoLocals
<1>3. /\ pc[Mgr] = "none" /\ \A c \in Clients : pc[c] = "idle"
      /\ Mgr \in Threads /\ Clients \subseteq Threads
      /\ "free" \notin Clients /\ mutex = "free"
  BY ClientsAssumption DEF Init, Threads
<1>4. /\ \A c \in Clients : ClientReturns(c)
      /\ MgrReturns /\ MutexExact /\ JoinedMeansOver
  BY <1>2, <1>3
     DEF ClientReturns, MgrReturns, MutexExact, InSection, JoinedMeansOver,
         Joined, Updating
<1>5. SessionsBounded /\ JobsJoined
  BY <1>3 DEF Init, SessionsBounded, JobsJoined
<1> QED
  BY <1>1, <1>4, <1>5 DEF IInv

\* updateState and setState return to a label of the calling thread's kind.
LEMMA ReturnType ==
    ASSUME IInv, NEW t \in Threads, pc[t] \in Updating
    PROVE  loc[t].ret \in IF t = Mgr THEN MgrLabels ELSE ClientLabels
<1>1. CASE t = Mgr
  BY <1>1 DEF IInv, MgrReturns, MgrLabels
<1>2. CASE t # Mgr
  <2>1. t \in Clients
    BY <1>2 DEF Threads
  <2> QED
    BY <1>2, <2>1 DEF IInv, ClientReturns, ClientLabels
<1> QED
  BY <1>1, <1>2

\* A step of updateState or setState, in any thread, keeps the types.
LEMMA SetStateType ==
    ASSUME IInv, NEW t \in Threads, SetState(t)
    PROVE  TypeOK'
<1> DEFINE labels == IF t = Mgr THEN MgrLabels ELSE ClientLabels
<1>a. TypeOK
  BY DEF IInv
<1>b. loc[t] \in Locals /\ \A l \in labels : Goto(t, l) => PcType'
  BY <1>a, GotoType DEF TypeOK
<1>c. Updating \subseteq labels
  BY DEF MgrLabels, ClientLabels
<1>d. /\ loc[t].arg \in TracingState
      /\ loc[t].ret \in MgrLabels \cup ClientLabels
      /\ pc[t] \in Updating => loc[t].ret \in labels
  BY <1>b, ReturnType DEF Locals
<1>e. {"scan", "store", "write", "seal"} \subseteq Updating
  BY DEF Updating
<1> HIDE DEF labels
<1>1. CASE UpdateState(t)
  <2>1. PcType'
    BY <1>1, <1>b, <1>c, <1>d, <1>e DEF UpdateState, Updating
  <2> QED
    BY <1>1, <1>a, <2>1 DEF UpdateState, TypeOK
<1>2. CASE ScanJob(t)
  <2>1. /\ loc[t].q \in 0..QueueCount /\ loc[t].q < jobs
        /\ jobs \in 0..QueueCount
    BY <1>2, <1>a, <1>b DEF ScanJob, Locals, TypeOK
  <2>2. loc[t].q + 1 \in 0..QueueCount /\ loc[t].q \in Queues
    BY <2>1, QueueCountAssumption DEF Queues
  <2>3. jobState[loc[t].q] \in TracingState
    BY <1>a, <2>2 DEF TypeOK
  <2>4. loc' \in [Threads -> Locals]
    BY <1>2, <1>a, <1>b, <2>2, <2>3 DEF ScanJob, TypeOK, Locals
  <2> QED
    BY <1>2, <1>a, <2>4 DEF ScanJob, TypeOK, PcType
<1>3. CASE EndScan(t)
  <2>1. overall(loc[t].seen) \in TracingState
    BY DEF overall, TracingState
  <2>2. loc' \in [Threads -> Locals]
    BY <1>3, <1>a, <1>d, <2>1, LocalsType DEF EndScan, CallSetState, TypeOK
  <2>3. PcType'
    BY <1>3, <1>b, <1>c, <1>e DEF EndScan, CallSetState
  <2> QED
    BY <1>3, <1>a, <2>2, <2>3 DEF EndScan, TypeOK
<1>4. CASE StoreState(t)
  <2>1. PcType'
    BY <1>4, <1>b, <1>c, <1>e DEF StoreState
  <2> QED
    BY <1>4, <1>a, <1>d, <2>1 DEF StoreState, TypeOK
<1>5. CASE WriteSummary(t)
  <2>1. PcType'
    BY <1>5, <1>b, <1>c, <1>e DEF WriteSummary
  <2>2. loc' \in [Threads -> Locals]
    BY <1>5, <1>a, <1>b DEF WriteSummary, TypeOK, Locals
  <2>3. file' \in [Dirs -> [state : TracingState \cup {"none"},
                            readOnly : BOOLEAN]]
    BY <1>5, <1>a, <1>d DEF WriteSummary, TypeOK
  <2>4. m_state' \in TracingState
    BY <1>5, <1>a DEF WriteSummary, TypeOK, TracingState
  <2> QED
    BY <1>5, <1>a, <2>1, <2>2, <2>3, <2>4 DEF WriteSummary, TypeOK
<1>6. CASE SealSummary(t)
  <2>1. PcType'
    BY <1>6, <1>b, <1>d, <1>e DEF SealSummary
  <2>2. 0 \in Dirs /\ "NOT_STARTED" \in TracingState
    BY MaxSessionsAssumption DEF Dirs, TracingState
  <2>3. loc' \in [Threads -> Locals]
    BY <1>6, <1>a, <1>b, <2>2 DEF SealSummary, TypeOK, Locals
  <2>4. file' \in [Dirs -> [state : TracingState \cup {"none"},
                            readOnly : BOOLEAN]]
    <3> DEFINE sealed == file[loc[t].dir].readOnly \/ m_state \in Ended
    <3>1. sealed \in BOOLEAN
      OBVIOUS
    <3>2. file' = [file EXCEPT ![loc[t].dir].readOnly = sealed]
      BY <1>6 DEF SealSummary
    <3> HIDE DEF sealed
    <3> QED
      BY <3>1, <3>2, <1>a DEF TypeOK
  <2> QED
    BY <1>6, <1>a, <2>1, <2>3, <2>4 DEF SealSummary, TypeOK
<1> QED
  BY <1>1, <1>2, <1>3, <1>4, <1>5, <1>6 DEF SetState

-----------------------------------------------------------------------------
(* The inductive invariant.                                                *)

\* updateState and setState change nothing the rest of the invariant is
\* about: they move one thread through their own steps, and back.
LEMMA SetStateInvariant ==
    ASSUME IInv, NEW t \in Threads, SetState(t)
    PROVE  IInv'
<1>a. TypeOK /\ pc \in [Threads -> MgrLabels \cup ClientLabels]
        /\ loc \in [Threads -> Locals]
  BY DEF IInv, TypeOK, PcType
<1>1. TypeOK'
  BY SetStateType
<1>2. /\ UNCHANGED <<jobs, jobState, mutex, m_dir, sessions>>
      /\ pc[t] \in Updating /\ pc'[t] \in Updating \cup {loc[t].ret}
      /\ \A u \in Threads : /\ loc'[u].ret = loc[u].ret
                            /\ u # t => pc'[u] = pc[u]
  <2> USE <1>a DEF Goto, Updating
  <2>1. CASE UpdateState(t)
    BY <2>1 DEF UpdateState
  <2>2. CASE ScanJob(t)
    BY <2>2 DEF ScanJob, Locals
  <2>3. CASE EndScan(t)
    BY <2>3 DEF EndScan, CallSetState, NoLocals
  <2>4. CASE StoreState(t)
    BY <2>4 DEF StoreState
  <2>5. CASE WriteSummary(t)
    BY <2>5 DEF WriteSummary, Locals
  <2>6. CASE SealSummary(t)
    BY <2>6 DEF SealSummary, Locals
  <2> QED
    BY <2>1, <2>2, <2>3, <2>4, <2>5, <2>6 DEF SetState
<1>b. Mgr \in Threads /\ Clients \subseteq Threads /\ Mgr \notin Clients
  BY ClientsAssumption DEF Threads
<1>3. ASSUME NEW c \in Clients PROVE ClientReturns(c)'
  BY <1>2, <1>b DEF IInv, ClientReturns, Updating
<1>4. MgrReturns'
  BY <1>2, <1>b DEF IInv, MgrReturns, Updating
<1>5. ASSUME NEW c \in Clients PROVE InSection(c)' <=> InSection(c)
  BY <1>2, <1>b DEF IInv, ClientReturns, InSection, Updating
<1>6. MutexExact'
  BY <1>2, <1>5 DEF IInv, MutexExact
<1>7. SessionsBounded'
  BY <1>2, <1>b DEF IInv, SessionsBounded, ClientReturns, Updating
<1>8. JobsJoined'
  BY <1>2, <1>b DEF IInv, JobsJoined, MgrReturns, Updating
<1>9. JoinedMeansOver'
  BY <1>2, <1>b DEF IInv, JoinedMeansOver, Joined, ClientReturns,
                    MgrReturns, Updating
<1> QED
  BY <1>1, <1>3, <1>4, <1>6, <1>7, <1>8, <1>9 DEF IInv

\* A step of one client that leaves the management thread and the jobs alone,
\* takes or gives back the mutex for itself only, and joins nobody.
LEMMA ClientMoves ==
    ASSUME IInv, NEW c \in Clients, TypeOK',
           \A u \in Threads \ {c} : pc'[u] = pc[u] /\ loc'[u] = loc[u],
           UNCHANGED <<jobs, jobState>>,
           \/ mutex' = mutex
           \/ mutex = "free" /\ mutex' = c
           \/ mutex = c /\ mutex' = "free",
           ClientReturns(c)', InSection(c)' <=> mutex' = c,
           Joined(c)' => Joined(c),
           SessionsBounded'
    PROVE  IInv'
<1>a. /\ Mgr \in Threads \ {c} /\ "free" \notin Clients
      /\ \A d \in Clients \ {c} : d \in Threads \ {c}
  BY ClientsAssumption DEF Threads
<1>1. ASSUME NEW d \in Clients PROVE ClientReturns(d)'
  BY <1>a DEF IInv, ClientReturns
<1>2. MgrReturns' /\ JobsJoined'
  BY <1>a DEF IInv, MgrReturns, JobsJoined
<1>3. MutexExact'
  BY <1>a DEF IInv, MutexExact, InSection
<1>4. ASSUME NEW d \in Clients, Joined(d)'
      PROVE  mutex' = d /\ Joined(d)
  <2>1. CASE d = c
    BY <2>1, <1>4 DEF Joined, ClientReturns, InSection
  <2>2. CASE d # c
    <3>1. Joined(d) /\ mutex = d
      BY <2>2, <1>4, <1>a DEF IInv, Joined, JoinedMeansOver
    <3> QED
      BY <2>2, <3>1, <1>a
  <2> QED
    BY <2>1, <2>2
<1>5. JoinedMeansOver'
  BY <1>4, <1>a DEF IInv, JoinedMeansOver
<1> QED
  BY <1>1, <1>2, <1>3, <1>5 DEF IInv

\* The handlers that only ask, and the ends of the calls.
LEMMA HandlerInvariant ==
    ASSUME IInv, NEW c \in Clients,
           \/ StartTracing(c) \/ StopTracing(c) \/ GetTraceSummary(c)
           \/ LockStart(c) \/ CheckState(c) \/ DirectoryFails(c)
           \/ LockStop(c) \/ UnlockStop(c) \/ Report(c)
    PROVE  IInv'
<1>a. /\ TypeOK /\ ClientReturns(c) /\ (InSection(c) <=> mutex = c)
      /\ c \in Threads /\ c # Mgr /\ c # "free"
      /\ pc \in [Threads -> MgrLabels \cup ClientLabels]
      /\ loc \in [Threads -> Locals]
  BY ClientsAssumption DEF IInv, MutexExact, TypeOK, PcType, Threads
<1>b. \A l \in ClientLabels : Goto(c, l) => PcType'
  BY <1>a, GotoType
<1>c. sessions \in 0..MaxSessions
  BY <1>a DEF TypeOK
<1>d. sessions # MaxSessions => sessions < MaxSessions
  BY <1>c, MaxSessionsAssumption
<1>1. /\ UNCHANGED <<m_dir, jobs, jobState, sessions, file, aged, m_state>>
      /\ m_finish' \in BOOLEAN
      /\ \E l \in ClientLabels : Goto(c, l)
      /\ loc' = loc \/ \E L \in Locals : loc' = [loc EXCEPT ![c] = L]
      /\ \/ mutex' = mutex
         \/ mutex = "free" /\ mutex' = c
         \/ mutex = c /\ mutex' = "free"
      /\ pc'[c] = "dir" => sessions < MaxSessions
      /\ Joined(c)' => Joined(c)
      /\ ClientReturns(c)'
      /\ InSection(c)' <=> mutex' = c
  <2> USE <1>a, LocalsType
      DEF Goto, ClientLabels, Updating, ClientReturns, InSection, Joined,
          NoLocals, TypeOK
  <2>1. CASE StartTracing(c)
    BY <2>1 DEF StartTracing
  <2>2. CASE StopTracing(c)
    BY <2>2 DEF StopTracing
  <2>3. CASE GetTraceSummary(c)
    BY <2>3 DEF GetTraceSummary, CallUpdateState
  <2>4. CASE LockStart(c)
    BY <2>4 DEF LockStart, CallUpdateState
  <2>5. CASE CheckState(c)
    <3>1. /\ pc[c] = "check"
          /\ UNCHANGED <<m_state, m_finish, m_dir, jobs, jobState, file, aged,
                         sessions>>
          /\ \/ /\ mutex' = "free" /\ Goto(c, "idle")
                /\ loc' = [loc EXCEPT ![c] = NoLocals]
             \/ /\ sessions < MaxSessions /\ Goto(c, "dir")
                /\ UNCHANGED <<mutex, loc>>
      BY <2>5, <1>d DEF CheckState
    <3>2. CASE mutex' = "free" /\ Goto(c, "idle")
                 /\ loc' = [loc EXCEPT ![c] = NoLocals]
      BY <3>1, <3>2
    <3>3. CASE sessions < MaxSessions /\ Goto(c, "dir")
                 /\ UNCHANGED <<mutex, loc>>
      BY <3>1, <3>3
    <3> QED
      BY <3>1, <3>2, <3>3
  <2>6. CASE DirectoryFails(c)
    BY <2>6 DEF DirectoryFails
  <2>7. CASE LockStop(c)
    BY <2>7 DEF LockStop
  <2>8. CASE UnlockStop(c)
    BY <2>8 DEF UnlockStop, CallUpdateState
  <2>9. CASE Report(c)
    BY <2>9 DEF Report
  <2> QED
    BY <2>1, <2>2, <2>3, <2>4, <2>5, <2>6, <2>7, <2>8, <2>9
<1>2. TypeOK'
  BY <1>1, <1>a, <1>b DEF TypeOK
<1>3. \A u \in Threads \ {c} : pc'[u] = pc[u] /\ loc'[u] = loc[u]
  BY <1>1, <1>a DEF Goto
<1>4. SessionsBounded'
  BY <1>1, <1>3 DEF IInv, SessionsBounded, Threads
<1> QED
  BY <1>1, <1>2, <1>3, <1>4, ClientMoves

\* Naming the directory of the next session: under the mutex, so nobody else
\* is between the check of the bound and this step.
LEMMA DirectoryInvariant ==
    ASSUME IInv, NEW c \in Clients, InitializeTraceDirectory(c)
    PROVE  IInv'
<1>a. /\ TypeOK /\ ClientReturns(c) /\ (InSection(c) <=> mutex = c)
      /\ c \in Threads /\ c # Mgr
      /\ pc \in [Threads -> MgrLabels \cup ClientLabels]
  BY ClientsAssumption DEF IInv, MutexExact, TypeOK, PcType, Threads
<1>1. /\ pc[c] = "dir" /\ Goto(c, "join") /\ sessions' = sessions + 1
      /\ m_dir' \in {m_dir, m_dir + 1} /\ aged' = FALSE
      /\ UNCHANGED <<m_state, m_finish, jobs, jobState, mutex, file, loc>>
  BY DEF InitializeTraceDirectory
<1>2. mutex = c /\ loc[c].ret = "check"
  BY <1>1, <1>a DEF ClientReturns, InSection
<1>3. /\ sessions \in 0..MaxSessions /\ m_dir \in 0..MaxSessions
      /\ sessions < MaxSessions /\ m_dir <= sessions
  BY <1>1 DEF IInv, SessionsBounded, TypeOK, Dirs
<1>4. /\ sessions' \in 0..MaxSessions /\ m_dir' \in 0..MaxSessions
      /\ m_dir' <= sessions'
  BY <1>1, <1>3, MaxSessionsAssumption
<1>5. PcType'
  BY <1>1, <1>a, GotoType DEF ClientLabels
<1>6. TypeOK'
  BY <1>1, <1>4, <1>5, <1>a DEF TypeOK, Dirs
<1>7. \A u \in Threads \ {c} : pc'[u] = pc[u]
  BY <1>1, <1>a DEF Goto
<1>8. pc'[c] = "join"
  BY <1>1, <1>a DEF Goto
<1>9. ASSUME NEW d \in Clients, pc'[d] = "dir" PROVE FALSE
  <2>1. d # c /\ pc[d] = "dir"
    BY <1>7, <1>8, <1>9 DEF Threads
  <2> QED
    BY <2>1, <1>2 DEF IInv, MutexExact, InSection, ClientReturns
<1>10. SessionsBounded'
  BY <1>4, <1>9 DEF SessionsBounded
<1>11. /\ ClientReturns(c)' /\ (InSection(c)' <=> mutex' = c)
       /\ Joined(c)' => Joined(c)
  BY <1>1, <1>2, <1>8 DEF ClientReturns, InSection, Joined, Updating
<1> QED
  BY <1>1, <1>6, <1>7, <1>10, <1>11, ClientMoves

\* Whoever is in the section keeps everybody else from having joined.
LEMMA OnlyJoined ==
    ASSUME IInv, NEW c \in Clients, InSection(c)
    PROVE  /\ mutex = c
           /\ \A d \in Clients \ {c} : ~Joined(d) /\ ~InSection(d)
BY DEF IInv, MutexExact, JoinedMeansOver

\* joinThread returns: the management thread has joined its jobs.
LEMMA JoinInvariant ==
    ASSUME IInv, NEW c \in Clients, JoinThread(c)
    PROVE  IInv'
<1>a. /\ TypeOK /\ ClientReturns(c) /\ MgrReturns
      /\ c \in Threads /\ Mgr \in Threads /\ c # Mgr /\ Mgr \notin Clients
      /\ Clients \subseteq Threads
      /\ pc \in [Threads -> MgrLabels \cup ClientLabels]
      /\ loc \in [Threads -> Locals]
  BY ClientsAssumption DEF IInv, MutexExact, TypeOK, PcType, Threads
<1>1. /\ pc[c] \in {"join", "stop_join"} /\ pc[Mgr] \in {"none", "exited"}
      /\ UNCHANGED <<m_state, m_finish, m_dir, jobs, jobState, mutex, file,
                     aged, sessions>>
      /\ \/ /\ pc[c] = "join" /\ UNCHANGED loc
            /\ pc' = [pc EXCEPT ![c] = "delete", ![Mgr] = "none"]
         \/ /\ pc[c] = "stop_join"
            /\ pc' = [pc EXCEPT ![c] = "update", ![Mgr] = "none"]
            /\ loc' = [loc EXCEPT ![c] = [NoLocals EXCEPT !.ret = "unlock"]]
  BY DEF JoinThread
<1>2. InSection(c)
  BY <1>1, <1>a DEF InSection, ClientReturns
<1>3. /\ pc'[Mgr] = "none" /\ pc'[c] \in {"delete", "update"}
      /\ \A d \in Clients \ {c} : pc'[d] = pc[d] /\ loc'[d] = loc[d]
      /\ loc'[Mgr] = loc[Mgr]
  BY <1>1, <1>a
<1>4. TypeOK'
  <2>1. loc' \in [Threads -> Locals]
    <3>1. "unlock" \in ClientLabels
      BY DEF ClientLabels
    <3>2. [NoLocals EXCEPT !.ret = "unlock"] \in Locals
      BY <3>1, LocalsType
    <3> QED
      BY <1>1, <1>a, <3>2
  <2>2. PcType'
    <3>1. /\ {"none"} \subseteq MgrLabels
          /\ {"delete", "update"} \subseteq ClientLabels
      BY DEF MgrLabels, ClientLabels, Updating
    <3>2. \A d \in Clients : pc'[d] \in ClientLabels
      BY <1>3, <1>a, <3>1 DEF PcType, TypeOK
    <3>3. pc' \in [Threads -> MgrLabels \cup ClientLabels]
      BY <1>1, <1>a, <3>1
    <3> QED
      BY <1>3, <3>1, <3>2, <3>3 DEF PcType
  <2> QED
    BY <1>1, <1>a, <2>1, <2>2 DEF TypeOK
<1>5. ClientReturns(c)' /\ InSection(c)'
  BY <1>1, <1>a DEF ClientReturns, InSection, Updating, NoLocals
<1>6. ASSUME NEW d \in Clients PROVE ClientReturns(d)'
  BY <1>3, <1>5 DEF IInv, ClientReturns
<1>7. MgrReturns' /\ SessionsBounded'
  BY <1>1, <1>3 DEF IInv, MgrReturns, SessionsBounded, Updating
<1>8. MutexExact'
  BY <1>1, <1>2, <1>3, <1>5 DEF IInv, MutexExact, InSection
<1>9. \A q \in 0..(jobs - 1) : jobState[q] \in Ended
  BY <1>1 DEF IInv, JobsJoined
<1>10. JobsJoined'
  BY <1>1, <1>9 DEF JobsJoined
<1>11. \A d \in Clients \ {c} : ~Joined(d)'
  BY <1>2, <1>3, OnlyJoined DEF Joined
<1>12. JoinedMeansOver'
  BY <1>1, <1>2, <1>3, <1>9, <1>11, OnlyJoined DEF JoinedMeansOver
<1> QED
  BY <1>4, <1>6, <1>7, <1>8, <1>10, <1>12 DEF IInv

\* The jobs of the last session are deleted: nobody else relies on them.
LEMMA DeleteInvariant ==
    ASSUME IInv, NEW c \in Clients, DeleteJobs(c)
    PROVE  IInv'
<1>a. /\ TypeOK /\ ClientReturns(c) /\ MgrReturns
      /\ c \in Threads /\ Mgr \in Threads /\ c # Mgr /\ Mgr \notin Clients
      /\ Clients \subseteq Threads
      /\ pc \in [Threads -> MgrLabels \cup ClientLabels]
      /\ loc \in [Threads -> Locals]
  BY ClientsAssumption DEF IInv, MutexExact, TypeOK, PcType, Threads
<1>1. /\ pc[c] = "delete" /\ Goto(c, "store")
      /\ loc' = [loc EXCEPT ![c] =
                   [NoLocals EXCEPT !.ret = "spawn", !.arg = "INITIALIZING"]]
      /\ jobs' = 0 /\ jobState' = [q \in Queues |-> "NOT_STARTED"]
      /\ m_finish' = FALSE
      /\ UNCHANGED <<m_state, m_dir, mutex, file, aged, sessions>>
  BY DEF DeleteJobs, CallSetState
<1>2. InSection(c) /\ Joined(c)
  BY <1>1, <1>a DEF InSection, Joined, ClientReturns
<1>3. /\ pc'[c] = "store" /\ loc'[c].ret = "spawn"
      /\ \A u \in Threads \ {c} : pc'[u] = pc[u] /\ loc'[u] = loc[u]
  BY <1>1, <1>a DEF Goto, NoLocals
<1>4. TypeOK'
  <2>1. loc' \in [Threads -> Locals]
    <3>1. "spawn" \in ClientLabels /\ "INITIALIZING" \in TracingState
      BY DEF ClientLabels, TracingState
    <3> QED
      BY <1>1, <1>a, <3>1, LocalsType
  <2>2. PcType'
    BY <1>1, <1>a, GotoType DEF ClientLabels, Updating
  <2>3. jobState' \in [Queues -> TracingState \ {"INITIALIZING"}]
    BY <1>1 DEF TracingState
  <2>4. jobs' \in 0..QueueCount
    BY <1>1, QueueCountAssumption
  <2> QED
    BY <1>1, <1>a, <2>1, <2>2, <2>3, <2>4 DEF TypeOK
<1>5. ASSUME NEW d \in Clients PROVE ClientReturns(d)'
  BY <1>3, <1>a DEF IInv, ClientReturns, Updating
<1>6. MgrReturns' /\ SessionsBounded'
  BY <1>1, <1>3, <1>a DEF IInv, MgrReturns, SessionsBounded
<1>7. MutexExact'
  BY <1>1, <1>2, <1>3, <1>a DEF IInv, MutexExact, InSection
<1>8. \A q \in 0..(jobs' - 1) : FALSE
  BY <1>1
<1>9. JobsJoined'
  BY <1>8 DEF JobsJoined
<1>10. \A d \in Clients \ {c} : ~Joined(d)'
  BY <1>2, <1>3, <1>a, OnlyJoined DEF Joined
<1>11. JoinedMeansOver'
  BY <1>1, <1>2, <1>3, <1>8, <1>10, <1>a DEF IInv, JoinedMeansOver
<1> QED
  BY <1>4, <1>5, <1>6, <1>7, <1>9, <1>11 DEF IInv

\* A new management thread starts when there is none, and the mutex is given
\* back.
LEMMA SpawnInvariant ==
    ASSUME IInv, NEW c \in Clients, SpawnManager(c)
    PROVE  IInv'
<1>a. /\ TypeOK /\ ClientReturns(c)
      /\ c \in Threads /\ Mgr \in Threads /\ c # Mgr /\ Mgr \notin Clients
      /\ Clients \subseteq Threads /\ "free" \notin Clients
      /\ pc \in [Threads -> MgrLabels \cup ClientLabels]
      /\ loc \in [Threads -> Locals]
  BY ClientsAssumption DEF IInv, TypeOK, PcType, Threads
<1>1. /\ pc[c] = "spawn" /\ mutex' = "free"
      /\ pc' = [pc EXCEPT ![c] = "idle", ![Mgr] = "setup"]
      /\ loc' = [loc EXCEPT ![c] = NoLocals, ![Mgr] = NoLocals]
      /\ UNCHANGED <<m_state, m_finish, m_dir, jobs, jobState, file, aged,
                     sessions>>
  BY DEF SpawnManager
<1>2. InSection(c)
  BY <1>1, <1>a DEF InSection, ClientReturns
<1>3. /\ pc'[c] = "idle" /\ loc'[c].ret = "idle"
      /\ pc'[Mgr] = "setup" /\ loc'[Mgr].ret = "idle"
      /\ \A d \in Clients \ {c} : pc'[d] = pc[d] /\ loc'[d] = loc[d]
  BY <1>1, <1>a DEF NoLocals
<1>4. TypeOK'
  <2>1. loc' \in [Threads -> Locals]
    BY <1>1, <1>a, LocalsType
  <2>2. "idle" \in ClientLabels /\ "setup" \in MgrLabels
    BY DEF MgrLabels, ClientLabels
  <2>3. pc' \in [Threads -> MgrLabels \cup ClientLabels]
    BY <1>1, <1>a, <2>2
  <2>4. \A d \in Clients : pc'[d] \in ClientLabels
    BY <1>3, <1>a, <2>2 DEF TypeOK, PcType
  <2>5. PcType'
    BY <1>3, <2>2, <2>3, <2>4 DEF PcType
  <2> QED
    BY <1>1, <1>a, <2>1, <2>5 DEF TypeOK
<1>5. ASSUME NEW d \in Clients PROVE ClientReturns(d)'
  BY <1>3 DEF IInv, ClientReturns, Updating
<1>6. MgrReturns' /\ SessionsBounded' /\ JobsJoined'
  BY <1>1, <1>3 DEF IInv, MgrReturns, SessionsBounded, JobsJoined, Updating
<1>7. \A d \in Clients : ~InSection(d)' /\ ~Joined(d)'
  BY <1>2, <1>3, OnlyJoined DEF InSection, Joined
<1>8. MutexExact' /\ JoinedMeansOver'
  BY <1>1, <1>7, <1>a DEF MutexExact, JoinedMeansOver
<1> QED
  BY <1>4, <1>5, <1>6, <1>8 DEF IInv

\* handleJobs outside updateState and setState.
LEMMA MgrInvariant ==
    ASSUME IInv,
           \/ SetupJob \/ SetupFails \/ JobsInitialized \/ PollingEnds
           \/ StopJobThreads \/ JoinJobs
    PROVE  IInv'
<1>a. /\ TypeOK /\ MgrReturns
      /\ Mgr \in Threads /\ Mgr \notin Clients /\ Clients \subseteq Threads
      /\ pc \in [Threads -> MgrLabels \cup ClientLabels]
      /\ loc \in [Threads -> Locals]
  BY ClientsAssumption DEF IInv, TypeOK, PcType, Threads
<1>b. \A l \in MgrLabels : Goto(Mgr, l) => PcType'
  BY <1>a, GotoType
\* The jobs are all over, or the management thread has not joined them.
<1>1. /\ UNCHANGED <<m_state, m_finish, m_dir, mutex, file, sessions>>
      /\ aged' \in BOOLEAN
      /\ \E l \in MgrLabels : Goto(Mgr, l)
      /\ loc' = loc \/ \E L \in Locals : loc' = [loc EXCEPT ![Mgr] = L]
      /\ MgrReturns'
      /\ pc[Mgr] \in {"setup", "run", "stopjobs", "joinjobs"}
      /\ pc'[Mgr] \notin {"none", "exited"}
      /\ loc'[Mgr].ret = "exited" => /\ UNCHANGED <<jobs, jobState>>
                                     /\ \A q \in 0..(jobs - 1) :
                                          jobState[q] \in Ended
      /\ \/ UNCHANGED <<jobs, jobState>>
         \/ /\ jobs < QueueCount /\ jobs' = jobs + 1
            /\ jobState' = [jobState EXCEPT ![jobs] = "NOT_STARTED"]
  <2> USE <1>a, LocalsType
      DEF Goto, MgrLabels, Updating, MgrReturns, NoLocals
  <2>1. CASE SetupJob
    BY <2>1 DEF SetupJob, TypeOK
  <2>2. CASE SetupFails
    BY <2>2 DEF SetupFails, CallSetState, TracingState, TypeOK
  <2>3. CASE JobsInitialized
    BY <2>3 DEF JobsInitialized, CallSetState, TracingState, TypeOK
  <2>4. CASE PollingEnds
    BY <2>4 DEF PollingEnds, TypeOK
  <2>5. CASE StopJobThreads
    BY <2>5 DEF StopJobThreads, TypeOK
  <2>6. CASE JoinJobs
    BY <2>6 DEF JoinJobs, CallUpdateState, TypeOK
  <2> QED
    BY <2>1, <2>2, <2>3, <2>4, <2>5, <2>6
<1>2. TypeOK'
  <2>1. jobs' \in 0..QueueCount
    BY <1>1, <1>a, QueueCountAssumption DEF TypeOK
  <2>2. jobState' \in [Queues -> TracingState \ {"INITIALIZING"}]
    BY <1>1, <1>a DEF TypeOK, TracingState
  <2>3. loc' \in [Threads -> Locals] /\ PcType'
    BY <1>1, <1>a, <1>b
  <2> QED
    BY <1>1, <1>a, <2>1, <2>2, <2>3 DEF TypeOK
<1>3. \A c \in Clients : pc'[c] = pc[c] /\ loc'[c] = loc[c]
  BY <1>1, <1>a DEF Goto
<1>4. ASSUME NEW c \in Clients
      PROVE  ClientReturns(c)' /\ (InSection(c)' <=> mutex' = c)
  BY <1>1, <1>3 DEF IInv, ClientReturns, MutexExact, InSection
<1>5. SessionsBounded'
  BY <1>1, <1>3 DEF IInv, SessionsBounded
<1>6. JobsJoined'
  BY <1>1 DEF JobsJoined
<1>7. ASSUME NEW c \in Clients PROVE ~Joined(c)'
  BY <1>1, <1>3 DEF IInv, JoinedMeansOver, Joined
<1>8. MutexExact' /\ JoinedMeansOver'
  BY <1>4, <1>7 DEF MutexExact, JoinedMeansOver
<1> QED
  BY <1>1, <1>2, <1>4, <1>5, <1>6, <1>8 DEF IInv

\* A job starts or ends; an ended job stays so.
LEMMA JobInvariant ==
    ASSUME IInv, NEW q \in Queues,
           DoWork(q) \/ \E s \in Ended : EndWork(q, s)
    PROVE  IInv'
<1>a. TypeOK
  BY DEF IInv
<1>1. /\ UNCHANGED <<m_state, m_finish, m_dir, jobs, mutex, file, aged, pc,
                     loc, sessions>>
      /\ jobState[q] \notin Ended
      /\ \E s \in Ended \cup {"RUNNING"} :
           jobState' = [jobState EXCEPT ![q] = s]
      /\ q \in 0..(jobs - 1)
  <2>1. q < jobs => q \in 0..(jobs - 1)
    BY <1>a DEF Queues, TypeOK
  <2> QED
    BY <2>1 DEF DoWork, EndWork, Ended
<1>2. TypeOK'
  <2>1. jobState' \in [Queues -> TracingState \ {"INITIALIZING"}]
    BY <1>1, <1>a DEF TypeOK, TracingState, Ended
  <2> QED
    BY <1>1, <1>a, <2>1 DEF TypeOK, PcType
<1>3. /\ ~(pc[Mgr] \in {"none", "exited"} \/ loc[Mgr].ret = "exited")
      /\ \A c \in Clients : ~Joined(c)
  BY <1>1 DEF IInv, JobsJoined, JoinedMeansOver
<1>4. JobsJoined' /\ JoinedMeansOver'
  BY <1>1, <1>3 DEF JobsJoined, JoinedMeansOver, Joined
<1> QED
  BY <1>1, <1>2, <1>4
     DEF IInv, ClientReturns, MgrReturns, MutexExact, InSection,
         SessionsBounded

-----------------------------------------------------------------------------
\* IInv is inductive.
LEMMA InvariantHolds == Spec => []IInv
<1>1. Init => IInv
  BY InitInvariant
<1>2. IInv /\ [Next]_vars => IInv'
  <2> SUFFICES ASSUME IInv, [Next]_vars PROVE IInv'
    OBVIOUS
  <2>1. CASE \E c \in Clients : \/ StartTracing(c) \/ StopTracing(c)
                                \/ GetTraceSummary(c) \/ Serve(c)
    <3> PICK c \in Clients : \/ StartTracing(c) \/ StopTracing(c)
                             \/ GetTraceSummary(c) \/ Serve(c)
      BY <2>1
    <3>1. c \in Threads
      BY DEF Threads
    <3> QED
      BY <3>1, HandlerInvariant, DirectoryInvariant, JoinInvariant,
         DeleteInvariant, SpawnInvariant, SetStateInvariant DEF Serve
  <2>2. CASE Manage \/ SetupFails \/ LimitReached
    <3>1. Mgr \in Threads
      BY DEF Threads
    <3> QED
      BY <2>2, <3>1, MgrInvariant, SetStateInvariant
         DEF Manage, Finish, LimitReached
  <2>3. CASE \E q \in Queues : DoWork(q) \/ \E s \in Ended : EndWork(q, s)
    BY <2>3, JobInvariant
  <2>4. CASE UNCHANGED vars
    BY <2>4
       DEF vars, IInv, TypeOK, PcType, ClientReturns, MgrReturns, MutexExact,
           InSection, SessionsBounded, JobsJoined, JoinedMeansOver, Joined
  <2> QED
    BY <2>1, <2>2, <2>3, <2>4 DEF Next
<1> QED
  BY <1>1, <1>2, PTL DEF Spec

\* Every variable of the trace manager keeps its type, in particular the job
\* list never outgrows the number of queues.
THEOREM TypeCorrect == Spec => []TypeOK
<1>1. IInv => TypeOK
  BY DEF IInv
<1> QED
  BY <1>1, InvariantHolds, PTL

\* When startJobs or stopJobs has joined the management thread, no such thread
\* and no running job exist until the call gives the mutex back: jobs are not
\* deleted under a running thread, m_thread is not assigned over a joinable
\* one, and StopTracing returns with tracing stopped.
THEOREM JoinedCorrect == Spec => []JoinedMeansOver
<1>1. IInv => JoinedMeansOver
  BY DEF IInv
<1> QED
  BY <1>1, InvariantHolds, PTL

-----------------------------------------------------------------------------
(* The outcome of the first session.                                       *)

Started == jobs = QueueCount /\ \A q \in Queues : jobState[q] # "NOT_STARTED"
Completed == jobs = QueueCount /\ \A q \in Queues : jobState[q] = "COMPLETE"

\* c is in startJobs between naming the directory and spawning the thread.
Opening(c) == pc[c] \in {"join", "delete"} \/ loc[c].ret = "spawn"

\* Until the management thread of the first session is spawned there is
\* neither such a thread nor a job.
OpeningSound ==
    /\ \A c \in Clients : Opening(c) => sessions > 0
    /\ sessions <= 1 /\ (sessions = 0 \/ \E c \in Clients : Opening(c))
         => jobs = 0 /\ pc[Mgr] = "none"

\* updateState of t has passed over the jobs below its q: each has completed,
\* or t has seen it otherwise.
ScanSound(t) ==
    /\ pc[t] = "scan" \/ loc[t].arg \in {"RUNNING", "COMPLETE"} => Started
    /\ loc[t].arg = "COMPLETE" => Completed
    /\ pc[t] = "update" => loc[t].q = 0
    /\ pc[t] = "scan" =>
         \A q \in 0..(loc[t].q - 1) :
           \/ jobState[q] = "COMPLETE"
           \/ loc[t].seen \cap {"RUNNING", "ERROR"} # {}

\* A state that is stored, or is about to be, is true of the jobs.
OutcomeSound ==
    sessions <= 1 =>
      /\ m_state \in {"RUNNING", "COMPLETE"} => Started
      /\ m_state = "COMPLETE" => Completed
      /\ \A t \in Threads : ScanSound(t)

FirstSession == OpeningSound /\ OutcomeSound

\* A step that leaves m_state alone keeps OutcomeSound when no thread starts
\* to scan, nobody is sent off to store more than the jobs justify, and no
\* job is lost or restarted.
LEMMA OutcomeKept ==
    ASSUME OutcomeSound, sessions' <= 1 => sessions <= 1,
           m_state' = m_state,
           sessions' <= 1 =>
             /\ Started => Started'
             /\ Completed => Completed'
             /\ Started => \A q \in Queues :
                  jobState[q] = "COMPLETE" => jobState'[q] = "COMPLETE",
           \A t \in Threads :
             /\ pc'[t] = "scan" => pc[t] = "scan" /\ loc'[t] = loc[t]
             /\ pc'[t] = "update" => \/ loc'[t].q = 0
                                     \/ pc[t] = "update" /\ loc'[t] = loc[t]
             /\ \/ loc'[t].arg = loc[t].arg
                \/ loc'[t].arg \notin {"RUNNING", "COMPLETE"}
                \/ loc'[t].arg = "RUNNING" /\ Started',
           \A t \in Threads : pc[t] = "scan" => loc[t].q <= QueueCount
                                                 /\ loc[t].q \in Nat
    PROVE  OutcomeSound'
<1> SUFFICES ASSUME sessions' <= 1 PROVE OutcomeSound'
  BY DEF OutcomeSound
<1>1. /\ m_state \in {"RUNNING", "COMPLETE"} => Started
      /\ m_state = "COMPLETE" => Completed
      /\ \A t \in Threads : ScanSound(t)
  BY DEF OutcomeSound
<1>2. ASSUME NEW t \in Threads PROVE ScanSound(t)'
  <2>1. loc'[t].arg \in {"RUNNING", "COMPLETE"} => Started'
    BY <1>1 DEF ScanSound
  <2>2. loc'[t].arg = "COMPLETE" => Completed'
    BY <1>1 DEF ScanSound
  <2>3. ASSUME pc'[t] = "scan"
        PROVE  /\ Started'
               /\ \A q \in 0..(loc'[t].q - 1) :
                    \/ jobState'[q] = "COMPLETE"
                    \/ loc'[t].seen \cap {"RUNNING", "ERROR"} # {}
    <3>1. pc[t] = "scan" /\ loc'[t] = loc[t]
      BY <2>3
    <3>2. Started
      BY <1>1, <3>1 DEF ScanSound
    <3>3. \A q \in 0..(loc[t].q - 1) : q \in Queues
      BY <3>1, QueueCountAssumption DEF Queues
    <3>4. \A q \in 0..(loc[t].q - 1) :
             \/ jobState[q] = "COMPLETE"
             \/ loc[t].seen \cap {"RUNNING", "ERROR"} # {}
      BY <1>1, <3>1 DEF ScanSound
    <3> QED
      BY <3>1, <3>2, <3>3, <3>4
  <2>4. pc'[t] = "update" => loc'[t].q = 0
    BY <1>1 DEF ScanSound
  <2> QED
    BY <2>1, <2>2, <2>3, <2>4 DEF ScanSound
<1> QED
  BY <1>1, <1>2 DEF OutcomeSound

\* Where the threads stand in the steps of updateState and setState.
LEMMA SetStateMoves ==
    ASSUME IInv, NEW t \in Threads, SetState(t)
    PROVE  /\ UNCHANGED <<jobs, jobState, sessions>>
           /\ \A u \in Threads \ {t} : pc'[u] = pc[u] /\ loc'[u] = loc[u]
           /\ pc[t] \in Updating /\ pc'[t] \in Updating \cup {loc[t].ret}
           /\ loc'[t].ret = loc[t].ret
<1>a. pc \in [Threads -> MgrLabels \cup ClientLabels]
        /\ loc \in [Threads -> Locals]
  BY DEF IInv, TypeOK, PcType
<1> USE <1>a DEF Goto, Updating
<1>1. CASE UpdateState(t)
  BY <1>1 DEF UpdateState
<1>2. CASE ScanJob(t)
  BY <1>2 DEF ScanJob, Locals
<1>3. CASE EndScan(t)
  BY <1>3 DEF EndScan, CallSetState, NoLocals
<1>4. CASE StoreState(t)
  BY <1>4 DEF StoreState
<1>5. CASE WriteSummary(t)
  BY <1>5 DEF WriteSummary, Locals
<1>6. CASE SealSummary(t)
  BY <1>6 DEF SealSummary, Locals
<1> QED
  BY <1>1, <1>2, <1>3, <1>4, <1>5, <1>6 DEF SetState

\* What updateState concludes from the jobs it has seen, in a session whose
\* jobs have all started.
LEMMA OverallSound ==
    ASSUME IInv, NEW t \in Threads, pc[t] = "scan", loc[t].q >= jobs,
           ScanSound(t)
    PROVE  /\ Started
           /\ overall(loc[t].seen) = "COMPLETE" => Completed
<1>1. Started /\ jobs = QueueCount
  BY DEF ScanSound, Started
<1>2. /\ loc[t] \in Locals /\ loc[t].q \in 0..QueueCount
  BY DEF IInv, TypeOK, Locals
<1>3. Queues = 0..(loc[t].q - 1)
  BY <1>1, <1>2, QueueCountAssumption DEF Queues
<1>4. ASSUME overall(loc[t].seen) = "COMPLETE"
      PROVE  loc[t].seen \cap {"RUNNING", "ERROR"} = {}
  BY <1>4 DEF overall
<1>5. overall(loc[t].seen) = "COMPLETE" =>
         \A q \in Queues : jobState[q] = "COMPLETE"
  BY <1>3, <1>4 DEF ScanSound
<1> QED
  BY <1>1, <1>5 DEF Completed

\* A step of updateState or setState, in any thread.
LEMMA SetStateOutcome ==
    ASSUME IInv, FirstSession, NEW t \in Threads, SetState(t)
    PROVE  FirstSession'
<1>a. /\ TypeOK
      /\ pc \in [Threads -> MgrLabels \cup ClientLabels]
      /\ loc \in [Threads -> Locals]
      /\ Mgr \in Threads /\ Clients \subseteq Threads /\ Mgr \notin Clients
  BY ClientsAssumption DEF IInv, TypeOK, PcType, Threads
<1>b. /\ UNCHANGED <<jobs, jobState, sessions>>
      /\ \A u \in Threads \ {t} : pc'[u] = pc[u] /\ loc'[u] = loc[u]
      /\ pc[t] \in Updating /\ pc'[t] \in Updating \cup {loc[t].ret}
      /\ loc'[t].ret = loc[t].ret
  BY SetStateMoves
<1>c. /\ Started' <=> Started
      /\ Completed' <=> Completed
  BY <1>b DEF Started, Completed
<1>d. loc[t].q \in 0..QueueCount /\ loc[t].arg \in TracingState
  BY <1>a DEF Locals
<1>1. OpeningSound'
  <2>1. ASSUME NEW c \in Clients PROVE Opening(c)' => Opening(c)
    <3>1. CASE c = t
      <4>1. loc[c].ret \in {"check", "spawn", "unlock", "report", "stopped"}
        BY <1>b, <3>1 DEF IInv, ClientReturns
      <4> QED
        BY <1>b, <3>1, <4>1 DEF Opening, Updating
    <3>2. CASE c # t
      BY <1>a, <1>b, <3>2 DEF Opening
    <3> QED
      BY <3>1, <3>2
  <2>2. pc[Mgr] = "none" => pc'[Mgr] = "none"
    BY <1>a, <1>b DEF Updating
  <2> QED
    BY <1>b, <2>1, <2>2 DEF FirstSession, OpeningSound
<1>2. OutcomeSound'
  <2> SUFFICES ASSUME sessions' <= 1 PROVE OutcomeSound'
    BY DEF OutcomeSound
  <2>1. /\ m_state \in {"RUNNING", "COMPLETE"} => Started
        /\ m_state = "COMPLETE" => Completed
        /\ \A u \in Threads : ScanSound(u)
    BY <1>b DEF FirstSession, OutcomeSound
  <2>2. ASSUME NEW u \in Threads \ {t} PROVE ScanSound(u)'
    BY <1>b, <1>c, <2>1 DEF ScanSound
  <2>3. /\ m_state' \in {"RUNNING", "COMPLETE"} => Started
        /\ m_state' = "COMPLETE" => Completed
        /\ ScanSound(t)'
    <3>a. ScanSound(t) /\ loc[t].ret \notin Updating
      BY <1>a, <1>b, <2>1
         DEF IInv, ClientReturns, MgrReturns, Threads, Updating
    <3>1. CASE UpdateState(t)
      <4>1. /\ m_state' = m_state /\ loc' = loc /\ pc[t] = "update"
            /\ pc'[t] = "scan" => m_state = "RUNNING"
            /\ pc'[t] # "update"
        BY <1>a, <3>a, <3>1 DEF UpdateState, Goto, Updating
      <4> QED
        BY <4>1, <3>a, <1>c, <2>1 DEF ScanSound
    <3>2. CASE ScanJob(t)
      <4>1. /\ m_state' = m_state /\ pc' = pc /\ pc[t] = "scan"
            /\ loc[t].q \in 0..(jobs - 1) /\ jobs \in 0..QueueCount
            /\ loc' = [loc EXCEPT
                         ![t].seen = loc[t].seen \cup {jobState[loc[t].q]},
                         ![t].q = loc[t].q + 1]
        BY <1>a, <1>d, <3>2 DEF ScanJob, TypeOK
      <4>2. /\ loc'[t].q = loc[t].q + 1 /\ loc'[t].arg = loc[t].arg
            /\ loc'[t].seen = loc[t].seen \cup {jobState[loc[t].q]}
        BY <4>1, <1>a DEF Locals
      <4>3. Started /\ loc[t].q \in Queues
        BY <4>1, <3>a DEF ScanSound, Started, Queues
      <4>4. jobState[loc[t].q] \in {"RUNNING", "COMPLETE", "ERROR"}
        BY <4>3, <1>a DEF Started, TypeOK, TracingState
      <4>5. ASSUME NEW q \in 0..(loc'[t].q - 1)
            PROVE  \/ jobState[q] = "COMPLETE"
                   \/ loc'[t].seen \cap {"RUNNING", "ERROR"} # {}
        <5>1. q \in 0..(loc[t].q - 1) \/ q = loc[t].q
          BY <4>2, <4>5, <1>d
        <5> QED
          BY <5>1, <3>a, <4>1, <4>2, <4>4 DEF ScanSound
      <4> QED
        BY <4>1, <4>2, <4>3, <4>5, <3>a, <1>b, <1>c, <2>1 DEF ScanSound
    <3>3. CASE EndScan(t)
      <4>1. /\ m_state' = m_state /\ pc[t] = "scan" /\ loc[t].q >= jobs
            /\ pc'[t] = "store"
            /\ loc'[t].arg = overall(loc[t].seen)
        BY <1>a, <3>3 DEF EndScan, CallSetState, Goto, NoLocals
      <4> QED
        BY <4>1, <3>a, <1>c, <2>1, OverallSound DEF ScanSound
    <3>4. CASE StoreState(t)
      <4>1. m_state' = loc[t].arg /\ loc' = loc /\ pc'[t] = "write"
        BY <1>a, <3>4 DEF StoreState, Goto
      <4> QED
        BY <4>1, <3>a, <1>c DEF ScanSound
    <3>5. CASE WriteSummary(t)
      <4>1. /\ m_state' \in {m_state, "ERROR"} /\ pc'[t] = "seal"
            /\ loc'[t].arg = loc[t].arg
        BY <1>a, <3>5 DEF WriteSummary, Goto, Locals
      <4> QED
        BY <4>1, <3>a, <1>c, <2>1 DEF ScanSound
    <3>6. CASE SealSummary(t)
      <4>1. /\ m_state' = m_state /\ pc'[t] = loc[t].ret
            /\ loc'[t].arg = "NOT_STARTED"
        BY <1>a, <3>6 DEF SealSummary, Goto, Locals
      <4> QED
        BY <4>1, <3>a, <1>c, <2>1 DEF ScanSound, Updating
    <3> QED
      BY <3>1, <3>2, <3>3, <3>4, <3>5, <3>6 DEF SetState
  <2> QED
    BY <1>c, <2>2, <2>3 DEF OutcomeSound
<1> QED
  BY <1>1, <1>2 DEF FirstSession

\* The handlers that only ask, and the ends of the calls.
LEMMA HandlerOutcome ==
    ASSUME IInv, FirstSession, NEW c \in Clients,
           \/ StartTracing(c) \/ StopTracing(c) \/ GetTraceSummary(c)
           \/ LockStart(c) \/ CheckState(c) \/ DirectoryFails(c)
           \/ LockStop(c) \/ UnlockStop(c) \/ Report(c)
    PROVE  FirstSession'
<1>a. /\ TypeOK /\ ClientReturns(c)
      /\ pc \in [Threads -> MgrLabels \cup ClientLabels]
      /\ loc \in [Threads -> Locals]
      /\ Mgr \in Threads /\ Clients \subseteq Threads /\ Mgr \notin Clients
  BY ClientsAssumption DEF IInv, TypeOK, PcType, Threads
<1>1. /\ UNCHANGED <<m_state, jobs, jobState, sessions>>
      /\ \A u \in Threads \ {c} : pc'[u] = pc[u] /\ loc'[u] = loc[u]
      /\ loc'[c] = loc[c] \/ /\ loc'[c].q = 0
                             /\ loc'[c].arg = "NOT_STARTED"
      /\ pc'[c] \notin {"scan", "join", "delete"}
      /\ pc'[c] = "update" => loc'[c].q = 0
      /\ loc'[c].ret # "spawn"
  <2> USE <1>a DEF Goto, NoLocals, ClientReturns
  <2>1. CASE StartTracing(c)
    BY <2>1 DEF StartTracing
  <2>2. CASE StopTracing(c)
    BY <2>2 DEF StopTracing
  <2>3. CASE GetTraceSummary(c)
    BY <2>3 DEF GetTraceSummary, CallUpdateState
  <2>4. CASE LockStart(c)
    BY <2>4 DEF LockStart, CallUpdateState
  <2>5. CASE CheckState(c)
    BY <2>5 DEF CheckState
  <2>6. CASE DirectoryFails(c)
    BY <2>6 DEF DirectoryFails
  <2>7. CASE LockStop(c)
    BY <2>7 DEF LockStop
  <2>8. CASE UnlockStop(c)
    BY <2>8 DEF UnlockStop, CallUpdateState
  <2>9. CASE Report(c)
    BY <2>9 DEF Report
  <2> QED
    BY <2>1, <2>2, <2>3, <2>4, <2>5, <2>6, <2>7, <2>8, <2>9
<1>2. \A d \in Clients : Opening(d)' => Opening(d)
  BY <1>1, <1>a DEF Opening
<1>3. OpeningSound'
  BY <1>1, <1>2, <1>a DEF FirstSession, OpeningSound
<1>4. \A t \in Threads : pc[t] = "scan" => loc[t].q <= QueueCount
                                              /\ loc[t].q \in Nat
  BY <1>a, QueueCountAssumption DEF Locals
<1>5. OutcomeSound'
  BY <1>1, <1>4, OutcomeKept DEF FirstSession, Started, Completed
<1> QED
  BY <1>3, <1>5 DEF FirstSession

\* Naming the directory of a session: the first one opens with no job, and
\* with the second one nothing more is said.
LEMMA DirectoryOutcome ==
    ASSUME IInv, FirstSession, NEW c \in Clients, InitializeTraceDirectory(c)
    PROVE  FirstSession'
<1>a. /\ TypeOK
      /\ pc \in [Threads -> MgrLabels \cup ClientLabels]
      /\ loc \in [Threads -> Locals]
      /\ Mgr \in Threads /\ Clients \subseteq Threads /\ Mgr \notin Clients
      /\ sessions \in Nat
  BY ClientsAssumption, MaxSessionsAssumption
     DEF IInv, TypeOK, PcType, Threads
<1>1. /\ sessions' = sessions + 1 /\ pc'[c] = "join"
      /\ \A u \in Threads \ {c} : pc'[u] = pc[u]
      /\ UNCHANGED <<m_state, jobs, jobState, loc>>
  BY <1>a DEF InitializeTraceDirectory, Goto
<1>2. sessions' > 0 /\ (sessions' <= 1 => sessions <= 1 /\ sessions = 0)
  BY <1>a, <1>1
<1>3. OpeningSound'
  BY <1>1, <1>2, <1>a DEF FirstSession, OpeningSound
<1>4. \A t \in Threads : pc[t] = "scan" => loc[t].q <= QueueCount
                                              /\ loc[t].q \in Nat
  BY <1>a, QueueCountAssumption DEF Locals
<1>5. OutcomeSound'
  BY <1>1, <1>2, <1>4, OutcomeKept DEF FirstSession, Started, Completed
<1> QED
  BY <1>3, <1>5 DEF FirstSession

\* joinThread returns: startJobs goes on opening the session.
LEMMA JoinOutcome ==
    ASSUME IInv, FirstSession, NEW c \in Clients, JoinThread(c)
    PROVE  FirstSession'
<1>a. /\ TypeOK /\ ClientReturns(c)
      /\ pc \in [Threads -> MgrLabels \cup ClientLabels]
      /\ loc \in [Threads -> Locals]
      /\ Mgr \in Threads /\ Clients \subseteq Threads /\ Mgr \notin Clients
  BY ClientsAssumption DEF IInv, TypeOK, PcType, Threads
<1>1. /\ UNCHANGED <<m_state, jobs, jobState, sessions>>
      /\ pc'[Mgr] = "none" /\ loc'[Mgr] = loc[Mgr]
      /\ \A d \in Clients \ {c} : pc'[d] = pc[d] /\ loc'[d] = loc[d]
      /\ \/ pc[c] = "join" /\ pc'[c] = "delete" /\ loc'[c] = loc[c]
         \/ /\ pc'[c] = "update" /\ loc'[c].q = 0
            /\ loc'[c].arg = "NOT_STARTED" /\ loc'[c].ret = "unlock"
  BY <1>a DEF JoinThread, NoLocals
<1>2. \A d \in Clients : Opening(d)' => Opening(d)
  BY <1>1, <1>a DEF Opening
<1>3. OpeningSound'
  BY <1>1, <1>2 DEF FirstSession, OpeningSound
<1>4. \A t \in Threads : pc[t] = "scan" => loc[t].q <= QueueCount
                                              /\ loc[t].q \in Nat
  BY <1>a, QueueCountAssumption DEF Locals
<1>5. \A t \in Threads :
        /\ pc'[t] = "scan" => pc[t] = "scan" /\ loc'[t] = loc[t]
        /\ pc'[t] = "update" => \/ loc'[t].q = 0
                                \/ pc[t] = "update" /\ loc'[t] = loc[t]
        /\ loc'[t].arg = loc[t].arg \/ loc'[t].arg = "NOT_STARTED"
  BY <1>1, <1>a DEF Threads
<1>6. OutcomeSound'
  BY <1>1, <1>4, <1>5, OutcomeKept DEF FirstSession, Started, Completed
<1> QED
  BY <1>3, <1>6 DEF FirstSession

\* In the first session there is no job to delete.
LEMMA DeleteOutcome ==
    ASSUME IInv, FirstSession, NEW c \in Clients, DeleteJobs(c)
    PROVE  FirstSession'
<1>a. /\ TypeOK
      /\ pc \in [Threads -> MgrLabels \cup ClientLabels]
      /\ loc \in [Threads -> Locals]
      /\ Mgr \in Threads /\ Clients \subseteq Threads /\ Mgr \notin Clients
  BY ClientsAssumption DEF IInv, TypeOK, PcType, Threads
<1>1. /\ UNCHANGED <<m_state, sessions>> /\ jobs' = 0
      /\ pc[c] = "delete" /\ pc'[c] = "store" /\ loc'[c].q = 0
      /\ loc'[c].arg = "INITIALIZING"
      /\ \A u \in Threads \ {c} : pc'[u] = pc[u] /\ loc'[u] = loc[u]
  BY <1>a DEF DeleteJobs, CallSetState, Goto, NoLocals
<1>2. Opening(c)
  BY <1>1 DEF Opening
<1>3. sessions <= 1 => ~Started /\ ~Completed
  BY <1>2, QueueCountAssumption
     DEF FirstSession, OpeningSound, Started, Completed
<1>4. OpeningSound'
  BY <1>1, <1>2, <1>a DEF FirstSession, OpeningSound, Opening
<1>5. \A t \in Threads : pc[t] = "scan" => loc[t].q <= QueueCount
                                              /\ loc[t].q \in Nat
  BY <1>a, QueueCountAssumption DEF Locals
<1>6. OutcomeSound'
  BY <1>1, <1>3, <1>5, OutcomeKept DEF FirstSession
<1> QED
  BY <1>4, <1>6 DEF FirstSession

\* The management thread is spawned: nobody is opening a session any more.
LEMMA SpawnOutcome ==
    ASSUME IInv, FirstSession, NEW c \in Clients, SpawnManager(c)
    PROVE  FirstSession'
<1>a. /\ TypeOK /\ ClientReturns(c)
      /\ pc \in [Threads -> MgrLabels \cup ClientLabels]
      /\ loc \in [Threads -> Locals]
      /\ Mgr \in Threads /\ Clients \subseteq Threads /\ Mgr \notin Clients
  BY ClientsAssumption DEF IInv, TypeOK, PcType, Threads
<1>1. /\ UNCHANGED <<m_state, jobs, jobState, sessions>>
      /\ pc[c] = "spawn" /\ pc'[c] = "idle" /\ pc'[Mgr] = "setup"
      /\ \A t \in {c, Mgr} : loc'[t] = NoLocals
      /\ \A d \in Clients \ {c} : pc'[d] = pc[d] /\ loc'[d] = loc[d]
  BY <1>a DEF SpawnManager
<1>2. InSection(c) /\ Opening(c)
  BY <1>1, <1>a DEF InSection, Opening, ClientReturns
<1>3. ASSUME NEW d \in Clients PROVE ~Opening(d)'
  <2>1. CASE d = c
    BY <2>1, <1>1 DEF Opening, NoLocals
  <2>2. CASE d # c
    <3>1. ~InSection(d) /\ ClientReturns(d)
      BY <2>2, <1>2, OnlyJoined DEF IInv
    <3> QED
      BY <2>2, <3>1, <1>1 DEF Opening, InSection, ClientReturns
  <2> QED
    BY <2>1, <2>2
<1>4. sessions > 0 /\ sessions # 0
  BY <1>2, <1>a DEF FirstSession, OpeningSound, TypeOK
<1>5. OpeningSound'
  BY <1>1, <1>3, <1>4 DEF OpeningSound
<1>6. \A t \in Threads : pc[t] = "scan" => loc[t].q <= QueueCount
                                              /\ loc[t].q \in Nat
  BY <1>a, QueueCountAssumption DEF Locals
<1>7. \A t \in Threads :
        /\ pc'[t] = "scan" => pc[t] = "scan" /\ loc'[t] = loc[t]
        /\ pc'[t] = "update" => \/ loc'[t].q = 0
                                \/ pc[t] = "update" /\ loc'[t] = loc[t]
        /\ loc'[t].arg = loc[t].arg \/ loc'[t].arg = "NOT_STARTED"
  BY <1>1 DEF Threads, NoLocals
<1>8. OutcomeSound'
  BY <1>1, <1>6, <1>7, OutcomeKept DEF FirstSession, Started, Completed
<1> QED
  BY <1>5, <1>8 DEF FirstSession

\* handleJobs outside updateState and setState: it stores RUNNING when every
\* job has started, and sets up jobs while none of the states above is about.
LEMMA MgrOutcome ==
    ASSUME IInv, FirstSession,
           \/ SetupJob \/ SetupFails \/ JobsInitialized \/ PollingEnds
           \/ StopJobThreads \/ JoinJobs
    PROVE  FirstSession'
<1>a. /\ TypeOK
      /\ pc \in [Threads -> MgrLabels \cup ClientLabels]
      /\ loc \in [Threads -> Locals]
      /\ Mgr \in Threads /\ Clients \subseteq Threads /\ Mgr \notin Clients
  BY ClientsAssumption DEF IInv, TypeOK, PcType, Threads
<1>1. /\ UNCHANGED <<m_state, sessions>>
      /\ \A u \in Threads \ {Mgr} : pc'[u] = pc[u] /\ loc'[u] = loc[u]
      /\ pc[Mgr] # "none" /\ pc'[Mgr] # "scan"
      /\ pc'[Mgr] = "update" => loc'[Mgr].q = 0
      /\ \/ loc'[Mgr] = loc[Mgr]
         \/ loc'[Mgr].arg \in {"NOT_STARTED", "ERROR"}
         \/ loc'[Mgr].arg = "RUNNING" /\ Started'
      /\ UNCHANGED <<jobs, jobState>> \/ jobs < QueueCount
  <2> USE <1>a DEF Goto, NoLocals
  <2>1. CASE SetupJob
    BY <2>1 DEF SetupJob
  <2>2. CASE SetupFails
    BY <2>2 DEF SetupFails, CallSetState
  <2>3. CASE JobsInitialized
    BY <2>3 DEF JobsInitialized, CallSetState, Started
  <2>4. CASE PollingEnds
    BY <2>4 DEF PollingEnds
  <2>5. CASE StopJobThreads
    BY <2>5 DEF StopJobThreads
  <2>6. CASE JoinJobs
    BY <2>6 DEF JoinJobs, CallUpdateState
  <2> QED
    BY <2>1, <2>2, <2>3, <2>4, <2>5, <2>6
<1>2. \A c \in Clients : Opening(c)' <=> Opening(c)
  BY <1>1, <1>a DEF Opening
<1>3. OpeningSound'
  BY <1>1, <1>2 DEF FirstSession, OpeningSound
<1>4. \A t \in Threads : pc[t] = "scan" => loc[t].q <= QueueCount
                                              /\ loc[t].q \in Nat
  BY <1>a, QueueCountAssumption DEF Locals
<1>5. /\ Started => Started'
      /\ Completed => Completed'
      /\ Started => UNCHANGED jobState
  <2>1. jobs < QueueCount => ~Started /\ ~Completed
    BY QueueCountAssumption DEF Started, Completed
  <2> QED
    BY <1>1, <2>1 DEF Started, Completed
<1>6. \A t \in Threads :
        /\ pc'[t] = "scan" => pc[t] = "scan" /\ loc'[t] = loc[t]
        /\ pc'[t] = "update" => \/ loc'[t].q = 0
                                \/ pc[t] = "update" /\ loc'[t] = loc[t]
        /\ \/ loc'[t].arg = loc[t].arg
           \/ loc'[t].arg \notin {"RUNNING", "COMPLETE"}
           \/ loc'[t].arg = "RUNNING" /\ Started'
  BY <1>1
<1>7. OutcomeSound'
  BY <1>1, <1>4, <1>5, <1>6, OutcomeKept DEF FirstSession
<1> QED
  BY <1>3, <1>7 DEF FirstSession

\* A job starts or ends: one that has completed does neither.
LEMMA JobOutcome ==
    ASSUME IInv, FirstSession, NEW q \in Queues,
           DoWork(q) \/ \E s \in Ended : EndWork(q, s)
    PROVE  FirstSession'
<1>a. TypeOK /\ loc \in [Threads -> Locals]
  BY DEF IInv, TypeOK
<1>1. /\ UNCHANGED <<m_state, jobs, pc, loc, sessions>>
      /\ q < jobs /\ q \in Nat /\ jobState[q] # "COMPLETE"
      /\ \E s \in Ended \cup {"RUNNING"} :
           jobState' = [jobState EXCEPT ![q] = s]
  BY QueueCountAssumption DEF DoWork, EndWork, Queues
<1>2. jobs # 0
  BY <1>1, <1>a DEF TypeOK
<1>3. OpeningSound'
  BY <1>1, <1>2 DEF FirstSession, OpeningSound, Opening
<1>4. \A t \in Threads : pc[t] = "scan" => loc[t].q <= QueueCount
                                              /\ loc[t].q \in Nat
  BY <1>a, QueueCountAssumption DEF Locals
<1>5. /\ Started => Started'
      /\ Completed => Completed'
      /\ \A p \in Queues :
           jobState[p] = "COMPLETE" => jobState'[p] = "COMPLETE"
  BY <1>1, <1>a DEF Started, Completed, TypeOK, Ended
<1>6. OutcomeSound'
  BY <1>1, <1>4, <1>5, OutcomeKept DEF FirstSession
<1> QED
  BY <1>3, <1>6 DEF FirstSession

\* IInv and FirstSession are inductive together.
LEMMA FirstSessionHolds == Spec => [](IInv /\ FirstSession)
<1>1. Init => FirstSession
  <2> SUFFICES ASSUME Init PROVE FirstSession
    OBVIOUS
  <2>1. /\ Mgr \in Threads /\ Clients \subseteq Threads
        /\ \A t \in Threads : /\ pc[t] \in {"none", "idle"}
                              /\ loc[t] = NoLocals
        /\ pc[Mgr] = "none"
    BY ClientsAssumption DEF Init, Threads
  <2> QED
    BY <2>1 DEF Init, FirstSession, OpeningSound, OutcomeSound, Opening,
                ScanSound, NoLocals
<1>2. IInv /\ FirstSession /\ [Next]_vars => FirstSession'
  <2> SUFFICES ASSUME IInv, FirstSession, [Next]_vars PROVE FirstSession'
    OBVIOUS
  <2>1. CASE \E c \in Clients : \/ StartTracing(c) \/ StopTracing(c)
                                \/ GetTraceSummary(c) \/ Serve(c)
    <3> PICK c \in Clients : \/ StartTracing(c) \/ StopTracing(c)
                             \/ GetTraceSummary(c) \/ Serve(c)
      BY <2>1
    <3>1. c \in Threads
      BY DEF Threads
    <3> QED
      BY <3>1, HandlerOutcome, DirectoryOutcome, JoinOutcome, DeleteOutcome,
         SpawnOutcome, SetStateOutcome DEF Serve
  <2>2. CASE Manage \/ SetupFails \/ LimitReached
    <3>1. Mgr \in Threads
      BY DEF Threads
    <3> QED
      BY <2>2, <3>1, MgrOutcome, SetStateOutcome
         DEF Manage, Finish, LimitReached
  <2>3. CASE \E q \in Queues : DoWork(q) \/ \E s \in Ended : EndWork(q, s)
    BY <2>3, JobOutcome
  <2>4. CASE UNCHANGED vars
    BY <2>4
       DEF vars, FirstSession, OpeningSound, OutcomeSound, Opening, ScanSound,
           Started, Completed
  <2> QED
    BY <2>1, <2>2, <2>3, <2>4 DEF Next
<1> QED
  BY <1>1, <1>2, InvariantHolds, PTL DEF Spec

\* For any number of sessions: as long as the first session of the process is
\* the only one, a state that updateState has stored is true of its jobs, in
\* whatever threads it was computed and stored.
THEOREM FirstSessionSound == Spec => []OutcomeSound
<1>1. FirstSession => OutcomeSound
  BY DEF FirstSession
<1> QED
  BY <1>1, FirstSessionHolds, PTL

\* In a process that traces once, StopTracing answers "complete" only when
\* every job of the session it has stopped has completed.  With a second
\* session this is false: another client can delete the jobs, or a thread
\* that has scanned the jobs of the first session can store its state, before
\* the reply is put together.
THEOREM OutcomeCorrect ==
    ASSUME MaxSessions <= 1
    PROVE  Spec => StopReportsOutcome
<1>1. IInv /\ FirstSession =>
        [\A c \in Clients :
           (pc[c] = "stopped" /\ Report(c) /\ m_state = "COMPLETE")
             => jobs = QueueCount /\ \A q \in Queues : jobState[q] = "COMPLETE"
        ]_vars
  <2>1. IInv => sessions <= 1
    BY MaxSessionsAssumption DEF IInv, TypeOK
  <2> QED
    BY <2>1 DEF FirstSession, OutcomeSound, Completed
<1> QED
  BY <1>1, FirstSessionHolds, PTL DEF StopReportsOutcome

===============================================================================
