---------------------------- MODULE Services_proofs ----------------------------
(* What is proved of the handlers' runner, of the queue of parsed events, of  *)
(* the registration of plug-ins and of the service that knows them, for any   *)
(* number of handlers, any limit of the queue, any set of plug-ins, threads   *)
(* and callers, and any number of attachments and calls.                      *)
EXTENDS HandlerRunner, ParsedIoQueue, PluginRegistration, ServiceNode,
        FiniteSetTheorems, TLAPS
-----------------------------------------------------------------------------
(* The guarder of HandlerRunner counts the clients it let through.            *)

RunnerPlaces == {"lock", "sleep", "work", "complete", "unlock", "unwind", "error", "done"}

RunnerTypeOK ==
    /\ thread \in [Handlers -> RunnerPlaces]
    /\ m_locked \in [Handlers -> BOOLEAN]
    /\ called \in [Handlers -> Nat]
    /\ m_clients \in Nat
    /\ terminated \in BOOLEAN /\ checkFailed \in BOOLEAN

\* A handler that was let through holds its guarder until it leaves it, and
\* leaves no other way.
LockedInside ==
    \A t \in Handlers : m_locked[t] <=> thread[t] \in {"sleep", "work", "complete", "unlock", "unwind"}

\* The inductive invariant.
RunnerInv ==
    /\ RunnerTypeOK
    /\ ~checkFailed => LockedInside
    /\ ClientsExact

-----------------------------------------------------------------------------
\* RunnerInit establishes the invariant.
LEMMA RunnerInitInv == RunnerInit => RunnerInv
<1> SUFFICES ASSUME RunnerInit PROVE RunnerInv
  OBVIOUS
<1>1. RunnerTypeOK
  BY DEF RunnerInit, RunnerTypeOK, RunnerPlaces
<1>2. LockedInside
  BY DEF RunnerInit, LockedInside
<1>3. Inside = {}
  BY DEF RunnerInit, Inside
<1>4. m_clients = Cardinality(Inside)
  BY <1>3, FS_EmptySet DEF RunnerInit
<1> QED
  BY <1>1, <1>2, <1>4 DEF RunnerInv, ClientsExact, RunnerInit

\* Who is inside when one thread moves.
LEMMA InsideMoves ==
    ASSUME IsFiniteSet(Handlers), RunnerTypeOK, NEW t \in Handlers, NEW from, NEW to,
           MoveTo(t, from, to)
    PROVE  /\ thread' = [thread EXCEPT ![t] = to] /\ thread[t] = from
           /\ IsFiniteSet(Inside) /\ Cardinality(Inside) \in Nat
           /\ Inside' = IF to \in {"work", "complete", "unlock", "unwind"}
                        THEN Inside \cup {t} ELSE Inside \ {t}
           /\ t \in Inside <=> from \in {"work", "complete", "unlock", "unwind"}
<1>1. thread' = [thread EXCEPT ![t] = to] /\ thread[t] = from
  BY DEF MoveTo
<1>2. IsFiniteSet(Inside) /\ Cardinality(Inside) \in Nat
  BY FS_Subset, FS_CardinalityType DEF Inside
<1>3. Inside' = IF to \in {"work", "complete", "unlock", "unwind"}
                THEN Inside \cup {t} ELSE Inside \ {t}
  <2>1. \A s \in Handlers : thread'[s] = IF s = t THEN to ELSE thread[s]
    BY <1>1 DEF RunnerTypeOK
  <2> QED
    BY <2>1 DEF Inside
<1>4. t \in Inside <=> from \in {"work", "complete", "unlock", "unwind"}
  BY <1>1 DEF Inside
<1> QED
  BY <1>1, <1>2, <1>3, <1>4

\* Every step keeps the types.
LEMMA RunnerStepType == ASSUME RunnerTypeOK, [RunnerNext]_hvars PROVE RunnerTypeOK'
<1>1. CASE UNCHANGED hvars
  BY <1>1 DEF RunnerTypeOK, hvars
<1>2. ASSUME NEW t \in Handlers, Step(t) PROVE RunnerTypeOK'
  <2>1. thread' \in [Handlers -> RunnerPlaces]
    BY <1>2 DEF RunnerTypeOK, RunnerPlaces, Step, lock, retry, Ask, isLimit, processEvents,
                CallBack, unlock, destroy, Leave, MoveTo
  <2>2. \/ m_locked' = m_locked
        \/ \E b \in BOOLEAN : m_locked' = [m_locked EXCEPT ![t] = b]
    BY <1>2 DEF Step, lock, retry, processEvents, CallBack, unlock, destroy, Leave
  <2>3. m_locked' \in [Handlers -> BOOLEAN]
    BY <2>2, Zenon DEF RunnerTypeOK
  <2>4. called' \in [Handlers -> Nat]
    BY <1>2 DEF RunnerTypeOK, Step, lock, retry, Ask, processEvents, CallBack, unlock, destroy, Leave
  <2>5. m_clients' \in Nat
    <3>1. \/ m_clients' = m_clients \/ m_clients' = m_clients + 1
          \/ m_clients' = IF m_clients > 0 THEN m_clients - 1 ELSE 0
      BY <1>2 DEF Step, lock, retry, Ask, isLimit, Enter, processEvents,
                  CallBack, unlock, destroy, Leave
    <3> QED
      BY <3>1 DEF RunnerTypeOK
  <2>6. terminated' \in BOOLEAN
    <3>1. \/ terminated' = terminated
          \/ terminated' = (m_clients = 0)
      BY <1>2, Zenon DEF Step, lock, retry, Ask, processEvents, CallBack,
                         unlock, destroy, Leave
    <3> QED
      BY <3>1, Zenon DEF RunnerTypeOK
  <2>7. checkFailed' \in BOOLEAN
    <3>1. checkFailed' = checkFailed \/ checkFailed' = TRUE
      BY <1>2, Zenon DEF Step, lock, retry, Ask, isLimit, processEvents, CallBack,
                         unlock, destroy, Leave
    <3> QED
      BY <3>1, Zenon DEF RunnerTypeOK
  <2> QED
    BY <2>1, <2>3, <2>4, <2>5, <2>6, <2>7 DEF RunnerTypeOK
<1> QED
  BY <1>1, <1>2 DEF RunnerNext

-----------------------------------------------------------------------------
\* A thread that asks is counted if it enters.
LEMMA AskKeeps ==
    ASSUME IsFiniteSet(Handlers), RunnerInv, RunnerTypeOK', NEW t \in Handlers,
           lock(t) \/ retry(t)
    PROVE  RunnerInv'
<1> SUFFICES ASSUME ~checkFailed' PROVE LockedInside' /\ ClientsExact'
  BY DEF RunnerInv, ClientsExact
<1> PICK from \in {"lock", "sleep"} :
         /\ Ask(t, from) /\ thread[t] = from
         /\ m_locked' = IF from = "lock" THEN [m_locked EXCEPT ![t] = TRUE] ELSE m_locked
  BY DEF lock, retry, Ask, isLimit, MoveTo
<1>1. RunnerTypeOK
  BY DEF RunnerInv
<1>2. ~checkFailed
  BY <1>1 DEF Ask, isLimit, RunnerTypeOK
<1>3. /\ LockedInside /\ ~terminated /\ ~terminated'
      /\ m_clients = Cardinality(Inside) /\ called' = called
      /\ \A s \in Handlers : called[s] = (IF thread[s] \in {"unlock", "done"} THEN 1 ELSE 0)
  BY <1>2 DEF RunnerInv, ClientsExact, Ask
<1>4. PICK to \in {"work", "sleep"} :
         /\ MoveTo(t, from, to)
         /\ m_clients' = IF to = "work" THEN m_clients + 1 ELSE m_clients
  BY <1>2 DEF Ask, isLimit, Enter
<1>5. m_clients' = Cardinality(Inside')
  BY <1>1, <1>3, <1>4, InsideMoves, FS_AddElement, FS_RemoveElement
<1>6. \A s \in Handlers : thread'[s] = IF s = t THEN to ELSE thread[s]
  BY <1>1, <1>4 DEF RunnerTypeOK, MoveTo
<1>7. LockedInside'
  <2>1. m_locked'[t]
    <3>1. m_locked[t] \/ from = "lock"
      BY <1>3 DEF LockedInside
    <3> QED
      BY <1>1, <3>1, Zenon DEF RunnerTypeOK
  <2>2. \A s \in Handlers \ {t} : m_locked'[s] = m_locked[s]
    BY <1>1 DEF RunnerTypeOK
  <2> QED
    BY <1>3, <1>4, <1>6, <2>1, <2>2 DEF LockedInside
<1> QED
  BY <1>3, <1>4, <1>5, <1>6, <1>7 DEF ClientsExact

\* A handler that works, or whose callback is made, stays counted.
LEMMA WorkKeeps ==
    ASSUME IsFiniteSet(Handlers), RunnerInv, RunnerTypeOK', NEW t \in Handlers,
           processEvents(t) \/ CallBack(t)
    PROVE  RunnerInv'
<1> SUFFICES ASSUME ~checkFailed' PROVE LockedInside' /\ ClientsExact'
  BY DEF RunnerInv, ClientsExact
<1>1. RunnerTypeOK /\ ~checkFailed /\ UNCHANGED <<m_locked, m_clients, terminated>>
  BY DEF RunnerInv, processEvents, CallBack
<1>2. /\ LockedInside /\ ~terminated
      /\ m_clients = Cardinality(Inside)
      /\ \A s \in Handlers : called[s] = (IF thread[s] \in {"unlock", "done"} THEN 1 ELSE 0)
  BY <1>1 DEF RunnerInv, ClientsExact
<1>3. PICK from \in {"work", "complete", "error"}, to \in {"complete", "unwind", "unlock", "done"} :
         /\ MoveTo(t, from, to)
         /\ \/ /\ <<from, to>> \in {<<"work", "complete">>, <<"work", "unwind">>}
               /\ called' = called
            \/ /\ <<from, to>> \in {<<"complete", "unlock">>, <<"error", "done">>}
               /\ called' = [called EXCEPT ![t] = @ + 1]
  <2>1. CASE processEvents(t)
    BY <2>1 DEF processEvents
  <2>2. CASE CallBack(t)
    BY <2>2 DEF CallBack
  <2> QED
    BY <2>1, <2>2
<1>4. m_clients' = Cardinality(Inside')
  <2>1. /\ Inside' = IF to \in {"work", "complete", "unlock", "unwind"}
                     THEN Inside \cup {t} ELSE Inside \ {t}
        /\ t \in Inside <=> from \in {"work", "complete", "unlock", "unwind"}
    BY <1>1, <1>3, InsideMoves
  <2>2. to \in {"work", "complete", "unlock", "unwind"}
          <=> from \in {"work", "complete", "unlock", "unwind"}
    BY <1>3
  <2>3. Inside' = Inside
    BY <2>1, <2>2
  <2> QED
    BY <1>1, <1>2, <2>3
<1>5. /\ thread[t] = from
      /\ \A s \in Handlers : thread'[s] = IF s = t THEN to ELSE thread[s]
  BY <1>1, <1>3 DEF RunnerTypeOK, MoveTo
<1>6. LockedInside'
  BY <1>1, <1>2, <1>3, <1>5 DEF LockedInside
<1>7. \A s \in Handlers : called'[s] = (IF thread'[s] \in {"unlock", "done"} THEN 1 ELSE 0)
  BY <1>1, <1>2, <1>3, <1>5 DEF RunnerTypeOK
<1> QED
  BY <1>1, <1>2, <1>4, <1>6, <1>7 DEF ClientsExact

\* A handler that leaves was counted, so that its unlock is not one too many.
LEMMA LeaveKeeps ==
    ASSUME IsFiniteSet(Handlers), RunnerInv, RunnerTypeOK', NEW t \in Handlers,
           unlock(t) \/ destroy(t)
    PROVE  RunnerInv'
<1> SUFFICES ASSUME ~checkFailed' PROVE LockedInside' /\ ClientsExact'
  BY DEF RunnerInv, ClientsExact
<1>1. PICK from \in {"unlock", "unwind"}, to \in {"done", "error"} :
         /\ Leave(t, from, to) /\ MoveTo(t, from, to)
         /\ <<from, to>> \in {<<"unlock", "done">>, <<"unwind", "error">>}
  <2>1. CASE unlock(t)
    BY <2>1 DEF unlock, Leave
  <2>2. CASE destroy(t)
    BY <2>2 DEF destroy, Leave
  <2> QED
    BY <2>1, <2>2
<1>2. RunnerTypeOK /\ ~checkFailed /\ called' = called
  BY <1>1 DEF RunnerInv, Leave
<1>3. /\ LockedInside /\ ~terminated
      /\ m_clients = Cardinality(Inside)
      /\ \A s \in Handlers : called[s] = (IF thread[s] \in {"unlock", "done"} THEN 1 ELSE 0)
  BY <1>2 DEF RunnerInv, ClientsExact
<1>4. /\ thread[t] = from
      /\ \A s \in Handlers : thread'[s] = IF s = t THEN to ELSE thread[s]
  BY <1>1, <1>2 DEF RunnerTypeOK, MoveTo
<1>5. m_locked[t] /\ t \in Inside
  BY <1>1, <1>3, <1>4 DEF LockedInside, Inside
<1>6. /\ IsFiniteSet(Inside) /\ Cardinality(Inside) \in Nat
      /\ Inside' = Inside \ {t}
  BY <1>1, <1>2, InsideMoves
<1>7. m_clients > 0
  BY <1>3, <1>5, <1>6, FS_EmptySet
<1>8. ~terminated' /\ m_clients' = Cardinality(Inside')
  <2>1. m_clients' = (IF m_clients > 0 THEN m_clients - 1 ELSE 0) /\ terminated' = (m_clients = 0)
    BY <1>1, <1>5, Zenon DEF Leave
  <2>2. m_clients # 0
    BY <1>7
  <2>3. ~terminated'
    BY <2>1, <2>2, Zenon
  <2> QED
    BY <1>3, <1>5, <1>6, <1>7, <2>1, <2>3, FS_RemoveElement
<1>9. LockedInside'
  BY <1>1, <1>2, <1>3, <1>4 DEF LockedInside, Leave, RunnerTypeOK
<1> QED
  BY <1>1, <1>2, <1>3, <1>4, <1>8, <1>9 DEF ClientsExact

(* However many handlers run, whichever throw and whenever resources are      *)
(* scarce: as long as isLimit can read them, the shared m_clients is exactly  *)
(* the number of handlers let through, no unlock throws, and every handler    *)
(* gets one callback.                                                         *)
THEOREM ClientsCorrect ==
    ASSUME IsFiniteSet(Handlers) PROVE RunnerSpec => []ClientsExact
<1>1. RunnerInit => RunnerInv
  BY RunnerInitInv
<1>2. RunnerInv /\ [RunnerNext]_hvars => RunnerInv'
  <2> SUFFICES ASSUME RunnerInv, [RunnerNext]_hvars PROVE RunnerInv'
    OBVIOUS
  <2>1. RunnerTypeOK'
    BY RunnerStepType DEF RunnerInv
  <2>2. CASE UNCHANGED hvars
    BY <2>1, <2>2 DEF RunnerInv, LockedInside, ClientsExact, Inside, hvars
  <2>3. ASSUME NEW t \in Handlers, Step(t) PROVE RunnerInv'
    BY <2>1, <2>3, AskKeeps, WorkKeeps, LeaveKeeps DEF Step
  <2> QED
    BY <2>2, <2>3 DEF RunnerNext
<1>3. RunnerInv => ClientsExact
  BY DEF RunnerInv
<1> QED
  BY <1>1, <1>2, <1>3, PTL DEF RunnerSpec

-----------------------------------------------------------------------------
(* The permits of the queue of parsed events, and the order in which its      *)
(* reader gets them.                                                          *)

QueueTypeOK ==
    /\ parser \in {"check", "limit", "push", "finish", "ended", "failed"}
    /\ handled \in Nat
    /\ m_queue \in Seq(Nat)
    /\ m_count \in Nat
    /\ cancelled \in BOOLEAN
    /\ owner \in {"idle", "empty", "front", "pop", "threw", "join", "gone"}
    /\ got \in Seq(Nat)

Permits ==
    m_count + Len(m_queue) + (IF parser = "push" THEN 1 ELSE 0)
      = QUEUE_LIMIT + (IF cancelled THEN 1 ELSE 0)

\* Only a cancelled parser drops an event, and having dropped one it pushes
\* no other.
NoneDropped ==
    ~cancelled \/ parser \in {"limit", "push"}
      => handled = Len(got) + Len(m_queue)

\* The owner reads nothing once it has cancelled.
CancelledOnce == cancelled <=> owner \in {"join", "gone"}

InOrder ==
    /\ \A i \in 1..Len(got) : got[i] = i
    /\ \A i \in 1..Len(m_queue) : m_queue[i] = Len(got) + i

\* The inductive invariant.
QueueInv == QueueTypeOK /\ Permits /\ NoneDropped /\ CancelledOnce /\ InOrder

-----------------------------------------------------------------------------
\* QueueInit establishes the invariant.
LEMMA QueueInitInv == ASSUME QUEUE_LIMIT \in Nat, QueueInit PROVE QueueInv
<1>1. Len(m_queue) = 0 /\ Len(got) = 0
  BY DEF QueueInit
<1>2. QueueTypeOK
  <2>1. cancelled \in BOOLEAN
    BY Zenon DEF QueueInit
  <2>2. m_queue \in Seq(Nat) /\ got \in Seq(Nat)
    BY DEF QueueInit
  <2> QED
    BY <2>1, <2>2 DEF QueueInit, QueueTypeOK
<1>3. Permits /\ NoneDropped /\ InOrder
  BY <1>1 DEF QueueInit, Permits, NoneDropped, InOrder
<1>4. CancelledOnce
  BY Zenon DEF QueueInit, CancelledOnce
<1> QED
  BY <1>2, <1>3, <1>4 DEF QueueInv

\* The parser pushes the event that follows the last one pushed.
LEMMA PushKeeps == ASSUME QueueInv, Push PROVE QueueInv'
<1> USE DEF QueueInv, QueueTypeOK
<1>1. /\ m_queue' = Append(m_queue, handled + 1) /\ handled' = handled + 1
      /\ parser = "push" /\ parser' \in {"check", "finish"}
      /\ UNCHANGED <<m_count, cancelled, owner, got>>
  BY DEF Push, Skip
<1>2. handled = Len(got) + Len(m_queue)
  BY <1>1 DEF NoneDropped
<1>3. QueueTypeOK'
  BY <1>1
<1>8. /\ Len(m_queue') = Len(m_queue) + 1
      /\ \A i \in 1..Len(m_queue) : m_queue'[i] = m_queue[i]
      /\ m_queue'[Len(m_queue) + 1] = handled + 1
  BY <1>1
<1>4. Permits'
  <2>1. m_count + Len(m_queue) + 1 = QUEUE_LIMIT + (IF cancelled THEN 1 ELSE 0)
    BY <1>1 DEF Permits
  <2>2. m_count' + Len(m_queue') + 0 = QUEUE_LIMIT + (IF cancelled THEN 1 ELSE 0)
    BY <1>1, <1>8, <2>1
  <2>3. cancelled' = cancelled /\ parser' # "push"
    BY <1>1
  <2> QED
    BY <2>2, <2>3 DEF Permits
<1>5. NoneDropped'
  BY <1>1, <1>2 DEF NoneDropped
<1>6. CancelledOnce'
  BY <1>1 DEF CancelledOnce
<1>7. InOrder'
  <2>1. \A i \in 1..(Len(m_queue) + 1) : i \in 1..Len(m_queue) \/ i = Len(m_queue) + 1
    OBVIOUS
  <2>2. ASSUME NEW i \in 1..Len(m_queue') PROVE m_queue'[i] = Len(got') + i
    <3>1. i \in 1..Len(m_queue) \/ i = Len(m_queue) + 1
      BY <1>8, <2>1
    <3>2. CASE i \in 1..Len(m_queue)
      BY <1>1, <1>8, <3>2 DEF InOrder
    <3>3. CASE i = Len(m_queue) + 1
      BY <1>1, <1>2, <1>8, <3>3
    <3> QED
      BY <3>1, <3>2, <3>3
  <2> QED
    BY <1>1, <2>2 DEF InOrder
<1> QED
  BY <1>3, <1>4, <1>5, <1>6, <1>7

\* The other steps of the parser leave the queue alone.
LEMMA ParserKeeps ==
    ASSUME QueueInv, HandleIO \/ WaitLimit \/ Finished \/ Fail PROVE QueueInv'
<1> USE DEF QueueInv, QueueTypeOK
<1>1. UNCHANGED <<m_queue, cancelled, owner, got>>
  BY DEF HandleIO, WaitLimit, Finished, Fail
<1>2. InOrder' /\ CancelledOnce'
  BY <1>1 DEF InOrder, CancelledOnce
<1>3. CASE HandleIO
  BY <1>1, <1>2, <1>3 DEF HandleIO, Skip, Permits, NoneDropped
<1>4. CASE WaitLimit
  BY <1>1, <1>2, <1>4 DEF WaitLimit, Permits, NoneDropped
<1>5. CASE Finished
  BY <1>1, <1>2, <1>5 DEF Finished, Permits, NoneDropped
<1>6. CASE Fail
  BY <1>1, <1>2, <1>6 DEF Fail, Permits, NoneDropped
<1> QED
  BY <1>3, <1>4, <1>5, <1>6

\* A pop takes the first event and gives its permit back.
LEMMA PopKeeps == ASSUME QueueInv, pop PROVE QueueInv'
<1> USE DEF QueueInv, QueueTypeOK
<1>1. UNCHANGED <<parser, handled, cancelled>> /\ owner = "pop" /\ ~cancelled
  BY DEF pop, CancelledOnce
<1>2. CASE m_queue = <<>>
  BY <1>1, <1>2 DEF pop, Permits, NoneDropped, CancelledOnce, InOrder
<1>3. CASE m_queue # <<>>
  <2>1. /\ m_count' = m_count + 1 /\ m_queue' = Tail(m_queue)
        /\ got' = Append(got, Head(m_queue)) /\ owner' = "idle"
    BY <1>3 DEF pop
  <2>2. /\ Len(m_queue) > 0 /\ Head(m_queue) = Len(got) + 1
    BY <1>3 DEF InOrder
  <2>3. /\ m_queue' \in Seq(Nat) /\ Len(m_queue') = Len(m_queue) - 1
        /\ \A i \in 1..Len(m_queue') : m_queue'[i] = m_queue[i + 1]
    BY <1>3, <2>1, <2>2
  <2>4. /\ got' \in Seq(Nat) /\ Len(got') = Len(got) + 1
        /\ \A i \in 1..Len(got) : got'[i] = got[i]
        /\ got'[Len(got) + 1] = Len(got) + 1
    BY <2>1, <2>2
  <2>5. QueueTypeOK'
    BY <1>1, <2>1, <2>3, <2>4
  <2>6. Permits' /\ NoneDropped'
    BY <1>1, <2>1, <2>3, <2>4 DEF Permits, NoneDropped
  <2>7. CancelledOnce'
    BY <1>1, <2>1 DEF CancelledOnce
  <2>8. InOrder'
    <3>1. \A i \in 1..Len(got') : got'[i] = i
      <4>1. \A i \in 1..(Len(got) + 1) : i \in 1..Len(got) \/ i = Len(got) + 1
        OBVIOUS
      <4> QED
        BY <2>4, <4>1 DEF InOrder
    <3>2. ASSUME NEW i \in 1..Len(m_queue') PROVE m_queue'[i] = Len(got') + i
      <4>1. i + 1 \in 1..Len(m_queue)
        BY <2>3, <3>2
      <4> QED
        BY <2>3, <2>4, <3>2, <4>1 DEF InOrder
    <3> QED
      BY <3>1, <3>2 DEF InOrder
  <2> QED
    BY <2>5, <2>6, <2>7, <2>8
<1> QED
  BY <1>2, <1>3

\* The other calls of the owner, and its destructor, which posts one permit.
LEMMA OwnerKeeps ==
    ASSUME QueueInv, QUEUE_LIMIT \in Nat,
           empty \/ front \/ Join \/ Destroy \/ \E op \in {"empty", "front", "pop"} : Call(op)
    PROVE  QueueInv'
<1> USE DEF QueueInv, QueueTypeOK
<1>1. UNCHANGED <<parser, handled, m_queue, got>>
  BY DEF empty, front, Join, Destroy, Call
<1>2. InOrder'
  BY <1>1 DEF InOrder
<1>3. CASE Destroy
  BY <1>1, <1>2, <1>3 DEF Destroy, Permits, NoneDropped, CancelledOnce
<1>4. CASE empty \/ front \/ Join \/ \E op \in {"empty", "front", "pop"} : Call(op)
  <2>1. UNCHANGED <<m_count, cancelled>>
    BY <1>4 DEF empty, front, Join, Call
  <2>2. /\ owner' \in {"idle", "empty", "front", "pop", "threw", "join", "gone"}
        /\ owner' \in {"join", "gone"} <=> owner \in {"join", "gone"}
    BY <1>4 DEF empty, front, Join, Call
  <2> QED
    BY <1>1, <1>2, <2>1, <2>2 DEF Permits, NoneDropped, CancelledOnce
<1> QED
  BY <1>3, <1>4

\* The invariant holds in every reachable state.
THEOREM QueueInvariant == ASSUME QUEUE_LIMIT \in Nat PROVE QueueSpec => []QueueInv
<1>1. QueueInit => QueueInv
  BY QueueInitInv
<1>2. QueueInv /\ [QueueNext]_qvars => QueueInv'
  <2> SUFFICES ASSUME QueueInv, [QueueNext]_qvars PROVE QueueInv'
    OBVIOUS
  <2>1. CASE UNCHANGED qvars
    BY <2>1 DEF qvars, QueueInv, QueueTypeOK, Permits, NoneDropped, CancelledOnce, InOrder
  <2>2. CASE QueueNext
    BY <2>2, PushKeeps, ParserKeeps, PopKeeps, OwnerKeeps DEF QueueNext, Parse, Return
  <2> QED
    BY <2>1, <2>2
<1> QED
  BY <1>1, <1>2, PTL DEF QueueSpec

(* handleIO, pop and cancel keep the permits of m_queueLimit and the free     *)
(* places of the queue equal, and the reader pops the events one by one in    *)
(* the order of the trace, for every limit and every trace.                   *)
THEOREM LimitCorrect == ASSUME QUEUE_LIMIT \in Nat PROVE QueueSpec => []LimitBalance
<1>1. QueueInv => LimitBalance
  <2> SUFFICES ASSUME QueueInv PROVE LimitBalance
    OBVIOUS
  <2>1. DOMAIN got = 1..Len(got)
    BY DEF QueueInv, QueueTypeOK
  <2>2. ASSUME m_queue # <<>> PROVE Head(m_queue) = Len(got) + 1
    BY <2>2 DEF QueueInv, QueueTypeOK, InOrder
  <2> QED
    BY <2>1, <2>2 DEF QueueInv, Permits, InOrder, LimitBalance
<1> QED
  BY <1>1, QueueInvariant, PTL

(* The queue holds no more than QUEUE_LIMIT events as long as its owner has   *)
(* not cancelled, and at most one more afterwards: the one that cancel lets   *)
(* a blocked handleIO push.                                                   *)
THEOREM LimitHolds ==
    ASSUME QUEUE_LIMIT \in Nat
    PROVE  QueueSpec => [](Len(m_queue) <= QUEUE_LIMIT + IF cancelled THEN 1 ELSE 0)
<1>1. QueueInv => Len(m_queue) <= QUEUE_LIMIT + IF cancelled THEN 1 ELSE 0
  BY QUEUE_LIMIT \in Nat DEF QueueInv, QueueTypeOK, Permits
<1> QED
  BY <1>1, QueueInvariant, PTL

-----------------------------------------------------------------------------
(* Registration of plug-ins.                                                  *)

Asked == {<<"register", "dispatcher">>, <<"unregister", "main">>}

(* What the invariant needs to know of the types.                             *)
RegistrationTypeOK ==
    /\ main \in [Plugins -> {"idle", "running", "unregister", "call", "clear", "join", "gone"}]
    /\ answer \in [Plugins -> [AskingThreads -> {"none", "sent", "ok", "failed"}]]
    /\ sentRequests \in [Plugins -> Seq(Asked)]
    /\ server \in [Plugins -> {"idle", "absent"}]
    /\ m_children \in Seq(Plugins)

(* A plug-in has asked to be unregistered: for good.                          *)
Leaving(p) == main[p] \in {"call", "clear", "join", "gone"}

(* Only who is leaving has a request to be unregistered on its way.           *)
LeavingAsks ==
    \A p \in Plugins :
        (\E k \in DOMAIN sentRequests[p] : sentRequests[p][k][1] = "unregister") => Leaving(p)

(* What found no node is a registration that is still the first request.      *)
AbsentServes ==
    \A p \in Plugins : server[p] = "absent" => Serves(p, "register")

RegistrationInv ==
    /\ RegistrationTypeOK
    /\ LeavingAsks
    /\ AbsentServes
    /\ OwnNode

(* The invariant when nothing was started.                                    *)
LEMMA PluginInitInv == PluginInit => RegistrationInv
  BY DEF PluginInit, RegistrationInv, RegistrationTypeOK, LeavingAsks, AbsentServes, OwnNode,
     AskingThreads, Leaving

(* A request that is appended stays behind those that are there.              *)
LEMMA AppendRequest ==
  ASSUME NEW s \in Seq(Asked), NEW e \in Asked
  PROVE  /\ Append(s, e) \in Seq(Asked)
         /\ Append(s, e) # <<>>
         /\ s # <<>> => Head(Append(s, e)) = Head(s)
         /\ \A k \in DOMAIN Append(s, e) :
              Append(s, e)[k] = e \/ (k \in DOMAIN s /\ Append(s, e)[k] = s[k])
<1>1. /\ Append(s, e) \in Seq(Asked) /\ Len(s) \in Nat
      /\ DOMAIN s = 1 .. Len(s) /\ DOMAIN Append(s, e) = 1 .. Len(s) + 1
      /\ Append(s, e)[Len(s) + 1] = e
  OBVIOUS
<1>2. \A k \in 1 .. Len(s) : Append(s, e)[k] = s[k]
  OBVIOUS
<1>3. Append(s, e) # <<>> /\ (s # <<>> => Head(Append(s, e)) = Head(s))
  <2>1. Append(s, e) # <<>>
    BY <1>1
  <2>2. ASSUME s # <<>> PROVE Head(Append(s, e)) = Head(s)
    <3>1. 1 \in 1 .. Len(s)
      BY <1>1, <2>2
    <3>2. Head(s) = s[1] /\ Head(Append(s, e)) = Append(s, e)[1]
      BY <1>1, <2>1, <2>2
    <3>3. QED
      BY <1>2, <3>1, <3>2
  <2>3. QED
    BY <2>1, <2>2
<1>4. \A k \in 1 .. Len(s) + 1 : k = Len(s) + 1 \/ k \in 1 .. Len(s)
  BY <1>1
<1>5. QED
  BY <1>1, <1>2, <1>3, <1>4

(* A request that is taken leaves the others.                                 *)
LEMMA TakeRequest ==
  ASSUME NEW s \in Seq(Asked), s # <<>>
  PROVE  /\ Tail(s) \in Seq(Asked)
         /\ Head(s) \in Asked
         /\ Head(s) = s[1] /\ 1 \in DOMAIN s
         /\ \A k \in DOMAIN Tail(s) : k + 1 \in DOMAIN s /\ Tail(s)[k] = s[k + 1]
  OBVIOUS

(* One answer that is set.                                                    *)
LEMMA AnswerSet ==
  ASSUME NEW f \in [Plugins -> [AskingThreads -> {"none", "sent", "ok", "failed"}]],
         NEW p \in Plugins, NEW t \in AskingThreads, NEW v \in {"none", "sent", "ok", "failed"},
         NEW g, g = [f EXCEPT ![p][t] = v]
  PROVE  /\ g \in [Plugins -> [AskingThreads -> {"none", "sent", "ok", "failed"}]]
         /\ \A q \in Plugins : g[q]["dispatcher"] = f[q]["dispatcher"] \/
              (q = p /\ t = "dispatcher" /\ g[q]["dispatcher"] = v)
<1>1. g = [f EXCEPT ![p] = [f[p] EXCEPT ![t] = v]]
  OBVIOUS
<1>2. [f[p] EXCEPT ![t] = v] \in [AskingThreads -> {"none", "sent", "ok", "failed"}]
  OBVIOUS
<1>3. "dispatcher" \in AskingThreads
  BY DEF AskingThreads
<1>4. QED
  BY <1>1, <1>2, <1>3

(* Sending a request disturbs neither what is served nor what was answered    *)
(* to others.                                                                 *)
LEMMA CallServiceInv ==
  ASSUME RegistrationInv, NEW p \in Plugins, NEW t \in AskingThreads, NEW what,
         <<what, t>> \in Asked, CallService(p, t, what),
         main' \in [Plugins -> {"idle", "running", "unregister", "call", "clear", "join", "gone"}],
         \A q \in Plugins : Leaving(q) => Leaving(q)',
         what = "unregister" => Leaving(p)',
         UNCHANGED <<server, m_children>>
  PROVE  RegistrationInv'
<1> USE DEF RegistrationInv
<1>1. /\ answer' \in [Plugins -> [AskingThreads -> {"none", "sent", "ok", "failed"}]]
      /\ \A q \in Plugins : answer'[q]["dispatcher"] = "ok" => answer[q]["dispatcher"] = "ok"
  <2>1. answer \in [Plugins -> [AskingThreads -> {"none", "sent", "ok", "failed"}]]
    BY DEF RegistrationTypeOK
  <2>2. PICK v \in {"sent", "failed"} : answer' = [answer EXCEPT ![p][t] = v]
    BY DEF CallService
  <2>3. QED
    BY <2>1, <2>2, AnswerSet
<1>2. CASE sentRequests' = sentRequests
  BY <1>1, <1>2 DEF RegistrationTypeOK, LeavingAsks, AbsentServes, OwnNode, Serves, hasChild,
     Leaving
<1>3. CASE sentRequests' = [sentRequests EXCEPT ![p] = Append(@, <<what, t>>)]
  <2>1. sentRequests[p] \in Seq(Asked)
    BY DEF RegistrationTypeOK
  <2>2. sentRequests'[p] = Append(sentRequests[p], <<what, t>>)
    BY <1>3 DEF RegistrationTypeOK
  <2>3. /\ sentRequests'[p] \in Seq(Asked) /\ sentRequests'[p] # <<>>
        /\ sentRequests[p] # <<>> => Head(sentRequests'[p]) = Head(sentRequests[p])
        /\ \A k \in DOMAIN sentRequests'[p] :
             \/ sentRequests'[p][k] = <<what, t>>
             \/ k \in DOMAIN sentRequests[p] /\ sentRequests'[p][k] = sentRequests[p][k]
    BY <2>1, <2>2, AppendRequest
  <2>4. \A q \in Plugins : q # p => sentRequests'[q] = sentRequests[q]
    BY <1>3 DEF RegistrationTypeOK
  <2>5. RegistrationTypeOK'
    BY <1>1, <1>3, <2>2, <2>3 DEF RegistrationTypeOK
  <2>6. LeavingAsks'
    BY <2>3, <2>4 DEF LeavingAsks
  <2>7. AbsentServes'
    BY <2>3, <2>4 DEF AbsentServes, Serves
  <2>8. OwnNode'
    BY <1>1 DEF OwnNode, hasChild, Leaving
  <2>9. QED
    BY <2>5, <2>6, <2>7, <2>8
<1>4. QED
  BY <1>2, <1>3 DEF CallService

(* So an answer of a request of the main thread, and one that failed.         *)
LEMMA ReplyFacts ==
  ASSUME RegistrationInv, NEW p \in Plugins, NEW res \in {"ok", "failed"},
         sentRequests[p] # <<>>, Reply(p, res)
  PROVE  /\ sentRequests' \in [Plugins -> Seq(Asked)]
         /\ answer' \in [Plugins -> [AskingThreads -> {"none", "sent", "ok", "failed"}]]
         /\ \A q \in Plugins : q # p => sentRequests'[q] = sentRequests[q]
         /\ \A k \in DOMAIN sentRequests'[p] :
              k + 1 \in DOMAIN sentRequests[p] /\ sentRequests'[p][k] = sentRequests[p][k + 1]
         /\ \A q \in Plugins : answer'[q]["dispatcher"] = "ok" =>
              \/ answer[q]["dispatcher"] = "ok"
              \/ q = p /\ res = "ok" /\ Serves(p, "register")
<1> USE DEF RegistrationInv, RegistrationTypeOK
<1>1. sentRequests[p] \in Seq(Asked)
  OBVIOUS
<1>2. /\ sentRequests' = [sentRequests EXCEPT ![p] = Tail(sentRequests[p])]
      /\ sentRequests'[p] = Tail(sentRequests[p])
  BY DEF Reply
<1>3. /\ Tail(sentRequests[p]) \in Seq(Asked)
      /\ Head(sentRequests[p]) \in Asked
      /\ \A k \in DOMAIN Tail(sentRequests[p]) :
           /\ k + 1 \in DOMAIN sentRequests[p]
           /\ Tail(sentRequests[p])[k] = sentRequests[p][k + 1]
  BY <1>1, TakeRequest
<1> DEFINE t == Head(sentRequests[p])[2]
<1>4. t \in AskingThreads /\ (t = "dispatcher" => Serves(p, "register"))
  BY <1>3 DEF Asked, AskingThreads, Serves
<1>5. answer' = answer \/ answer' = [answer EXCEPT ![p][t] = res]
  BY DEF Reply
<1> HIDE DEF t
<1>6. answer \in [Plugins -> [AskingThreads -> {"none", "sent", "ok", "failed"}]]
  OBVIOUS
<1>7. /\ answer' \in [Plugins -> [AskingThreads -> {"none", "sent", "ok", "failed"}]]
      /\ \A q \in Plugins : answer'[q]["dispatcher"] = "ok" =>
           \/ answer[q]["dispatcher"] = "ok"
           \/ q = p /\ res = "ok" /\ Serves(p, "register")
  <2>1. CASE answer' = answer
    BY <2>1
  <2>2. CASE answer' = [answer EXCEPT ![p][t] = res]
    <3> HIDE DEF RegistrationInv, RegistrationTypeOK
    <3>1. /\ answer' \in [Plugins -> [AskingThreads -> {"none", "sent", "ok", "failed"}]]
          /\ \A q \in Plugins : answer'[q]["dispatcher"] = answer[q]["dispatcher"] \/
               (q = p /\ t = "dispatcher" /\ answer'[q]["dispatcher"] = res)
      BY <1>4, <1>6, <2>2, AnswerSet
    <3>2. QED
      BY <1>4, <3>1
  <2>3. QED
    BY <1>5, <2>1, <2>2
<1>8. QED
  BY <1>2, <1>3, <1>7

(* What the service does for one connection keeps the invariant, whatever it  *)
(* does for the others in between (InterfaceServiceImpl, NodeGeneric).        *)
LEMMA ServerInv == ASSUME RegistrationInv, NEW p \in Plugins, ServerStep(p) PROVE RegistrationInv'
<1> USE DEF RegistrationInv
<1>1. main' = main
  BY DEF ServerStep, getChild, addChild, removeChild
<1>2. ASSUME NEW res \in {"ok", "failed"}, sentRequests[p] # <<>>, Reply(p, res),
             server'[p] = "idle", \A q \in Plugins : q # p => server'[q] = server[q]
      PROVE  LeavingAsks' /\ AbsentServes'
  <2>1. /\ \A q \in Plugins : q # p => sentRequests'[q] = sentRequests[q]
        /\ \A k \in DOMAIN sentRequests'[p] :
             k + 1 \in DOMAIN sentRequests[p] /\ sentRequests'[p][k] = sentRequests[p][k + 1]
    BY <1>2, ReplyFacts
  <2>2. LeavingAsks'
    BY <1>1, <2>1 DEF LeavingAsks, Leaving
  <2>3. AbsentServes'
    BY <1>2, <2>1 DEF AbsentServes, Serves
  <2>4. QED
    BY <2>2, <2>3
<1>3. CASE getChild(p)
  <2>1. CASE hasChild
    <3>1. Reply(p, "failed") /\ sentRequests[p] # <<>> /\ UNCHANGED <<server, m_children>>
          /\ server[p] = "idle"
      BY <1>3, <2>1 DEF getChild, Serves
    <3>2. LeavingAsks' /\ AbsentServes'
      BY <1>2, <3>1
    <3>3. RegistrationTypeOK'
      BY <1>1, <3>1, ReplyFacts DEF RegistrationTypeOK
    <3>4. OwnNode'
      BY <1>1, <3>1, ReplyFacts DEF OwnNode, hasChild
    <3>5. QED
      BY <3>2, <3>3, <3>4
  <2>2. CASE ~hasChild
    BY <1>1, <1>3, <2>2 DEF getChild, RegistrationTypeOK, LeavingAsks, AbsentServes, OwnNode,
       Leaving, Serves, hasChild
  <2>3. QED
    BY <2>1, <2>2
<1>4. CASE addChild(p)
  <2>1. /\ sentRequests[p] # <<>>
        /\ server' \in [Plugins -> {"idle", "absent"}] /\ server'[p] = "idle"
        /\ \A q \in Plugins : q # p => server'[q] = server[q]
    BY <1>4 DEF addChild, AbsentServes, Serves, RegistrationTypeOK
  <2>2. CASE Reply(p, "failed") /\ UNCHANGED m_children
    <3>1. LeavingAsks' /\ AbsentServes'
      BY <1>2, <2>1, <2>2
    <3>2. RegistrationTypeOK'
      BY <1>1, <2>1, <2>2, <3>1, ReplyFacts DEF RegistrationTypeOK
    <3>3. OwnNode'
      BY <1>1, <2>1, <2>2, ReplyFacts DEF OwnNode, hasChild
    <3>4. QED
      BY <3>1, <3>2, <3>3
  <2>3. CASE ~hasChild /\ Reply(p, "ok") /\ m_children' = Append(m_children, p)
    <3>1. LeavingAsks' /\ AbsentServes'
      BY <1>2, <2>1, <2>3
    <3>2. m_children' = <<p>>
      BY <2>3 DEF hasChild
    <3>3. RegistrationTypeOK'
      BY <1>1, <2>1, <2>3, <3>1, <3>2, ReplyFacts DEF RegistrationTypeOK
    <3>4. \A q \in Plugins : answer'[q]["dispatcher"] = "ok" => answer[q]["dispatcher"] = "ok" \/ q = p
      BY <2>1, <2>3, ReplyFacts
    <3>5. OwnNode'
      BY <1>1, <2>3, <3>2, <3>4 DEF OwnNode, hasChild
    <3>6. QED
      BY <3>1, <3>3, <3>5
  <2>4. QED
    BY <1>4, <2>2, <2>3 DEF addChild
<1>5. CASE removeChild(p)
  <2>1. sentRequests[p] # <<>> /\ UNCHANGED server /\ Serves(p, "unregister")
    BY <1>5 DEF removeChild, Serves
  <2>2. Leaving(p) /\ server[p] = "idle"
    <3>1. sentRequests[p] \in Seq(Asked)
      BY DEF RegistrationTypeOK
    <3>2. Head(sentRequests[p]) = sentRequests[p][1] /\ 1 \in DOMAIN sentRequests[p]
      BY <2>1, <3>1, TakeRequest
    <3>3. QED
      BY <2>1, <3>2 DEF LeavingAsks, AbsentServes, Serves, RegistrationTypeOK
  <2>3. PICK res \in {"ok", "failed"} : Reply(p, res)
    BY <1>5 DEF removeChild
  <2>4. LeavingAsks' /\ AbsentServes'
    BY <1>2, <2>1, <2>2, <2>3
  <2>5. m_children' \in Seq(Plugins) /\ Len(m_children') <= 1
    BY <1>5 DEF removeChild, hasChild, RegistrationTypeOK, OwnNode
  <2>6. RegistrationTypeOK'
    BY <1>1, <2>1, <2>3, <2>5, ReplyFacts DEF RegistrationTypeOK
  <2>7. OwnNode'
    BY <1>1, <2>2, <2>5 DEF OwnNode, Leaving
  <2>8. QED
    BY <2>4, <2>6, <2>7
<1>6. QED
  BY <1>3, <1>4, <1>5 DEF ServerStep

(* The two threads of a plug-in: what they ask for, and what they forget of   *)
(* the answers; a main thread that is leaving does not come back.             *)
LEMMA PluginThreadsInv ==
  ASSUME RegistrationInv, NEW p \in Plugins,
         \/ enablePluginAutoRegistration(p) \/ disablePluginAutoRegistration(p)
         \/ onAttach(p) \/ MainStep(p) \/ DispatcherStep(p)
  PROVE  RegistrationInv'
<1> USE DEF RegistrationInv
<1>1. ASSUME UNCHANGED <<sentRequests, server, m_children>>,
             main' \in [Plugins -> {"idle", "running", "unregister", "call", "clear", "join", "gone"}],
             \A q \in Plugins : Leaving(q) => Leaving(q)',
             \/ UNCHANGED answer
             \/ \E t \in AskingThreads : answer' = [answer EXCEPT ![p][t] = "none"]
      PROVE  RegistrationInv'
  <2>1. /\ answer' \in [Plugins -> [AskingThreads -> {"none", "sent", "ok", "failed"}]]
        /\ \A q \in Plugins : answer'[q]["dispatcher"] = "ok" => answer[q]["dispatcher"] = "ok"
    <3>1. answer \in [Plugins -> [AskingThreads -> {"none", "sent", "ok", "failed"}]]
      BY DEF RegistrationTypeOK
    <3>2. CASE UNCHANGED answer
      BY <3>1, <3>2
    <3>3. ASSUME NEW t \in AskingThreads, answer' = [answer EXCEPT ![p][t] = "none"]
          PROVE  /\ answer' \in [Plugins -> [AskingThreads -> {"none", "sent", "ok", "failed"}]]
                 /\ \A q \in Plugins :
                      answer'[q]["dispatcher"] = "ok" => answer[q]["dispatcher"] = "ok"
      BY <3>1, <3>3, AnswerSet
    <3>4. QED
      BY <1>1, <3>2, <3>3
  <2>2. RegistrationTypeOK'
    BY <1>1, <2>1 DEF RegistrationTypeOK
  <2>3. LeavingAsks' /\ AbsentServes'
    BY <1>1 DEF LeavingAsks, AbsentServes, Serves
  <2>4. OwnNode'
    BY <1>1, <2>1 DEF OwnNode, hasChild, Leaving
  <2>5. QED
    BY <2>2, <2>3, <2>4
<1>2. CASE enablePluginAutoRegistration(p)
  BY <1>1, <1>2 DEF enablePluginAutoRegistration, Main, Leaving, RegistrationTypeOK
<1>3. CASE disablePluginAutoRegistration(p)
  BY <1>1, <1>3 DEF disablePluginAutoRegistration, Main, Leaving, RegistrationTypeOK
<1>4. CASE onAttach(p)
  BY <1>1, <1>4 DEF onAttach, Leaving, RegistrationTypeOK
<1>5. CASE unregisterPlugin(p)
  <2>1. /\ main' \in [Plugins -> {"idle", "running", "unregister", "call", "clear", "join", "gone"}]
        /\ \A q \in Plugins : Leaving(q) => Leaving(q)'
        /\ Leaving(p)'
    BY <1>5 DEF unregisterPlugin, Main, Leaving, RegistrationTypeOK
  <2>2. CallService(p, "main", "unregister") /\ UNCHANGED <<server, m_children>>
    BY <1>5 DEF unregisterPlugin
  <2>3. "main" \in AskingThreads /\ <<"unregister", "main">> \in Asked
    BY DEF AskingThreads, Asked
  <2>4. QED
    BY <2>1, <2>2, <2>3, CallServiceInv
<1>6. CASE deinitCommon(p)
  <2>1. /\ main' \in [Plugins -> {"idle", "running", "unregister", "call", "clear", "join", "gone"}]
        /\ \A q \in Plugins : Leaving(q) => Leaving(q)'
        /\ UNCHANGED <<sentRequests, server, m_children>>
        /\ answer' = [answer EXCEPT ![p]["main"] = "none"] /\ "main" \in AskingThreads
    BY <1>6 DEF deinitCommon, Main, Leaving, RegistrationTypeOK, AskingThreads
  <2>2. QED
    BY <1>1, <2>1
<1>7. CASE clear(p) \/ PluginJoined(p)
  BY <1>1, <1>7 DEF clear, PluginJoined, Main, Leaving, RegistrationTypeOK
<1>8. CASE processEvent(p) \/ NextEvent(p)
  BY <1>1, <1>8 DEF processEvent, NextEvent, Leaving, RegistrationTypeOK
<1>9. CASE onEvent(p)
  <2>1. UNCHANGED <<main, server, m_children>> /\ CallService(p, "dispatcher", "register")
    BY <1>9 DEF onEvent
  <2>2. "dispatcher" \in AskingThreads /\ <<"register", "dispatcher">> \in Asked
    BY DEF AskingThreads, Asked
  <2>3. QED
    BY <2>1, <2>2, CallServiceInv DEF Leaving, RegistrationTypeOK
<1>10. CASE Registered(p)
  <2>1. /\ UNCHANGED <<main, sentRequests, server, m_children>>
        /\ answer' = [answer EXCEPT ![p]["dispatcher"] = "none"] /\ "dispatcher" \in AskingThreads
    BY <1>10 DEF Registered, AskingThreads
  <2>2. QED
    BY <1>1, <2>1 DEF Leaving, RegistrationTypeOK
<1>11. QED
  BY <1>2, <1>3, <1>4, <1>5, <1>6, <1>7, <1>8, <1>9, <1>10 DEF MainStep, DispatcherStep

(* Each step keeps the invariant.                                             *)
LEMMA PluginStepInv == RegistrationInv /\ [PluginNext]_pluginVars => RegistrationInv'
<1> SUFFICES ASSUME RegistrationInv, [PluginNext]_pluginVars PROVE RegistrationInv'
  OBVIOUS
<1>1. CASE PluginNext
  BY <1>1, ServerInv, PluginThreadsInv DEF PluginNext
<1>2. CASE UNCHANGED pluginVars
  BY <1>2 DEF pluginVars, RegistrationInv, RegistrationTypeOK, LeavingAsks, AbsentServes,
     OwnNode, Leaving, Serves, hasChild
<1>3. QED
  BY <1>1, <1>2

(* Whatever comes between getChild and addChild of a registration: there is   *)
(* one node for an id, and who is told it is registered has it, until someone *)
(* of that id unregisters (InterfaceServiceImpl::registerPlugin).             *)
THEOREM RegisteredHasNode == PluginSpec => []OwnNode
<1>1. RegistrationInv => OwnNode
  BY DEF RegistrationInv
<1>2. QED
  BY <1>1, PluginInitInv, PluginStepInv, PTL DEF PluginSpec
-----------------------------------------------------------------------------
(* The calls of the service about its plug-ins answer what held while they    *)
(* ran.                                                                       *)

States == {"UNDEFINED", "CONNECTED", "DISCONNECTED"}
Children == [id : PluginIds, node : Nat]
Steps == {"none", "begun", "absent", "added", "found", "set", "next", "state", "find"}
Watching == {"list", "create"}
OnPlugin == {"register", "unregister", "connect", "disconnect"}
Ops == OnPlugin \cup Watching \cup {"none", "remove"}
Calls == [op : Ops, id : PluginIds \cup InterfaceIds \cup {NoNode}, step : Steps, node : Nat,
          ids : Seq(PluginIds), listed : Seq(PluginIds \X States)]
Watches == [always : SUBSET PluginIds, ever : SUBSET (PluginIds \X States), gone : BOOLEAN]

(* A child has an id of its own and a node that was made.                     *)
ChildrenOnce ==
    /\ n_children \in Seq(Children)
    /\ m_state \in Seq(States)
    /\ \A n, k \in DOMAIN n_children : n_children[n].id = n_children[k].id => n = k
    /\ \A n \in DOMAIN n_children : n_children[n].node \in DOMAIN m_state

(* A call about a plug-in names one, and holds a node that was made.          *)
CallTyped(c) ==
    /\ c \in Calls
    /\ c.op \in OnPlugin => c.id \in PluginIds
    /\ c.step \in {"added", "found", "set", "state"} => c.node \in DOMAIN m_state
    /\ c.op = "list" => c.step \in {"begun", "next", "state"}

(* While a call is watched, what was always there is still there, and what    *)
(* there is has been seen.                                                    *)
WatchTrue(c, w) ==
    /\ w \in Watches
    /\ c.op \in Watching => w.always \subseteq There /\ Seen \subseteq w.ever

(* What a list has yet to ask and what it has answered: every plug-in that    *)
(* was always there is in one of them, and nothing is in them twice.          *)
Listing(c, w) ==
    /\ \A j, k \in DOMAIN c.ids : c.ids[j] = c.ids[k] => j = k
    /\ \A j, k \in DOMAIN c.listed : c.listed[j][1] = c.listed[k][1] => j = k
    /\ \A j \in DOMAIN c.ids, k \in DOMAIN c.listed : c.ids[j] # c.listed[k][1]
    /\ c.step # "begun" =>
         \A i \in w.always : \/ \E j \in DOMAIN c.ids : c.ids[j] = i
                             \/ \E k \in DOMAIN c.listed : c.listed[k][1] = i
    /\ \A j \in DOMAIN c.ids : \E e \in w.ever : e[1] = c.ids[j]
    /\ \A k \in DOMAIN c.listed : \E e \in w.ever : e[1] = c.listed[k][1]
    /\ \A k \in DOMAIN c.listed : c.listed[k][1] \in w.always => c.listed[k] \in w.ever
    /\ c.step = "begun" => c.ids = <<>> /\ c.listed = <<>>
    /\ c.step = "state" => c.ids # <<>>

(* The child whose state is looked at next is still the one that was found,   *)
(* unless it was removed meanwhile.                                           *)
StillFound(c, w) ==
    c.step = "state" /\ c.ids[1] \in w.always =>
        \E n \in DOMAIN n_children : n_children[n].id = c.ids[1] /\ n_children[n].node = c.node

(* The interface that was met is there until it is removed.                   *)
InterfaceKept(c, w) ==
    c.op = "create" /\ c.step = "find" => c.id \in m_interfaces \/ w.gone

CallKept(t) ==
    /\ CallTyped(n_call[t])
    /\ WatchTrue(n_call[t], n_watch[t])
    /\ n_call[t].op = "list" => Listing(n_call[t], n_watch[t]) /\ StillFound(n_call[t], n_watch[t])
    /\ InterfaceKept(n_call[t], n_watch[t])

NInv ==
    /\ ChildrenOnce
    /\ DOMAIN n_call = Callers
    /\ DOMAIN n_watch = Callers
    /\ \A t \in Callers : CallKept(t)
    /\ ChildrenExact

Persists ==
    \A n \in DOMAIN n_children : n_children[n].id \in There' =>
        \E k \in DOMAIN n_children' : n_children'[k] = n_children[n]
-----------------------------------------------------------------------------
(* A step that leaves the children alone.                                     *)
LEMMA ChildrenSame ==
  ASSUME ChildrenOnce, UNCHANGED n_children, m_state' \in Seq(States),
         DOMAIN m_state \subseteq DOMAIN m_state'
  PROVE  ChildrenOnce' /\ Persists
  BY DEF ChildrenOnce, Persists

(* A child is added when there is none of its id.                             *)
LEMMA ChildAdded ==
  ASSUME ChildrenOnce, NEW id \in PluginIds, ~hasChild_NoLock(id),
         m_state' = Append(m_state, "UNDEFINED"),
         n_children' = Append(n_children, [id |-> id, node |-> Len(m_state) + 1])
  PROVE  /\ ChildrenOnce' /\ Persists
         /\ DOMAIN m_state \subseteq DOMAIN m_state' /\ Len(m_state) + 1 \in DOMAIN m_state'
<1> DEFINE e == [id |-> id, node |-> Len(m_state) + 1]
<1>1. /\ n_children \in Seq(Children) /\ m_state \in Seq(States) /\ e \in Children
      /\ "UNDEFINED" \in States
  BY DEF ChildrenOnce, Children, States
<1>2. /\ m_state' \in Seq(States) /\ DOMAIN m_state' = 1 .. Len(m_state) + 1
      /\ DOMAIN m_state = 1 .. Len(m_state) /\ Len(m_state) \in Nat
  BY <1>1
<1>3. /\ n_children' \in Seq(Children) /\ DOMAIN n_children' = 1 .. Len(n_children) + 1
      /\ DOMAIN n_children = 1 .. Len(n_children) /\ Len(n_children) \in Nat
      /\ \A n \in 1 .. Len(n_children) : n_children'[n] = n_children[n]
      /\ n_children'[Len(n_children) + 1] = e
  BY <1>1
<1>4. \A n \in 1 .. Len(n_children) : n_children[n].id # id
  BY <1>3 DEF hasChild_NoLock
<1>5. \A n, k \in DOMAIN n_children' : n_children'[n].id = n_children'[k].id => n = k
  BY <1>3, <1>4 DEF ChildrenOnce
<1>6. \A n \in DOMAIN n_children' : n_children'[n].node \in DOMAIN m_state'
  BY <1>2, <1>3 DEF ChildrenOnce
<1>7. QED
  BY <1>2, <1>3, <1>5, <1>6 DEF ChildrenOnce, Persists

(* The index of the first child of an id.                                     *)
LEMMA FirstIs ==
  ASSUME ChildrenOnce, NEW id, hasChild_NoLock(id)
  PROVE  First(id) \in DOMAIN n_children /\ n_children[First(id)].id = id
<1>1. PICK n \in DOMAIN n_children : n_children[n].id = id
  BY DEF hasChild_NoLock
<1>2. DOMAIN n_children = 1 .. Len(n_children) /\ Len(n_children) \in Nat
  BY DEF ChildrenOnce
<1>3. \A k \in 1 .. n - 1 : n_children[k].id # id
  BY <1>1, <1>2 DEF ChildrenOnce
<1>4. QED
  BY <1>1, <1>3 DEF First

(* A child is removed: the others keep their ids and nodes.                   *)
LEMMA ChildRemoved ==
  ASSUME ChildrenOnce, NEW id, n_removeChild(id), UNCHANGED m_state
  PROVE  ChildrenOnce' /\ Persists
<1>1. CASE ~hasChild_NoLock(id)
  BY <1>1, ChildrenSame DEF n_removeChild, ChildrenOnce
<1>2. CASE hasChild_NoLock(id)
  <2> DEFINE i == First(id)
             l == Len(n_children)
             a == SubSeq(n_children, 1, i - 1)
             b == SubSeq(n_children, i + 1, l)
  <2>1. /\ n_children \in Seq(Children) /\ l \in Nat /\ DOMAIN n_children = 1 .. l
        /\ i \in 1 .. l /\ n_children[i].id = id
    BY <1>2, FirstIs DEF ChildrenOnce
  <2>2. n_children' = a \o b
    BY <1>2 DEF n_removeChild, RemoveAt
  <2> HIDE DEF i
  <2>12. /\ a \in Seq(Children) /\ Len(a) = i - 1
         /\ \A k \in 1 .. i - 1 : a[k] = n_children[k]
    BY <2>1
  <2>13. /\ b \in Seq(Children) /\ Len(b) = l - i
         /\ \A k \in 1 .. l - i : b[k] = n_children[k + i]
    <3>1. \A s \in Seq(Children) : \A j \in 1 .. Len(s) :
            /\ SubSeq(s, j + 1, Len(s)) \in Seq(Children)
            /\ Len(SubSeq(s, j + 1, Len(s))) = Len(s) - j
            /\ \A k \in 1 .. Len(s) - j : SubSeq(s, j + 1, Len(s))[k] = s[k + j]
      OBVIOUS
    <3>2. QED
      BY <2>1, <3>1
  <2>3. /\ a \in Seq(Children) /\ Len(a) = i - 1 /\ \A k \in 1 .. i - 1 : a[k] = n_children[k]
        /\ b \in Seq(Children) /\ Len(b) = l - i /\ \A k \in 1 .. l - i : b[k] = n_children[k + i]
    BY <2>12, <2>13
  <2> HIDE DEF a, b, l
  <2>4. /\ n_children' \in Seq(Children) /\ DOMAIN n_children' = 1 .. l - 1
        /\ \A k \in 1 .. i - 1 : n_children'[k] = a[k]
        /\ \A k \in i .. l - 1 : n_children'[k] = b[k - (i - 1)]
    <3>1. \A p, q \in Seq(Children) :
            /\ p \o q \in Seq(Children) /\ DOMAIN (p \o q) = 1 .. Len(p) + Len(q)
            /\ \A k \in 1 .. Len(p) : (p \o q)[k] = p[k]
            /\ \A k \in Len(p) + 1 .. Len(p) + Len(q) : (p \o q)[k] = q[k - Len(p)]
      OBVIOUS
    <3>2. QED
      BY <2>1, <2>2, <2>3, <3>1
  <2>5. \A k \in 1 .. l - 1 : n_children'[k] = n_children[IF k < i THEN k ELSE k + 1]
    <3> SUFFICES ASSUME NEW k \in 1 .. l - 1
                 PROVE  n_children'[k] = n_children[IF k < i THEN k ELSE k + 1]
      OBVIOUS
    <3>1. CASE k < i
      BY <2>1, <2>3, <2>4, <3>1
    <3>2. CASE ~(k < i)
      <4>1. k - (i - 1) \in 1 .. l - i /\ (k - (i - 1)) + i = k + 1 /\ k \in i .. l - 1
        BY <2>1, <3>2
      <4>2. b[k - (i - 1)] = n_children[(k - (i - 1)) + i]
        BY <2>3, <4>1
      <4>3. QED
        BY <2>4, <3>2, <4>1, <4>2
    <3>3. QED
      BY <3>1, <3>2
  <2>6. \A n \in 1 .. l : n # i => \E k \in 1 .. l - 1 : n_children'[k] = n_children[n]
    <3> SUFFICES ASSUME NEW n \in 1 .. l, n # i
                 PROVE  \E k \in 1 .. l - 1 : n_children'[k] = n_children[n]
      OBVIOUS
    <3>1. CASE n < i
      BY <2>1, <2>5, <3>1
    <3>2. CASE n > i
      <4>1. n - 1 \in 1 .. l - 1 /\ ~(n - 1 < i) /\ (n - 1) + 1 = n
        BY <2>1, <3>2
      <4>2. QED
        BY <2>5, <4>1
    <3>3. QED
      BY <2>1, <3>1, <3>2
  <2>7. \A k \in 1 .. l - 1 :
          (IF k < i THEN k ELSE k + 1) \in 1 .. l /\ (IF k < i THEN k ELSE k + 1) # i
    BY <2>1
  <2>14. \A k \in 1 .. l : k # i => n_children[k].id # id
    BY <2>1 DEF ChildrenOnce
  <2>15. \A k \in 1 .. l - 1 : n_children'[k].id # id
    BY <2>5, <2>7, <2>14
  <2>8. id \notin There'
    BY <2>4, <2>15 DEF There
  <2>9. Persists
    BY <2>1, <2>4, <2>6, <2>8 DEF Persists
  <2>10. \A n, k \in DOMAIN n_children' : n_children'[n].id = n_children'[k].id => n = k
    <3>1. \A n, k \in 1 .. l - 1 :
            (IF n < i THEN n ELSE n + 1) = (IF k < i THEN k ELSE k + 1) => n = k
      BY <2>1
    <3> SUFFICES ASSUME NEW n \in 1 .. l - 1, NEW k \in 1 .. l - 1,
                        n_children'[n].id = n_children'[k].id
                 PROVE  n = k
      BY <2>4
    <3> DEFINE p == IF n < i THEN n ELSE n + 1
               q == IF k < i THEN k ELSE k + 1
    <3>2. /\ n_children'[n] = n_children[p] /\ n_children'[k] = n_children[q]
          /\ p \in 1 .. l /\ q \in 1 .. l
      BY <2>5, <2>7
    <3>3. p = q => n = k
      BY <3>1
    <3> HIDE DEF p, q
    <3>4. p = q
      BY <2>1, <3>2 DEF ChildrenOnce
    <3>5. QED
      BY <3>3, <3>4
  <2>11. QED
    BY <2>1, <2>4, <2>5, <2>7, <2>9, <2>10 DEF ChildrenOnce
<1>3. QED
  BY <1>1, <1>2
-----------------------------------------------------------------------------
(* What a call that is watched sees after a step.                             *)
LEMMA WatchStep ==
  ASSUME ChildrenOnce', Watched, NEW t \in Callers, NEW c \in Calls,
         c = n_call'[t], WatchTrue(n_call[t], n_watch[t]), n_watch[t] \in Watches,
         c.op \in Watching => n_call[t] = Idle \/ n_call[t].op = c.op
  PROVE  /\ WatchTrue(n_call[t], n_watch[t])'
         /\ c.op \in Watching /\ n_call[t] # Idle =>
              /\ n_watch'[t].always = n_watch[t].always \cap There'
              /\ n_watch[t].ever \subseteq n_watch'[t].ever
              /\ n_watch'[t].gone = (n_watch[t].gone \/ ~(m_interfaces \subseteq m_interfaces'))
<1>7. \A n \in DOMAIN n_children' :
        n_children'[n].id \in PluginIds /\ m_state'[n_children'[n].node] \in States
  <2>1. /\ \A n \in DOMAIN n_children' : n_children'[n] \in Children
        /\ \A n \in DOMAIN m_state' : m_state'[n] \in States
    BY DEF ChildrenOnce
  <2>2. QED
    BY <2>1 DEF ChildrenOnce, Children
<1>1. There' \in SUBSET PluginIds
  BY <1>7 DEF There
<1>2. Seen' \in SUBSET (PluginIds \X States)
  BY <1>7 DEF Seen
<1>3. CASE c.op \notin Watching
  <2>1. n_watch'[t] = Unwatched
    BY <1>3 DEF Watched, Watching
  <2>2. n_watch'[t] \in Watches
    BY <2>1 DEF Unwatched, Watches
  <2>3. QED
    BY <1>3, <2>2 DEF WatchTrue
<1>4. CASE c.op \in Watching /\ n_call[t] = Idle
  <2>1. n_watch'[t] = [Unwatched EXCEPT !.always = There', !.ever = Seen']
    BY <1>4 DEF Watched, Watching
  <2>2. QED
    BY <1>1, <1>2, <1>4, <2>1 DEF WatchTrue, Unwatched, Watches
<1>5. CASE c.op \in Watching /\ n_call[t] # Idle
  <2>1. n_watch'[t] = [always |-> n_watch[t].always \cap There',
                       ever |-> n_watch[t].ever \cup Seen',
                       gone |-> n_watch[t].gone \/ ~(m_interfaces \subseteq m_interfaces')]
    BY <1>5 DEF Watched, Watching
  <2>2. n_watch'[t] \in Watches
    BY <1>1, <1>2, <2>1 DEF Watches
  <2>3. QED
    BY <1>5, <2>1, <2>2 DEF WatchTrue
<1>6. QED
  BY <1>3, <1>4, <1>5

(* Less was always there and more was ever: the list stays right.             *)
LEMMA ListingNarrows ==
  ASSUME NEW c \in Calls, NEW v \in Watches, NEW w \in Watches, Listing(c, v),
         w.always \subseteq v.always, v.ever \subseteq w.ever
  PROVE  Listing(c, w)
  BY DEF Listing

(* A step keeps what is known of the call of a thread, when its own part of   *)
(* it is right for what was watched before the step.                          *)
LEMMA KeptStep ==
  ASSUME ChildrenOnce, ChildrenOnce', Persists, DOMAIN m_state \subseteq DOMAIN m_state',
         Watched, NEW t \in Callers, CallKept(t), CallTyped(n_call[t])',
         \/ n_call'[t] = Idle
         \/ /\ n_call[t] = Idle /\ n_call'[t].step = "begun"
            /\ n_call'[t].ids = <<>> /\ n_call'[t].listed = <<>>
         \/ n_call[t] # Idle /\ n_call'[t].op = n_call[t].op,
         n_call[t] # Idle /\ n_call'[t].op = "list" =>
            Listing(n_call'[t], n_watch[t]) /\ StillFound(n_call'[t], n_watch[t]),
         InterfaceKept(n_call'[t], n_watch[t])
  PROVE  CallKept(t)'
<1> DEFINE c == n_call'[t]
           v == n_watch[t]
           w == n_watch'[t]
<1>1. c \in Calls /\ n_call[t] \in Calls /\ v \in Watches /\ WatchTrue(n_call[t], v)
  BY DEF CallKept, CallTyped, WatchTrue
<1>2. /\ WatchTrue(n_call[t], n_watch[t])'
      /\ c.op \in Watching /\ n_call[t] # Idle =>
           /\ w.always = v.always \cap There'
           /\ v.ever \subseteq w.ever
           /\ w.gone = (v.gone \/ ~(m_interfaces \subseteq m_interfaces'))
  <2>1. c.op \in Watching => n_call[t] = Idle \/ n_call[t].op = c.op
    BY DEF Idle, Watching
  <2> HIDE DEF c
  <2>2. c = n_call'[t]
    BY DEF c
  <2>3. QED
    BY <1>1, <2>1, <2>2, WatchStep
<1>3. w \in Watches
  BY <1>2 DEF WatchTrue
<1>4. CASE n_call'[t] = Idle
  <2>1. c.op = "none" /\ c.step = "none"
    BY <1>4 DEF Idle
  <2>2. QED
    BY <1>2, <2>1 DEF CallKept, InterfaceKept
<1>5. CASE n_call[t] = Idle /\ c.step = "begun" /\ c.ids = <<>> /\ c.listed = <<>>
  <2>1. Listing(c, w)
    BY <1>5 DEF Listing
  <2>2. StillFound(n_call[t], n_watch[t])' /\ InterfaceKept(n_call[t], n_watch[t])'
    BY <1>5 DEF StillFound, InterfaceKept
  <2>3. QED
    BY <1>2, <2>1, <2>2 DEF CallKept, StillFound, InterfaceKept
<1>6. CASE n_call[t] # Idle /\ c.op = n_call[t].op
  <2>1. c.op = "list" => Listing(c, w)
    <3>1. SUFFICES ASSUME c.op = "list" PROVE Listing(c, w)
      OBVIOUS
    <3>2. w.always \subseteq v.always /\ v.ever \subseteq w.ever /\ Listing(c, v)
      BY <1>2, <1>6, <3>1 DEF Watching
    <3> HIDE DEF c, v, w
    <3>3. QED
      BY <1>1, <1>3, <3>2, ListingNarrows
  <2>2. c.op = "list" => StillFound(n_call[t], n_watch[t])'
    <3>1. SUFFICES ASSUME c.op = "list", c.step = "state", c.ids[1] \in w.always
                   PROVE  \E n \in DOMAIN n_children' :
                            n_children'[n].id = c.ids[1] /\ n_children'[n].node = c.node
      BY DEF StillFound
    <3>2. w.always = v.always \cap There' /\ StillFound(c, v)
      BY <1>2, <1>6, <3>1 DEF Watching
    <3>3. PICK n \in DOMAIN n_children :
            n_children[n].id = c.ids[1] /\ n_children[n].node = c.node
      BY <3>1, <3>2 DEF StillFound
    <3>4. n_children[n].id \in There'
      BY <3>1, <3>2, <3>3
    <3>5. QED
      BY <3>3, <3>4 DEF Persists
  <2>3. InterfaceKept(n_call[t], n_watch[t])'
    BY <1>1, <1>2, <1>6 DEF InterfaceKept, Watching, Watches
  <2>4. QED
    BY <1>2, <2>1, <2>2, <2>3 DEF CallKept, StillFound, InterfaceKept
<1>7. QED
  BY <1>4, <1>5, <1>6

(* A step of one thread keeps the invariant.                                  *)
LEMMA ThreadStep ==
  ASSUME NInv, ChildrenOnce', Persists, DOMAIN m_state \subseteq DOMAIN m_state',
         Watched, ChildrenExact', DOMAIN n_call' = Callers,
         NEW t \in Callers, \A u \in Callers \ {t} : n_call'[u] = n_call[u],
         CallTyped(n_call[t])',
         \/ n_call'[t] = Idle
         \/ /\ n_call[t] = Idle /\ n_call'[t].step = "begun"
            /\ n_call'[t].ids = <<>> /\ n_call'[t].listed = <<>>
         \/ n_call[t] # Idle /\ n_call'[t].op = n_call[t].op,
         n_call[t] # Idle /\ n_call'[t].op = "list" =>
            Listing(n_call'[t], n_watch[t]) /\ StillFound(n_call'[t], n_watch[t]),
         InterfaceKept(n_call'[t], n_watch[t])
  PROVE  NInv'
<1>1. CallKept(t) /\ ChildrenOnce
  BY DEF NInv
<1>2. CallKept(t)'
  BY <1>1, KeptStep
<1>3. ASSUME NEW u \in Callers \ {t}
      PROVE  CallKept(u)'
  <2>1. CallKept(u) /\ n_call'[u] = n_call[u] /\ u \in Callers
    BY DEF NInv
  <2>2. CallTyped(n_call[u])'
    BY <2>1 DEF CallKept, CallTyped
  <2>3. n_call'[u] = Idle \/ (n_call[u] # Idle /\ n_call'[u].op = n_call[u].op)
    BY <2>1
  <2>4. n_call'[u].op = "list" =>
          Listing(n_call'[u], n_watch[u]) /\ StillFound(n_call'[u], n_watch[u])
    BY <2>1 DEF CallKept
  <2>5. InterfaceKept(n_call'[u], n_watch[u])
    BY <2>1 DEF CallKept
  <2>6. QED
    BY <1>1, <2>1, <2>2, <2>3, <2>4, <2>5, KeptStep
<1>4. DOMAIN n_watch' = Callers
  BY DEF Watched
<1>5. QED
  BY <1>2, <1>3, <1>4 DEF NInv
-----------------------------------------------------------------------------
(* A list begins with the ids of all children.                                *)
LEMMA ListBegins ==
  ASSUME ChildrenOnce, NEW c \in Calls, NEW w, WatchTrue(c, w), Listing(c, w),
         c.op = "list", c.step = "begun"
  PROVE  /\ getChildrenIdList \in Seq(PluginIds)
         /\ Listing([c EXCEPT !.ids = getChildrenIdList, !.step = "next"], w)
<1> DEFINE ids == getChildrenIdList
           d == [c EXCEPT !.ids = ids, !.step = "next"]
<1>1. /\ n_children \in Seq(Children) /\ DOMAIN n_children = 1 .. Len(n_children)
      /\ Len(n_children) \in Nat
  BY DEF ChildrenOnce
<1>2. \A n \in DOMAIN n_children : n_children[n].id \in PluginIds
  <2>1. \A n \in DOMAIN n_children : n_children[n] \in Children
    BY <1>1
  <2>2. QED
    BY <2>1 DEF Children
<1>3. /\ ids \in Seq(PluginIds) /\ DOMAIN ids = DOMAIN n_children
      /\ \A n \in DOMAIN n_children : ids[n] = n_children[n].id
  BY <1>1, <1>2 DEF getChildrenIdList
<1> HIDE DEF ids
<1>4. d.ids = ids /\ d.step = "next" /\ d.listed = <<>>
  BY DEF Calls, Listing
<1>5. w.always \subseteq There /\ Seen \subseteq w.ever
  BY DEF WatchTrue, Watching
<1>6. \A n \in DOMAIN ids : \E e \in w.ever : e[1] = ids[n]
  <2> SUFFICES ASSUME NEW n \in DOMAIN ids PROVE \E e \in w.ever : e[1] = ids[n]
    OBVIOUS
  <2>1. <<n_children[n].id, m_state[n_children[n].node]>> \in Seen
    BY <1>3 DEF Seen
  <2>2. QED
    BY <1>3, <1>5, <2>1
<1>7. \A i \in w.always : \E n \in DOMAIN ids : ids[n] = i
  BY <1>3, <1>5 DEF There
<1>8. \A j, k \in DOMAIN ids : ids[j] = ids[k] => j = k
  BY <1>3 DEF ChildrenOnce
<1> HIDE DEF d
<1>9. Listing(d, w)
  BY <1>4, <1>6, <1>7, <1>8 DEF Listing
<1>10. QED
  BY <1>3, <1>9 DEF d, ids

(* What is left of the ids when the first one is done.                        *)
LEMMA RestOf ==
  ASSUME NEW s \in Seq(PluginIds), s # <<>>
  PROVE  /\ Tail(s) \in Seq(PluginIds) /\ Head(s) = s[1] /\ s[1] \in PluginIds /\ 1 \in DOMAIN s
         /\ \A k \in DOMAIN Tail(s) : /\ k + 1 \in DOMAIN s /\ k + 1 # 1
                                      /\ Tail(s)[k] = s[k + 1]
         /\ \A k \in DOMAIN s : k # 1 => k - 1 \in DOMAIN Tail(s) /\ Tail(s)[k - 1] = s[k]
<1>1. /\ DOMAIN s = 1 .. Len(s) /\ Len(s) \in Nat /\ Len(s) # 0
  OBVIOUS
<1>2. /\ Tail(s) \in Seq(PluginIds) /\ Len(Tail(s)) = Len(s) - 1 /\ Head(s) = s[1]
      /\ DOMAIN Tail(s) = 1 .. Len(s) - 1
      /\ \A k \in 1 .. Len(s) - 1 : Tail(s)[k] = s[k + 1]
  BY <1>1
<1>3. \A k \in 1 .. Len(s) : k # 1 => k - 1 \in 1 .. Len(s) - 1 /\ (k - 1) + 1 = k
  BY <1>1
<1>4. QED
  BY <1>1, <1>2, <1>3

(* A plug-in that is not there any more is left out.                          *)
LEMMA ListSkips ==
  ASSUME NEW c \in Calls, NEW w, WatchTrue(c, w), Listing(c, w),
         c.op = "list", c.step = "next", c.ids # <<>>, Head(c.ids) \notin There
  PROVE  Tail(c.ids) \in Seq(PluginIds) /\ Listing([c EXCEPT !.ids = Tail(c.ids)], w)
<1> DEFINE ids == Tail(c.ids)
           d == [c EXCEPT !.ids = ids]
<1>1. c.ids \in Seq(PluginIds)
  BY DEF Calls
<1>2. /\ ids \in Seq(PluginIds) /\ Head(c.ids) = c.ids[1]
      /\ \A k \in DOMAIN ids : k + 1 \in DOMAIN c.ids /\ k + 1 # 1 /\ ids[k] = c.ids[k + 1]
      /\ \A k \in DOMAIN c.ids : k # 1 => k - 1 \in DOMAIN ids /\ ids[k - 1] = c.ids[k]
      /\ DOMAIN ids \subseteq Int
  <2>1. DOMAIN ids \subseteq Int
    BY <1>1
  <2>2. QED
    BY <1>1, <2>1, RestOf
<1> HIDE DEF ids
<1>3. d.ids = ids /\ d.step = "next" /\ d.listed = c.listed
  BY DEF Calls
<1>4. c.ids[1] \notin w.always
  BY <1>2 DEF WatchTrue, Watching
<1> HIDE DEF d
<1>5. \A j, k \in DOMAIN ids : ids[j] = ids[k] => j = k
  <2> SUFFICES ASSUME NEW j \in DOMAIN ids, NEW k \in DOMAIN ids, ids[j] = ids[k]
               PROVE  j = k
    OBVIOUS
  <2>1. j + 1 = k + 1
    BY <1>2 DEF Listing
  <2>2. QED
    BY <1>2, <2>1
<1>6. \A i \in w.always : \/ \E j \in DOMAIN ids : ids[j] = i
                          \/ \E k \in DOMAIN c.listed : c.listed[k][1] = i
  <2> SUFFICES ASSUME NEW i \in w.always
               PROVE  \/ \E j \in DOMAIN ids : ids[j] = i
                      \/ \E k \in DOMAIN c.listed : c.listed[k][1] = i
    OBVIOUS
  <2>1. CASE \E j \in DOMAIN c.ids : c.ids[j] = i
    <3>1. PICK j \in DOMAIN c.ids : c.ids[j] = i
      BY <2>1
    <3>2. j # 1
      BY <1>4, <3>1
    <3>3. QED
      BY <1>2, <3>1, <3>2
  <2>2. CASE \E k \in DOMAIN c.listed : c.listed[k][1] = i
    BY <2>2
  <2>3. QED
    BY <2>1, <2>2 DEF Listing
<1>7. /\ \A j \in DOMAIN ids, k \in DOMAIN c.listed : ids[j] # c.listed[k][1]
      /\ \A j \in DOMAIN ids : \E e \in w.ever : e[1] = ids[j]
  BY <1>2 DEF Listing
<1>8. Listing(d, w)
  BY <1>3, <1>5, <1>6, <1>7 DEF Listing
<1>9. QED
  BY <1>2, <1>8 DEF d, ids

(* The plug-in that was found is answered with the state it has.              *)
LEMMA ListAnswers ==
  ASSUME ChildrenOnce, NEW c \in Calls, NEW w, WatchTrue(c, w), Listing(c, w),
         StillFound(c, w), c.op = "list", c.step = "state", c.node \in DOMAIN m_state,
         NEW d, d = [c EXCEPT !.step = "next", !.ids = Tail(c.ids),
                              !.listed = Append(c.listed, <<Head(c.ids), m_state[c.node]>>)]
  PROVE  d \in Calls /\ Listing(d, w)
<1> DEFINE ids == Tail(c.ids)
           e == <<c.ids[1], m_state[c.node]>>
           listed == Append(c.listed, e)
           l == Len(c.listed)
<1>1. c.ids \in Seq(PluginIds) /\ c.ids # <<>> /\ c.listed \in Seq(PluginIds \X States)
  BY DEF Calls, Listing
<1>2. /\ ids \in Seq(PluginIds) /\ Head(c.ids) = c.ids[1] /\ c.ids[1] \in PluginIds
      /\ 1 \in DOMAIN c.ids
      /\ \A k \in DOMAIN ids : k + 1 \in DOMAIN c.ids /\ k + 1 # 1 /\ ids[k] = c.ids[k + 1]
      /\ \A k \in DOMAIN c.ids : k # 1 => k - 1 \in DOMAIN ids /\ ids[k - 1] = c.ids[k]
      /\ DOMAIN ids \subseteq Int
  <2>1. ids \in Seq(PluginIds)
    BY <1>1, RestOf
  <2>2. DOMAIN ids \subseteq Int
    BY <2>1
  <2>3. QED
    BY <1>1, <2>2, RestOf
<1> HIDE DEF ids
<1>3. e \in PluginIds \X States /\ e[1] = c.ids[1]
  <2>1. m_state[c.node] \in States
    BY DEF ChildrenOnce
  <2>2. QED
    BY <1>2, <2>1
<1>4. c.ids[1] \in w.always => e \in w.ever
  <2>1. SUFFICES ASSUME c.ids[1] \in w.always PROVE e \in w.ever
    OBVIOUS
  <2>2. PICK n \in DOMAIN n_children :
          n_children[n].id = c.ids[1] /\ n_children[n].node = c.node
    BY <2>1 DEF StillFound
  <2>3. e \in Seen
    BY <2>2 DEF Seen
  <2>4. QED
    BY <2>3 DEF WatchTrue, Watching
<1> HIDE DEF e
<1>5. /\ listed \in Seq(PluginIds \X States) /\ DOMAIN listed = 1 .. l + 1
      /\ DOMAIN c.listed = 1 .. l /\ l \in Nat
      /\ \A k \in 1 .. l : listed[k] = c.listed[k]
      /\ listed[l + 1] = e
  BY <1>1, <1>3
<1>6. d.ids = ids /\ d.step = "next" /\ d.listed = listed /\ d \in Calls
  <2>1. d.ids = ids /\ d.step = "next" /\ d.listed = listed
    BY <1>2 DEF Calls, ids, e
  <2>2. d \in Calls
    BY <1>2, <1>5 DEF Calls, Steps, ids, e
  <2>3. QED
    BY <2>1, <2>2
<1> HIDE DEF listed, l
<1>7. \A j, k \in DOMAIN ids : ids[j] = ids[k] => j = k
  <2> SUFFICES ASSUME NEW j \in DOMAIN ids, NEW k \in DOMAIN ids, ids[j] = ids[k]
               PROVE  j = k
    OBVIOUS
  <2>1. j + 1 = k + 1
    BY <1>2 DEF Listing
  <2>2. QED
    BY <1>2, <2>1
<1>8. \A k \in 1 .. l : c.listed[k][1] # c.ids[1]
  BY <1>2, <1>5 DEF Listing
<1>9. \A j, k \in DOMAIN listed : listed[j][1] = listed[k][1] => j = k
  <2>1. \A j, k \in 1 .. l : c.listed[j][1] = c.listed[k][1] => j = k
    BY <1>5 DEF Listing
  <2>2. \A k \in 1 .. l : listed[k][1] = c.listed[k][1] /\ listed[k][1] # c.ids[1]
    BY <1>5, <1>8
  <2>3. listed[l + 1][1] = c.ids[1]
    BY <1>3, <1>5
  <2>4. \A k \in DOMAIN listed : k = l + 1 \/ k \in 1 .. l
    BY <1>5
  <2>5. QED
    BY <2>1, <2>2, <2>3, <2>4
<1>10. \A j \in DOMAIN ids : ids[j] # c.ids[1]
  BY <1>2 DEF Listing
<1>11. \A j \in DOMAIN ids, k \in DOMAIN listed : ids[j] # listed[k][1]
  <2> SUFFICES ASSUME NEW j \in DOMAIN ids, NEW k \in DOMAIN listed
               PROVE  ids[j] # listed[k][1]
    OBVIOUS
  <2>1. CASE k = l + 1
    BY <1>3, <1>5, <1>10, <2>1
  <2>2. CASE k \in 1 .. l
    <3>1. \A i \in DOMAIN c.ids : c.ids[i] # c.listed[k][1]
      BY <1>5, <2>2 DEF Listing
    <3>2. ids[j] = c.ids[j + 1] /\ j + 1 \in DOMAIN c.ids
      BY <1>2
    <3>3. listed[k] = c.listed[k]
      BY <1>5, <2>2
    <3>4. QED
      BY <3>1, <3>2, <3>3
  <2>3. QED
    BY <1>5, <2>1, <2>2
<1>12. \A i \in w.always : \/ \E j \in DOMAIN ids : ids[j] = i
                           \/ \E k \in DOMAIN listed : listed[k][1] = i
  <2> SUFFICES ASSUME NEW i \in w.always
               PROVE  \/ \E j \in DOMAIN ids : ids[j] = i
                      \/ \E k \in DOMAIN listed : listed[k][1] = i
    OBVIOUS
  <2>1. CASE i = c.ids[1]
    BY <1>3, <1>5, <2>1
  <2>2. CASE \E j \in DOMAIN c.ids : c.ids[j] = i /\ j # 1
    BY <1>2, <2>2
  <2>3. CASE \E k \in DOMAIN c.listed : c.listed[k][1] = i
    BY <1>5, <2>3
  <2>4. QED
    BY <2>1, <2>2, <2>3 DEF Listing
<1>13. /\ \A j \in DOMAIN ids : \E f \in w.ever : f[1] = ids[j]
       /\ \E f \in w.ever : f[1] = c.ids[1]
  <2>1. \A j \in DOMAIN c.ids : \E f \in w.ever : f[1] = c.ids[j]
    BY DEF Listing
  <2>2. QED
    BY <1>2, <2>1
<1>14. \A k \in DOMAIN listed : \E f \in w.ever : f[1] = listed[k][1]
  <2> SUFFICES ASSUME NEW k \in DOMAIN listed
               PROVE  \E f \in w.ever : f[1] = listed[k][1]
    OBVIOUS
  <2>1. CASE k = l + 1
    BY <1>3, <1>5, <1>13, <2>1
  <2>2. CASE k \in 1 .. l
    BY <1>5, <2>2 DEF Listing
  <2>3. QED
    BY <1>5, <2>1, <2>2
<1>15. \A k \in DOMAIN listed : listed[k][1] \in w.always => listed[k] \in w.ever
  <2> SUFFICES ASSUME NEW k \in DOMAIN listed, listed[k][1] \in w.always
               PROVE  listed[k] \in w.ever
    OBVIOUS
  <2>1. CASE k = l + 1
    BY <1>3, <1>4, <1>5, <2>1
  <2>2. CASE k \in 1 .. l
    BY <1>5, <2>2 DEF Listing
  <2>3. QED
    BY <1>5, <2>1, <2>2
<1>16. QED
  <2>1. /\ \A j, k \in DOMAIN d.ids : d.ids[j] = d.ids[k] => j = k
        /\ \A j \in DOMAIN d.ids : \E f \in w.ever : f[1] = d.ids[j]
    <3>1. \A j, k \in DOMAIN d.ids : d.ids[j] = d.ids[k] => j = k
      BY <1>6, <1>7
    <3>2. \A j \in DOMAIN d.ids : \E f \in w.ever : f[1] = d.ids[j]
      BY <1>6, <1>13
    <3>3. QED
      BY <3>1, <3>2
  <2>2. /\ \A j, k \in DOMAIN d.listed : d.listed[j][1] = d.listed[k][1] => j = k
        /\ \A k \in DOMAIN d.listed : \E f \in w.ever : f[1] = d.listed[k][1]
        /\ \A k \in DOMAIN d.listed : d.listed[k][1] \in w.always => d.listed[k] \in w.ever
    BY <1>6, <1>9, <1>14, <1>15
  <2>3. \A j \in DOMAIN d.ids, k \in DOMAIN d.listed : d.ids[j] # d.listed[k][1]
    BY <1>6, <1>11
  <2>4. \A i \in w.always : \/ \E j \in DOMAIN d.ids : d.ids[j] = i
                            \/ \E k \in DOMAIN d.listed : d.listed[k][1] = i
    BY <1>6, <1>12
  <2>5. QED
    BY <1>6, <2>1, <2>2, <2>3, <2>4, Zenon DEF Listing
-----------------------------------------------------------------------------
(* The node that is found is one that was made, that of the child.            *)
LEMMA ChildFound ==
  ASSUME ChildrenOnce, NEW id
  PROVE  /\ hasChild_NoLock(id) =>
              /\ n_getChild(id) \in DOMAIN m_state /\ n_getChild(id) # NoNode
              /\ \E n \in DOMAIN n_children :
                   n_children[n].id = id /\ n_children[n].node = n_getChild(id)
         /\ ~hasChild_NoLock(id) => n_getChild(id) = NoNode
         /\ hasChild_NoLock(id) <=> id \in There
         /\ DOMAIN m_state \subseteq Nat /\ NoNode \in Nat
<1>1. DOMAIN m_state = 1 .. Len(m_state) /\ Len(m_state) \in Nat
  BY DEF ChildrenOnce
<1>2. ASSUME hasChild_NoLock(id)
      PROVE  /\ n_getChild(id) \in DOMAIN m_state /\ n_getChild(id) # NoNode
             /\ \E n \in DOMAIN n_children :
                  n_children[n].id = id /\ n_children[n].node = n_getChild(id)
  <2>1. First(id) \in DOMAIN n_children /\ n_children[First(id)].id = id
    BY <1>2, FirstIs
  <2>2. n_children[First(id)].node \in DOMAIN m_state
    BY <2>1 DEF ChildrenOnce
  <2>3. n_children[First(id)].node # NoNode
    BY <1>1, <2>2 DEF NoNode
  <2>4. QED
    BY <1>2, <2>1, <2>2, <2>3 DEF n_getChild
<1>3. ~hasChild_NoLock(id) => n_getChild(id) = NoNode
  BY DEF n_getChild
<1>4. hasChild_NoLock(id) <=> id \in There
  BY DEF hasChild_NoLock, There
<1>5. QED
  BY <1>1, <1>2, <1>3, <1>4 DEF NoNode

(* The last answer is still the last one.                                     *)
LEMMA SameAnswer ==
  ASSUME ChildrenExact, n_result' = n_result
  PROVE  ChildrenExact'
  BY Zenon DEF ChildrenExact, ListExact, CreateFinds

(* A call that goes on.                                                       *)
LEMMA GoesStep ==
  ASSUME NInv, ChildrenOnce', Persists, DOMAIN m_state \subseteq DOMAIN m_state',
         Watched, NEW t \in Callers, NEW step \in Steps, NEW node \in Nat,
         Goes(t, step, node), n_call[t].op \in Ops \ {"none", "list"},
         step \in {"added", "found", "set", "state"} => node \in DOMAIN m_state',
         n_call[t].op = "create" /\ step = "find" => n_call[t].id \in m_interfaces
  PROVE  NInv'
<1>1. n_call[t] \in Calls /\ CallTyped(n_call[t]) /\ DOMAIN n_call = Callers
  BY DEF NInv, CallKept, CallTyped
<1>2. n_call' = [n_call EXCEPT ![t] = [n_call[t] EXCEPT !.step = step, !.node = node]]
  BY <1>1 DEF Goes, Calls
<1>3. /\ DOMAIN n_call' = Callers
      /\ \A u \in Callers \ {t} : n_call'[u] = n_call[u]
      /\ n_call'[t] = [n_call[t] EXCEPT !.step = step, !.node = node]
  BY <1>1, <1>2
<1>4. /\ n_call'[t] \in Calls
      /\ n_call'[t].op = n_call[t].op /\ n_call'[t].id = n_call[t].id
      /\ n_call'[t].step = step /\ n_call'[t].node = node
  BY <1>1, <1>3 DEF Calls
<1>5. CallTyped(n_call[t])'
  BY <1>1, <1>4 DEF CallTyped
<1>6. n_call[t] # Idle /\ n_call'[t].op # "list" /\ n_call'[t].op = n_call[t].op
  BY <1>4 DEF Idle
<1>7. InterfaceKept(n_call'[t], n_watch[t])
  BY <1>4 DEF InterfaceKept
<1>8. ChildrenExact'
  <2>1. ChildrenExact /\ n_result' = n_result
    BY DEF NInv, Goes
  <2>2. QED
    BY <2>1, SameAnswer
<1>9. QED
  BY <1>3, <1>5, <1>6, <1>7, <1>8, ThreadStep

(* A call that ends with an answer that is right.                             *)
LEMMA EndsStep ==
  ASSUME NInv, ChildrenOnce', Persists, DOMAIN m_state \subseteq DOMAIN m_state',
         Watched, NEW t \in Callers, NEW ok, NEW given, Ends(t, ok, given),
         ChildrenExact'
  PROVE  NInv'
<1>1. DOMAIN n_call = Callers
  BY DEF NInv
<1>2. /\ DOMAIN n_call' = Callers
      /\ \A u \in Callers \ {t} : n_call'[u] = n_call[u]
      /\ n_call'[t] = Idle
  BY <1>1 DEF Ends
<1>3. CallTyped(n_call[t])'
  <2>1. Idle \in Calls
    BY DEF Idle, Calls, Ops, OnPlugin, Steps, NoNode
  <2>2. Idle.op = "none" /\ Idle.step = "none"
    BY DEF Idle
  <2>3. QED
    BY <1>2, <2>1, <2>2 DEF CallTyped, OnPlugin
<1>4. InterfaceKept(n_call'[t], n_watch[t])
  BY <1>2 DEF InterfaceKept, Idle
<1>5. n_call'[t].op # "list"
  BY <1>2 DEF Idle
<1>6. QED
  BY <1>2, <1>3, <1>4, <1>5, ThreadStep

(* An answer that is neither a list nor an interface.                         *)
LEMMA OtherAnswer ==
  ASSUME NEW t \in Callers, NEW ok, NEW given, Ends(t, ok, given), n_call[t].op \notin Watching
  PROVE  ChildrenExact'
  BY DEF Ends, Result, ChildrenExact, ListExact, CreateFinds, Watching

(* A call that begins.                                                        *)
LEMMA BeginStep ==
  ASSUME NInv, NEW t \in Callers, NEW op \in Ops, NEW id, Begin(t, op, id),
         \/ op \in OnPlugin /\ id \in PluginIds
         \/ op \in {"create", "remove"} /\ id \in InterfaceIds
         \/ op = "list" /\ id = NoNode
  PROVE  NInv'
<1>1. DOMAIN n_call = Callers /\ ChildrenOnce
  BY DEF NInv
<1>2. ChildrenOnce' /\ Persists /\ DOMAIN m_state \subseteq DOMAIN m_state'
  BY <1>1 DEF Begin, ChildrenOnce, Persists
<1> DEFINE d == [Idle EXCEPT !.op = op, !.id = id, !.step = "begun"]
<1>3. /\ DOMAIN n_call' = Callers
      /\ \A u \in Callers \ {t} : n_call'[u] = n_call[u]
      /\ n_call'[t] = d
  BY <1>1 DEF Begin
<1>4. /\ d \in Calls /\ d.op = op /\ d.id = id /\ d.step = "begun"
      /\ d.ids = <<>> /\ d.listed = <<>>
  <2>1. id \in PluginIds \cup InterfaceIds \cup {NoNode}
    OBVIOUS
  <2>2. "begun" \in Steps
    BY DEF Steps
  <2>3. Idle \in Calls /\ Idle.ids = <<>> /\ Idle.listed = <<>>
    BY DEF Idle, Calls, Ops, OnPlugin, Steps, NoNode
  <2>4. d \in Calls
    BY <2>1, <2>2, <2>3 DEF Calls
  <2>5. d.op = op /\ d.id = id /\ d.step = "begun" /\ d.ids = <<>> /\ d.listed = <<>>
    BY <2>3 DEF Calls
  <2>6. QED
    BY <2>4, <2>5
<1> HIDE DEF d
<1>5. CallTyped(n_call[t])'
  BY <1>3, <1>4 DEF CallTyped, OnPlugin
<1>6. InterfaceKept(n_call'[t], n_watch[t])
  BY <1>3, <1>4 DEF InterfaceKept
<1>7. n_call[t] = Idle /\ Watched
  BY DEF Begin
<1>8. ChildrenExact'
  <2>1. ChildrenExact /\ n_result' = n_result
    BY DEF NInv, Begin
  <2>2. QED
    BY <2>1, SameAnswer
<1>9. QED
  BY <1>2, <1>3, <1>4, <1>5, <1>6, <1>7, <1>8, ThreadStep
-----------------------------------------------------------------------------
(* The state of a node is set.                                                *)
LEMMA StateSet ==
  ASSUME NEW s \in Seq(States), NEW n, NEW v \in States
  PROVE  [s EXCEPT ![n] = v] \in Seq(States) /\ DOMAIN [s EXCEPT ![n] = v] = DOMAIN s
<1>1. s \in [1 .. Len(s) -> States] /\ Len(s) \in Nat
  OBVIOUS
<1>2. [s EXCEPT ![n] = v] \in [1 .. Len(s) -> States]
  BY <1>1
<1>3. \A l \in Nat : \A f \in [1 .. l -> States] : f \in Seq(States)
  OBVIOUS
<1>4. QED
  BY <1>1, <1>2, <1>3

(* The steps of one call, each on the children it finds.                      *)
LEMMA RegisterStep ==
  ASSUME NInv, NEW t \in Callers, Watched,
         \/ registerPlugin(t)
         \/ n_addChild(t)
  PROVE  NInv'
<1>1. ChildrenOnce /\ CallTyped(n_call[t]) /\ ChildrenExact
  BY DEF NInv, CallKept
<1>2. /\ n_call[t].op = "register" /\ n_call[t].id \in PluginIds
      /\ n_call[t].op \in Ops \ {"none", "list"} /\ n_call[t].op \notin Watching
  BY <1>1 DEF registerPlugin, n_addChild, At, CallTyped, OnPlugin, Ops, Watching
<1>3. DOMAIN m_state = 1 .. Len(m_state) /\ Len(m_state) \in Nat /\ m_state \in Seq(States)
  BY <1>1 DEF ChildrenOnce
<1>4. CASE /\ At(t, "register", "begun")
           /\ IF n_getChild(n_call[t].id) # NoNode THEN Ends(t, FALSE, <<>>)
              ELSE Goes(t, "absent", NoNode)
           /\ UNCHANGED <<n_children, m_state>>
  <2>1. ChildrenOnce' /\ Persists /\ DOMAIN m_state \subseteq DOMAIN m_state'
    BY <1>1, <1>3, <1>4, ChildrenSame
  <2>2. CASE Ends(t, FALSE, <<>>)
    BY <1>2, <2>1, <2>2, OtherAnswer, EndsStep
  <2>3. CASE Goes(t, "absent", NoNode)
    <3>1. "absent" \in Steps /\ NoNode \in Nat
      BY DEF Steps, NoNode
    <3>2. QED
      BY <1>2, <2>1, <2>3, <3>1, GoesStep
  <2>4. QED
    BY <1>4, <2>2, <2>3
<1>5. CASE /\ At(t, "register", "added")
           /\ m_state' = [m_state EXCEPT ![n_call[t].node] = "CONNECTED"]
           /\ Ends(t, TRUE, <<>>)
           /\ UNCHANGED n_children
  <2>1. m_state' \in Seq(States) /\ DOMAIN m_state' = DOMAIN m_state
    BY <1>3, <1>5, StateSet DEF States
  <2>2. ChildrenOnce' /\ Persists /\ DOMAIN m_state \subseteq DOMAIN m_state'
    BY <1>1, <1>5, <2>1, ChildrenSame
  <2>3. QED
    BY <1>2, <1>5, <2>2, OtherAnswer, EndsStep
<1>6. CASE n_addChild(t)
  <2>1. CASE hasChild_NoLock(n_call[t].id)
    <3>1. m_state' \in Seq(States) /\ DOMAIN m_state \subseteq DOMAIN m_state'
      BY <1>3, <1>6 DEF n_addChild, States
    <3>2. UNCHANGED n_children /\ Ends(t, FALSE, <<>>)
      BY <1>6, <2>1 DEF n_addChild
    <3>3. ChildrenOnce' /\ Persists
      BY <1>1, <3>1, <3>2, ChildrenSame
    <3>4. QED
      BY <1>2, <3>1, <3>2, <3>3, OtherAnswer, EndsStep
  <2>2. CASE ~hasChild_NoLock(n_call[t].id)
    <3>1. /\ m_state' = Append(m_state, "UNDEFINED")
          /\ n_children' = Append(n_children, [id |-> n_call[t].id, node |-> Len(m_state) + 1])
          /\ Goes(t, "added", Len(m_state) + 1)
      BY <1>6, <2>2 DEF n_addChild
    <3>2. /\ ChildrenOnce' /\ Persists
          /\ DOMAIN m_state \subseteq DOMAIN m_state' /\ Len(m_state) + 1 \in DOMAIN m_state'
      BY <1>1, <1>2, <2>2, <3>1, ChildAdded
    <3>3. "added" \in Steps /\ Len(m_state) + 1 \in Nat
      BY <1>3 DEF Steps
    <3>4. QED
      BY <1>2, <3>1, <3>2, <3>3, GoesStep
  <2>3. QED
    BY <2>1, <2>2
<1>7. QED
  BY <1>4, <1>5, <1>6 DEF registerPlugin

LEMMA UnregisterStep ==
  ASSUME NInv, NEW t \in Callers, Watched, n_unregisterPlugin(t)
  PROVE  NInv'
<1>1. ChildrenOnce /\ n_call[t].op \notin Watching
  BY DEF NInv, n_unregisterPlugin, At, Watching
<1>2. /\ ChildrenOnce' /\ Persists /\ DOMAIN m_state \subseteq DOMAIN m_state'
  BY <1>1, ChildRemoved DEF n_unregisterPlugin
<1>3. PICK ok : Ends(t, ok, <<>>)
  BY DEF n_unregisterPlugin
<1>4. QED
  BY <1>1, <1>2, <1>3, OtherAnswer, EndsStep

LEMMA ConnectStep ==
  ASSUME NInv, NEW t \in Callers, Watched, UNCHANGED n_children,
         connectPlugin(t) \/ disconnectPlugin(t)
  PROVE  NInv'
<1> DEFINE found == n_getChild(n_call[t].id)
<1>1. ChildrenOnce /\ CallTyped(n_call[t]) /\ m_state \in Seq(States)
  BY DEF NInv, CallKept, ChildrenOnce
<1>2. n_call[t].op \in Ops \ {"none", "list", "create"} /\ n_call[t].op \notin Watching
  BY DEF connectPlugin, disconnectPlugin, At, Ops, OnPlugin, Watching
<1>3. /\ found # NoNode => found \in DOMAIN m_state
      /\ DOMAIN m_state \subseteq Nat
  BY <1>1, ChildFound
<1> HIDE DEF found
<1>4. /\ n_call[t].step = "found" => n_call[t].node \in DOMAIN m_state
      /\ {"found", "set"} \subseteq Steps
  BY <1>1 DEF CallTyped, Steps
<1>5. m_state' \in Seq(States) /\ DOMAIN m_state \subseteq DOMAIN m_state'
  <2>1. \A n : \A s \in States : /\ [m_state EXCEPT ![n] = s] \in Seq(States)
                                 /\ DOMAIN [m_state EXCEPT ![n] = s] = DOMAIN m_state
    BY <1>1, StateSet
  <2>2. {"CONNECTED", "DISCONNECTED"} \subseteq States
    BY DEF States
  <2>3. \/ m_state' = m_state
        \/ \E n : \E s \in States : m_state' = [m_state EXCEPT ![n] = s]
    BY <2>2 DEF connectPlugin, disconnectPlugin
  <2>4. QED
    BY <1>1, <2>1, <2>3
<1>6. ChildrenOnce' /\ Persists
  BY <1>1, <1>5, ChildrenSame
<1>7. \/ \E ok : Ends(t, ok, <<>>)
      \/ found # NoNode /\ Goes(t, "found", found)
      \/ n_call[t].step = "found" /\ Goes(t, "set", n_call[t].node)
  BY DEF connectPlugin, disconnectPlugin, At, found
<1>8. CASE \E ok : Ends(t, ok, <<>>)
  BY <1>2, <1>5, <1>6, <1>8, OtherAnswer, EndsStep
<1>9. CASE found # NoNode /\ Goes(t, "found", found)
  BY <1>2, <1>3, <1>4, <1>5, <1>6, <1>9, GoesStep
<1>10. CASE n_call[t].step = "found" /\ Goes(t, "set", n_call[t].node)
  BY <1>2, <1>3, <1>4, <1>5, <1>6, <1>10, GoesStep
<1>11. QED
  BY <1>7, <1>8, <1>9, <1>10

LEMMA ListStep ==
  ASSUME NInv, NEW t \in Callers, Watched, UNCHANGED <<n_children, m_state>>, listPlugins(t)
  PROVE  NInv'
<1> DEFINE c == n_call[t]
           w == n_watch[t]
           d == n_call'[t]
<1>1. /\ ChildrenOnce /\ CallTyped(c) /\ WatchTrue(c, w) /\ c.op = "list" /\ c \in Calls
      /\ Listing(c, w) /\ StillFound(c, w)
  BY DEF NInv, CallKept, CallTyped, listPlugins, At
<1>2. /\ ChildrenOnce' /\ Persists /\ DOMAIN m_state \subseteq DOMAIN m_state'
  BY <1>1 DEF ChildrenOnce, Persists
<1>3. DOMAIN n_call = Callers /\ ChildrenExact
  BY DEF NInv
<1>4. ASSUME d \in Calls, d.op = "list", d.step \in {"next", "state"},
             d.step = "state" => d.node \in DOMAIN m_state, Listing(d, w), StillFound(d, w),
             DOMAIN n_call' = Callers, \A u \in Callers \ {t} : n_call'[u] = n_call[u],
             n_result' = n_result
      PROVE  NInv'
  <2>1. CallTyped(n_call[t])'
    BY <1>2, <1>4 DEF CallTyped, OnPlugin
  <2>2. n_call[t] # Idle
    BY <1>1 DEF Idle
  <2>3. ChildrenExact' /\ InterfaceKept(d, w)
    BY <1>3, <1>4, SameAnswer DEF InterfaceKept
  <2>4. QED
    BY <1>1, <1>2, <1>4, <2>1, <2>2, <2>3, ThreadStep
<1>5. CASE /\ At(t, "list", "begun")
           /\ n_call' = [n_call EXCEPT ![t].ids = getChildrenIdList, ![t].step = "next"]
           /\ UNCHANGED n_result
  <2>1. d = [c EXCEPT !.ids = getChildrenIdList, !.step = "next"]
    BY <1>3, <1>5
  <2>2. getChildrenIdList \in Seq(PluginIds) /\ Listing(d, w)
    BY <1>1, <1>5, <2>1, ListBegins DEF At
  <2>3. "next" \in Steps
    BY DEF Steps
  <2>4. d \in Calls /\ d.op = "list" /\ d.step = "next"
    BY <1>1, <2>1, <2>2, <2>3 DEF Calls
  <2>5. StillFound(d, w)
    BY <2>4 DEF StillFound
  <2>6. DOMAIN n_call' = Callers /\ \A u \in Callers \ {t} : n_call'[u] = n_call[u]
    BY <1>3, <1>5
  <2>7. QED
    BY <1>4, <1>5, <2>2, <2>4, <2>5, <2>6
<1>6. CASE /\ At(t, "list", "next") /\ c.ids # <<>>
           /\ n_getChild(Head(c.ids)) = NoNode
           /\ n_call' = [n_call EXCEPT ![t].ids = Tail(@)]
           /\ UNCHANGED n_result
  <2>1. d = [c EXCEPT !.ids = Tail(c.ids)]
    BY <1>3, <1>6
  <2>2. Head(c.ids) \notin There
    BY <1>1, <1>6, ChildFound
  <2>3. Tail(c.ids) \in Seq(PluginIds) /\ Listing(d, w)
    BY <1>1, <1>6, <2>1, <2>2, ListSkips DEF At
  <2>4. d \in Calls /\ d.op = "list" /\ d.step = "next"
    <3>1. c.step = "next"
      BY <1>6 DEF At
    <3> HIDE DEF c, d
    <3>2. QED
      BY <1>1, <2>1, <2>3, <3>1 DEF Calls
  <2>5. StillFound(d, w)
    BY <2>4 DEF StillFound
  <2>6. DOMAIN n_call' = Callers /\ \A u \in Callers \ {t} : n_call'[u] = n_call[u]
    BY <1>3, <1>6
  <2>7. QED
    BY <1>4, <1>6, <2>3, <2>4, <2>5, <2>6
<1>7. CASE /\ At(t, "list", "next") /\ c.ids # <<>>
           /\ n_getChild(Head(c.ids)) # NoNode
           /\ n_call' = [n_call EXCEPT ![t].step = "state", ![t].node = n_getChild(Head(c.ids))]
           /\ UNCHANGED n_result
  <2> DEFINE found == n_getChild(Head(c.ids))
  <2>1. d = [c EXCEPT !.step = "state", !.node = found]
    BY <1>3, <1>7
  <2>2. /\ found \in DOMAIN m_state /\ found \in Nat
        /\ \E n \in DOMAIN n_children :
             n_children[n].id = Head(c.ids) /\ n_children[n].node = found
    BY <1>1, <1>7, ChildFound
  <2> HIDE DEF found
  <2>3. "state" \in Steps
    BY DEF Steps
  <2>4. /\ d \in Calls /\ d.op = "list" /\ d.step = "state" /\ d.node = found
        /\ d.ids = c.ids /\ d.listed = c.listed /\ c.step = "next"
    <3>1. c.step = "next"
      BY <1>7 DEF At
    <3> HIDE DEF c, d
    <3>2. QED
      BY <1>1, <2>1, <2>2, <2>3, <3>1 DEF Calls
  <2>5. Listing(d, w)
    <3>1. c.ids # <<>> /\ Listing(c, w)
      BY <1>1, <1>7
    <3> HIDE DEF c, d, w
    <3>2. /\ d.step # "begun" /\ c.step # "begun" /\ d.ids = c.ids /\ d.listed = c.listed
      BY <2>4
    <3>3. QED
      BY <3>1, <3>2 DEF Listing
  <2>6. StillFound(d, w)
    <3>1. Head(c.ids) = c.ids[1]
      BY <1>1, <1>7, RestOf DEF Calls
    <3>2. QED
      BY <2>2, <2>4, <3>1 DEF StillFound
  <2>7. DOMAIN n_call' = Callers /\ \A u \in Callers \ {t} : n_call'[u] = n_call[u]
    BY <1>3, <1>7
  <2>8. QED
    BY <1>4, <1>7, <2>2, <2>4, <2>5, <2>6, <2>7
<1>8. CASE /\ At(t, "list", "state")
           /\ n_call' = [n_call EXCEPT ![t].step = "next", ![t].ids = Tail(@),
                                   ![t].listed = Append(@, <<Head(c.ids), m_state[c.node]>>)]
           /\ UNCHANGED n_result
  <2>1. d = [c EXCEPT !.step = "next", !.ids = Tail(c.ids),
                      !.listed = Append(c.listed, <<Head(c.ids), m_state[c.node]>>)]
    BY <1>3, <1>8
  <2>2. c.node \in DOMAIN m_state /\ c.step = "state"
    BY <1>1, <1>8 DEF CallTyped, At
  <2>3. d.op = "list" /\ d.step = "next"
    BY <1>1, <2>1 DEF Calls
  <2> HIDE DEF d
  <2>4. d \in Calls /\ Listing(d, w)
    BY <1>1, <2>1, <2>2, ListAnswers
  <2>5. StillFound(d, w)
    BY <2>3 DEF StillFound
  <2>6. DOMAIN n_call' = Callers /\ \A u \in Callers \ {t} : n_call'[u] = n_call[u]
    BY <1>3, <1>8
  <2>7. QED
    BY <1>4, <1>8, <2>3, <2>4, <2>5, <2>6
<1>9. CASE /\ At(t, "list", "next") /\ c.ids = <<>>
           /\ Ends(t, TRUE, [listed |-> c.listed, always |-> n_watch[t].always,
                             ever |-> n_watch[t].ever])
  <2> DEFINE given == [listed |-> c.listed, always |-> w.always, ever |-> w.ever]
  <2>1. n_result' = [op |-> "list", ok |-> TRUE, given |-> given]
    BY <1>1, <1>9 DEF Ends, Result
  <2>2. DOMAIN c.ids = {} /\ c.step = "next"
    BY <1>9 DEF At
  <2>3. /\ \A j, k \in DOMAIN c.listed : c.listed[j][1] = c.listed[k][1] => j = k
        /\ \A i \in w.always : \E k \in DOMAIN c.listed : c.listed[k][1] = i
        /\ \A k \in DOMAIN c.listed : \E e \in w.ever : e[1] = c.listed[k][1]
        /\ \A k \in DOMAIN c.listed : c.listed[k][1] \in w.always => c.listed[k] \in w.ever
    BY <1>1, <2>2 DEF Listing
  <2>4. /\ n_result'.op = "list" /\ n_result'.given.listed = c.listed
        /\ n_result'.given.always = w.always /\ n_result'.given.ever = w.ever
    BY <2>1
  <2> HIDE DEF c, w
  <2>5. ChildrenExact'
    BY <2>3, <2>4 DEF ChildrenExact, ListExact, CreateFinds
  <2>6. QED
    BY <1>2, <1>9, <2>5, EndsStep
<1>10. QED
  BY <1>5, <1>6, <1>7, <1>8, <1>9 DEF listPlugins

LEMMA InterfaceStep ==
  ASSUME NInv, NEW t \in Callers, Watched, UNCHANGED <<n_children, m_state>>,
         createInterface(t) \/ removeInterface(t)
  PROVE  NInv'
<1> DEFINE c == n_call[t]
<1>1. /\ ChildrenOnce /\ CallTyped(c) /\ InterfaceKept(c, n_watch[t])
  BY DEF NInv, CallKept
<1>2. /\ ChildrenOnce' /\ Persists /\ DOMAIN m_state \subseteq DOMAIN m_state'
  BY <1>1 DEF ChildrenOnce, Persists
<1>3. CASE /\ At(t, "create", "begun") /\ hasInterface_NoLock(c.id)
           /\ Goes(t, "find", NoNode)
  <2>1. /\ c.op \in Ops \ {"none", "list"} /\ c.id \in m_interfaces
        /\ "find" \in Steps /\ NoNode \in Nat
    BY <1>3 DEF At, Ops, Watching, Steps, NoNode, hasInterface_NoLock
  <2>2. QED
    BY <1>2, <1>3, <2>1, GoesStep
<1>4. CASE At(t, "create", "begun") /\ Ends(t, TRUE, <<TRUE>>)
  <2>1. ChildrenExact'
    BY <1>4 DEF Ends, Result, At, ChildrenExact, ListExact, CreateFinds
  <2>2. QED
    BY <1>2, <1>4, <2>1, EndsStep
<1>5. CASE /\ At(t, "create", "find")
           /\ Ends(t, hasInterface_NoLock(c.id), <<n_watch[t].gone>>)
  <2>1. ~hasInterface_NoLock(c.id) => n_watch[t].gone
    BY <1>1, <1>5 DEF InterfaceKept, At, hasInterface_NoLock
  <2>2. n_watch[t].gone \in BOOLEAN
    BY DEF NInv, CallKept, WatchTrue, Watches
  <2>3. /\ n_result'.op = "create" /\ n_result'.ok = hasInterface_NoLock(c.id)
        /\ n_result'.given = <<n_watch[t].gone>>
    BY <1>5 DEF Ends, Result, At
  <2>4. ChildrenExact'
    BY <2>1, <2>2, <2>3 DEF ChildrenExact, ListExact, CreateFinds
  <2>5. QED
    BY <1>2, <1>5, <2>4, EndsStep
<1>6. CASE removeInterface(t)
  <2>1. c.op \notin Watching
    BY <1>6 DEF removeInterface, At, Watching
  <2>2. PICK ok : Ends(t, ok, <<>>)
    BY <1>6 DEF removeInterface
  <2>3. QED
    BY <1>2, <2>1, <2>2, OtherAnswer, EndsStep
<1>7. QED
  BY <1>3, <1>4, <1>5, <1>6 DEF createInterface
-----------------------------------------------------------------------------
LEMMA NInvInit ==
  ASSUME IsFiniteSet(PluginIds), NodeInit
  PROVE  NInv
<1>1. PICK ids \in {<<>>, SetToSeq(PluginIds)} :
        /\ n_children = [n \in DOMAIN ids |-> [id |-> ids[n], node |-> n]]
        /\ m_state = [n \in DOMAIN ids |-> "CONNECTED"]
  BY DEF NodeInit
<1>2. SetToSeq(PluginIds) \in Seq(PluginIds) /\ IsInjective(SetToSeq(PluginIds))
  <2> DEFINE l == Cardinality(PluginIds)
  <2>1. l \in Nat /\ ExistsBijection(1 .. l, PluginIds)
    BY FS_CardinalityType
  <2>2. \E f \in [1 .. l -> PluginIds] : IsInjective(f)
    BY <2>1 DEF ExistsBijection, Bijection, Injection
  <2>3. SetToSeq(PluginIds) \in [1 .. l -> PluginIds] /\ IsInjective(SetToSeq(PluginIds))
    BY <2>2 DEF SetToSeq
  <2> HIDE DEF l
  <2>4. QED
    BY <2>1, <2>3
<1>3. /\ ids \in Seq(PluginIds) /\ DOMAIN ids = 1 .. Len(ids) /\ Len(ids) \in Nat
      /\ \A n, k \in DOMAIN ids : ids[n] = ids[k] => n = k
  <2>1. CASE ids = <<>>
    BY <2>1
  <2>2. CASE ids = SetToSeq(PluginIds)
    BY <1>2, <2>2 DEF IsInjective
  <2>3. QED
    BY <2>1, <2>2
<1>4. \A l \in Nat : \A S : \A f \in [1 .. l -> S] : f \in Seq(S)
  OBVIOUS
<1>5. ChildrenOnce
  <2>1. n_children \in [1 .. Len(ids) -> Children]
    BY <1>1, <1>3 DEF Children
  <2>2. m_state \in [1 .. Len(ids) -> States]
    BY <1>1, <1>3 DEF States
  <2>3. n_children \in Seq(Children) /\ m_state \in Seq(States)
    BY <1>3, <1>4, <2>1, <2>2
  <2>4. /\ DOMAIN n_children = DOMAIN ids /\ DOMAIN m_state = DOMAIN ids
        /\ \A n \in DOMAIN ids : n_children[n].id = ids[n] /\ n_children[n].node = n
    BY <1>1
  <2>5. QED
    BY <1>3, <2>3, <2>4 DEF ChildrenOnce
<1>6. ASSUME NEW t \in Callers
      PROVE  CallKept(t)
  <2>1. Idle \in Calls /\ Idle.op = "none" /\ Idle.step = "none"
    BY DEF Idle, Calls, Ops, OnPlugin, Steps, NoNode
  <2>2. Unwatched \in Watches
    BY DEF Unwatched, Watches
  <2>3. n_call[t] = Idle /\ n_watch[t] = Unwatched
    BY DEF NodeInit
  <2>4. QED
    BY <2>1, <2>2, <2>3
    DEF CallKept, CallTyped, WatchTrue, InterfaceKept, OnPlugin, Watching
<1>7. ChildrenExact
  BY DEF NodeInit, Result, ChildrenExact, ListExact, CreateFinds
<1>8. QED
  BY <1>5, <1>6, <1>7 DEF NInv, NodeInit

LEMMA NInvNext ==
  ASSUME NInv, [NodeNext]_nodeVars
  PROVE  NInv'
<1>1. CASE UNCHANGED nodeVars
  <2>1. /\ n_children' = n_children /\ m_state' = m_state /\ m_interfaces' = m_interfaces
        /\ n_call' = n_call /\ n_watch' = n_watch /\ n_result' = n_result
    BY <1>1 DEF nodeVars
  <2>2. ChildrenOnce'
    BY <2>1 DEF NInv, ChildrenOnce
  <2>3. There' = There /\ Seen' = Seen
    BY <2>1 DEF There, Seen
  <2>4. ASSUME NEW t \in Callers
        PROVE  CallKept(t)'
    <3>1. CallKept(t)
      BY DEF NInv
    <3>2. /\ CallTyped(n_call[t])' /\ WatchTrue(n_call[t], n_watch[t])'
          /\ InterfaceKept(n_call[t], n_watch[t])'
      BY <2>1, <2>3, <3>1 DEF CallKept, CallTyped, WatchTrue, InterfaceKept
    <3>3. n_call[t].op = "list" =>
            Listing(n_call[t], n_watch[t]) /\ StillFound(n_call[t], n_watch[t])'
      BY <2>1, <3>1 DEF CallKept, StillFound
    <3>4. QED
      BY <2>1, <3>2, <3>3 DEF CallKept
  <2>5. ChildrenExact'
    BY <2>1, SameAnswer DEF NInv
  <2>6. QED
    BY <2>1, <2>2, <2>4, <2>5 DEF NInv
<1>2. CASE NodeNext
  <2>1. PICK t \in Callers :
        \/ \E op \in {"register", "unregister", "connect", "disconnect"}, id \in PluginIds :
             Begin(t, op, id)
        \/ Begin(t, "list", NoNode)
        \/ \E op \in {"create", "remove"}, id \in InterfaceIds : Begin(t, op, id)
        \/ registerPlugin(t) /\ UNCHANGED m_interfaces /\ Watched
        \/ n_addChild(t) /\ UNCHANGED m_interfaces /\ Watched
        \/ n_unregisterPlugin(t) /\ UNCHANGED m_interfaces /\ Watched
        \/ connectPlugin(t) /\ UNCHANGED <<n_children, m_interfaces>> /\ Watched
        \/ disconnectPlugin(t) /\ UNCHANGED <<n_children, m_interfaces>> /\ Watched
        \/ listPlugins(t) /\ UNCHANGED <<n_children, m_state, m_interfaces>> /\ Watched
        \/ createInterface(t) /\ UNCHANGED <<n_children, m_state>> /\ Watched
        \/ removeInterface(t) /\ UNCHANGED <<n_children, m_state>> /\ Watched
    BY <1>2 DEF NodeNext
  <2>2. CASE \E op \in OnPlugin, id \in PluginIds : Begin(t, op, id)
    BY <2>2, BeginStep DEF Ops
  <2>3. CASE Begin(t, "list", NoNode)
    BY <2>3, BeginStep DEF Ops, Watching
  <2>4. CASE \E op \in {"create", "remove"}, id \in InterfaceIds : Begin(t, op, id)
    BY <2>4, BeginStep DEF Ops, Watching
  <2>5. CASE (registerPlugin(t) \/ n_addChild(t)) /\ Watched
    BY <2>5, RegisterStep
  <2>6. CASE n_unregisterPlugin(t) /\ Watched
    BY <2>6, UnregisterStep
  <2>7. CASE (connectPlugin(t) \/ disconnectPlugin(t)) /\ UNCHANGED n_children /\ Watched
    BY <2>7, ConnectStep
  <2>8. CASE listPlugins(t) /\ UNCHANGED <<n_children, m_state>> /\ Watched
    BY <2>8, ListStep
  <2>9. CASE /\ createInterface(t) \/ removeInterface(t)
             /\ UNCHANGED <<n_children, m_state>> /\ Watched
    BY <2>9, InterfaceStep
  <2>10. QED
    BY <2>1, <2>2, <2>3, <2>4, <2>5, <2>6, <2>7, <2>8, <2>9 DEF OnPlugin
<1>3. QED
  BY <1>1, <1>2

(* What the service answers about its plug-ins held while it answered,        *)
(* whichever calls other connections make meanwhile: a list names each        *)
(* plug-in that was registered all the time once and none that never was, and *)
(* the interface of a plug-in is not found only when it was removed.          *)
THEOREM ChildrenCorrect ==
  ASSUME IsFiniteSet(PluginIds)
  PROVE  NodeSpec => []ChildrenExact
<1>1. NodeInit => NInv
  BY NInvInit
<1>2. NInv /\ [NodeNext]_nodeVars => NInv'
  BY NInvNext
<1>3. NInv => ChildrenExact
  BY DEF NInv
<1>4. QED
  BY <1>1, <1>2, <1>3, PTL DEF NodeSpec
================================================================================
