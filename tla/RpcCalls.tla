------------------------------ MODULE RpcCalls ------------------------------
(* Calls from the threads of a client over one connection to a server: Call, *)
(* RpcProxy, both tables of ConnectionContext and Method.  A table operation *)
(* holds the lock of its table.  Run of a call sets m_done and then posts    *)
(* the semaphore: two steps when the receiving thread does it, which holds   *)
(* m_clntLock meanwhile, because the caller may come in between.             *)
EXTENDS Integers, Sequences, FiniteSets

CONSTANTS
    Calls,     \* one Call object each
    Patient,   \* those that use wait() and not waitFor()
    SidMod,    \* 2^32 in the code
    MAX_PENDING_METHODS

VARIABLES
    call,        \* per call: where its thread is, sid, done, posts, runs, err,
                 \* out (whose answer it got), seen (m_done after a timeout)
    m_sidRef,
    m_clntPendingMethods,  \* [sid, of]
    requests,              \* on their way to the server
    m_srvPendingMethods,   \* [sid, of]
    responses,             \* on their way to the client, [sid, ok, of]
    active,                \* the socket connection is
    rx                     \* the receiving thread of the client

rvars == <<call, m_sidRef, m_clntPendingMethods, requests,
           m_srvPendingMethods, responses, active, rx>>

NewCall == [at |-> "idle", sid |-> 0, done |-> FALSE, posts |-> 0,
            runs |-> 0, err |-> FALSE, out |-> {}, seen |-> FALSE]

\* A method of call c as it is kept in the tables and sent
NewMethod(c) == [sid |-> call[c].sid, of |-> c]

RpcInit ==
    /\ call = [c \in Calls |-> NewCall]
    /\ m_sidRef = 0
    /\ m_clntPendingMethods = {} /\ requests = <<>>
    /\ m_srvPendingMethods = {} /\ responses = <<>>
    /\ active = TRUE
    /\ rx = [at |-> "run", of |-> {}]
-----------------------------------------------------------------------------
(* The threads of the callers                                                *)

ClntLockFree == rx.at \notin {"post", "postlast"}

Go(c, from, to) == call[c].at = from /\ call' = [call EXCEPT ![c].at = to]

PendingOf(c) == {m \in m_clntPendingMethods : m.of = c}
WithSid(table, sid) == {m \in table : m.sid = sid}

\* MethodClient::fail: SetFailed and Run, with nobody in between
Failed(r) == [r EXCEPT !.err = TRUE, !.done = TRUE, !.posts = @ + 1, !.runs = @ + 1]

\* RpcProxy::sendMethod takes the connection context, or fails without one
\* (which is also what a packet that cannot be prepared ends in)
sendMethod(c) ==
    /\ call[c].at = "idle"
    /\ \/ /\ rx.at # "ended"
          /\ call' = [call EXCEPT ![c].at = "sid"]
       \/ call' = [call EXCEPT ![c] = [Failed(@) EXCEPT !.at = "wait"]]
    /\ UNCHANGED <<m_sidRef, m_clntPendingMethods, requests,
                   m_srvPendingMethods, responses, active, rx>>

NextSid ==
    CHOOSE k \in 0 .. SidMod - 1 :
        /\ WithSid(m_clntPendingMethods, (m_sidRef + k) % SidMod) = {}
        /\ \A j \in 0 .. k - 1 :
             WithSid(m_clntPendingMethods, (m_sidRef + j) % SidMod) # {}

\* Mutant: the next search starts at the same sid
Mut_getNextSid(c) ==
    /\ ClntLockFree
    /\ call[c].at = "sid"
    /\ call' = [call EXCEPT ![c].at = "register",
                            ![c].sid = (m_sidRef + NextSid) % SidMod]
    /\ UNCHANGED <<m_sidRef, m_clntPendingMethods, requests,
                   m_srvPendingMethods, responses, active, rx>>

getNextSid(c) ==
    /\ ClntLockFree
    /\ call[c].at = "sid"
    /\ call' = [call EXCEPT ![c].at = "register",
                            ![c].sid = (m_sidRef + NextSid) % SidMod]
    /\ m_sidRef' = (m_sidRef + NextSid + 1) % SidMod
    /\ UNCHANGED <<m_clntPendingMethods, requests, m_srvPendingMethods,
                   responses, active, rx>>

Register(c) ==
    /\ ClntLockFree
    /\ call[c].at = "register"
    /\ IF \/ Cardinality(m_clntPendingMethods) > MAX_PENDING_METHODS
          \/ WithSid(m_clntPendingMethods, call[c].sid) # {}
       THEN /\ call' = [call EXCEPT ![c] = [Failed(@) EXCEPT !.at = "wait"]]
            /\ UNCHANGED m_clntPendingMethods
       ELSE /\ call' = [call EXCEPT ![c].at = "send"]
            /\ m_clntPendingMethods' =
                 m_clntPendingMethods \cup {NewMethod(c)}
    /\ UNCHANGED <<m_sidRef, requests, m_srvPendingMethods, responses, active, rx>>

\* A request that cannot be sent closes the connection and fails
SendPacket(c) ==
    /\ Go(c, "send", IF active THEN "wait" ELSE "unsent")
    /\ requests' = IF active THEN Append(requests, NewMethod(c))
                   ELSE requests
    /\ UNCHANGED <<m_sidRef, m_clntPendingMethods, m_srvPendingMethods,
                   responses, active, rx>>

\* Fails the method of c if it is still in the table, then goes on
FailPending(c, to) ==
    /\ ClntLockFree
    /\ call' = [call EXCEPT ![c] =
                  [IF PendingOf(c) = {} THEN @ ELSE Failed(@) EXCEPT !.at = to]]
    /\ m_clntPendingMethods' = m_clntPendingMethods \ PendingOf(c)
    /\ UNCHANGED <<m_sidRef, requests, m_srvPendingMethods, responses, active, rx>>

failClientMethod(c) == call[c].at = "unsent" /\ FailPending(c, "wait")

Waited(c) ==
    /\ call[c].at = "wait" /\ call[c].posts > 0
    /\ call' = [call EXCEPT ![c].at = "returned", ![c].posts = @ - 1]
    /\ UNCHANGED <<m_sidRef, m_clntPendingMethods, requests,
                   m_srvPendingMethods, responses, active, rx>>

TimeOut(c) ==
    /\ c \notin Patient /\ call[c].posts = 0
    /\ Go(c, "wait", "late")
    /\ UNCHANGED <<m_sidRef, m_clntPendingMethods, requests,
                   m_srvPendingMethods, responses, active, rx>>

ReadDone(c) ==
    /\ call[c].at = "late"
    /\ call' = [call EXCEPT ![c].at = IF call[c].done THEN "returned" ELSE "cancel",
                            ![c].seen = call[c].done]
    /\ UNCHANGED <<m_sidRef, m_clntPendingMethods, requests,
                   m_srvPendingMethods, responses, active, rx>>

\* Mutant: the cancelled method stays in the table
Mut_StartCancel(c) ==
    /\ call[c].at = "cancel" /\ ClntLockFree
    /\ call' = [call EXCEPT ![c].at = "timeout"]
    /\ UNCHANGED <<m_sidRef, m_clntPendingMethods, requests,
                   m_srvPendingMethods, responses, active, rx>>

\* StartCancel reaches the table as long as the proxy has the context
StartCancel(c) ==
    /\ call[c].at = "cancel"
    /\ IF rx.at # "ended" THEN FailPending(c, "timeout")
       ELSE /\ Go(c, "cancel", "timeout")
            /\ UNCHANGED <<m_sidRef, m_clntPendingMethods, requests,
                           m_srvPendingMethods, responses, active, rx>>

\* SetFailed("Method call timeout.")
SetFailed(c) ==
    /\ call[c].at = "timeout"
    /\ call' = [call EXCEPT ![c].at = "returned", ![c].err = TRUE]
    /\ UNCHANGED <<m_sidRef, m_clntPendingMethods, requests,
                   m_srvPendingMethods, responses, active, rx>>

Caller(c) ==
    \/ sendMethod(c) \/ getNextSid(c) \/ Register(c) \/ SendPacket(c)
    \/ failClientMethod(c) \/ Waited(c) \/ TimeOut(c) \/ ReadDone(c)
    \/ StartCancel(c) \/ SetFailed(c)
-----------------------------------------------------------------------------
(* The receiving thread of the client                                        *)

CallersUnchanged ==
    UNCHANGED <<m_sidRef, requests, m_srvPendingMethods, active>>

\* complete or fail: the outcome and m_done
SetDone(m, failed, answer, to) ==
    /\ call' = [call EXCEPT ![m.of].err = @ \/ failed, ![m.of].out = answer,
                            ![m.of].done = TRUE, ![m.of].runs = @ + 1]
    /\ rx' = [at |-> to, of |-> {m}]

completeClientMethod ==
    /\ rx.at = "run" /\ active /\ responses # <<>>
    /\ LET r == Head(responses)
           found == WithSid(m_clntPendingMethods, r.sid)
       IN IF found = {} THEN UNCHANGED <<call, rx>>
          ELSE \E m \in found :
                 SetDone(m, ~r.ok, IF r.ok THEN {r.of} ELSE {}, "post")
    /\ responses' = Tail(responses)
    /\ UNCHANGED m_clntPendingMethods
    /\ CallersUnchanged

\* The semaphore is posted and the method erased
Post ==
    /\ rx.at \in {"post", "postlast"}
    /\ \E m \in rx.of :
        /\ call' = [call EXCEPT ![m.of].posts = @ + 1]
        /\ m_clntPendingMethods' = m_clntPendingMethods \ {m}
        /\ rx' = [at |-> CASE rx.at = "post" -> "run"
                           [] rx.at = "postlast" -> "cancel",
                  of |-> {}]
    /\ UNCHANGED responses
    /\ CallersUnchanged

LeaveLoop ==
    /\ rx.at = "run" /\ ~active
    /\ rx' = [rx EXCEPT !.at = "cancel"]
    /\ UNCHANGED <<call, m_clntPendingMethods, responses>>
    /\ CallersUnchanged

\* Mutant: pending methods are not cancelled
Mut_onDisconnection ==
    /\ rx.at = "cancel"
    /\ rx' = [rx EXCEPT !.at = "ended"]
    /\ UNCHANGED <<call, m_clntPendingMethods, responses>>
    /\ CallersUnchanged

\* cancelAllClientMethods, one by one; then the proxy loses the context
onDisconnection ==
    /\ rx.at = "cancel"
    /\ IF m_clntPendingMethods = {}
       THEN rx' = [rx EXCEPT !.at = "ended"] /\ UNCHANGED call
       ELSE \E m \in m_clntPendingMethods : SetDone(m, TRUE, {}, "postlast")
    /\ UNCHANGED <<m_clntPendingMethods, responses>>
    /\ CallersUnchanged

Receiver == completeClientMethod \/ Post \/ LeaveLoop \/ onDisconnection
-----------------------------------------------------------------------------
(* The server and the connection                                             *)

\* A method that may not be registered fails under m_srvLock, which the
\* sending of that failure would have to take again
Stuck ==
    /\ requests # <<>>
    /\ \/ WithSid(m_srvPendingMethods, Head(requests).sid) # {}
       \/ Cardinality(m_srvPendingMethods) > MAX_PENDING_METHODS

handleServerMethod ==
    /\ active /\ requests # <<>> /\ ~Stuck
    /\ requests' = Tail(requests)
    /\ m_srvPendingMethods' = m_srvPendingMethods \cup {Head(requests)}
    /\ UNCHANGED <<call, m_sidRef, m_clntPendingMethods, responses, active, rx>>

\* The service has run the method, now or later, and completes or fails it
sendResponse(m) ==
    /\ m \in m_srvPendingMethods /\ ~Stuck
    /\ m_srvPendingMethods' = m_srvPendingMethods \ {m}
    /\ \/ /\ active
          /\ \E ok \in BOOLEAN :
               responses' = Append(responses, [sid |-> m.sid, ok |-> ok, of |-> m.of])
       \/ ~active /\ UNCHANGED responses
    /\ UNCHANGED <<call, m_sidRef, m_clntPendingMethods, requests, active, rx>>

Disconnect ==
    /\ active /\ active' = FALSE
    /\ UNCHANGED <<call, m_sidRef, m_clntPendingMethods, requests,
                   m_srvPendingMethods, responses, rx>>

RpcNext ==
    \/ \E c \in Calls : Caller(c)
    \/ Receiver \/ handleServerMethod \/ Disconnect
    \/ \E m \in m_srvPendingMethods : sendResponse(m)

\* Nothing is assumed of the server, of the connection or of a service
RpcSpec == RpcInit /\ [][RpcNext]_rvars /\ WF_rvars(Receiver)
             /\ \A c \in Calls : WF_rvars(Caller(c))
-----------------------------------------------------------------------------
(* A call that ends without an error has the answer to its own request, run  *)
(* once: whatever timed out, was cancelled or answered late before.          *)
AnswersMatch ==
    \A c \in Calls :
        /\ call[c].runs <= 1
        /\ call[c].at = "returned" /\ ~call[c].err => call[c].out = {c}

(* No closure is run for a call whose caller may have destroyed it, unless   *)
(* its timeout came between the two statements of Run.                       *)
RunsOnLiveCall ==
    \A c \in Calls :
        call[c].at = "returned" /\ (PendingOf(c) # {} \/ \E m \in rx.of : m.of = c)
            => call[c].seen

(* Every call returns: at its timeout or, for one that waits without limit,  *)
(* once its answer is on the way or the connection is closed.                *)
Owed(c) ==
    /\ call[c].at # "idle"
    /\ \/ c \notin Patient \/ ~active
       \/ \E i \in DOMAIN responses : responses[i].of = c

CallsReturn == \A c \in Calls : Owed(c) ~> call[c].at = "returned"
=============================================================================
