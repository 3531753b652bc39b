---------------------------- MODULE HandlerRunner ----------------------------
(* HandlerRunner runs one thread per handler; each thread passes a            *)
(* ResourcesGuarder, which lets one client through and makes the others wait  *)
(* while memory or open files are scarce.  Every pass through the guarder's   *)
(* controller, and every callback, happens under a mutex and is one step.     *)
EXTENDS Integers, FiniteSets

CONSTANTS Handlers

VARIABLES
    thread,      \* where the thread of each handler is
    m_locked,    \* of the guarder of each handler
    m_clients,   \* of the controller all guarders share
    called,      \* callbacks made for each handler
    terminated,  \* an exception left a destructor: the process ends
    checkFailed  \* isLimit has thrown

hvars == <<thread, m_locked, m_clients, called, terminated, checkFailed>>

RunnerInit ==
    /\ thread = [t \in Handlers |-> "lock"]
    /\ m_locked = [t \in Handlers |-> FALSE]
    /\ m_clients = 0
    /\ called = [t \in Handlers |-> 0]
    /\ terminated = FALSE /\ checkFailed = FALSE

MoveTo(t, from, to) == ~terminated /\ thread[t] = from /\ thread' = [thread EXCEPT ![t] = to]

Enter == m_clients' = m_clients + 1

\* isLimit: memory and open files are read, and reading them may fail
isLimit(t, from) ==
    \/ MoveTo(t, from, "work") /\ Enter /\ UNCHANGED checkFailed
    \/ MoveTo(t, from, "sleep") /\ UNCHANGED <<m_clients, checkFailed>>
    \/ MoveTo(t, from, "unwind") /\ checkFailed' = TRUE /\ UNCHANGED m_clients

\* A thread that is alone enters, any other one if there are resources
Ask(t, from) ==
    /\ IF m_clients = 0
       THEN MoveTo(t, from, "work") /\ Enter /\ UNCHANGED checkFailed
       ELSE isLimit(t, from)
    /\ UNCHANGED <<called, terminated>>

\* Mutant: m_locked is not set
Mut_lock(t) == Ask(t, "lock") /\ UNCHANGED m_locked

\* m_locked is set before the controller is asked
lock(t) == Ask(t, "lock") /\ m_locked' = [m_locked EXCEPT ![t] = TRUE]

retry(t) == Ask(t, "sleep") /\ UNCHANGED m_locked

\* The handler is made and processes its events, or throws
processEvents(t) ==
    /\ MoveTo(t, "work", "complete") \/ MoveTo(t, "work", "unwind")
    /\ UNCHANGED <<m_locked, m_clients, called, terminated, checkFailed>>

\* cmpl or error, under m_lock
CallBack(t) ==
    /\ MoveTo(t, "complete", "unlock") \/ MoveTo(t, "error", "done")
    /\ called' = [called EXCEPT ![t] = @ + 1]
    /\ UNCHANGED <<m_locked, m_clients, terminated, checkFailed>>

\* An unlock too many throws, and the destructor then throws in the unwinding
Leave(t, from, to) ==
    /\ MoveTo(t, from, to)
    /\ IF m_locked[t] THEN /\ m_clients' = IF m_clients > 0 THEN m_clients - 1 ELSE 0
                           /\ terminated' = (m_clients = 0)
                      ELSE UNCHANGED <<m_clients, terminated>>
    /\ m_locked' = [m_locked EXCEPT ![t] = FALSE]
    /\ UNCHANGED <<called, checkFailed>>

unlock(t) == Leave(t, "unlock", "done")
destroy(t) == Leave(t, "unwind", "error")

Step(t) == \/ lock(t) \/ retry(t) \/ processEvents(t)
           \/ CallBack(t) \/ unlock(t) \/ destroy(t)

\* run() joins every thread
Joined == terminated \/ \A t \in Handlers : thread[t] = "done"

RunnerNext == \E t \in Handlers : Step(t)

RunnerSpec == RunnerInit /\ [][RunnerNext]_hvars /\ \A t \in Handlers : WF_hvars(Step(t))
-----------------------------------------------------------------------------
(* As long as the readings of isLimit succeed, m_clients counts the handlers  *)
(* that were let through, whatever throws later, no unlock fails, and each    *)
(* handler gets exactly one callback.  (A reading that throws leaves m_locked *)
(* set, and the destructor then gives back the place of another handler.)     *)
Inside == {t \in Handlers : thread[t] \in {"work", "complete", "unlock", "unwind"}}

ClientsExact ==
    ~checkFailed =>
        /\ m_clients = Cardinality(Inside)
        /\ ~terminated
        /\ \A t \in Handlers : called[t] = (IF thread[t] \in {"unlock", "done"} THEN 1 ELSE 0)

(* run() returns although resources may stay scarce for ever: the last client *)
(* to leave lets the next one in.                                             *)
RunReturns == <>Joined
=============================================================================
