---------------------------- MODULE SocketManager ----------------------------
(* SocketManager keeps a socket working: its thread opens a listening socket  *)
(* and accepts connections (Server), or connects and watches the connection   *)
(* (Client), and starts anew after a pause when that fails.  deactivate()     *)
(* stops it from another thread, at any moment: inside a blocking call too.   *)
EXTENDS Integers

CONSTANTS Kinds    \* subset of {"Server", "Client"}

VARIABLES
    kind,
    m_active,
    state,      \* of the state machine
    m_thread,     \* "loop", a call of the state machine it is in, or "ended"
    socket,     \* "none", "open" or "closed": m_srv or m_conn
    exists,     \* the object at the address of the server exists
    user        \* the thread that (de)activates

mvars == <<kind, m_active, state, m_thread, socket, exists, user>>

SocketInit ==
    /\ kind \in Kinds
    /\ m_active = FALSE /\ state = "Initializing" /\ m_thread = "ended"
    /\ socket = "none" /\ exists = FALSE /\ user = "idle"

activate ==
    /\ user = "idle" /\ m_thread = "ended"
    /\ m_active' = TRUE /\ m_thread' = "loop" /\ user' = "active"
    /\ UNCHANGED <<kind, state, socket, exists>>
-----------------------------------------------------------------------------
(* The thread of the state machine                                           *)

run ==
    /\ m_thread = "loop"
    /\ m_thread' = IF ~m_active THEN "ended"
                 ELSE CASE state = "Idle" -> "idle"
                        [] state = "Initializing" -> "init"
                        [] state = "Working" -> "work"
    /\ UNCHANGED <<kind, m_active, state, socket, exists, user>>

ReturnTo(s) == state' = s /\ m_thread' = "loop" /\ UNCHANGED <<kind, m_active, user>>

idle == m_thread = "idle" /\ ReturnTo("Initializing") /\ UNCHANGED <<socket, exists>>

\* The old socket is let go first; its destructor closes it
init ==
    /\ m_thread = "init" /\ socket # "none"
    /\ socket' = "none"
    /\ exists' = IF kind = "Server" /\ socket = "open" THEN FALSE ELSE exists
    /\ UNCHANGED <<kind, m_active, state, m_thread, user>>

\* Server::open binds the address anew; Client::connect needs a server there
open ==
    /\ m_thread = "init" /\ socket = "none"
    /\ \/ /\ socket' = "open" /\ ReturnTo("Working")
          /\ exists' = (exists \/ kind = "Server")
       \/ socket' = "none" /\ ReturnTo("Idle") /\ UNCHANGED exists

\* listen: a connection, which goes to the listener, or an error
accept ==
    /\ m_thread = "work" /\ kind = "Server" /\ socket = "open"
    /\ \/ ReturnTo("Working") /\ UNCHANGED <<socket, exists>>
       \/ socket' = "none" /\ exists' = FALSE /\ ReturnTo("Idle")

\* A closed socket makes the call return, and the server is let go
listenReturns ==
    /\ m_thread = "work" /\ kind = "Server" /\ socket # "open"
    /\ socket' = "none" /\ ReturnTo("Idle") /\ UNCHANGED exists

\* The client looks at its connection every now and then
watch ==
    /\ m_thread = "work" /\ kind = "Client" /\ socket # "open"
    /\ ReturnTo("Idle") /\ UNCHANGED <<socket, exists>>

PeerCloses ==
    /\ kind = "Client" /\ socket = "open"
    /\ socket' = "closed"
    /\ UNCHANGED <<kind, m_active, state, m_thread, exists, user>>
-----------------------------------------------------------------------------
(* The user                                                                  *)

deactivate ==
    /\ user = "active"
    /\ m_active' = FALSE /\ user' = "close"
    /\ UNCHANGED <<kind, state, m_thread, socket, exists>>

close ==
    /\ user = "close"
    /\ user' = "join"
    /\ socket' = IF socket = "open" THEN "closed" ELSE socket
    /\ exists' = IF socket = "open" /\ kind = "Server" THEN FALSE ELSE exists
    /\ UNCHANGED <<kind, m_active, state, m_thread>>

join ==
    /\ user = "join" /\ m_thread = "ended"
    /\ user' = "stopped"
    /\ UNCHANGED <<kind, m_active, state, m_thread, socket, exists>>

\* Mutant: the destructor closes nothing
Mut_destroy ==
    /\ user = "stopped" /\ user' = "gone"
    /\ UNCHANGED <<kind, m_active, state, m_thread, socket, exists>>

\* The destructor of the state machine closes what the thread opened late
destroyMachine ==
    /\ user = "stopped"
    /\ user' = "gone"
    /\ socket' = IF socket = "open" THEN "closed" ELSE socket
    /\ exists' = IF socket = "open" /\ kind = "Server" THEN FALSE ELSE exists
    /\ UNCHANGED <<kind, m_active, state, m_thread>>

Thread == run \/ idle \/ init \/ open \/ listenReturns \/ watch
User == close \/ join \/ destroyMachine
SocketNext == Thread \/ User \/ accept \/ PeerCloses \/ activate \/ deactivate

\* Connections need not come; everything else does not wait for others
SocketSpec == SocketInit /\ [][SocketNext]_mvars /\ WF_mvars(Thread) /\ WF_mvars(User)
-----------------------------------------------------------------------------
(* deactivate() returns: close() ends the blocking call, and m_active, set    *)
(* before it, keeps the thread from entering another one.                     *)
DeactivateReturns == user = "close" ~> user = "gone"

(* A manager that is gone has left no socket and no address behind.           *)
NothingLeftOpen == user = "gone" => socket # "open" /\ ~exists
=============================================================================
