--------------------------- MODULE ServerContexts ---------------------------
(* Who keeps, and who destroys, the connection contexts of a server: its     *)
(* list of active contexts (CommunicationManagerServer), the receiving       *)
(* thread of each context (ConnectionTransceiver), and the deleter thread    *)
(* (ConnectionContextDeleter).  The destructor of a context runs where the   *)
(* last reference is dropped.  It closes the connection and joins the        *)
(* receiving thread, and it must therefore not run in that thread.           *)
EXTENDS Integers, Sequences, SequencesExt

CONSTANTS Contexts

VARIABLES
    receiver,  \* receiving thread: "none", "run", "left" its loop, "holds" a
               \* reference to its context, or "done"
    connected, \* connections that are active
    m_activeCntxlist,
    m_inactiveConnCntxList,
    m_sem,     \* of the deleter
    deleter,   \* where its thread is, and the context it holds
    manager,   \* where the thread that owns the server is, likewise
    freed,     \* contexts destroyed
    aborted    \* an exception or a joinable thread was let go: process ended

svars == <<receiver, connected, m_activeCntxlist, m_inactiveConnCntxList, m_sem,
           deleter, manager, freed, aborted>>

ContextsInit ==
    /\ receiver = [c \in Contexts |-> "none"] /\ connected = {}
    /\ m_activeCntxlist = <<>> /\ m_inactiveConnCntxList = <<>>
    /\ m_sem = 0
    /\ deleter = [at |-> "wait", holds |-> {}]
    /\ manager = [at |-> "serving", holds |-> {}]
    /\ freed = {} /\ aborted = FALSE

\* References other than that of the receiving thread
Kept(c) ==
    c \in Range(m_activeCntxlist) \cup Range(m_inactiveConnCntxList)
          \cup deleter.holds \cup manager.holds
-----------------------------------------------------------------------------
\* The listening thread makes, lists and activates a context
onConnection(c) ==
    /\ ~aborted /\ manager.at = "serving" /\ receiver[c] = "none"
    /\ m_activeCntxlist' = Append(m_activeCntxlist, c)
    /\ receiver' = [receiver EXCEPT ![c] = "run"]
    /\ connected' = connected \cup {c}
    /\ UNCHANGED <<m_inactiveConnCntxList, m_sem, deleter, manager, freed, aborted>>

\* The peer goes, a packet is malformed or sending fails
Close(c) ==
    /\ ~aborted /\ c \in connected
    /\ connected' = connected \ {c}
    /\ UNCHANGED <<receiver, m_activeCntxlist, m_inactiveConnCntxList, m_sem,
                   deleter, manager, freed, aborted>>

receive(c) ==
    /\ ~aborted /\ receiver[c] = "run" /\ c \notin connected
    /\ receiver' = [receiver EXCEPT ![c] = "left"]
    /\ UNCHANGED <<connected, m_activeCntxlist, m_inactiveConnCntxList, m_sem,
                   deleter, manager, freed, aborted>>

\* onDisconnection: shared_from_this() throws when no reference is left
expire(c) ==
    /\ ~aborted /\ receiver[c] = "left"
    /\ IF Kept(c) THEN receiver' = [receiver EXCEPT ![c] = "holds"] /\ UNCHANGED aborted
                  ELSE aborted' = TRUE /\ UNCHANGED receiver
    /\ UNCHANGED <<connected, m_activeCntxlist, m_inactiveConnCntxList, m_sem,
                   deleter, manager, freed>>

\* The context is looked for in the list and erased where it is found
Erase(c) ==
    \E i \in DOMAIN m_activeCntxlist :
        /\ m_activeCntxlist[i] = c /\ \A j \in 1 .. i - 1 : m_activeCntxlist[j] # c
        /\ m_activeCntxlist' = RemoveAt(m_activeCntxlist, i)

\* Mutant: the context is not moved to the deleter
Mut_onConnectionExpiration(c) ==
    /\ ~aborted /\ receiver[c] = "holds"
    /\ receiver' = [receiver EXCEPT ![c] = "done"]
    /\ Erase(c) \/ (c \notin Range(m_activeCntxlist) /\ UNCHANGED m_activeCntxlist)
    /\ aborted' = (c \notin deleter.holds \cup manager.holds)
    /\ UNCHANGED <<connected, m_inactiveConnCntxList, m_sem, deleter, manager, freed>>

\* A listed context goes to the deleter; of another one the reference is
\* dropped here, and a last one destroys the thread in the thread itself
onConnectionExpiration(c) ==
    /\ ~aborted /\ receiver[c] = "holds"
    /\ receiver' = [receiver EXCEPT ![c] = "done"]
    /\ \/ /\ Erase(c)
          /\ m_inactiveConnCntxList' = Append(m_inactiveConnCntxList, c)
          /\ m_sem' = m_sem + 1
          /\ UNCHANGED aborted
       \/ /\ c \notin Range(m_activeCntxlist)
          /\ aborted' = ~Kept(c)
          /\ UNCHANGED <<m_activeCntxlist, m_inactiveConnCntxList, m_sem>>
    /\ UNCHANGED <<connected, deleter, manager, freed>>
-----------------------------------------------------------------------------
(* The deleter thread                                                        *)

\* m_run is false once the owner is in the deleter's destructor
m_run == manager.at # "join"

DeleterWait ==
    /\ ~aborted /\ deleter.at = "wait" /\ m_sem > 0
    /\ m_sem' = m_sem - 1
    /\ deleter' = [deleter EXCEPT !.at = "empty"]
    /\ UNCHANGED <<receiver, connected, m_activeCntxlist, m_inactiveConnCntxList, manager,
                   freed, aborted>>

\* The context taken before is released, which joins its receiving thread
getConnection ==
    /\ ~aborted /\ deleter.at \in {"empty", "last"}
    /\ \A c \in deleter.holds : receiver[c] = "done"
    /\ freed' = freed \cup deleter.holds
    /\ IF m_inactiveConnCntxList # <<>>
       THEN /\ deleter' = [deleter EXCEPT !.holds = {Head(m_inactiveConnCntxList)}]
            /\ m_inactiveConnCntxList' = Tail(m_inactiveConnCntxList)
       ELSE /\ deleter' = [at |-> CASE deleter.at = "last" -> "ended"
                                    [] deleter.at = "empty" /\ m_run -> "wait"
                                    [] OTHER -> "last",
                           holds |-> {}]
            /\ UNCHANGED m_inactiveConnCntxList
    /\ UNCHANGED <<receiver, connected, m_activeCntxlist, m_sem, manager, aborted>>
-----------------------------------------------------------------------------
(* shutdown() and the destructor of the server                               *)

\* The listening thread has been joined
shutdown ==
    /\ ~aborted /\ manager.at = "serving"
    /\ manager' = [manager EXCEPT !.at = "reset"]
    /\ UNCHANGED <<receiver, connected, m_activeCntxlist, m_inactiveConnCntxList, m_sem,
                   deleter, freed, aborted>>

PopContext ==
    /\ ~aborted /\ manager.at = "reset" /\ manager.holds = {}
    /\ IF m_activeCntxlist = <<>>
       THEN manager' = [manager EXCEPT !.at = "shut"] /\ UNCHANGED m_activeCntxlist
       ELSE /\ manager' = [manager EXCEPT !.holds = {Head(m_activeCntxlist)}]
            /\ m_activeCntxlist' = Tail(m_activeCntxlist)
    /\ UNCHANGED <<receiver, connected, m_inactiveConnCntxList, m_sem, deleter, freed,
                   aborted>>

\* context.reset(): the last reference closes the connection and joins
ResetContext ==
    /\ ~aborted /\ manager.at = "reset"
    /\ \E c \in manager.holds :
         /\ manager' = [at |-> IF receiver[c] \in {"holds", "done"} THEN "reset"
                             ELSE "joinRx",
                      holds |-> {}]
         /\ connected' = IF receiver[c] = "holds" THEN connected ELSE connected \ {c}
         /\ freed' = IF receiver[c] = "done" THEN freed \cup {c} ELSE freed
    /\ UNCHANGED <<receiver, m_activeCntxlist, m_inactiveConnCntxList, m_sem,
                   deleter, aborted>>

\* The destructor of the deleter
JoinDeleter ==
    /\ ~aborted /\ manager.at = "shut"
    /\ manager' = [manager EXCEPT !.at = "join"]
    /\ m_sem' = m_sem + 1
    /\ UNCHANGED <<receiver, connected, m_activeCntxlist, m_inactiveConnCntxList,
                   deleter, freed, aborted>>

Gone ==
    /\ ~aborted /\ manager.at = "join" /\ deleter.at = "ended"
    /\ manager' = [manager EXCEPT !.at = "gone"]
    /\ UNCHANGED <<receiver, connected, m_activeCntxlist, m_inactiveConnCntxList, m_sem,
                   deleter, freed, aborted>>

ReceiverStep(c) == receive(c) \/ expire(c) \/ onConnectionExpiration(c)
Deleter == DeleterWait \/ getConnection
Owner == PopContext \/ ResetContext \/ JoinDeleter \/ Gone

ContextsNext ==
    \/ \E c \in Contexts : onConnection(c) \/ Close(c) \/ ReceiverStep(c)
    \/ Deleter \/ Owner \/ shutdown

ContextsSpec ==
    /\ ContextsInit /\ [][ContextsNext]_svars /\ WF_svars(Deleter) /\ WF_svars(Owner)
    /\ \A c \in Contexts : WF_svars(ReceiverStep(c))
-----------------------------------------------------------------------------
(* While the server is not shut down, contexts that expire are never         *)
(* destroyed in their own receiving thread nor found without a reference,    *)
(* however connections come and go.  At any time each context is listed once *)
(* and what the deleter or the owner has destroyed nobody refers to.         *)
ExpiresSafely ==
    /\ aborted => manager.at # "serving"
    /\ IsInjective(m_activeCntxlist \o m_inactiveConnCntxList)
    /\ \A c \in freed : receiver[c] = "done" /\ ~Kept(c)

(* A context whose connection has ended is freed, also by a shutdown, unless *)
(* that shutdown ends the process.                                           *)
ContextsFreed ==
    \A c \in Contexts : receiver[c] = "done" ~> (c \in freed \/ aborted)

(* "Shutdown all opened sockets and connections"                             *)
(* (CommunicationManagerServer.h): the process lives on.                     *)
NeverTerminated == ~aborted
=============================================================================
