-------------------------- MODULE PluginRegistration --------------------------
(* How plug-ins register with the service.  In the process of a plug-in, its  *)
(* main thread starts and stops it (NodePlugin, ServiceShadow), a dispatcher  *)
(* thread runs its event handlers (NodeShadowEventDispatcher), and the        *)
(* connection to the service attaches and detaches.  In the service each      *)
(* connection has a thread that serves its requests in order.  All plug-ins   *)
(* here use one NodeId: two processes of one program.                         *)
EXTENDS Integers, Sequences

CONSTANTS Plugins, Attaches  \* attachments of one plug-in at most

VARIABLES
    main,       \* main thread of each plug-in
    handler,    \* the auto-registration handler is in m_handlers
    m_eventsQueue,
    m_runThread,
    dispatcher, \* dispatcher thread
    attached,   \* connections to the service made so far
    answer,     \* of the call of each thread: "none", "sent", "ok", "failed"
    sentRequests, \* on the connection of each plug-in, <<what, thread>>
    server,     \* what serves the connection has found: "idle" or "absent"
    m_children  \* of the service: the plug-in each node was made for

pluginVars == <<main, handler, m_eventsQueue, m_runThread, dispatcher, attached,
                answer, sentRequests, server, m_children>>

AskingThreads == {"main", "dispatcher"}

PluginInit ==
    /\ main = [p \in Plugins |-> "idle"]
    /\ handler = [p \in Plugins |-> FALSE]
    /\ m_eventsQueue = [p \in Plugins |-> <<>>]
    /\ m_runThread = [p \in Plugins |-> TRUE]
    /\ dispatcher = [p \in Plugins |-> "wait"]
    /\ attached = [p \in Plugins |-> 0]
    /\ answer = [p \in Plugins |-> [t \in AskingThreads |-> "none"]]
    /\ sentRequests = [p \in Plugins |-> <<>>]
    /\ server = [p \in Plugins |-> "idle"]
    /\ m_children = <<>>

Main(p, from, to) == main[p] = from /\ main' = [main EXCEPT ![p] = to]
Dispatcher(p, from, to) ==
    dispatcher[p] = from /\ dispatcher' = [dispatcher EXCEPT ![p] = to]

\* Until deinitCommon shuts it down
Connected(p) == attached[p] > 0 /\ main[p] \in {"running", "unregister", "call"}

\* A call is sent when there is a connection and fails without one
CallService(p, t, what) ==
    IF Connected(p)
    THEN /\ answer' = [answer EXCEPT ![p][t] = "sent"]
         /\ sentRequests' = [sentRequests EXCEPT ![p] = Append(@, <<what, t>>)]
    ELSE /\ answer' = [answer EXCEPT ![p][t] = "failed"]
         /\ UNCHANGED sentRequests

\* waitFor: the answer, or a failure after the time has passed; the request
\* then stays on its way
Answered(p, t) == answer[p][t] \in {"ok", "failed", "sent"}
-----------------------------------------------------------------------------
(* NodePlugin::initCommon and deinitCommon                                    *)

enablePluginAutoRegistration(p) ==
    /\ Main(p, "idle", "running")
    /\ handler' = [handler EXCEPT ![p] = TRUE]
    /\ UNCHANGED <<m_eventsQueue, m_runThread, dispatcher, attached, answer,
                   sentRequests, server, m_children>>

disablePluginAutoRegistration(p) ==
    /\ Main(p, "running", "unregister")
    /\ handler' = [handler EXCEPT ![p] = FALSE]
    /\ UNCHANGED <<m_eventsQueue, m_runThread, dispatcher, attached, answer,
                   sentRequests, server, m_children>>

unregisterPlugin(p) ==
    /\ Main(p, "unregister", "call")
    /\ CallService(p, "main", "unregister")
    /\ UNCHANGED <<handler, m_eventsQueue, m_runThread, dispatcher, attached,
                   server, m_children>>

\* The answer is logged; then the connection is shut down
deinitCommon(p) ==
    /\ Main(p, "call", "clear") /\ Answered(p, "main")
    /\ answer' = [answer EXCEPT ![p]["main"] = "none"]
    /\ UNCHANGED <<handler, m_eventsQueue, m_runThread, dispatcher, attached,
                   sentRequests, server, m_children>>

\* Mutant: the thread is not woken up
Mut_clear(p) ==
    /\ Main(p, "clear", "join")
    /\ m_runThread' = [m_runThread EXCEPT ![p] = FALSE]
    /\ UNCHANGED <<handler, m_eventsQueue, dispatcher, attached, answer,
                   sentRequests, server, m_children>>

\* clear() asks the thread to stop, posts it, and joins it
clear(p) ==
    /\ Main(p, "clear", "join")
    /\ m_runThread' = [m_runThread EXCEPT ![p] = FALSE]
    /\ m_eventsQueue' = [m_eventsQueue EXCEPT ![p] = Append(@, "wake")]
    /\ UNCHANGED <<handler, dispatcher, attached, answer, sentRequests, server,
                   m_children>>

PluginJoined(p) ==
    /\ Main(p, "join", "gone") /\ dispatcher[p] = "ended"
    /\ UNCHANGED <<handler, m_eventsQueue, m_runThread, dispatcher, attached,
                   answer, sentRequests, server, m_children>>
-----------------------------------------------------------------------------
(* ClientEventHandler and NodeShadowEventDispatcher                           *)

onAttach(p) ==
    /\ main[p] \in {"running", "unregister", "call"} /\ attached[p] < Attaches
    /\ attached' = [attached EXCEPT ![p] = @ + 1]
    /\ m_eventsQueue' = [m_eventsQueue EXCEPT ![p] = Append(@, "attach")]
    /\ UNCHANGED <<main, handler, m_runThread, dispatcher, answer, sentRequests,
                   server, m_children>>

\* The handlers are copied with the event and called without the lock.  An
\* empty queue is a wake-up by clear (here the last element of the queue).
processEvent(p) ==
    /\ m_eventsQueue[p] # <<>>
    /\ IF Head(m_eventsQueue[p]) = "attach" /\ handler[p]
       THEN Dispatcher(p, "wait", "onEvent")
       ELSE Dispatcher(p, "wait", "next")
    /\ m_eventsQueue' = [m_eventsQueue EXCEPT ![p] = Tail(@)]
    /\ UNCHANGED <<main, handler, m_runThread, attached, answer, sentRequests,
                   server, m_children>>

onEvent(p) ==
    /\ Dispatcher(p, "onEvent", "call")
    /\ CallService(p, "dispatcher", "register")
    /\ UNCHANGED <<main, handler, m_eventsQueue, m_runThread, attached, server,
                   m_children>>

Registered(p) ==
    /\ Dispatcher(p, "call", "next") /\ Answered(p, "dispatcher")
    /\ answer' = [answer EXCEPT ![p]["dispatcher"] = "none"]
    /\ UNCHANGED <<main, handler, m_eventsQueue, m_runThread, attached,
                   sentRequests, server, m_children>>

NextEvent(p) ==
    /\ Dispatcher(p, "next", IF m_runThread[p] THEN "wait" ELSE "ended")
    /\ UNCHANGED <<main, handler, m_eventsQueue, m_runThread, attached, answer,
                   sentRequests, server, m_children>>
-----------------------------------------------------------------------------
(* InterfaceServiceImpl, and the children of NodeGeneric                      *)

Reply(p, result) ==
    /\ answer' = LET t == Head(sentRequests[p])[2]
                 IN IF answer[p][t] = "sent"
                    THEN [answer EXCEPT ![p][t] = result] ELSE answer
    /\ sentRequests' = [sentRequests EXCEPT ![p] = Tail(@)]

Serves(p, what) == sentRequests[p] # <<>> /\ Head(sentRequests[p])[1] = what

hasChild == m_children # <<>>

\* registerPlugin asks getChild first
getChild(p) ==
    /\ Serves(p, "register") /\ server[p] = "idle"
    /\ IF hasChild THEN Reply(p, "failed") /\ UNCHANGED server
       ELSE /\ server' = [server EXCEPT ![p] = "absent"]
            /\ UNCHANGED <<answer, sentRequests>>
    /\ UNCHANGED <<main, handler, m_eventsQueue, m_runThread, dispatcher,
                   attached, m_children>>

\* Mutant: the node is added without another look
Mut_addChild(p) ==
    /\ server[p] = "absent"
    /\ server' = [server EXCEPT ![p] = "idle"]
    /\ Reply(p, "ok") /\ m_children' = Append(m_children, p)
    /\ UNCHANGED <<main, handler, m_eventsQueue, m_runThread, dispatcher, attached>>

\* A new node, which may fail to initialise, is added if there is still none
addChild(p) ==
    /\ server[p] = "absent"
    /\ server' = [server EXCEPT ![p] = "idle"]
    /\ \/ Reply(p, "failed") /\ UNCHANGED m_children
       \/ IF hasChild THEN Reply(p, "failed") /\ UNCHANGED m_children
          ELSE Reply(p, "ok") /\ m_children' = Append(m_children, p)
    /\ UNCHANGED <<main, handler, m_eventsQueue, m_runThread, dispatcher, attached>>

removeChild(p) ==
    /\ Serves(p, "unregister")
    /\ IF hasChild THEN Reply(p, "ok") /\ m_children' = Tail(m_children)
                   ELSE Reply(p, "failed") /\ UNCHANGED m_children
    /\ UNCHANGED <<main, handler, m_eventsQueue, m_runThread, dispatcher,
                   attached, server>>
-----------------------------------------------------------------------------
MainStep(p) == \/ unregisterPlugin(p) \/ deinitCommon(p) \/ clear(p) \/ PluginJoined(p)
DispatcherStep(p) == processEvent(p) \/ onEvent(p) \/ Registered(p) \/ NextEvent(p)
ServerStep(p) == getChild(p) \/ addChild(p) \/ removeChild(p)

PluginNext ==
    \E p \in Plugins :
        \/ enablePluginAutoRegistration(p) \/ disablePluginAutoRegistration(p)
        \/ onAttach(p) \/ MainStep(p) \/ DispatcherStep(p) \/ ServerStep(p)

PluginSpec ==
    /\ PluginInit /\ [][PluginNext]_pluginVars
    /\ \A p \in Plugins :
         /\ WF_pluginVars(MainStep(p)) /\ WF_pluginVars(DispatcherStep(p))
         /\ WF_pluginVars(ServerStep(p))
-----------------------------------------------------------------------------
(* However registrations and unregistrations of several connections          *)
(* interleave between getChild and addChild, the service has one node at     *)
(* most for an id; and a plug-in that is told it is registered has it, until *)
(* some plug-in of that id unregisters: no registration is lost to another.  *)
OwnNode ==
    /\ Len(m_children) <= 1
    /\ \A p \in Plugins :
         answer[p]["dispatcher"] = "ok" =>
             \/ hasChild /\ m_children[1] = p
             \/ \E q \in Plugins : main[q] \in {"call", "clear", "join", "gone"}

(* Stopping a plug-in returns: the dispatcher thread always comes out of the *)
(* handler it is in and sees that it has to end.                             *)
DeinitReturns == \A p \in Plugins : main[p] = "unregister" ~> main[p] = "gone"
=============================================================================
