----------------------------- MODULE ServiceNode -----------------------------
(* The children and the interfaces of a node (NodeGeneric), each list behind  *)
(* a mutex of its own, and the calls of the service about its plug-ins        *)
(* (InterfaceServiceImpl), which several connections make at a time.  A call  *)
(* takes the mutex once for each thing it asks, so that others come between.  *)
(* Names that PluginRegistration has too begin with n_ here.                  *)
EXTENDS Integers, Sequences, SequencesExt

CONSTANTS
    Callers,             \* threads that serve connections
    PluginIds,
    InterfaceIds,
    MaxRequests          \* bound: calls that are made

VARIABLES
    n_children,          \* [id, node] in the order they were added
    m_state,             \* of each node that was made: sequence by its number
    m_interfaces,
    n_call,              \* of each thread
    n_result,            \* of the last call that ended
    n_watch,             \* what there was while the call of a thread ran
    n_calls

nodeVars == <<n_children, m_state, m_interfaces, n_call, n_result, n_watch, n_calls>>

NoNode == 0
Idle == [op |-> "none", id |-> NoNode, step |-> "none", node |-> NoNode,
         ids |-> <<>>, listed |-> <<>>]
Result(op, ok, given) == [op |-> op, ok |-> ok, given |-> given]
Unwatched == [always |-> {}, ever |-> {}, gone |-> FALSE]

NodeInit ==
    /\ \E ids \in {<<>>, SetToSeq(PluginIds)} :
         /\ n_children = [n \in DOMAIN ids |-> [id |-> ids[n], node |-> n]]
         /\ m_state = [n \in DOMAIN ids |-> "CONNECTED"]
    /\ m_interfaces = {}
    /\ n_call = [t \in Callers |-> Idle]
    /\ n_result = Result("none", TRUE, <<>>)
    /\ n_watch = [t \in Callers |-> Unwatched]
    /\ n_calls = 0
-----------------------------------------------------------------------------
\* NodeGeneric
hasChild_NoLock(id) == \E n \in DOMAIN n_children : n_children[n].id = id

First(id) ==
    CHOOSE n \in DOMAIN n_children :
        n_children[n].id = id /\ \A k \in 1 .. n - 1 : n_children[k].id # id

n_getChild(id) == IF hasChild_NoLock(id) THEN n_children[First(id)].node ELSE NoNode

getChildrenIdList == [n \in DOMAIN n_children |-> n_children[n].id]

n_removeChild(id) ==
    n_children' = IF hasChild_NoLock(id) THEN RemoveAt(n_children, First(id)) ELSE n_children

hasInterface_NoLock(id) == id \in m_interfaces

addInterface(id) == m_interfaces' = m_interfaces \cup {id}
-----------------------------------------------------------------------------
\* What was there before and after each step of a call, for what it answers
There == {n_children[n].id : n \in DOMAIN n_children}
Seen == {<<n_children[n].id, m_state[n_children[n].node]>> : n \in DOMAIN n_children}

Watched ==
    n_watch' = [t \in Callers |->
        IF n_call'[t].op \notin {"list", "create"} THEN Unwatched
        ELSE IF n_call[t] = Idle THEN [Unwatched EXCEPT !.always = There', !.ever = Seen']
        ELSE [always |-> n_watch[t].always \cap There', ever |-> n_watch[t].ever \cup Seen',
              gone |-> n_watch[t].gone \/ ~(m_interfaces \subseteq m_interfaces')]]

Begin(t, op, id) ==
    /\ n_call[t] = Idle /\ n_calls < MaxRequests
    /\ n_calls' = n_calls + 1
    /\ n_call' = [n_call EXCEPT ![t] = [Idle EXCEPT !.op = op, !.id = id, !.step = "begun"]]
    /\ UNCHANGED <<n_children, m_state, m_interfaces, n_result>>
    /\ Watched

At(t, op, step) == n_call[t].op = op /\ n_call[t].step = step

Goes(t, step, node) ==
    /\ n_call' = [n_call EXCEPT ![t].step = step, ![t].node = node]
    /\ UNCHANGED <<n_result, n_calls>>

\* The answer: SetFailed or not, and what is given
Ends(t, ok, given) ==
    /\ n_call' = [n_call EXCEPT ![t] = Idle]
    /\ n_result' = Result(n_call[t].op, ok, given)
    /\ UNCHANGED n_calls
-----------------------------------------------------------------------------
registerPlugin(t) ==
    LET id == n_call[t].id IN
    \/ /\ At(t, "register", "begun")
       /\ IF n_getChild(id) # NoNode THEN Ends(t, FALSE, <<>>) ELSE Goes(t, "absent", NoNode)
       /\ UNCHANGED <<n_children, m_state>>
    \/ /\ At(t, "register", "added")
       /\ m_state' = [m_state EXCEPT ![n_call[t].node] = "CONNECTED"]
       /\ Ends(t, TRUE, <<>>)
       /\ UNCHANGED n_children

Mut_n_addChild(t) ==
    LET id == n_call[t].id
        new == Len(m_state) + 1
    IN  /\ At(t, "register", "absent")
        /\ m_state' = Append(m_state, "UNDEFINED")
        /\ n_children' = Append(n_children, [id |-> id, node |-> new]) /\ Goes(t, "added", new)

\* A new node is made, and added if there is still none of that id
n_addChild(t) ==
    LET id == n_call[t].id
        new == Len(m_state) + 1
    IN  /\ At(t, "register", "absent")
        /\ m_state' = Append(m_state, "UNDEFINED")
        /\ IF hasChild_NoLock(id)
           THEN Ends(t, FALSE, <<>>) /\ UNCHANGED n_children
           ELSE n_children' = Append(n_children, [id |-> id, node |-> new]) /\ Goes(t, "added", new)

n_unregisterPlugin(t) ==
    /\ At(t, "unregister", "begun")
    /\ n_removeChild(n_call[t].id)
    /\ Ends(t, hasChild_NoLock(n_call[t].id), <<>>)
    /\ UNCHANGED m_state

\* The state is looked at, and set, without a lock
connectPlugin(t) ==
    LET node == n_call[t].node IN
    \/ /\ At(t, "connect", "begun")
       /\ LET found == n_getChild(n_call[t].id)
          IN  IF found = NoNode THEN Ends(t, FALSE, <<>>) ELSE Goes(t, "found", found)
       /\ UNCHANGED m_state
    \/ /\ At(t, "connect", "found")
       /\ IF m_state[node] = "CONNECTED" THEN Ends(t, FALSE, <<>>) ELSE Goes(t, "set", node)
       /\ UNCHANGED m_state
    \/ /\ At(t, "connect", "set")
       /\ m_state' = [m_state EXCEPT ![node] = "CONNECTED"]
       /\ Ends(t, TRUE, <<>>)

disconnectPlugin(t) ==
    \/ /\ At(t, "disconnect", "begun")
       /\ LET found == n_getChild(n_call[t].id)
          IN  IF found = NoNode THEN Ends(t, FALSE, <<>>) ELSE Goes(t, "found", found)
       /\ UNCHANGED m_state
    \/ /\ At(t, "disconnect", "found")
       /\ m_state' = [m_state EXCEPT ![n_call[t].node] = "DISCONNECTED"]
       /\ Ends(t, TRUE, <<>>)

\* The ids, then each child that is still there, then what its state is
listPlugins(t) ==
    LET c == n_call[t] IN
    \/ /\ At(t, "list", "begun")
       /\ n_call' = [n_call EXCEPT ![t].ids = getChildrenIdList, ![t].step = "next"]
       /\ UNCHANGED <<n_result, n_calls>>
    \/ /\ At(t, "list", "next") /\ c.ids # <<>>
       /\ LET found == n_getChild(Head(c.ids))
          IN  n_call' = IF found = NoNode THEN [n_call EXCEPT ![t].ids = Tail(@)]
                      ELSE [n_call EXCEPT ![t].step = "state", ![t].node = found]
       /\ UNCHANGED <<n_result, n_calls>>
    \/ /\ At(t, "list", "state")
       /\ n_call' = [n_call EXCEPT ![t].step = "next", ![t].ids = Tail(@),
                               ![t].listed = Append(@, <<Head(c.ids), m_state[c.node]>>)]
       /\ UNCHANGED <<n_result, n_calls>>
    \/ /\ At(t, "list", "next") /\ c.ids = <<>>
       /\ Ends(t, TRUE, [listed |-> c.listed, always |-> n_watch[t].always,
                         ever |-> n_watch[t].ever])

\* createInterface of NodeBase: the interface, which is found when it is not added
createInterface(t) ==
    LET id == n_call[t].id IN
    \/ /\ At(t, "create", "begun")
       /\ addInterface(id)
       /\ IF hasInterface_NoLock(id) THEN Goes(t, "find", NoNode) ELSE Ends(t, TRUE, <<TRUE>>)
    \/ /\ At(t, "create", "find")
       /\ Ends(t, hasInterface_NoLock(id), <<n_watch[t].gone>>)
       /\ UNCHANGED m_interfaces

removeInterface(t) ==
    /\ At(t, "remove", "begun")
    /\ m_interfaces' = m_interfaces \ {n_call[t].id}
    /\ Ends(t, hasInterface_NoLock(n_call[t].id), <<>>)

NodeNext ==
    \E t \in Callers :
        \/ \E op \in {"register", "unregister", "connect", "disconnect"}, id \in PluginIds :
             Begin(t, op, id)
        \/ Begin(t, "list", NoNode)
        \/ \E op \in {"create", "remove"}, id \in InterfaceIds : Begin(t, op, id)
        \/ registerPlugin(t) /\ UNCHANGED m_interfaces /\ Watched
        \/ n_addChild(t) /\ UNCHANGED m_interfaces /\ Watched
        \/ n_unregisterPlugin(t) /\ UNCHANGED m_interfaces /\ Watched
        \/ connectPlugin(t) /\ UNCHANGED <<n_children, m_interfaces>> /\ Watched
        \/ disconnectPlugin(t) /\ UNCHANGED <<n_children, m_interfaces>> /\ Watched
        \/ listPlugins(t) /\ UNCHANGED <<n_children, m_state, m_interfaces>> /\ Watched
        \/ createInterface(t) /\ UNCHANGED <<n_children, m_state>> /\ Watched
        \/ removeInterface(t) /\ UNCHANGED <<n_children, m_state>> /\ Watched

NodeSpec == NodeInit /\ [][NodeNext]_nodeVars
-----------------------------------------------------------------------------
(* A list holds each plug-in that was registered all the time once, and only  *)
(* plug-ins that were registered at some time of the call; the state listed   *)
(* of the former is one the plug-in had in that time.                         *)
ListExact ==
    n_result.op = "list" =>
        LET given == n_result.given
            Ids == {given.listed[n][1] : n \in DOMAIN given.listed}
        IN  /\ \A n, k \in DOMAIN given.listed : given.listed[n][1] = given.listed[k][1] => n = k
            /\ given.always \subseteq Ids
            /\ Ids \subseteq {e[1] : e \in given.ever}
            /\ \A n \in DOMAIN given.listed :
                 given.listed[n][1] \in given.always => given.listed[n] \in given.ever

(* createInterface gives nothing only when the interface it met was removed   *)
(* before it could be found.                                                  *)
CreateFinds ==
    n_result.op = "create" /\ ~n_result.ok => n_result.given = <<TRUE>>

(* What a call of the service about its plug-ins answers held while it ran,   *)
(* whichever other connections register, list and unregister meanwhile.       *)
ChildrenExact == ListExact /\ CreateFinds
=============================================================================
