------------------------------- MODULE MCServices -------------------------------
(* The components of the framework that meet only through the calls modelled  *)
(* inside them, each checked by itself: Scenarios names those that run, the   *)
(* others stay in their initial state.                                        *)
EXTENDS HandlerRunner, ParsedIoQueue, RpcCalls, ServerContexts, SocketManager, Packets,
        PluginRegistration, ServiceNode

CONSTANTS Scenarios
-----------------------------------------------------------------------------
VARIABLE scenario

\* Remote calls where one pending method is too many already for a second one
RL == INSTANCE RpcCalls WITH MAX_PENDING_METHODS <- 0
-----------------------------------------------------------------------------
Init ==
    /\ scenario \in Scenarios
    /\ QueueInit /\ RunnerInit /\ RpcInit /\ ContextsInit /\ PluginInit
    /\ SocketInit /\ (scenario # "sockets" => kind = CHOOSE k \in Kinds : TRUE)
    /\ PacketsInit /\ (scenario # "packets" => \A s \in Senders : size[s] = 0)
    /\ NodeInit /\ (scenario # "children" => n_children = <<>>)

Next ==
    \/ scenario = "queue" /\ QueueNext /\ UNCHANGED <<scenario, hvars, rvars, svars, mvars, packetVars, pluginVars, nodeVars>>
    \/ scenario = "runner" /\ RunnerNext /\ UNCHANGED <<scenario, qvars, rvars, svars, mvars, packetVars, pluginVars, nodeVars>>
    \/ scenario = "rpc" /\ RpcNext /\ UNCHANGED <<scenario, qvars, hvars, svars, mvars, packetVars, pluginVars, nodeVars>>
    \/ scenario = "limit" /\ RL!RpcNext /\ UNCHANGED <<scenario, qvars, hvars, svars, mvars, packetVars, pluginVars, nodeVars>>
    \/ scenario = "contexts" /\ ContextsNext /\ UNCHANGED <<scenario, qvars, hvars, rvars, mvars, packetVars, pluginVars, nodeVars>>
    \/ scenario = "sockets" /\ SocketNext /\ UNCHANGED <<scenario, qvars, hvars, rvars, svars, packetVars, pluginVars, nodeVars>>
    \/ scenario = "packets" /\ PacketsNext /\ UNCHANGED <<scenario, qvars, hvars, rvars, svars, mvars, pluginVars, nodeVars>>
    \/ scenario = "plugins" /\ PluginNext /\ UNCHANGED <<scenario, qvars, hvars, rvars, svars, mvars, packetVars, nodeVars>>
    \/ scenario = "children" /\ NodeNext /\ UNCHANGED <<scenario, qvars, hvars, rvars, svars, mvars, packetVars, pluginVars>>

vars == <<scenario, qvars, hvars, rvars, svars, mvars, packetVars, pluginVars, nodeVars>>

\* The fairness of each component, while it runs
Spec ==
    /\ Init /\ [][Next]_vars
    /\ WF_qvars(scenario = "queue" /\ Parse) /\ WF_qvars(scenario = "queue" /\ Return)
    /\ \A t \in Handlers : WF_hvars(scenario = "runner" /\ Step(t))
    /\ WF_rvars(scenario = "rpc" /\ Receiver)
    /\ \A c \in Calls : WF_rvars(scenario = "rpc" /\ Caller(c))
    /\ WF_rvars(scenario = "limit" /\ RL!Receiver)
    /\ \A c \in Calls : WF_rvars(scenario = "limit" /\ RL!Caller(c))
    /\ WF_svars(scenario = "contexts" /\ Deleter)
    /\ WF_svars(scenario = "contexts" /\ Owner)
    /\ \A c \in Contexts : WF_svars(scenario = "contexts" /\ ReceiverStep(c))
    /\ WF_mvars(scenario = "sockets" /\ Thread) /\ WF_mvars(scenario = "sockets" /\ User)
    /\ \A p \in Plugins : /\ WF_pluginVars(scenario = "plugins" /\ MainStep(p))
                          /\ WF_pluginVars(scenario = "plugins" /\ DispatcherStep(p))
                          /\ WF_pluginVars(scenario = "plugins" /\ ServerStep(p))
-----------------------------------------------------------------------------
(* Every join of a thread returns: run() of HandlerRunner, the destructors of *)
(* the queue, of a connection context and of an event dispatcher, and the     *)
(* deactivation of a socket manager.                                          *)
JoinsReturn ==
    /\ scenario = "runner" => RunReturns
    /\ DestructorReturns
    /\ ContextsFreed
    /\ DeactivateReturns
    /\ DeinitReturns

(* Every wait for another thread's answer returns: that of a reader of the    *)
(* queue as long as its parser does not fail, and that of a remote call.      *)
WaitsReturn == ReaderReturns /\ CallsReturn
=============================================================================
