------------------------------- MODULE CommandLine -------------------------------
(* The executor of the command line: interfaces are registered as local        *)
(* commands or as modules, remote modules are discovered by their sockets, and *)
(* the keys on the line select one command, which a remote module is asked for.*)
EXTENDS Integers, Sequences, FiniteSets, Folds, SequencesExt

CONSTANTS
    Interfaces, \* [long, short, cli, methods], what addModule() is called with
    Nodes,      \* the identifiers of remote modules
    Remote,     \* Nodes -> the sequence of the interfaces of the node
    Lines       \* the <<first key, second key or none>> a user gives

VARIABLES m_localCmdSet, m_modules, m_supportedRemoteModules, line, outcome

clivars == <<m_localCmdSet, m_modules, m_supportedRemoteModules, line, outcome>>

\* A command is [long, short, valid]; isCommandValid() is false of one whose
\* keys or description are malformed; the short key may be missing
None == ""
Help == [long |-> "help", short |-> "H", valid |-> TRUE]
Version == [long |-> "version", short |-> "V", valid |-> TRUE]
-----------------------------------------------------------------------------
Named(x, key) == key \in {x.long, x.short}
hasCmd(cmds, key) == \E c \in cmds : Named(c, key)
getCmd(cmds, key) == CHOOSE c \in cmds : Named(c, key)

\* addCmd() throws when a key is taken
addCmdRefuses(cmds, c) ==
    \/ c.long = None
    \/ c.short # None /\ hasCmd(cmds, c.short)
    \/ hasCmd(cmds, c.long)

\* Mutant: only the commands are looked at
Mut_checkIsKeyRepeated(x) ==
    \/ hasCmd(m_localCmdSet, x.long) \/ (x.short # None /\ hasCmd(m_localCmdSet, x.short))
checkIsKeyRepeated(x) ==
    \/ hasCmd(m_localCmdSet, x.long) \/ (x.short # None /\ hasCmd(m_localCmdSet, x.short))
    \/ \E m \in m_modules : m.long = x.long \/ (x.short # None /\ m.short = x.short)

\* addMethod() of each method, up to the first that throws
addMethod(global, s, c) ==
    IF s.thrown \/ ~c.valid \/ addCmdRefuses(s.cmds, c) \/ (global /\ checkIsKeyRepeated(c))
    THEN [s EXCEPT !.thrown = TRUE]
    ELSE [s EXCEPT !.cmds = @ \cup {c}]
addInterface(global, cmds, i) ==
    FoldLeft(LAMBDA s, c : addMethod(global, s, c), [cmds |-> cmds, thrown |-> FALSE], i.methods)

\* std::map keeps one entry of equal keys
Enter(m) == {o \in m_modules : <<o.short, o.long>> # <<m.short, m.long>>} \cup {m}
-----------------------------------------------------------------------------
Init ==
    /\ m_localCmdSet = {Help, Version}
    /\ m_modules = {}
    /\ m_supportedRemoteModules = {}
    /\ line \in Lines
    /\ outcome = [kind |-> "registering"]

Thrown == [kind |-> "thrown"]
Registering == outcome.kind = "registering"

addGlobal(i) ==
    LET s == addInterface(TRUE, m_localCmdSet, i)
    IN  /\ m_localCmdSet' = s.cmds
        /\ outcome' = IF s.thrown THEN Thrown ELSE outcome
        /\ UNCHANGED <<m_modules, m_supportedRemoteModules, line>>

addLocalModule(i) ==
    LET s == addInterface(FALSE, {Help}, i)
        m == [long |-> i.long, short |-> i.short, local |-> TRUE, cmds |-> s.cmds]
    IN  /\ IF checkIsKeyRepeated(i)
           THEN outcome' = Thrown /\ UNCHANGED m_modules
           ELSE outcome' = (IF s.thrown THEN Thrown ELSE outcome) /\ m_modules' = Enter(m)
        /\ UNCHANGED <<m_localCmdSet, m_supportedRemoteModules, line>>

addModule(i) == IF i.long = None THEN addGlobal(i) ELSE addLocalModule(i)

addRemoteModule(n) ==
    /\ IF n \in m_supportedRemoteModules
       THEN outcome' = Thrown /\ UNCHANGED m_supportedRemoteModules
       ELSE m_supportedRemoteModules' = m_supportedRemoteModules \cup {n} /\ UNCHANGED outcome
    /\ UNCHANGED <<m_localCmdSet, m_modules, line>>

\* Of the nodes whose sockets are found, those that are supported
discoverModules(found) ==
    LET Kept(m) == \A n \in found : <<m.short, m.long>> # <<None, n>>
    IN  {m \in m_modules : Kept(m)}
        \cup {[long |-> n, short |-> None, local |-> FALSE, cmds |-> {Help}] :
                 n \in found \cap m_supportedRemoteModules}
-----------------------------------------------------------------------------
\* getCliCommandSetDescription() of a node: every valid method of its
\* interfaces, unless two of them share a key
CliMethods(n) ==
    {<<i, j>> \in (DOMAIN Remote[n]) \X (1 .. 3) :
        j \in DOMAIN Remote[n][i].methods /\ Remote[n][i].cli /\ Remote[n][i].methods[j].valid}
MethodOf(n, ij) == Remote[n][ij[1]].methods[ij[2]]
isCommandSetValid(n) ==
    \A x, y \in CliMethods(n) : x # y =>
        LET c == MethodOf(n, x) d == MethodOf(n, y)
        IN  c.long # d.long /\ (c.short # None => c.short # d.short)

\* getCliCommandDescription(): the first method with the key ends the search in
\* its interface, the last interface that has a valid one wins
FirstNamed(i, key) == SelectInSeq(i.methods, LAMBDA c : Named(c, key))
Describes(i, key) ==
    i.cli /\ FirstNamed(i, key) # 0 /\ i.methods[FirstNamed(i, key)].valid
getCliCommandDescription(n, key) ==
    LET last == SelectLastInSeq(Remote[n], LAMBDA i : Describes(i, key))
    IN  {Remote[n][i].methods[FirstNamed(Remote[n][i], key)] : i \in {last} \ {0}}

\* loadModuleCommandSet() for the help of a module: a set that is not valid is
\* refused, a command that conflicts with the help of the module throws
ModuleHelp(m) ==
    IF m.local THEN [kind |-> "help", module |-> m.long, cmds |-> m.cmds]
    ELSE IF \/ ~isCommandSetValid(m.long)
            \/ \E x \in CliMethods(m.long) : addCmdRefuses(m.cmds, MethodOf(m.long, x))
    THEN Thrown
    ELSE [kind |-> "help", module |-> m.long,
          cmds |-> m.cmds \cup {MethodOf(m.long, x) : x \in CliMethods(m.long)}]

Run(module, c) == [kind |-> "run", module |-> module, command |-> c]

\* A remote module may be gone, or its answer fail
ModuleCommand(m, key) ==
    IF key = None THEN {ModuleHelp(m)}
    ELSE IF hasCmd(m.cmds, key)
    THEN LET c == getCmd(m.cmds, key) IN {IF c = Help THEN ModuleHelp(m) ELSE Run(m.long, c)}
    ELSE IF m.local THEN {Thrown}
    ELSE {Run(m.long, c) : c \in getCliCommandDescription(m.long, key)} \cup {Thrown}

LocalCommand(key) ==
    IF ~hasCmd(m_localCmdSet, key) THEN Thrown
    ELSE IF getCmd(m_localCmdSet, key) = Help
    THEN [kind |-> "help", module |-> None, cmds |-> m_localCmdSet]
    ELSE Run(None, getCmd(m_localCmdSet, key))

\* execute(): lookupModule() takes precedence over the local commands
execute(found) ==
    LET modules == discoverModules(found)
        matching == {m \in modules : Named(m, line[1])}
    IN  /\ m_modules' = modules
        /\ IF matching = {} THEN outcome' = LocalCommand(line[1])
           ELSE \E m \in matching : outcome' \in ModuleCommand(m, line[2])
        /\ UNCHANGED <<m_localCmdSet, m_supportedRemoteModules, line>>

Next ==
    /\ Registering
    /\ \/ \E i \in Interfaces : addModule(i)
       \/ \E n \in Nodes : addRemoteModule(n)
       \/ \E found \in SUBSET Nodes : execute(found)
-----------------------------------------------------------------------------
Overlap(x, y) == x.long = y.long \/ (x.short # None /\ x.short = y.short)

\* No two things that can be named at the same place share a key: the local
\* commands and modules, the commands of a module; a remote module, whose name
\* is not checked when it is discovered, is left out (checkIsKeyRepeated(),
\* addCmd()).
KeysDistinct ==
    LET top == m_localCmdSet \cup {m \in m_modules : m.local}
    IN  /\ \A x, y \in top : x # y => ~Overlap(x, y)
        /\ \A m \in m_modules : \A x, y \in m.cmds : x # y => ~Overlap(x, y)

\* What runs is what the keys name and the help lists: a local command or one of
\* the module named, and of a remote module with a valid command set the one
\* command in the list of its help that has the key (execute(),
\* getCliCommandDescription(), getCliCommandSetDescription()).
RunsTheNamed ==
    outcome.kind = "run" =>
        IF outcome.module = None
        THEN outcome.command \in m_localCmdSet /\ Named(outcome.command, line[1])
        ELSE \E m \in m_modules :
            /\ m.long = outcome.module /\ Named(m, line[1])
            /\ Named(outcome.command, line[2]) /\ outcome.command.valid
            /\ m.local => outcome.command \in m.cmds
            /\ ~m.local /\ ModuleHelp(m).kind = "help" =>
                 {c \in ModuleHelp(m).cmds : Named(c, line[2])} = {outcome.command}

\* A registered local command stays reachable by each of its keys as long as no
\* remote module has taken the name.
Reachable ==
    \A c \in m_localCmdSet :
        (outcome.kind = "run" /\ line[1] # None /\ Named(c, line[1])
            /\ ~\E m \in m_modules : ~m.local /\ Named(m, line[1]))
        => outcome.command = c

LookupExact == KeysDistinct /\ RunsTheNamed /\ Reachable
=============================================================================
