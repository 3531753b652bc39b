---------------------------- MODULE TraceExtensions ----------------------------
(* Extensions of a trace on disk (TraceExtensionLocal): processes and threads *)
(* that ask for an extension by its name get a reader if it is ready, become  *)
(* its writer if it is missing, of another version or was left unfinished,    *)
(* and neither while somebody else writes it.  A list file names the          *)
(* extensions; it and each extension file have a lock of their own, that of   *)
(* the extension is kept until the object of its writer is destroyed.  A lock *)
(* is a mutex of the process, found by the path, and a lock of "<path>.lock", *)
(* for which lockf fails where two processes would wait for each other.       *)
(* The locks go with the id of an extension, but the list is searched by the  *)
(* name, so that a user may meet the entry of another one.                    *)
EXTENDS Integers, FiniteSets, FiniteSetsExt

CONSTANTS
    Users, Names, Nobody,
    Together,           \* whether the users are threads of one process: choices
    MaxId,        \* bound of the ids
    MaxCancels, MaxCrashes, MaxBuilds   \* bounds

ASSUME ExtensionsAssumption ==
    /\ Nobody \notin Users /\ Names # {}
    /\ MaxId \in Nat \ {0} /\ Together \subseteq BOOLEAN

VARIABLES
    together,
    user,     \* pc, name, id, state (of the header), gen (of the file it reads)
    lst,      \* entries of the list: name, id, state, current (its version)
    writing,  \* the user between truncating and writing the list, or Nobody
    lstLock, extLock,
    file,     \* of each id: gen, complete
    cancels, crashes,
    lost,     \* a crash hit somebody who was writing the list
    mistaken  \* somebody committed the entry of another, or removed it once ready

evars == <<together, user, lst, writing, lstLock, extLock, file, cancels,
           crashes, lost, mistaken>>

Ids == 1 .. MaxId
Idle == [pc |-> "idle", name |-> CHOOSE n \in Names : TRUE, id |-> 1,
         state |-> "none", gen |-> 0]
Entry(name, id, state) == [name |-> name, id |-> id, state |-> state, current |-> TRUE]

\* The trace is new, or an earlier program has left an extension behind
ExtensionsInit ==
    /\ together \in Together
    /\ user = [u \in Users |-> Idle]
    /\ \E e \in [name : Names, id : {1}, state : {"INITIALIZING", "READY"}, current : BOOLEAN] :
         \/ lst = {} /\ file = [i \in Ids |-> [gen |-> 0, complete |-> FALSE]]
         \/ lst = {e} /\ file = [i \in Ids |-> [gen |-> 0, complete |-> e.state = "READY" /\ i = 1]]
    /\ writing = Nobody
    /\ lstLock = Nobody /\ extLock = [i \in Ids |-> Nobody]
    /\ cancels = 0 /\ crashes = 0 /\ lost = FALSE /\ mistaken = FALSE

At(u, pc) == user[u].pc = pc
Goto(u, pc) == user' = [user EXCEPT ![u].pc = pc]
Named(name) == {e \in lst : e.name = name}
Builds == FoldSet(LAMBDA i, n : n + file[i].gen, 0, Ids)

LockList(u) == lstLock = Nobody /\ lstLock' = u
UnlockList == lstLock' = Nobody
-----------------------------------------------------------------------------
\* initTraceExtension
getExtension(u) ==
    /\ At(u, "idle") /\ Builds < MaxBuilds
    /\ \E n \in Names : user' = [user EXCEPT ![u].pc = "init", ![u].name = n]
    /\ LockList(u)
    /\ UNCHANGED <<together, lst, writing, extLock, file, cancels, crashes, lost, mistaken>>

\* Mutant: whatever is not ready is taken to be left behind
Mut_isStale(u, e) ==
    \/ e.state = "READY" /\ ~e.current
    \/ e.state # "READY"

\* Another version, or unfinished and its lock can be had
isStale(u, e) ==
    \/ e.state = "READY" /\ ~e.current
    \/ e.state # "READY" /\ extLock[e.id] = Nobody

\* One more than the greatest id, ++maxId
NextId(id) ==
    /\ \A e \in lst : e.id < id
    /\ id = 1 \/ \E e \in lst : e.id = id - 1

Lookup(u) ==
    /\ At(u, "init")
    /\ IF Named(user[u].name) = {}
       THEN /\ \E id \in Ids :
                 NextId(id) /\ user' = [user EXCEPT ![u].pc = "lock", ![u].id = id]
            /\ UNCHANGED lstLock
       ELSE LET e == CHOOSE x \in Named(user[u].name) : TRUE
                to(pc) == user' = [user EXCEPT ![u].pc = pc, ![u].id = e.id,
                                               ![u].state = e.state]
            IN IF isStale(u, e)
               THEN to(IF e.state = "READY" THEN "lock" ELSE "locked") /\ UNCHANGED lstLock
               ELSE to("open") /\ UnlockList
    /\ UNCHANGED <<together, lst, writing, extLock, file, cancels, crashes, lost, mistaken>>

\* m_extrw->lock(), with the list still locked; isStale has tried it already
\* where the extension is not ready
LockExtension(u) ==
    /\ \/ At(u, "lock") /\ extLock[user[u].id] = Nobody
       \/ At(u, "locked")
    /\ extLock' = [extLock EXCEPT ![user[u].id] = IF @ = Nobody THEN u ELSE @]

\* The file is cleared, and the list file as the first step of writing it
Clear(u) ==
    /\ LockExtension(u)
    /\ file' = [file EXCEPT ![user[u].id] = [gen |-> @.gen + 1, complete |-> FALSE]]
    /\ user' = [user EXCEPT ![u].pc = "list", ![u].state = "INITIALIZING"]
    /\ writing' = u
    /\ UNCHANGED <<together, lst, lstLock, cancels, crashes, lost, mistaken>>

\* The new list is written and its lock released
WriteList(u, new, pc) ==
    /\ writing = u
    /\ lst' = new /\ writing' = Nobody /\ UnlockList
    /\ user' = [user EXCEPT ![u].pc = pc,
                            ![u].state = IF pc = "open" THEN "READY" ELSE @]
    /\ UNCHANGED <<together, extLock, file, cancels, crashes, lost>>

\* What the list says of the name of a user, where it is for another id
OfAnother(u) == {e \in Named(user[u].name) : e.id # user[u].id}

AddEntry(u) ==
    /\ At(u, "list")
    /\ WriteList(u, {e \in lst : e.name # user[u].name}
                      \cup {Entry(user[u].name, user[u].id, "INITIALIZING")}, "write")
    /\ UNCHANGED mistaken

\* The extension is built and its file closed
Build(u) ==
    /\ At(u, "write")
    /\ file' = [file EXCEPT ![user[u].id].complete = TRUE]
    /\ Goto(u, "commit")
    /\ UNCHANGED <<together, lst, writing, lstLock, extLock, cancels, crashes, lost, mistaken>>

\* commit finds its entry by the name; without it, it throws
CommitLock(u) ==
    /\ At(u, "commit")
    /\ lstLock = Nobody
    /\ IF Named(user[u].name) = {} THEN Goto(u, "close") /\ UNCHANGED <<lstLock, writing>>
       ELSE LockList(u) /\ writing' = u /\ Goto(u, "ready")
    /\ UNCHANGED <<together, lst, extLock, file, cancels, crashes, lost, mistaken>>

Commit(u) ==
    /\ At(u, "ready")
    /\ WriteList(u, {IF e.name = user[u].name THEN [e EXCEPT !.state = "READY"] ELSE e : e \in lst},
                 "open")
    /\ mistaken' = (mistaken \/ OfAnother(u) # {})

\* The builder fails: its object is destroyed
Fail(u) ==
    /\ At(u, "write")
    /\ Goto(u, "close")
    /\ UNCHANGED <<together, lst, writing, lstLock, extLock, file, cancels, crashes, lost, mistaken>>

\* Parsing was cancelled: remove() is called, and the object then destroyed
Cancel(u) ==
    /\ At(u, "write") /\ cancels < MaxCancels
    /\ cancels' = cancels + 1
    /\ Goto(u, "cancelled")
    /\ UNCHANGED <<together, lst, writing, lstLock, extLock, file, crashes, lost, mistaken>>

\* remove: by the name; its file is removed before the list is written
removeLock(u) ==
    /\ user[u].pc \in {"cancelled", "close"}
    /\ LockList(u)
    /\ file' = [file EXCEPT ![user[u].id].complete = FALSE]
    /\ writing' = u
    /\ Goto(u, IF At(u, "cancelled") THEN "removing" ELSE "destroying")
    /\ UNCHANGED <<together, lst, extLock, cancels, crashes, lost, mistaken>>

remove(u) ==
    /\ user[u].pc \in {"removing", "destroying"}
    /\ WriteList(u, {e \in lst : e.name # user[u].name},
                 IF At(u, "removing") THEN "close" ELSE "gone")
    /\ mistaken' = (mistaken \/ \E e \in OfAnother(u) : e.state = "READY")

\* The reader opens the file; one that is not ready has none
Read(u) ==
    /\ At(u, "open")
    /\ IF user[u].state = "READY"
       THEN user' = [user EXCEPT ![u].pc = "read", ![u].gen = file[user[u].id].gen]
       ELSE Goto(u, "gone")
    /\ UNCHANGED <<together, lst, writing, lstLock, extLock, file, cancels, crashes, lost, mistaken>>

\* What the destructor does in any case, and as all it has to do for an object
\* that is ready or no writer
Destroyed(u) ==
    /\ user[u].pc \in {"read", "gone"}
    /\ user' = [user EXCEPT ![u] = Idle]
    /\ extLock' = [i \in Ids |-> IF extLock[i] = u THEN Nobody ELSE extLock[i]]
    /\ UNCHANGED <<together, lst, writing, lstLock, file, cancels, crashes, lost, mistaken>>

\* The process of a user is killed: the system releases its locks.  A list that was
\* being written is empty, which is read as no extensions at all.
Crash(u) ==
    /\ ~together /\ ~At(u, "idle") /\ crashes < MaxCrashes
    /\ crashes' = crashes + 1
    /\ user' = [user EXCEPT ![u] = Idle]
    /\ extLock' = [i \in Ids |-> IF extLock[i] = u THEN Nobody ELSE extLock[i]]
    /\ lstLock' = IF lstLock = u THEN Nobody ELSE lstLock
    /\ IF writing = u THEN lst' = {} /\ writing' = Nobody ELSE UNCHANGED <<lst, writing>>
    /\ lost' = (lost \/ writing = u)
    /\ UNCHANGED <<together, file, cancels, mistaken>>

\* Two processes wait for the list and for the extension of the other: lockf
\* fails for the one that asks last, which throws.  In the destructor of the
\* extension that ends the process.
Refused(u, v) ==
    /\ ~together /\ user[u].pc \in {"commit", "cancelled", "close"}
    /\ At(v, "lock") /\ extLock[user[v].id] = u
    /\ \/ user' = [user EXCEPT ![v] = Idle] /\ UnlockList /\ UNCHANGED extLock
       \/ ~At(u, "close") /\ Goto(u, "close") /\ UNCHANGED <<lstLock, extLock>>
       \/ /\ At(u, "close")
          /\ user' = [user EXCEPT ![u] = Idle]
          /\ extLock' = [i \in Ids |-> IF extLock[i] = u THEN Nobody ELSE extLock[i]]
          /\ UNCHANGED lstLock
    /\ UNCHANGED <<together, lst, writing, file, cancels, crashes, lost, mistaken>>

Step(u) ==
    \/ Lookup(u) \/ Clear(u) \/ AddEntry(u) \/ Build(u) \/ CommitLock(u) \/ Commit(u)
    \/ removeLock(u) \/ remove(u) \/ Read(u) \/ Destroyed(u)

ExtensionsNext ==
    \E u \in Users : \/ getExtension(u) \/ Step(u) \/ Fail(u) \/ Cancel(u) \/ Crash(u)
                     \/ \E v \in Users : Refused(u, v)

ExtensionsSpec == ExtensionsInit /\ [][ExtensionsNext]_evars
-----------------------------------------------------------------------------
Writers == {u \in Users : user[u].pc \in {"list", "write", "commit", "ready"}}

(* Whoever crashes, fails or cancels at whatever step, also where a second    *)
(* remove() takes the entry of another writer: ids and names are unique in    *)
(* the list, no two writers have the same file, and a writer holds its lock.  *)
(* Unless a list was lost in a crash, or the entry of another id was taken    *)
(* for the own, an entry that says READY has a complete file, and what a      *)
(* reader has opened stays as it was.                                         *)
ExtensionsSound ==
    /\ \A e1, e2 \in lst : e1.id = e2.id \/ e1.name = e2.name => e1 = e2
    /\ \A u1, u2 \in Writers : u1 # u2 => user[u1].id # user[u2].id
    /\ \A u \in Writers : extLock[user[u].id] = u
    /\ ~lost /\ ~mistaken =>
         /\ \A e \in lst : e.state = "READY" /\ e.current => file[e.id].complete
         /\ \A u \in Users : At(u, "read") => /\ file[user[u].id].complete
                                              /\ file[user[u].id].gen = user[u].gen
=============================================================================
