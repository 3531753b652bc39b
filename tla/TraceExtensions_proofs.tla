------------------------ MODULE TraceExtensions_proofs ------------------------
(***************************************************************************)
(* Theorems about the extensions of a trace, for every set of users and    *)
(* names and every bound.                                                  *)
(***************************************************************************)
EXTENDS TraceExtensions, TLAPS

-----------------------------------------------------------------------------
(* Where a user is, and what it has then.                                  *)

\* With an extension that is not finished, whose entry is in the list or was.
Unready == {"write", "commit", "ready", "cancelled", "removing", "close", "destroying"}

\* With the list.
WritingPcs == {"list", "ready", "removing", "destroying"}
ListPcs == {"init", "lock", "locked"} \cup WritingPcs

\* With the lock of an extension, at most.
ExtPcs == Unready \cup {"list", "open", "read", "gone"}

Pcs == ListPcs \cup ExtPcs \cup {"idle"}

UserType == [pc : Pcs, name : Names, id : Ids,
             state : {"none", "INITIALIZING", "READY"}, gen : Nat]

ExtensionsType ==
    /\ user \in [Users -> UserType]
    /\ lst \subseteq [name : Names, id : Ids, state : {"INITIALIZING", "READY"},
                      current : BOOLEAN]
    /\ writing \in Users \cup {Nobody} /\ lstLock \in Users \cup {Nobody}
    /\ extLock \in [Ids -> Users \cup {Nobody}]
    /\ file \in [Ids -> [gen : Nat, complete : BOOLEAN]]
    /\ together \in BOOLEAN /\ lost \in BOOLEAN /\ mistaken \in BOOLEAN

\* Who has which lock.  Nobody else can have locked an extension that tryLock
\* has found unlocked: that takes the lock of the list.
LocksKept ==
    /\ \A u \in Users : lstLock = u <=> user[u].pc \in ListPcs
    /\ \A u \in Users : writing = u <=> user[u].pc \in WritingPcs
    /\ \A u \in Users : user[u].pc \in Unready \cup {"list"} => extLock[user[u].id] = u
    /\ \A u \in Users : user[u].pc = "locked" => extLock[user[u].id] = Nobody
    /\ \A u \in Users, i \in Ids :
         extLock[i] = u => user[u].id = i /\ user[u].pc \in ExtPcs

\* Who is about to write an extension has found its entry, which is not one
\* that readers may use, or an id of its own.
ListKept ==
    /\ \A e1, e2 \in lst : e1.id = e2.id \/ e1.name = e2.name => e1 = e2
    /\ \A u \in Users : user[u].pc \in {"lock", "locked", "list"} =>
         \A e \in lst : /\ e.id = user[u].id <=> e.name = user[u].name
                        /\ e.id = user[u].id => ~(e.state = "READY" /\ e.current)

\* The entry for the id of a writer, if there is one, is the one that it has
\* added, not yet ready; that of a reader is there, and ready.  Between locking
\* the list and writing it nobody takes the entry that is to be committed.
FilesKept ==
    /\ \A e \in lst : e.state = "READY" /\ e.current => file[e.id].complete
    /\ \A u \in Users : user[u].pc \in {"commit", "ready"} => file[user[u].id].complete
    /\ \A u \in Users : user[u].pc \in Unready =>
         \A e \in lst : e.id = user[u].id =>
           e.name = user[u].name /\ e.state # "READY" /\ e.current
    /\ \A u \in Users : user[u].pc = "ready" => \E e \in lst : e.name = user[u].name
    /\ \A u \in Users :
         user[u].pc = "read" \/ (user[u].pc = "open" /\ user[u].state = "READY") =>
           \E e \in lst : e.id = user[u].id /\ e.state = "READY" /\ e.current
    /\ \A u \in Users : user[u].pc = "read" => file[user[u].id].gen = user[u].gen

EInv == /\ ExtensionsType /\ LocksKept /\ ListKept
        /\ ~lost /\ ~mistaken => FilesKept

-----------------------------------------------------------------------------
\* A user that starts anew is a user.
LEMMA IdleType == Idle \in UserType
BY ExtensionsAssumption DEF Idle, UserType, Pcs, Ids

\* What a user finds in the list: no entry of the name, one to write anew, or one
\* to read or leave alone.
LEMMA LookupCases ==
    ASSUME NEW u \in Users, Lookup(u)
    PROVE  \/ /\ \A e \in lst : e.name # user[u].name
              /\ \E id \in Ids : /\ \A e \in lst : e.id < id
                                 /\ user' = [user EXCEPT ![u].pc = "lock", ![u].id = id]
              /\ lstLock' = lstLock
           \/ \E e \in lst :
                /\ e.name = user[u].name /\ isStale(u, e)
                /\ user' = [user EXCEPT ![u].pc = IF e.state = "READY" THEN "lock" ELSE "locked",
                                        ![u].id = e.id, ![u].state = e.state]
                /\ lstLock' = lstLock
           \/ \E e \in lst :
                /\ e.name = user[u].name /\ ~isStale(u, e)
                /\ user' = [user EXCEPT ![u].pc = "open", ![u].id = e.id, ![u].state = e.state]
                /\ lstLock' = Nobody
<1>1. CASE Named(user[u].name) = {}
  BY <1>1 DEF Lookup, Named, NextId
<1>2. CASE Named(user[u].name) # {}
  <2> DEFINE e == CHOOSE x \in Named(user[u].name) : TRUE
  <2>1. e \in lst /\ e.name = user[u].name
    BY <1>2 DEF Named
  <2> QED
    BY <1>2, <2>1 DEF Lookup, UnlockList
<1> QED
  BY <1>1, <1>2

\* Every step keeps the types.
LEMMA TypeStep ==
    ASSUME ExtensionsType, [ExtensionsNext]_evars
    PROVE  ExtensionsType'
<1> USE ExtensionsAssumption
<1>0. user \in [Users -> UserType]
  BY DEF ExtensionsType
<1>1. ASSUME NEW u \in Users, getExtension(u)
       PROVE  ExtensionsType'
  <2>1. "init" \in Pcs
    BY DEF Pcs, ListPcs, WritingPcs, ExtPcs, Unready
  <2>2. user' \in [Users -> UserType]
    <3>1. PICK n \in Names : user' = [user EXCEPT ![u].pc = "init", ![u].name = n]
      BY <1>1 DEF getExtension
    <3> QED
      BY <1>0, <2>1, <3>1 DEF UserType
  <2> QED
    BY <1>1, <2>2 DEF getExtension, LockList, ExtensionsType
<1>2. ASSUME NEW u \in Users, Lookup(u)
       PROVE  ExtensionsType'
  <2>1. "lock" \in Pcs /\ "locked" \in Pcs /\ "open" \in Pcs
    BY DEF Pcs, ListPcs, WritingPcs, ExtPcs, Unready
  <2>2. user' \in [Users -> UserType]
    <3>1. ASSUME NEW id \in Ids, user' = [user EXCEPT ![u].pc = "lock", ![u].id = id]
          PROVE  user' \in [Users -> UserType]
      BY <1>0, <2>1, <3>1 DEF UserType
    <3>2. ASSUME NEW e \in lst, NEW pc \in Pcs,
                 user' = [user EXCEPT ![u].pc = pc, ![u].id = e.id, ![u].state = e.state]
          PROVE  user' \in [Users -> UserType]
      <4>1. e.id \in Ids /\ e.state \in {"INITIALIZING", "READY"}
        BY DEF ExtensionsType
      <4> DEFINE r == [user[u] EXCEPT !.pc = pc, !.id = e.id, !.state = e.state]
      <4>2. user[u] \in UserType
        BY <1>0
      <4>3. r \in UserType
        BY <4>1, <4>2 DEF UserType
      <4>4. user' = [user EXCEPT ![u] = r]
        BY <1>0, <3>2
      <4> HIDE DEF r
      <4> QED
        BY <1>0, <4>3, <4>4
    <3>3. \/ \E id \in Ids : user' = [user EXCEPT ![u].pc = "lock", ![u].id = id]
          \/ \E e \in lst, pc \in Pcs :
               user' = [user EXCEPT ![u].pc = pc, ![u].id = e.id, ![u].state = e.state]
      <4>1. CASE \E e \in lst :
                   user' = [user EXCEPT ![u].pc = IF e.state = "READY" THEN "lock" ELSE "locked",
                                        ![u].id = e.id, ![u].state = e.state]
        <5>1. PICK e \in lst :
                user' = [user EXCEPT ![u].pc = IF e.state = "READY" THEN "lock" ELSE "locked",
                                     ![u].id = e.id, ![u].state = e.state]
          BY <4>1
        <5>2. (IF e.state = "READY" THEN "lock" ELSE "locked") \in Pcs
          BY <2>1
        <5> QED
          BY <5>1, <5>2
      <4>2. CASE \E e \in lst :
                   user' = [user EXCEPT ![u].pc = "open", ![u].id = e.id, ![u].state = e.state]
        BY <2>1, <4>2
      <4>3. CASE \E id \in Ids : user' = [user EXCEPT ![u].pc = "lock", ![u].id = id]
        BY <4>3
      <4> QED
        BY <1>2, <4>1, <4>2, <4>3, LookupCases
    <3> QED
      BY <3>1, <3>2, <3>3
  <2> QED
    BY <1>2, <2>2 DEF Lookup, UnlockList, ExtensionsType
<1>3. ASSUME NEW u \in Users, Clear(u)
       PROVE  ExtensionsType'
  <2>1. "list" \in Pcs
    BY DEF Pcs, ListPcs, WritingPcs, ExtPcs, Unready
  <2>2. user' \in [Users -> UserType]
    BY <1>0, <1>3, IdleType, <2>1 DEF Clear, UserType
  <2> QED
    <3>1. user[u].id \in Ids
      BY <1>0 DEF UserType
    <3>2. /\ extLock' \in [Ids -> Users \cup {Nobody}]
          /\ file' \in [Ids -> [gen : Nat, complete : BOOLEAN]]
      BY <1>3, <3>1 DEF Clear, LockExtension, ExtensionsType
    <3> QED
      BY <1>3, <2>2, <3>2 DEF Clear, ExtensionsType
<1>4. ASSUME NEW u \in Users, AddEntry(u)
       PROVE  ExtensionsType'
  <2>1. "write" \in Pcs
    BY DEF Pcs, ListPcs, WritingPcs, ExtPcs, Unready
  <2>2. user' \in [Users -> UserType]
    BY <1>0, <1>4, IdleType, <2>1 DEF AddEntry, WriteList, UserType
  <2> QED
    <3>1. user[u].id \in Ids /\ user[u].name \in Names
      BY <1>0 DEF UserType
    <3>2. Entry(user[u].name, user[u].id, "INITIALIZING")
            \in [name : Names, id : Ids, state : {"INITIALIZING", "READY"}, current : BOOLEAN]
      BY <3>1 DEF Entry
    <3>3. lst' \subseteq [name : Names, id : Ids, state : {"INITIALIZING", "READY"},
                          current : BOOLEAN]
      BY <1>4, <3>2 DEF AddEntry, WriteList, ExtensionsType
    <3> QED
      BY <1>4, <2>2, <3>3 DEF AddEntry, WriteList, UnlockList, ExtensionsType, ExtensionsType
<1>5. ASSUME NEW u \in Users, Build(u)
       PROVE  ExtensionsType'
  <2>1. "commit" \in Pcs
    BY DEF Pcs, ListPcs, WritingPcs, ExtPcs, Unready
  <2>2. user' \in [Users -> UserType]
    BY <1>0, <1>5, IdleType, <2>1 DEF Build, Goto, UserType
  <2> QED
    BY <1>5, <2>2 DEF Build, ExtensionsType
<1>6. ASSUME NEW u \in Users, CommitLock(u)
       PROVE  ExtensionsType'
  <2>1. "close" \in Pcs /\ "ready" \in Pcs
    BY DEF Pcs, ListPcs, WritingPcs, ExtPcs, Unready
  <2>2. user' \in [Users -> UserType]
    <3>1. Goto(u, "close") \/ Goto(u, "ready")
      BY <1>6 DEF CommitLock
    <3> QED
      BY <1>0, <2>1, <3>1 DEF Goto, UserType
  <2> QED
    BY <1>6, <2>2 DEF CommitLock, LockList, ExtensionsType
<1>7. ASSUME NEW u \in Users, Commit(u)
       PROVE  ExtensionsType'
  <2>1. "open" \in Pcs
    BY DEF Pcs, ListPcs, WritingPcs, ExtPcs, Unready
  <2>2. user' \in [Users -> UserType]
    BY <1>0, <1>7, IdleType, <2>1 DEF Commit, WriteList, UserType
  <2> QED
    BY <1>7, <2>2 DEF Commit, WriteList, UnlockList, ExtensionsType
<1>8. ASSUME NEW u \in Users, removeLock(u)
       PROVE  ExtensionsType'
  <2>1. "removing" \in Pcs /\ "destroying" \in Pcs
    BY DEF Pcs, ListPcs, WritingPcs, ExtPcs, Unready
  <2>2. user' \in [Users -> UserType]
    BY <1>0, <1>8, IdleType, <2>1 DEF removeLock, Goto, UserType
  <2> QED
    BY <1>8, <2>2 DEF removeLock, LockList, ExtensionsType
<1>9. ASSUME NEW u \in Users, remove(u)
       PROVE  ExtensionsType'
  <2>1. "close" \in Pcs /\ "gone" \in Pcs
    BY DEF Pcs, ListPcs, WritingPcs, ExtPcs, Unready
  <2>2. user' \in [Users -> UserType]
    <3>1. PICK pc \in {"close", "gone"} : user' = [user EXCEPT ![u].pc = pc, ![u].state = @]
      BY <1>9 DEF remove, WriteList
    <3> QED
      BY <1>0, <2>1, <3>1 DEF UserType
  <2> QED
    BY <1>9, <2>2 DEF remove, WriteList, UnlockList, ExtensionsType
<1>10. ASSUME NEW u \in Users, Read(u)
       PROVE  ExtensionsType'
  <2>1. "read" \in Pcs /\ "gone" \in Pcs
    BY DEF Pcs, ListPcs, WritingPcs, ExtPcs, Unready
  <2>2. user' \in [Users -> UserType]
    BY <1>0, <1>10, IdleType, <2>1 DEF Read, Goto, UserType
  <2> QED
    BY <1>10, <2>2 DEF Read, ExtensionsType
<1>11. ASSUME NEW u \in Users, Destroyed(u)
       PROVE  ExtensionsType'
  <2>1. user' \in [Users -> UserType]
    BY <1>0, <1>11, IdleType DEF Destroyed, UserType
  <2> QED
    BY <1>11, <2>1 DEF Destroyed, ExtensionsType
<1>12. ASSUME NEW u \in Users, Fail(u)
       PROVE  ExtensionsType'
  <2>1. "close" \in Pcs
    BY DEF Pcs, ListPcs, WritingPcs, ExtPcs, Unready
  <2>2. user' \in [Users -> UserType]
    BY <1>0, <1>12, IdleType, <2>1 DEF Fail, Goto, UserType
  <2> QED
    BY <1>12, <2>2 DEF Fail, ExtensionsType
<1>13. ASSUME NEW u \in Users, Cancel(u)
       PROVE  ExtensionsType'
  <2>1. "cancelled" \in Pcs
    BY DEF Pcs, ListPcs, WritingPcs, ExtPcs, Unready
  <2>2. user' \in [Users -> UserType]
    BY <1>0, <1>13, IdleType, <2>1 DEF Cancel, Goto, UserType
  <2> QED
    BY <1>13, <2>2 DEF Cancel, ExtensionsType
<1>14. ASSUME NEW u \in Users, Crash(u)
       PROVE  ExtensionsType'
  <2>1. user' \in [Users -> UserType]
    BY <1>0, <1>14, IdleType DEF Crash, UserType
  <2> QED
    BY <1>14, <2>1 DEF Crash, ExtensionsType
<1>15. ASSUME NEW u \in Users, NEW v \in Users, Refused(u, v)
       PROVE  ExtensionsType'
  <2>1. "close" \in Pcs
    BY DEF Pcs, ExtPcs, Unready
  <2>2. user' \in [Users -> UserType]
    <3>1. \/ \E w \in {u, v} : user' = [user EXCEPT ![w] = Idle]
          \/ user' = [user EXCEPT ![u].pc = "close"]
      BY <1>15 DEF Refused, Goto
    <3> QED
      BY <1>0, <2>1, <3>1, IdleType DEF UserType
  <2> QED
    BY <1>15, <2>2 DEF Refused, UnlockList, ExtensionsType
<1>16. CASE UNCHANGED evars
  BY <1>16 DEF evars, ExtensionsType
<1> QED
  BY <1>1, <1>2, <1>3, <1>4, <1>5, <1>6, <1>7, <1>8, <1>9, <1>10, <1>11, <1>12, <1>13, <1>14,
     <1>15, <1>16 DEF ExtensionsNext, Step

\* Every step keeps to the locks.
LEMMA LocksStep ==
    ASSUME EInv, [ExtensionsNext]_evars
    PROVE  LocksKept'
<1> USE ExtensionsAssumption DEF EInv, LocksKept, ExtensionsType, UserType, Pcs, ListPcs, WritingPcs, ExtPcs, Unready
<1>1. ASSUME NEW u \in Users, getExtension(u)
       PROVE  LocksKept'
  BY <1>1 DEF getExtension, LockList, At
<1>2. ASSUME NEW u \in Users, Lookup(u)
       PROVE  LocksKept'
  <2>1. /\ user[u].pc = "init"
        /\ UNCHANGED <<together, lst, writing, extLock, file, cancels, crashes, lost, mistaken>>
    BY <1>2 DEF Lookup, At
  <2>2. ASSUME \A e \in lst : e.name # user[u].name, lstLock' = lstLock,
               NEW id \in Ids, \A e \in lst : e.id < id,
               user' = [user EXCEPT ![u].pc = "lock", ![u].id = id]
        PROVE  LocksKept'
    BY <2>1, <2>2
  <2>3. ASSUME NEW e \in lst, e.name = user[u].name, isStale(u, e),
               user' = [user EXCEPT ![u].pc = IF e.state = "READY" THEN "lock" ELSE "locked",
                                    ![u].id = e.id, ![u].state = e.state],
               lstLock' = lstLock
        PROVE  LocksKept'
    BY <2>1, <2>3 DEF isStale
  <2>4. ASSUME NEW e \in lst, e.name = user[u].name, ~isStale(u, e),
               user' = [user EXCEPT ![u].pc = "open", ![u].id = e.id, ![u].state = e.state],
               lstLock' = Nobody
        PROVE  LocksKept'
    BY <2>1, <2>4
  <2> QED
    BY <1>2, <2>2, <2>3, <2>4, LookupCases
<1>3. ASSUME NEW u \in Users, Clear(u)
       PROVE  LocksKept'
  BY <1>3 DEF Clear, LockExtension, At
<1>4. ASSUME NEW u \in Users, AddEntry(u)
       PROVE  LocksKept'
  BY <1>4 DEF AddEntry, WriteList, UnlockList, At, Entry
<1>5. ASSUME NEW u \in Users, Build(u)
       PROVE  LocksKept'
  BY <1>5 DEF Build, Goto, At
<1>6. ASSUME NEW u \in Users, CommitLock(u)
       PROVE  LocksKept'
  <2>1. CASE user' = [user EXCEPT ![u].pc = "close"] /\ UNCHANGED <<lstLock, writing, extLock>>
    BY <1>6, <2>1 DEF CommitLock, At
  <2>2. CASE /\ user' = [user EXCEPT ![u].pc = "ready"] /\ lstLock = Nobody
             /\ lstLock' = u /\ writing' = u /\ UNCHANGED extLock
    BY <1>6, <2>2 DEF CommitLock, At
  <2> QED
    BY <1>6, <2>1, <2>2 DEF CommitLock, LockList, Goto
<1>7. ASSUME NEW u \in Users, Commit(u)
       PROVE  LocksKept'
  BY <1>7 DEF Commit, WriteList, UnlockList, At
<1>8. ASSUME NEW u \in Users, removeLock(u)
       PROVE  LocksKept'
  BY <1>8 DEF removeLock, LockList, Goto, At
<1>9. ASSUME NEW u \in Users, remove(u)
       PROVE  LocksKept'
  BY <1>9 DEF remove, WriteList, UnlockList, At
<1>10. ASSUME NEW u \in Users, Read(u)
       PROVE  LocksKept'
  <2>1. PICK pc \in {"read", "gone"} :
          \/ user' = [user EXCEPT ![u].pc = pc]
          \/ user' = [user EXCEPT ![u].pc = pc, ![u].gen = file[user[u].id].gen]
    BY <1>10 DEF Read, Goto
  <2>2. user[u].pc = "open" /\ UNCHANGED <<lst, writing, lstLock, extLock>>
    BY <1>10 DEF Read, At
  <2>3. /\ \A v \in Users : user'[v].id = user[v].id /\ user'[v].name = user[v].name
        /\ \A v \in Users : v # u => user'[v].pc = user[v].pc
        /\ user'[u].pc = pc
    BY <2>1
  <2>4. \A v \in Users : lstLock' = v <=> user'[v].pc \in ListPcs
    BY <2>2, <2>3
  <2>5. \A v \in Users : writing' = v <=> user'[v].pc \in WritingPcs
    BY <2>2, <2>3
  <2>6. \A v \in Users : user'[v].pc \in Unready \cup {"list"} => extLock'[user'[v].id] = v
    BY <2>2, <2>3
  <2>7. \A v \in Users : user'[v].pc = "locked" => extLock'[user'[v].id] = Nobody
    BY <2>2, <2>3
  <2>8. \A v \in Users, i \in Ids :
          extLock'[i] = v => user'[v].id = i /\ user'[v].pc \in ExtPcs
    BY <2>2, <2>3
  <2> QED
    BY <2>4, <2>5, <2>6, <2>7, <2>8 DEF LocksKept
<1>11. ASSUME NEW u \in Users, Destroyed(u)
       PROVE  LocksKept'
  BY <1>11 DEF Destroyed, Idle
<1>12. ASSUME NEW u \in Users, Fail(u)
       PROVE  LocksKept'
  BY <1>12 DEF Fail, Goto, At
<1>13. ASSUME NEW u \in Users, Cancel(u)
       PROVE  LocksKept'
  BY <1>13 DEF Cancel, Goto, At
<1>14. ASSUME NEW u \in Users, Crash(u)
       PROVE  LocksKept'
  BY <1>14 DEF Crash, Idle, At
<1>15. ASSUME NEW u \in Users, NEW v \in Users, Refused(u, v)
       PROVE  LocksKept'
  <2>1. /\ user[u].pc \in {"commit", "cancelled", "close"} /\ user[v].pc = "lock"
        /\ UNCHANGED writing
    BY <1>15 DEF Refused, At
  <2>2. CASE user' = [user EXCEPT ![v] = Idle] /\ lstLock' = Nobody /\ UNCHANGED extLock
    BY <2>1, <2>2 DEF Idle
  <2>3. CASE /\ user' = [user EXCEPT ![u].pc = "close"]
             /\ UNCHANGED <<lstLock, extLock>>
    BY <2>1, <2>3
  <2>4. CASE /\ user' = [user EXCEPT ![u] = Idle]
             /\ extLock' = [i \in Ids |-> IF extLock[i] = u THEN Nobody ELSE extLock[i]]
             /\ UNCHANGED lstLock
    BY <2>1, <2>4 DEF Idle
  <2> QED
    BY <1>15, <2>2, <2>3, <2>4 DEF Refused, UnlockList, Goto
<1>16. CASE UNCHANGED evars
  BY <1>16 DEF evars
<1> QED
  BY <1>1, <1>2, <1>3, <1>4, <1>5, <1>6, <1>7, <1>8, <1>9, <1>10, <1>11, <1>12, <1>13, <1>14, <1>15, <1>16 DEF ExtensionsNext, Step

\* Every step keeps the ids and the names unique.
LEMMA ListStep ==
    ASSUME EInv, [ExtensionsNext]_evars
    PROVE  ListKept'
<1> USE ExtensionsAssumption DEF EInv, LocksKept, ListKept, ExtensionsType, UserType, Pcs, ListPcs, WritingPcs, ExtPcs, Unready
<1>1. ASSUME NEW u \in Users, getExtension(u)
       PROVE  ListKept'
  BY <1>1 DEF getExtension, LockList, At
<1>2. ASSUME NEW u \in Users, Lookup(u)
       PROVE  ListKept'
  <2>1. /\ user[u].pc = "init"
        /\ UNCHANGED <<together, lst, writing, extLock, file, cancels, crashes, lost, mistaken>>
    BY <1>2 DEF Lookup, At
  <2>2. ASSUME \A e \in lst : e.name # user[u].name, lstLock' = lstLock,
               NEW id \in Ids, \A e \in lst : e.id < id,
               user' = [user EXCEPT ![u].pc = "lock", ![u].id = id]
        PROVE  ListKept'
    BY <2>1, <2>2 DEF Ids
  <2>3. ASSUME NEW e \in lst, e.name = user[u].name, isStale(u, e),
               user' = [user EXCEPT ![u].pc = IF e.state = "READY" THEN "lock" ELSE "locked",
                                    ![u].id = e.id, ![u].state = e.state],
               lstLock' = lstLock
        PROVE  ListKept'
    BY <2>1, <2>3 DEF isStale
  <2>4. ASSUME NEW e \in lst, e.name = user[u].name, ~isStale(u, e),
               user' = [user EXCEPT ![u].pc = "open", ![u].id = e.id, ![u].state = e.state],
               lstLock' = Nobody
        PROVE  ListKept'
    BY <2>1, <2>4
  <2> QED
    BY <1>2, <2>2, <2>3, <2>4, LookupCases
<1>3. ASSUME NEW u \in Users, Clear(u)
       PROVE  ListKept'
  BY <1>3 DEF Clear, LockExtension, At
<1>4. ASSUME NEW u \in Users, AddEntry(u)
       PROVE  ListKept'
  <2>1. /\ user[u].pc = "list"
        /\ lst' = {e \in lst : e.name # user[u].name}
                     \cup {Entry(user[u].name, user[u].id, "INITIALIZING")}
        /\ user' = [user EXCEPT ![u].pc = "write", ![u].state = @]
    BY <1>4 DEF AddEntry, WriteList, At
  <2>2. \A v \in Users : user'[v].pc \notin {"lock", "locked", "list"}
    BY <2>1
  <2>3. \A e \in lst : e.id = user[u].id <=> e.name = user[u].name
    BY <2>1
  <2>4. /\ Entry(user[u].name, user[u].id, "INITIALIZING").id = user[u].id
        /\ Entry(user[u].name, user[u].id, "INITIALIZING").name = user[u].name
    BY DEF Entry
  <2>5. ASSUME NEW e1 \in lst', NEW e2 \in lst', e1.id = e2.id \/ e1.name = e2.name
        PROVE  e1 = e2
    <3>1. ASSUME NEW e \in lst', e # Entry(user[u].name, user[u].id, "INITIALIZING")
          PROVE  e \in lst /\ e.id # user[u].id /\ e.name # user[u].name
      <4> HIDE DEF ListKept, EInv, LocksKept, ExtensionsType
      <4>1. e \in lst /\ e.name # user[u].name
        BY <2>1, <3>1
      <4> QED
        BY <2>3, <4>1
    <3>2. \A e, f \in lst : e.id = f.id \/ e.name = f.name => e = f
      OBVIOUS
    <3> HIDE DEF ListKept, EInv, LocksKept, ExtensionsType
    <3> QED
      BY <2>4, <2>5, <3>1, <3>2
  <2> QED
    BY <2>2, <2>5
<1>5. ASSUME NEW u \in Users, Build(u)
       PROVE  ListKept'
  BY <1>5 DEF Build, Goto, At
<1>6. ASSUME NEW u \in Users, CommitLock(u)
       PROVE  ListKept'
  BY <1>6 DEF CommitLock, LockList, Goto, At
<1>7. ASSUME NEW u \in Users, Commit(u)
       PROVE  ListKept'
  <2> DEFINE new(e) == IF e.name = user[u].name THEN [e EXCEPT !.state = "READY"] ELSE e
  <2>1. /\ user[u].pc = "ready" /\ lst' = {new(e) : e \in lst}
        /\ user' = [user EXCEPT ![u].pc = "open", ![u].state = "READY"]
    BY <1>7 DEF Commit, WriteList, At
  <2>2. \A e \in lst : new(e).id = e.id /\ new(e).name = e.name
    OBVIOUS
  <2>3. \A v \in Users : user'[v].pc \notin {"lock", "locked", "list"}
    BY <2>1
  <2> HIDE DEF new
  <2> QED
    BY <2>1, <2>2, <2>3
<1>8. ASSUME NEW u \in Users, removeLock(u)
       PROVE  ListKept'
  BY <1>8 DEF removeLock, LockList, Goto, At
<1>9. ASSUME NEW u \in Users, remove(u)
       PROVE  ListKept'
  BY <1>9 DEF remove, WriteList, UnlockList, At
<1>10. ASSUME NEW u \in Users, Read(u)
       PROVE  ListKept'
  <2>1. PICK pc \in {"read", "gone"} :
          \/ user' = [user EXCEPT ![u].pc = pc]
          \/ user' = [user EXCEPT ![u].pc = pc, ![u].gen = file[user[u].id].gen]
    BY <1>10 DEF Read, Goto
  <2>2. user[u].pc = "open" /\ UNCHANGED <<lst, writing, lstLock, extLock>>
    BY <1>10 DEF Read, At
  <2>3. /\ \A v \in Users : user'[v].id = user[v].id /\ user'[v].name = user[v].name
        /\ \A v \in Users : v # u => user'[v].pc = user[v].pc
        /\ user'[u].pc = pc
    BY <2>1
  <2> QED
    BY <2>2, <2>3
<1>11. ASSUME NEW u \in Users, Destroyed(u)
       PROVE  ListKept'
  BY <1>11 DEF Destroyed, Idle
<1>12. ASSUME NEW u \in Users, Fail(u)
       PROVE  ListKept'
  BY <1>12 DEF Fail, Goto, At
<1>13. ASSUME NEW u \in Users, Cancel(u)
       PROVE  ListKept'
  BY <1>13 DEF Cancel, Goto, At
<1>14. ASSUME NEW u \in Users, Crash(u)
       PROVE  ListKept'
  BY <1>14 DEF Crash, Idle, At
<1>15. ASSUME NEW u \in Users, NEW v \in Users, Refused(u, v)
       PROVE  ListKept'
  BY <1>15 DEF Refused, UnlockList, Goto, Idle, At
<1>16. CASE UNCHANGED evars
  BY <1>16 DEF evars
<1> QED
  BY <1>1, <1>2, <1>3, <1>4, <1>5, <1>6, <1>7, <1>8, <1>9, <1>10, <1>11, <1>12, <1>13, <1>14, <1>15, <1>16 DEF ExtensionsNext, Step

\* Every step keeps the files, unless a list is lost or another's entry taken.
LEMMA FilesStep ==
    ASSUME EInv, [ExtensionsNext]_evars, ~lost', ~mistaken'
    PROVE  FilesKept'
<1> USE ExtensionsAssumption
<1>0. FilesKept
  <2>1. \/ lost' = lost \/ \E u \in Users : lost' = (lost \/ writing = u)
    BY DEF ExtensionsNext, Step, evars, getExtension, Lookup, Clear, AddEntry, WriteList, Build,
           CommitLock, Commit, Fail, Cancel, removeLock, remove, Read, Destroyed, Crash, Refused
  <2>2. \/ mistaken' = mistaken
        \/ \E u \in Users : \/ mistaken' = (mistaken \/ OfAnother(u) # {})
                            \/ mistaken' = (mistaken \/ \E e \in OfAnother(u) : e.state = "READY")
    BY DEF ExtensionsNext, Step, evars, getExtension, Lookup, Clear, AddEntry, WriteList, Build,
           CommitLock, Commit, Fail, Cancel, removeLock, remove, Read, Destroyed, Crash, Refused
  <2> QED
    BY <2>1, <2>2 DEF EInv
<1>T. /\ user \in [Users -> UserType] /\ lst \subseteq [name : Names, id : Ids,
            state : {"INITIALIZING", "READY"}, current : BOOLEAN]
       /\ extLock \in [Ids -> Users \cup {Nobody}]
       /\ file \in [Ids -> [gen : Nat, complete : BOOLEAN]]
       /\ LocksKept /\ ListKept
  BY DEF EInv, ExtensionsType
<1> USE <1>0, <1>T DEF FilesKept, UserType, Unready
<1>1. ASSUME NEW u \in Users, getExtension(u)
       PROVE  FilesKept'
  BY <1>1 DEF getExtension, At
<1>2. ASSUME NEW u \in Users, Lookup(u)
       PROVE  FilesKept'
  <2>1. /\ user[u].pc = "init" /\ UNCHANGED <<lst, file>>
    BY <1>2 DEF Lookup, At
  <2>2. ASSUME NEW id \in Ids, user' = [user EXCEPT ![u].pc = "lock", ![u].id = id]
        PROVE  FilesKept'
    BY <2>1, <2>2
  <2>3. ASSUME NEW e \in lst, NEW pc \in {"lock", "locked"},
               user' = [user EXCEPT ![u].pc = pc, ![u].id = e.id, ![u].state = e.state]
        PROVE  FilesKept'
    BY <2>1, <2>3
  <2>4. ASSUME NEW e \in lst, ~isStale(u, e),
               user' = [user EXCEPT ![u].pc = "open", ![u].id = e.id, ![u].state = e.state]
        PROVE  FilesKept'
    BY <2>1, <2>4 DEF isStale
  <2>5. \/ \E id \in Ids : user' = [user EXCEPT ![u].pc = "lock", ![u].id = id]
        \/ \E e \in lst : user' = [user EXCEPT ![u].pc = IF e.state = "READY" THEN "lock" ELSE "locked",
                                               ![u].id = e.id, ![u].state = e.state]
        \/ \E e \in lst : /\ ~isStale(u, e)
                          /\ user' = [user EXCEPT ![u].pc = "open", ![u].id = e.id, ![u].state = e.state]
    BY <1>2, LookupCases
  <2> QED
    BY <2>2, <2>3, <2>4, <2>5
<1>3. ASSUME NEW u \in Users, Clear(u)
       PROVE  FilesKept'
  <2>1. /\ user[u].pc \in {"lock", "locked"} /\ extLock[user[u].id] = Nobody
        /\ user' = [user EXCEPT ![u].pc = "list", ![u].state = "INITIALIZING"]
        /\ file' = [file EXCEPT ![user[u].id] = [gen |-> @.gen + 1, complete |-> FALSE]]
        /\ lst' = lst
    BY <1>3 DEF Clear, LockExtension, At, LocksKept
  <2>2. \A e \in lst : e.id = user[u].id => ~(e.state = "READY" /\ e.current)
    BY <2>1 DEF ListKept
  <2>3. \A v \in Users : user[v].pc \in {"commit", "ready"} => user[v].id # user[u].id
    BY <2>1 DEF LocksKept
  <2>4. \A v \in Users : user[v].pc = "read" => user[v].id # user[u].id
    BY <2>2
  <2>5. \A i \in Ids : i # user[u].id => file'[i] = file[i]
    BY <2>1
  <2>6. \A v \in Users : /\ user'[v].id = user[v].id /\ user'[v].name = user[v].name
                         /\ user'[v].gen = user[v].gen
                         /\ user'[v] # user[v] => user'[v].pc = "list"
    BY <2>1
  <2>7. \A e \in lst' : e.state = "READY" /\ e.current => file'[e.id].complete
    BY <2>1, <2>2, <2>5
  <2> QED
    BY <2>1, <2>3, <2>4, <2>5, <2>6, <2>7
<1>4. ASSUME NEW u \in Users, AddEntry(u)
       PROVE  FilesKept'
  <2> DEFINE new == Entry(user[u].name, user[u].id, "INITIALIZING")
  <2>1. /\ user[u].pc = "list" /\ lst' = {e \in lst : e.name # user[u].name} \cup {new}
        /\ user' = [user EXCEPT ![u].pc = "write", ![u].state = @] /\ file' = file
    BY <1>4 DEF AddEntry, WriteList, At
  <2>2. \A e \in lst : /\ e.id = user[u].id <=> e.name = user[u].name
                       /\ e.id = user[u].id => ~(e.state = "READY" /\ e.current)
    BY <2>1 DEF ListKept
  <2>3. \A v \in Users : v # u /\ user[v].pc \in Unready => user[v].id # user[u].id
    BY <2>1 DEF LocksKept
  <2>4. /\ new.name = user[u].name /\ new.id = user[u].id /\ new.state = "INITIALIZING"
        /\ new.current
    BY DEF Entry
  <2>5. \A v \in Users : /\ user'[v].id = user[v].id /\ user'[v].name = user[v].name
                         /\ user'[v].gen = user[v].gen /\ user'[v].state = user[v].state
                         /\ v # u => user'[v].pc = user[v].pc
                         /\ user'[u].pc = "write"
    BY <2>1
  <2>M. /\ \A e \in lst' : e = new \/ (e \in lst /\ e.name # user[u].name)
        /\ \A e \in lst : e.name # user[u].name => e \in lst'
    BY <2>1
  <2>6. \A e \in lst' : e.state = "READY" /\ e.current => file'[e.id].complete
    BY <2>1, <2>4
  <2>7. \A v \in Users : user'[v].pc \in {"commit", "ready"} => file'[user'[v].id].complete
    BY <2>1, <2>5
  <2>8. \A v \in Users : user'[v].pc \in Unready =>
          \A e \in lst' : e.id = user'[v].id =>
            e.name = user'[v].name /\ e.state # "READY" /\ e.current
    <3> SUFFICES ASSUME NEW v \in Users, user'[v].pc \in Unready,
                        NEW e \in lst', e.id = user[v].id
                 PROVE  e.name = user[v].name /\ e.state # "READY" /\ e.current
      BY <2>5
    <3>1. CASE v = u
      BY <2>2, <2>4, <2>M, <3>1
    <3>2. CASE v # u
      <4>1. user[v].pc \in Unready /\ user[v].id # user[u].id
        BY <2>3, <2>5, <3>2
      <4>2. e \in lst
        BY <2>4, <2>M, <4>1
      <4> QED
        BY <4>1, <4>2
    <3> QED
      BY <3>1, <3>2
  <2>9. \A v \in Users : user'[v].pc # "ready"
    BY <2>1, <2>5 DEF LocksKept, WritingPcs
  <2>10. \A v \in Users :
          user'[v].pc = "read" \/ (user'[v].pc = "open" /\ user'[v].state = "READY") =>
            \E e \in lst' : e.id = user'[v].id /\ e.state = "READY" /\ e.current
    <3> SUFFICES ASSUME NEW v \in Users, v # u,
                        user[v].pc = "read" \/ (user[v].pc = "open" /\ user[v].state = "READY")
                 PROVE  \E e \in lst' : e.id = user[v].id /\ e.state = "READY" /\ e.current
      BY <2>5
    <3>1. PICK e \in lst : e.id = user[v].id /\ e.state = "READY" /\ e.current
      OBVIOUS
    <3> QED
      BY <2>2, <2>M, <3>1
  <2>11. \A v \in Users : user'[v].pc = "read" => file'[user'[v].id].gen = user'[v].gen
    BY <2>1, <2>5
  <2> QED
    BY <2>6, <2>7, <2>8, <2>9, <2>10, <2>11
<1>5. ASSUME NEW u \in Users, Build(u)
       PROVE  FilesKept'
  <2>1. /\ user[u].pc = "write" /\ user' = [user EXCEPT ![u].pc = "commit"] /\ lst' = lst
        /\ file' = [file EXCEPT ![user[u].id].complete = TRUE]
    BY <1>5 DEF Build, Goto, At
  <2>2. \A i \in Ids : file'[i].gen = file[i].gen /\ (file[i].complete => file'[i].complete)
    BY <2>1
  <2>3. file'[user[u].id].complete
    BY <2>1
  <2> QED
    BY <2>1, <2>2, <2>3
<1>6. ASSUME NEW u \in Users, CommitLock(u)
       PROVE  FilesKept'
  <2>1. user[u].pc = "commit" /\ UNCHANGED <<lst, file>>
    BY <1>6 DEF CommitLock, At
  <2>2. CASE user' = [user EXCEPT ![u].pc = "close"]
    BY <2>1, <2>2
  <2>3. CASE /\ user' = [user EXCEPT ![u].pc = "ready"]
             /\ \E e \in lst : e.name = user[u].name
    BY <2>1, <2>3
  <2> QED
    BY <1>6, <2>2, <2>3 DEF CommitLock, Goto, Named
<1>7. ASSUME NEW u \in Users, Commit(u)
       PROVE  FilesKept'
  <2> DEFINE new(e) == IF e.name = user[u].name THEN [e EXCEPT !.state = "READY"] ELSE e
  <2>1. /\ user[u].pc = "ready" /\ lst' = {new(e) : e \in lst} /\ file' = file
        /\ user' = [user EXCEPT ![u].pc = "open", ![u].state = "READY"]
    BY <1>7 DEF Commit, WriteList, At
  <2>2. \A e \in lst : e.name = user[u].name => e.id = user[u].id
    BY <1>7 DEF Commit, OfAnother, Named
  <2>3. \A e \in lst : /\ new(e).id = e.id /\ new(e).name = e.name /\ new(e).current = e.current
                       /\ e.name # user[u].name => new(e) = e
                       /\ e.name = user[u].name => new(e).state = "READY"
                       /\ e.state = "READY" => new(e).state = "READY"
    OBVIOUS
  <2>4. \A v \in Users : v # u /\ user[v].pc \in Unready => user[v].id # user[u].id
    BY <2>1 DEF LocksKept
  <2>5. \A v \in Users : v # u => user'[v] = user[v]
    BY <2>1
  <2>6. /\ user'[u].pc = "open" /\ user'[u].id = user[u].id
    BY <2>1
  <2>M. /\ \A e \in lst' : \E f \in lst : e = new(f)
        /\ \A f \in lst : new(f) \in lst'
    BY <2>1
  <2>7. ASSUME NEW e \in lst', e.state = "READY", e.current
        PROVE  file'[e.id].complete
    <3>1. PICK f \in lst : e = new(f)
      BY <2>M
    <3>2. CASE f.name = user[u].name
      BY <2>1, <2>2, <2>3, <3>1, <3>2
    <3>3. CASE f.name # user[u].name
      BY <2>1, <2>3, <2>7, <3>1, <3>3
    <3> QED
      BY <3>2, <3>3
  <2>8. \A v \in Users : user'[v].pc \in {"commit", "ready"} => file'[user'[v].id].complete
    BY <2>1, <2>5, <2>6
  <2>9. \A v \in Users : user'[v].pc \in Unready =>
          \A e \in lst' : e.id = user'[v].id =>
            e.name = user'[v].name /\ e.state # "READY" /\ e.current
    <3>0. user'[u].pc \notin Unready
      BY <2>6
    <3> SUFFICES ASSUME NEW v \in Users, v # u, user[v].pc \in Unready,
                        NEW e \in lst', e.id = user[v].id
                 PROVE  e.name = user[v].name /\ e.state # "READY" /\ e.current
      BY <2>5, <3>0
    <3>1. PICK f \in lst : e = new(f)
      BY <2>M
    <3>2. f.name # user[u].name
      BY <2>2, <2>3, <2>4, <3>1
    <3> QED
      BY <2>3, <3>1, <3>2
  <2>10. \A v \in Users : user'[v].pc # "ready"
    BY <2>1, <2>5, <2>6 DEF LocksKept, WritingPcs
  <2>11. \A v \in Users :
          user'[v].pc = "read" \/ (user'[v].pc = "open" /\ user'[v].state = "READY") =>
            \E e \in lst' : e.id = user'[v].id /\ e.state = "READY" /\ e.current
    <3>1. \E e \in lst' : e.id = user'[u].id /\ e.state = "READY" /\ e.current
      <4>1. PICK f \in lst : f.name = user[u].name
        BY <2>1
      <4>2. f.id = user[u].id /\ f.current
        BY <2>1, <2>2, <4>1
      <4>3. new(f) \in lst' /\ new(f).id = f.id /\ new(f).state = "READY" /\ new(f).current = f.current
        BY <2>3, <2>M, <4>1
      <4> QED
        BY <2>6, <4>2, <4>3
    <3>2. ASSUME NEW v \in Users, v # u,
                 user[v].pc = "read" \/ (user[v].pc = "open" /\ user[v].state = "READY")
          PROVE  \E e \in lst' : e.id = user[v].id /\ e.state = "READY" /\ e.current
      <4>1. PICK f \in lst : f.id = user[v].id /\ f.state = "READY" /\ f.current
        BY <3>2
      <4>2. new(f) \in lst' /\ new(f).id = f.id /\ new(f).state = "READY" /\ new(f).current = f.current
        BY <2>3, <2>M, <4>1
      <4> QED
        BY <4>1, <4>2
    <3> QED
      BY <2>5, <3>1, <3>2
  <2>12. \A v \in Users : user'[v].pc = "read" => file'[user'[v].id].gen = user'[v].gen
    BY <2>1, <2>5, <2>6
  <2> QED
    BY <2>7, <2>8, <2>9, <2>10, <2>11, <2>12
<1>8. ASSUME NEW u \in Users, removeLock(u)
       PROVE  FilesKept'
  <2>1. /\ user[u].pc \in {"cancelled", "close"} /\ lst' = lst
        /\ \E pc \in {"removing", "destroying"} : user' = [user EXCEPT ![u].pc = pc]
        /\ file' = [file EXCEPT ![user[u].id].complete = FALSE]
    BY <1>8 DEF removeLock, Goto
  <2>2. \A v \in Users : v # u /\ user[v].pc \in Unready => user[v].id # user[u].id
    BY <2>1 DEF LocksKept
  <2>3. \A i \in Ids : file'[i].gen = file[i].gen /\ (i # user[u].id => file'[i] = file[i])
    BY <2>1
  <2> QED
    BY <2>1, <2>2, <2>3
<1>9. ASSUME NEW u \in Users, remove(u)
       PROVE  FilesKept'
  <2>1. /\ user[u].pc \in {"removing", "destroying"} /\ file' = file
        /\ lst' = {e \in lst : e.name # user[u].name}
        /\ \E pc \in {"close", "gone"} : user' = [user EXCEPT ![u].pc = pc, ![u].state = @]
    BY <1>9 DEF remove, WriteList
  <2>2. \A e \in lst : e.name = user[u].name => e.state # "READY"
    BY <1>9, <2>1 DEF remove, OfAnother, Named
  <2>3. \A v \in Users : user[v].pc # "ready"
    BY <2>1 DEF LocksKept, WritingPcs
  <2>4. \A v \in Users : /\ user'[v].id = user[v].id /\ user'[v].name = user[v].name
                         /\ user'[v].gen = user[v].gen /\ user'[v].state = user[v].state
                         /\ v # u => user'[v].pc = user[v].pc
                         /\ user'[u].pc \in {"close", "gone"}
    BY <2>1
  <2> QED
    BY <2>1, <2>2, <2>3, <2>4
<1>10. ASSUME NEW u \in Users, Read(u)
       PROVE  FilesKept'
  <2>1. user[u].pc = "open" /\ UNCHANGED <<lst, file>>
    BY <1>10 DEF Read, At
  <2>2. CASE /\ user[u].state = "READY"
             /\ user' = [user EXCEPT ![u].pc = "read", ![u].gen = file[user[u].id].gen]
    BY <2>1, <2>2
  <2>3. CASE user' = [user EXCEPT ![u].pc = "gone"]
    BY <2>1, <2>3
  <2> QED
    BY <1>10, <2>2, <2>3 DEF Read, Goto
<1>11. ASSUME NEW u \in Users, Destroyed(u)
       PROVE  FilesKept'
  BY <1>11 DEF Destroyed, Idle
<1>12. ASSUME NEW u \in Users, Fail(u)
       PROVE  FilesKept'
  BY <1>12 DEF Fail, Goto, At
<1>13. ASSUME NEW u \in Users, Cancel(u)
       PROVE  FilesKept'
  BY <1>13 DEF Cancel, Goto, At
<1>14. ASSUME NEW u \in Users, Crash(u)
       PROVE  FilesKept'
  <2>1. user' = [user EXCEPT ![u] = Idle] /\ UNCHANGED <<lst, file>>
    BY <1>14 DEF Crash
  <2> QED
    BY <2>1 DEF Idle
<1>15. ASSUME NEW u \in Users, NEW v \in Users, Refused(u, v)
       PROVE  FilesKept'
  <2>1. user[u].pc \in {"commit", "cancelled", "close"} /\ UNCHANGED <<lst, file>>
    BY <1>15 DEF Refused
  <2>2. ASSUME NEW w \in Users, user' = [user EXCEPT ![w] = Idle]
        PROVE  FilesKept'
    BY <2>1, <2>2 DEF Idle
  <2>3. CASE user' = [user EXCEPT ![u].pc = "close"]
    BY <2>1, <2>3
  <2> QED
    BY <1>15, <2>2, <2>3 DEF Refused, Goto
<1>16. CASE UNCHANGED evars
  BY <1>16 DEF evars
<1> QED
  BY <1>1, <1>2, <1>3, <1>4, <1>5, <1>6, <1>7, <1>8, <1>9, <1>10, <1>11, <1>12, <1>13, <1>14, <1>15, <1>16 DEF ExtensionsNext, Step

-----------------------------------------------------------------------------
\* A new trace, or one with an extension of an earlier program.
LEMMA EInvInit ==
    ASSUME ExtensionsInit
    PROVE  EInv
<1> USE ExtensionsAssumption DEF ExtensionsInit, Ids
<1>1. ExtensionsType
  <2>1. /\ lst \subseteq [name : Names, id : Ids, state : {"INITIALIZING", "READY"},
                         current : BOOLEAN]
        /\ file \in [Ids -> [gen : Nat, complete : BOOLEAN]]
    <3>1. PICK e \in [name : Names, id : {1}, state : {"INITIALIZING", "READY"}, current : BOOLEAN] :
            \/ lst = {} /\ file = [i \in Ids |-> [gen |-> 0, complete |-> FALSE]]
            \/ /\ lst = {e}
               /\ file = [i \in Ids |-> [gen |-> 0, complete |-> e.state = "READY" /\ i = 1]]
      OBVIOUS
    <3>2. file \in [Ids -> [gen : Nat, complete : BOOLEAN]]
      <4>1. CASE file = [i \in Ids |-> [gen |-> 0, complete |-> FALSE]]
        BY <4>1
      <4>2. CASE file = [i \in Ids |-> [gen |-> 0, complete |-> e.state = "READY" /\ i = 1]]
        <5>1. \A i \in Ids : (e.state = "READY" /\ i = 1) \in BOOLEAN
          OBVIOUS
        <5> QED
          BY <4>2, <5>1
      <4> QED
        BY <3>1, <4>1, <4>2
    <3>3. e \in [name : Names, id : Ids, state : {"INITIALIZING", "READY"}, current : BOOLEAN]
      OBVIOUS
    <3> QED
      BY <3>1, <3>2, <3>3
  <2> QED
    BY <2>1, IdleType DEF ExtensionsType
<1>2. LocksKept
  BY DEF LocksKept, Idle, ListPcs, WritingPcs, ExtPcs, Unready
<1>3. ListKept
  BY DEF ListKept, Idle
<1>4. FilesKept
  BY DEF FilesKept, Idle, Unready
<1> QED
  BY <1>1, <1>2, <1>3, <1>4 DEF EInv

(* Writers exclude each other for every extension, and unless a crash empties *)
(* the list or somebody takes the entry of another id for its own, what the   *)
(* list says to be ready is, and stays as its readers have opened it          *)
(* (TraceExtensionLocal: initTraceExtension, commit, remove, the destructor). *)
THEOREM ExtensionsCorrect == ExtensionsSpec => []ExtensionsSound
<1>1. ExtensionsInit => EInv
  BY EInvInit
<1>2. EInv /\ [ExtensionsNext]_evars => EInv'
  BY TypeStep, LocksStep, ListStep, FilesStep DEF EInv
<1>3. EInv => ExtensionsSound
  <2> SUFFICES ASSUME EInv
               PROVE  ExtensionsSound
    OBVIOUS
  <2>1. \A u \in Writers : extLock[user[u].id] = u
    BY DEF EInv, LocksKept, Writers, Unready
  <2>2. \A u1, u2 \in Writers : u1 # u2 => user[u1].id # user[u2].id
    BY <2>1
  <2>3. \A e1, e2 \in lst : e1.id = e2.id \/ e1.name = e2.name => e1 = e2
    BY DEF EInv, ListKept
  <2>4. ~lost /\ ~mistaken =>
          /\ \A e \in lst : e.state = "READY" /\ e.current => file[e.id].complete
          /\ \A u \in Users : At(u, "read") => /\ file[user[u].id].complete
                                               /\ file[user[u].id].gen = user[u].gen
    BY DEF EInv, FilesKept, At
  <2> QED
    BY <2>1, <2>2, <2>3, <2>4 DEF ExtensionsSound
<1> QED
  BY <1>1, <1>2, <1>3, PTL DEF ExtensionsSpec
=============================================================================
