-------------------------- MODULE Connections_proofs --------------------------
(* What is proved of the connections: ServerContexts, SocketManager, Packets   *)
(* and RpcCalls, each for every value of its constants.                       *)
EXTENDS ServerContexts, SocketManager, Packets, RpcCalls, SequenceTheorems,
        FiniteSetTheorems, TLAPS
-----------------------------------------------------------------------------
(* SocketManager                                                              *)

(* What the thread and the user leave behind at any moment: an address only   *)
(* while a server socket is open, and no thread once it was joined.           *)
SocketInv ==
    /\ exists \in BOOLEAN
    /\ exists => kind = "Server" /\ socket = "open"
    /\ user \in {"stopped", "gone"} => m_thread = "ended"
    /\ NothingLeftOpen

(* The invariant holds first, before the manager is activated.                *)
LEMMA SocketInitInv == SocketInit => SocketInv
  BY DEF SocketInit, SocketInv, NothingLeftOpen

(* Each call of the state machine's thread keeps it: once the user has joined *)
(* the thread there is none to open a socket late.                            *)
LEMMA SocketThreadInv == SocketInv /\ Thread => SocketInv'
<1> SUFFICES ASSUME SocketInv, Thread PROVE SocketInv'
  OBVIOUS
<1> USE DEF SocketInv, NothingLeftOpen
<1>1. CASE run
  BY <1>1 DEF run
<1>2. CASE idle
  BY <1>2 DEF idle, ReturnTo
<1>3. CASE init
  BY <1>3 DEF init
<1>4. CASE open
  <2>1. exists = FALSE /\ user \notin {"stopped", "gone"}
    BY <1>4 DEF open
  <2>2. kind' = kind /\ user' = user
    BY <1>4 DEF open, ReturnTo
  <2>3. CASE exists'
    <3>1. kind = "Server" /\ socket' = "open"
      BY <1>4, <2>1, <2>3 DEF open
    <3>2. QED
      BY <2>1, <2>2, <2>3, <3>1
  <2>4. CASE ~exists'
    <3>1. exists' \in BOOLEAN
      BY <1>4, <2>1 DEF open
    <3>2. QED
      BY <2>1, <2>2, <2>4, <3>1
  <2>5. QED
    BY <2>3, <2>4
<1>5. CASE listenReturns
  BY <1>5 DEF listenReturns, ReturnTo
<1>6. CASE watch
  BY <1>6 DEF watch, ReturnTo
<1>7. QED
  BY <1>1, <1>2, <1>3, <1>4, <1>5, <1>6 DEF Thread

(* So does everything else; the destructor closes what the thread opened      *)
(* after close() had looked.                                                  *)
LEMMA SocketStepInv == SocketInv /\ [SocketNext]_mvars => SocketInv'
<1> SUFFICES ASSUME SocketInv, [SocketNext]_mvars PROVE SocketInv'
  OBVIOUS
<1>1. CASE Thread
  BY <1>1, SocketThreadInv
<1> USE DEF SocketInv, NothingLeftOpen
<1>2. CASE close
  BY <1>2 DEF close
<1>3. CASE join
  BY <1>3 DEF join
<1>4. CASE destroyMachine
  BY <1>4 DEF destroyMachine
<1>5. CASE accept
  BY <1>5 DEF accept, ReturnTo
<1>6. CASE PeerCloses
  BY <1>6 DEF PeerCloses
<1>7. CASE activate
  BY <1>7 DEF activate
<1>8. CASE deactivate
  BY <1>8 DEF deactivate
<1>9. CASE UNCHANGED mvars
  BY <1>9 DEF mvars
<1>10. QED
  BY <1>1, <1>2, <1>3, <1>4, <1>5, <1>6, <1>7, <1>8, <1>9 DEF SocketNext, User

(* However deactivate() meets the thread of the manager, no socket and no     *)
(* address of the server outlive it (SocketManager::deactivate, ~Server).     *)
THEOREM SocketGone == SocketSpec => []NothingLeftOpen
<1>1. SocketInv => NothingLeftOpen
  BY DEF SocketInv
<1>2. QED
  BY <1>1, SocketInitInv, SocketStepInv, PTL DEF SocketSpec
-----------------------------------------------------------------------------
(* Lists without repetition                                                   *)

(* Whether two lists in one hold something twice.                             *)
LEMMA InjectiveConcat ==
  ASSUME NEW S, NEW s \in Seq(S), NEW t \in Seq(S), IsInjective(s), IsInjective(t),
         Range(s) \cap Range(t) = {}
  PROVE  IsInjective(s \o t)
<1> SUFFICES ASSUME NEW a \in DOMAIN (s \o t), NEW b \in DOMAIN (s \o t),
                    (s \o t)[a] = (s \o t)[b]
             PROVE  a = b
  BY DEF IsInjective
<1>1. /\ Len(s) \in Nat /\ Len(t) \in Nat
      /\ DOMAIN s = 1 .. Len(s) /\ DOMAIN t = 1 .. Len(t)
      /\ a \in 1 .. Len(s) + Len(t) /\ b \in 1 .. Len(s) + Len(t)
  OBVIOUS
<1>2. \A k \in 1 .. Len(s) + Len(t) :
        (s \o t)[k] = IF k <= Len(s) THEN s[k] ELSE t[k - Len(s)]
  OBVIOUS
<1>3. /\ \A k \in 1 .. Len(s) : s[k] \in Range(s)
      /\ \A k \in 1 .. Len(t) : t[k] \in Range(t)
  BY <1>1 DEF Range
<1>4. \A j, k \in 1 .. Len(s) : s[j] = s[k] => j = k
  BY <1>1 DEF IsInjective
<1>5. \A j, k \in 1 .. Len(t) : t[j] = t[k] => j = k
  BY <1>1 DEF IsInjective
<1>6. CASE a <= Len(s) /\ b <= Len(s)
  BY <1>1, <1>2, <1>4, <1>6
<1>7. CASE a > Len(s) /\ b > Len(s)
  <2>1. a - Len(s) \in 1 .. Len(t) /\ b - Len(s) \in 1 .. Len(t)
    BY <1>1, <1>7
  <2>2. t[a - Len(s)] = t[b - Len(s)]
    BY <1>1, <1>2, <1>7
  <2>3. a - Len(s) = b - Len(s)
    BY <1>5, <2>1, <2>2
  <2>4. QED
    BY <1>1, <2>3
<1>8. CASE a <= Len(s) /\ b > Len(s)
  <2>1. a \in 1 .. Len(s) /\ b - Len(s) \in 1 .. Len(t)
    BY <1>1, <1>8
  <2>2. s[a] = t[b - Len(s)]
    BY <1>1, <1>2, <1>8
  <2>3. QED
    BY <1>3, <2>1, <2>2
<1>9. CASE a > Len(s) /\ b <= Len(s)
  <2>1. b \in 1 .. Len(s) /\ a - Len(s) \in 1 .. Len(t)
    BY <1>1, <1>9
  <2>2. s[b] = t[a - Len(s)]
    BY <1>1, <1>2, <1>9
  <2>3. QED
    BY <1>3, <2>1, <2>2
<1>10. QED
  BY <1>1, <1>6, <1>7, <1>8, <1>9

(* What is appended to such a list, if it is not there.                       *)
LEMMA InjectiveAppend ==
  ASSUME NEW S, NEW s \in Seq(S), NEW e \in S
  PROVE  /\ Append(s, e) \in Seq(S)
         /\ Range(Append(s, e)) = Range(s) \cup {e}
         /\ IsInjective(s) /\ e \notin Range(s) => IsInjective(Append(s, e))
<1>1. /\ Append(s, e) \in Seq(S) /\ DOMAIN s = 1 .. Len(s) /\ Len(s) \in Nat
      /\ DOMAIN Append(s, e) = 1 .. Len(s) + 1
  OBVIOUS
<1>2. \A k \in 1 .. Len(s) : Append(s, e)[k] = s[k]
  OBVIOUS
<1>3. Append(s, e)[Len(s) + 1] = e
  OBVIOUS
<1>4. Range(Append(s, e)) = Range(s) \cup {e}
  BY <1>1, <1>2, <1>3 DEF Range
<1>5. ASSUME IsInjective(s), e \notin Range(s)
      PROVE  IsInjective(Append(s, e))
  <2>1. \A k \in 1 .. Len(s) : s[k] # e
    BY <1>1, <1>5 DEF Range
  <2>2. \A j, k \in 1 .. Len(s) : s[j] = s[k] => j = k
    BY <1>1, <1>5 DEF IsInjective
  <2>3. QED
    BY <1>1, <1>2, <1>3, <2>1, <2>2 DEF IsInjective
<1>6. QED
  BY <1>1, <1>4, <1>5

(* What erasing one element leaves.                                           *)
LEMMA InjectiveRemoveAt ==
  ASSUME NEW S, NEW s \in Seq(S), IsInjective(s), NEW i \in DOMAIN s
  PROVE  /\ RemoveAt(s, i) \in Seq(S)
         /\ Range(RemoveAt(s, i)) = Range(s) \ {s[i]}
         /\ IsInjective(RemoveAt(s, i))
<1> DEFINE n == Len(s)
           r == RemoveAt(s, i)
<1>1. n \in Nat /\ DOMAIN s = 1 .. n /\ i \in 1 .. n
  OBVIOUS
<1>2. /\ SubSeq(s, 1, i - 1) \in Seq(S) /\ Len(SubSeq(s, 1, i - 1)) = i - 1
      /\ \A k \in 1 .. i - 1 : SubSeq(s, 1, i - 1)[k] = s[k]
  BY <1>1
<1>3. /\ SubSeq(s, i + 1, n) \in Seq(S) /\ Len(SubSeq(s, i + 1, n)) = n - i
      /\ \A k \in 1 .. n - i : SubSeq(s, i + 1, n)[k] = s[k + i]
  BY <1>1
<1>4. r \in Seq(S) /\ Len(r) = n - 1 /\ DOMAIN r = 1 .. n - 1
  BY <1>1, <1>2, <1>3 DEF RemoveAt
<1>5. \A k \in 1 .. n - 1 : r[k] = IF k < i THEN s[k] ELSE s[k + 1]
  <2> SUFFICES ASSUME NEW k \in 1 .. n - 1
               PROVE  r[k] = IF k < i THEN s[k] ELSE s[k + 1]
    OBVIOUS
  <2>1. CASE k < i
    <3>1. k \in 1 .. i - 1
      BY <1>1, <2>1
    <3>2. r[k] = SubSeq(s, 1, i - 1)[k]
      BY <1>1, <1>2, <1>3, <3>1 DEF RemoveAt
    <3>3. QED
      BY <1>2, <2>1, <3>1, <3>2
  <2>2. CASE ~(k < i)
    <3>1. k - (i - 1) \in 1 .. n - i
      BY <1>1, <2>2
    <3>2. \A p, q \in Seq(S) : \A l \in Len(p) + 1 .. Len(p) + Len(q) :
            (p \o q)[l] = q[l - Len(p)]
      OBVIOUS
    <3>3. k \in (i - 1) + 1 .. (i - 1) + (n - i)
      BY <1>1, <2>2
    <3>4. r[k] = SubSeq(s, i + 1, n)[k - (i - 1)]
      <4>1. ASSUME NEW p \in Seq(S), NEW q \in Seq(S), Len(p) = i - 1, Len(q) = n - i
            PROVE  (p \o q)[k] = q[k - (i - 1)]
        <5>1. k \in Len(p) + 1 .. Len(p) + Len(q)
          BY <3>3, <4>1
        <5>2. (p \o q)[k] = q[k - Len(p)]
          BY <3>2, <5>1
        <5>3. QED
          BY <4>1, <5>2
      <4>2. r = SubSeq(s, 1, i - 1) \o SubSeq(s, i + 1, n)
        BY DEF RemoveAt
      <4>3. QED
        BY <1>2, <1>3, <4>1, <4>2
    <3>5. SubSeq(s, i + 1, n)[k - (i - 1)] = s[(k - (i - 1)) + i]
      BY <1>3, <3>1
    <3>6. (k - (i - 1)) + i = k + 1
      BY <1>1
    <3>7. QED
      BY <2>2, <3>4, <3>5, <3>6
  <2>3. QED
    BY <2>1, <2>2
<1>6. \A j, k \in 1 .. n : s[j] = s[k] => j = k
  BY <1>1 DEF IsInjective
<1> HIDE DEF r, n
<1>7. Range(r) = Range(s) \ {s[i]}
  <2>1. ASSUME NEW k \in 1 .. n - 1
        PROVE  r[k] \in Range(s) /\ r[k] # s[i]
    <3>1. CASE k < i
      BY <1>1, <1>5, <1>6, <3>1 DEF Range
    <3>2. CASE ~(k < i)
      <4>1. k + 1 \in 1 .. n /\ k + 1 # i
        BY <1>1, <3>2
      <4>2. QED
        BY <1>1, <1>5, <1>6, <3>2, <4>1 DEF Range
    <3>3. QED
      BY <3>1, <3>2
  <2>2. ASSUME NEW k \in 1 .. n, k # i
        PROVE  s[k] \in Range(r)
    <3>1. CASE k < i
      <4>1. k \in 1 .. n - 1
        BY <1>1, <3>1
      <4>2. QED
        BY <1>4, <1>5, <3>1, <4>1 DEF Range
    <3>2. CASE ~(k < i)
      <4>1. k - 1 \in 1 .. n - 1 /\ ~(k - 1 < i) /\ (k - 1) + 1 = k
        BY <1>1, <2>2, <3>2
      <4>2. r[k - 1] = s[k]
        BY <1>5, <4>1
      <4>3. QED
        BY <1>4, <4>1, <4>2 DEF Range
    <3>3. QED
      BY <3>1, <3>2
  <2>3. QED
    BY <1>1, <1>4, <2>1, <2>2 DEF Range
<1>8. IsInjective(r)
  <2> SUFFICES ASSUME NEW a \in 1 .. n - 1, NEW b \in 1 .. n - 1, r[a] = r[b]
               PROVE  a = b
    BY <1>4 DEF IsInjective
  <2> DEFINE At(k) == IF k < i THEN k ELSE k + 1
  <2>1. At(a) \in 1 .. n /\ At(b) \in 1 .. n
    BY <1>1
  <2>2. s[At(a)] = s[At(b)]
    BY <1>5
  <2>3. At(a) = At(b)
    BY <1>6, <2>1, <2>2
  <2>4. QED
    BY <1>1, <2>3
<1>9. QED
  BY <1>4, <1>7, <1>8 DEF r

(* What taking the first element leaves.                                      *)
LEMMA InjectiveTail ==
  ASSUME NEW S, NEW s \in Seq(S), IsInjective(s), s # <<>>
  PROVE  /\ Tail(s) \in Seq(S) /\ Head(s) \in S /\ Head(s) \in Range(s)
         /\ Range(Tail(s)) = Range(s) \ {Head(s)}
         /\ IsInjective(Tail(s))
<1> DEFINE n == Len(s)
<1>1. n \in Nat \ {0} /\ DOMAIN s = 1 .. n /\ Head(s) = s[1]
  OBVIOUS
<1>2. /\ Tail(s) \in Seq(S) /\ DOMAIN Tail(s) = 1 .. n - 1
      /\ \A k \in 1 .. n - 1 : Tail(s)[k] = s[k + 1]
  BY <1>1
<1>3. \A j, k \in 1 .. n : s[j] = s[k] => j = k
  BY <1>1 DEF IsInjective
<1> HIDE DEF n
<1>4. Range(Tail(s)) = Range(s) \ {Head(s)}
  <2>1. ASSUME NEW k \in 1 .. n - 1
        PROVE  Tail(s)[k] \in Range(s) /\ Tail(s)[k] # Head(s)
    <3>1. k + 1 \in 1 .. n /\ 1 \in 1 .. n /\ k + 1 # 1
      BY <1>1
    <3>2. QED
      BY <1>1, <1>2, <1>3, <3>1 DEF Range
  <2>2. ASSUME NEW k \in 1 .. n, s[k] # Head(s)
        PROVE  s[k] \in Range(Tail(s))
    <3>1. k - 1 \in 1 .. n - 1 /\ (k - 1) + 1 = k
      BY <1>1, <2>2
    <3>2. QED
      BY <1>2, <3>1 DEF Range
  <2>3. QED
    BY <1>1, <1>2, <2>1, <2>2 DEF Range
<1>5. IsInjective(Tail(s))
  <2> SUFFICES ASSUME NEW a \in 1 .. n - 1, NEW b \in 1 .. n - 1, Tail(s)[a] = Tail(s)[b]
               PROVE  a = b
    BY <1>2 DEF IsInjective
  <2>1. a + 1 \in 1 .. n /\ b + 1 \in 1 .. n
    BY <1>1
  <2>2. a + 1 = b + 1
    BY <1>2, <1>3, <2>1
  <2>3. QED
    BY <2>2
<1>6. QED
  BY <1>1, <1>2, <1>4, <1>5 DEF Range
-----------------------------------------------------------------------------
(* ServerContexts                                                             *)

ContextsTypeOK ==
    /\ receiver \in [Contexts -> {"none", "run", "left", "holds", "done"}]
    /\ m_activeCntxlist \in Seq(Contexts)
    /\ m_inactiveConnCntxList \in Seq(Contexts)
    /\ deleter \in [at : {"wait", "empty", "last", "ended"}, holds : SUBSET Contexts]
    /\ manager \in [at : {"serving", "reset", "joinRx", "shut", "join", "gone"},
                    holds : SUBSET Contexts]
    /\ freed \subseteq Contexts
    /\ aborted \in BOOLEAN

Listed == Range(m_activeCntxlist) \cup Range(m_inactiveConnCntxList)

(* Each context is in one place at most: a list, a hand, or destroyed.        *)
OnePlace ==
    /\ IsInjective(m_activeCntxlist) /\ IsInjective(m_inactiveConnCntxList)
    /\ Range(m_activeCntxlist) \cap Range(m_inactiveConnCntxList) = {}
    /\ Listed \cap (deleter.holds \cup manager.holds \cup freed) = {}
    /\ deleter.holds \cap (manager.holds \cup freed) = {}
    /\ manager.holds \cap freed = {}

(* Who has no receiving thread yet is nowhere, and who is destroyed has none  *)
(* any more.                                                                  *)
Receivers ==
    /\ \A c \in Contexts : receiver[c] = "none" => ~Kept(c) /\ c \notin freed
    /\ \A c \in freed : receiver[c] = "done"

(* Until the shutdown every context with a receiving thread is listed.        *)
Serving ==
    manager.at = "serving" =>
        /\ ~aborted /\ manager.holds = {}
        /\ \A c \in Contexts :
             receiver[c] \in {"run", "left", "holds"} => c \in Range(m_activeCntxlist)

ContextsInv == ContextsTypeOK /\ OnePlace /\ Receivers /\ Serving

(* A server starts without contexts.                                          *)
LEMMA ContextsInitInv == ContextsInit => ContextsInv
<1> SUFFICES ASSUME ContextsInit PROVE ContextsInv
  OBVIOUS
<1>1. Range(<<>>) = {} /\ IsInjective(<<>>) /\ <<>> \in Seq(Contexts)
  BY DEF Range, IsInjective
<1>2. QED
  BY <1>1 DEF ContextsInit, ContextsInv, ContextsTypeOK, OnePlace, Receivers, Serving,
     Listed, Kept

(* The listening thread lists a new context (CommunicationManagerServer::     *)
(* onConnection).                                                             *)
LEMMA OnConnectionInv ==
  ASSUME ContextsInv, NEW c \in Contexts, onConnection(c) PROVE ContextsInv'
<1> USE DEF ContextsInv
<1>1. c \notin Listed /\ c \notin deleter.holds \cup manager.holds \cup freed
  BY DEF onConnection, Receivers, Kept, Listed
<1>2. /\ m_activeCntxlist' \in Seq(Contexts)
      /\ Range(m_activeCntxlist') = Range(m_activeCntxlist) \cup {c}
      /\ IsInjective(m_activeCntxlist')
  BY <1>1, InjectiveAppend DEF onConnection, ContextsTypeOK, OnePlace, Listed
<1>3. ContextsTypeOK'
  BY <1>2 DEF onConnection, ContextsTypeOK
<1>4. OnePlace'
  BY <1>1, <1>2 DEF onConnection, OnePlace, Listed
<1>5. Receivers'
  BY <1>1, <1>2 DEF onConnection, Receivers, ContextsTypeOK, Kept
<1>6. Serving'
  BY <1>2 DEF onConnection, Serving, ContextsTypeOK
<1>7. QED
  BY <1>3, <1>4, <1>5, <1>6

(* A context that expires moves from the one list to the other, where the     *)
(* deleter finds it (CommunicationManagerServer::onConnectionExpiration).     *)
LEMMA ExpirationInv ==
  ASSUME ContextsInv, NEW c \in Contexts, onConnectionExpiration(c) PROVE ContextsInv'
<1> USE DEF ContextsInv
<1>1. CASE Erase(c) /\ m_inactiveConnCntxList' = Append(m_inactiveConnCntxList, c)
           /\ UNCHANGED aborted
  <2>1. PICK i \in DOMAIN m_activeCntxlist :
          /\ m_activeCntxlist[i] = c
          /\ m_activeCntxlist' = RemoveAt(m_activeCntxlist, i)
    BY <1>1 DEF Erase
  <2>2. c \in Range(m_activeCntxlist) /\ c \notin Range(m_inactiveConnCntxList)
    BY <2>1 DEF Range, OnePlace
  <2>3. /\ m_activeCntxlist' \in Seq(Contexts)
        /\ Range(m_activeCntxlist') = Range(m_activeCntxlist) \ {c}
        /\ IsInjective(m_activeCntxlist')
    BY <2>1, InjectiveRemoveAt DEF ContextsTypeOK, OnePlace
  <2>4. /\ m_inactiveConnCntxList' \in Seq(Contexts)
        /\ Range(m_inactiveConnCntxList') = Range(m_inactiveConnCntxList) \cup {c}
        /\ IsInjective(m_inactiveConnCntxList')
    BY <1>1, <2>2, InjectiveAppend DEF ContextsTypeOK, OnePlace
  <2>5. ContextsTypeOK'
    BY <1>1, <2>3, <2>4 DEF onConnectionExpiration, ContextsTypeOK
  <2>6. OnePlace'
    BY <2>2, <2>3, <2>4 DEF onConnectionExpiration, OnePlace, Listed
  <2>7. Receivers'
    BY <2>2, <2>3, <2>4 DEF onConnectionExpiration, Receivers, ContextsTypeOK, Kept
  <2>8. Serving'
    BY <1>1, <2>3 DEF onConnectionExpiration, Serving, ContextsTypeOK
  <2>9. QED
    BY <2>5, <2>6, <2>7, <2>8
<1>2. CASE c \notin Range(m_activeCntxlist) /\ aborted' = ~Kept(c)
           /\ UNCHANGED <<m_activeCntxlist, m_inactiveConnCntxList, m_sem>>
  <2>1. manager.at # "serving"
    BY <1>2 DEF onConnectionExpiration, Serving
  <2>2. ContextsTypeOK'
    BY <1>2 DEF onConnectionExpiration, ContextsTypeOK
  <2>3. OnePlace'
    BY <1>2 DEF onConnectionExpiration, OnePlace, Listed
  <2>4. Receivers'
    BY <1>2 DEF onConnectionExpiration, Receivers, ContextsTypeOK, Kept
  <2>5. Serving'
    BY <2>1 DEF onConnectionExpiration, Serving
  <2>6. QED
    BY <2>2, <2>3, <2>4, <2>5
<1>3. QED
  BY <1>1, <1>2 DEF onConnectionExpiration

(* The other steps of a receiving thread, and the end of a connection, move   *)
(* no context.                                                                *)
LEMMA ReceiverInv ==
  ASSUME ContextsInv, NEW c \in Contexts, receive(c) \/ expire(c) \/ Close(c)
  PROVE  ContextsInv'
<1> USE DEF ContextsInv
<1>1. CASE receive(c)
  BY <1>1 DEF receive, ContextsTypeOK, OnePlace, Receivers, Serving, Listed, Kept
<1>2. CASE expire(c)
  <2>1. CASE Kept(c)
    BY <1>2, <2>1 DEF expire, ContextsTypeOK, OnePlace, Receivers, Serving, Listed, Kept
  <2>2. CASE ~Kept(c)
    <3>1. manager.at # "serving"
      BY <1>2, <2>2 DEF expire, Serving, Kept
    <3>2. QED
      BY <1>2, <2>2, <3>1 DEF expire, ContextsTypeOK, OnePlace, Receivers, Serving, Listed, Kept
  <2>3. QED
    BY <2>1, <2>2
<1>3. CASE Close(c)
  BY <1>3 DEF Close, ContextsTypeOK, OnePlace, Receivers, Serving, Listed, Kept
<1>4. QED
  BY <1>1, <1>2, <1>3

(* The deleter destroys what it took, whose thread has ended, and takes the   *)
(* next (ConnectionContextDeleter::getConnection).                            *)
LEMMA GetConnectionInv == ASSUME ContextsInv, getConnection PROVE ContextsInv'
<1> USE DEF ContextsInv
<1>1. freed' = freed \cup deleter.holds /\ \A c \in freed' : receiver[c] = "done"
  BY DEF getConnection, Receivers
<1>2. CASE m_inactiveConnCntxList # <<>>
  <2> DEFINE c == Head(m_inactiveConnCntxList)
  <2>1. /\ m_inactiveConnCntxList' \in Seq(Contexts) /\ c \in Contexts
        /\ c \in Range(m_inactiveConnCntxList)
        /\ Range(m_inactiveConnCntxList') = Range(m_inactiveConnCntxList) \ {c}
        /\ IsInjective(m_inactiveConnCntxList')
    <3>1. m_inactiveConnCntxList \in Seq(Contexts) /\ IsInjective(m_inactiveConnCntxList)
      BY DEF ContextsTypeOK, OnePlace
    <3>2. m_inactiveConnCntxList' = Tail(m_inactiveConnCntxList)
      BY <1>2 DEF getConnection
    <3> HIDE DEF ContextsInv
    <3>3. QED
      BY <1>2, <3>1, <3>2, InjectiveTail
  <2>2. deleter' = [deleter EXCEPT !.holds = {c}]
    BY <1>2 DEF getConnection
  <2> HIDE DEF c
  <2>3. deleter'.holds = {c} /\ deleter'.at = deleter.at
    BY <2>2 DEF ContextsTypeOK
  <2>4. ContextsTypeOK'
    BY <1>1, <2>1, <2>2 DEF getConnection, ContextsTypeOK
  <2>5. OnePlace'
    BY <1>1, <2>1, <2>3 DEF getConnection, OnePlace, Listed
  <2>6. Receivers'
    BY <1>1, <2>1, <2>3 DEF getConnection, Receivers, ContextsTypeOK, Kept
  <2>7. Serving'
    BY DEF getConnection, Serving
  <2>8. QED
    BY <2>4, <2>5, <2>6, <2>7
<1>3. CASE m_inactiveConnCntxList = <<>>
  <2>1. deleter'.holds = {} /\ UNCHANGED m_inactiveConnCntxList
    BY <1>3 DEF getConnection
  <2>2. deleter' \in [at : {"wait", "empty", "last", "ended"}, holds : SUBSET Contexts]
    BY <1>3 DEF getConnection
  <2>3. ContextsTypeOK'
    BY <1>1, <2>1, <2>2 DEF getConnection, ContextsTypeOK
  <2>4. OnePlace'
    BY <1>1, <2>1 DEF getConnection, OnePlace, Listed
  <2>5. Receivers'
    BY <1>1, <2>1 DEF getConnection, Receivers, ContextsTypeOK, Kept
  <2>6. Serving'
    BY DEF getConnection, Serving
  <2>7. QED
    BY <2>3, <2>4, <2>5, <2>6
<1>4. QED
  BY <1>2, <1>3

(* shutdown() takes the contexts out of the list one by one.                  *)
LEMMA PopContextInv == ASSUME ContextsInv, PopContext PROVE ContextsInv'
<1> USE DEF ContextsInv
<1>1. CASE m_activeCntxlist = <<>>
  BY <1>1 DEF PopContext, ContextsTypeOK, OnePlace, Receivers, Serving, Listed, Kept
<1>2. CASE m_activeCntxlist # <<>>
  <2> DEFINE c == Head(m_activeCntxlist)
  <2>1. /\ m_activeCntxlist' \in Seq(Contexts) /\ c \in Contexts
        /\ c \in Range(m_activeCntxlist)
        /\ Range(m_activeCntxlist') = Range(m_activeCntxlist) \ {c}
        /\ IsInjective(m_activeCntxlist')
    <3>1. m_activeCntxlist \in Seq(Contexts) /\ IsInjective(m_activeCntxlist)
      BY DEF ContextsTypeOK, OnePlace
    <3>2. m_activeCntxlist' = Tail(m_activeCntxlist)
      BY <1>2 DEF PopContext
    <3> HIDE DEF ContextsInv
    <3>3. QED
      BY <1>2, <3>1, <3>2, InjectiveTail
  <2>2. manager' = [manager EXCEPT !.holds = {c}]
    BY <1>2 DEF PopContext
  <2> HIDE DEF c
  <2>3. manager'.holds = {c} /\ manager'.at = "reset"
    BY <2>2 DEF PopContext, ContextsTypeOK
  <2>4. ContextsTypeOK'
    BY <2>1, <2>2 DEF PopContext, ContextsTypeOK
  <2>5. OnePlace'
    BY <2>1, <2>3 DEF PopContext, OnePlace, Listed
  <2>6. Receivers'
    BY <2>1, <2>3 DEF PopContext, Receivers, ContextsTypeOK, Kept
  <2>7. Serving'
    BY <2>3 DEF Serving
  <2>8. QED
    BY <2>4, <2>5, <2>6, <2>7
<1>3. QED
  BY <1>1, <1>2

(* Each step of the system keeps the invariant.                               *)
LEMMA ContextsStepInv == ContextsInv /\ [ContextsNext]_svars => ContextsInv'
<1> SUFFICES ASSUME ContextsInv, [ContextsNext]_svars PROVE ContextsInv'
  OBVIOUS
<1>1. ASSUME NEW c \in Contexts, onConnection(c) \/ Close(c) \/ ReceiverStep(c)
      PROVE  ContextsInv'
  BY <1>1, OnConnectionInv, ExpirationInv, ReceiverInv DEF ReceiverStep
<1>2. CASE getConnection
  BY <1>2, GetConnectionInv
<1>3. CASE PopContext
  BY <1>3, PopContextInv
<1> USE DEF ContextsInv, ContextsTypeOK, OnePlace, Receivers, Serving, Listed, Kept
<1>4. CASE DeleterWait
  BY <1>4 DEF DeleterWait
<1>5. CASE ResetContext
  BY <1>5 DEF ResetContext
<1>6. CASE JoinDeleter
  BY <1>6 DEF JoinDeleter
<1>7. CASE Gone
  BY <1>7 DEF Gone
<1>8. CASE shutdown
  BY <1>8 DEF shutdown
<1>9. CASE UNCHANGED svars
  BY <1>9 DEF svars
<1>10. QED
  BY <1>1, <1>2, <1>3, <1>4, <1>5, <1>6, <1>7, <1>8, <1>9 DEF ContextsNext, Deleter, Owner

(* However connections come, expire and are shut down: while the server       *)
(* serves no context is destroyed by its own thread, each is listed once, and *)
(* nobody refers to one that was destroyed (CommunicationManagerServer,       *)
(* ConnectionContextDeleter).                                                 *)
THEOREM ContextsExpireSafely == ContextsSpec => []ExpiresSafely
<1>1. ContextsInv => ExpiresSafely
  <2> SUFFICES ASSUME ContextsInv PROVE ExpiresSafely
    OBVIOUS
  <2>1. IsInjective(m_activeCntxlist \o m_inactiveConnCntxList)
    BY InjectiveConcat DEF ContextsInv, ContextsTypeOK, OnePlace
  <2>2. \A c \in freed : receiver[c] = "done" /\ ~Kept(c)
    BY DEF ContextsInv, OnePlace, Receivers, Kept, Listed
  <2>3. QED
    BY <2>1, <2>2 DEF ContextsInv, Serving, ExpiresSafely
<1>2. QED
  BY <1>1, ContextsInitInv, ContextsStepInv, PTL DEF ContextsSpec
-----------------------------------------------------------------------------
(* Packets                                                                    *)

Byte == [of : Senders, pos : Nat]
Total(s) == HEADER_SIZE + size[s]

(* Bytes that s has given to the socket, and bytes taken of the packet that   *)
(* is being received.                                                         *)
SentOf(s) ==
    IF tx[s] = "header" THEN HEADER_SIZE - left[s]
    ELSE IF tx[s] = "data" THEN Total(s) - left[s] ELSE Total(s)
Taken == IF reading = "data" THEN HEADER_SIZE + Len(received) ELSE 0

PacketsTypeOK ==
    /\ size \in [Senders -> Nat]
    /\ tx \in [Senders -> {"idle", "header", "data", "sent", "failed"}]
    /\ left \in [Senders -> Nat]
    /\ order \in Seq(Senders)
    /\ stream \in Seq(Byte) /\ received \in Seq(Byte) /\ packets \in Seq(Seq(Byte))

(* One sender at a time has the lock: the last one in order.                  *)
LockOrder ==
    /\ IsInjective(order)
    /\ \A s \in Senders : tx[s] # "idle" <=> s \in Range(order)
    /\ \A s \in Senders : tx[s] \in {"header", "data"} =>
         /\ m_txLock = {s} /\ order # <<>> /\ s = order[Len(order)]
         /\ left[s] <= IF tx[s] = "header" THEN HEADER_SIZE ELSE size[s]
    /\ alive => \A s \in Senders : tx[s] # "failed"

(* What was received of the next packet of the order are its first bytes.     *)
Receives ==
    alive =>
      /\ reading \in {"header", "data"}
      /\ reading = "header" => received = <<>>
      /\ reading = "data" =>
           /\ Len(packets) < Len(order)
           /\ expected = size[order[Len(packets) + 1]]
           /\ Len(received) < expected
           /\ \A j \in 1 .. Len(received) :
                received[j] = [of |-> order[Len(packets) + 1], pos |-> HEADER_SIZE + j]

(* The bytes of all packets in their order are numbered: base[i] come before  *)
(* the i-th packet.  Took are no more in the socket, Gave have been in it.    *)
Took(base) == base[Len(packets) + 1] + Taken
Gave(base) ==
    IF order = <<>> THEN base[1] ELSE base[Len(order)] + SentOf(order[Len(order)])

Numbered(base) ==
    /\ base \in [Nat -> Nat]
    /\ \A i \in 1 .. Len(order) : base[i + 1] = base[i] + Total(order[i])
    /\ \A i \in 1 .. Len(order), j \in 1 .. Len(order) + 1 :
         i < j => base[i] + Total(order[i]) <= base[j]

(* The socket holds the bytes from the one number to the other.               *)
Wire(base) ==
    /\ Len(stream) = Gave(base) - Took(base)
    /\ \A i \in 1 .. Len(order) : \A p \in 1 .. Total(order[i]) :
         Took(base) < base[i] + p /\ base[i] + p <= Gave(base) =>
            stream[base[i] + p - Took(base)] = [of |-> order[i], pos |-> p]

PacketsInv ==
    /\ PacketsTypeOK /\ LockOrder /\ Receives /\ PacketsIntact
    /\ alive => \E base : Numbered(base) /\ Wire(base)

(* How much a sender has sent.                                                *)
LEMMA SentBounds ==
  ASSUME PacketsInv, NEW s \in Senders
  PROVE  Total(s) \in Nat /\ HEADER_SIZE <= Total(s) /\ SentOf(s) \in 0 .. Total(s)
<1>1. size[s] \in Nat /\ left[s] \in Nat /\ HEADER_SIZE \in Nat
  BY PacketsAssumption DEF PacketsInv, PacketsTypeOK
<1>2. /\ tx[s] = "header" => left[s] <= HEADER_SIZE
      /\ tx[s] = "data" => left[s] <= size[s]
  BY DEF PacketsInv, LockOrder
<1>3. QED
  BY <1>1, <1>2 DEF Total, SentOf

(* The bytes of one send.                                                     *)
LEMMA BytesAre ==
  ASSUME NEW s \in Senders, NEW from \in Nat, NEW to \in Nat, from <= to
  PROVE  /\ Bytes(s, from, to) \in Seq(Byte)
         /\ Len(Bytes(s, from, to)) = to - from
         /\ \A k \in 1 .. to - from : Bytes(s, from, to)[k] = [of |-> s, pos |-> from + k]
<1> DEFINE m == to - from
           b == [k \in 1 .. m |-> [of |-> s, pos |-> from + k]]
<1>1. Bytes(s, from, to) = b
  BY DEF Bytes
<1>2. m \in Nat
  OBVIOUS
<1>3. \A k \in 1 .. m : b[k] = [of |-> s, pos |-> from + k]
  OBVIOUS
<1>4. \A k \in 1 .. m : [of |-> s, pos |-> from + k] \in Byte
  BY DEF Byte
<1>5. b \in [1 .. m -> Byte]
  BY <1>4
<1> HIDE DEF m, b
<1>6. b \in Seq(Byte) /\ Len(b) = m
  BY <1>2, <1>5
<1>7. QED
  BY <1>1, <1>3, <1>6 DEF m

(* The data of a packet.                                                      *)
LEMMA DataIs ==
  ASSUME NEW s \in Senders, size[s] \in Nat
  PROVE  /\ Data(s) \in Seq(Byte) /\ Len(Data(s)) = size[s]
         /\ \A k \in 1 .. size[s] : Data(s)[k] = [of |-> s, pos |-> HEADER_SIZE + k]
<1> DEFINE h == HEADER_SIZE
           m == size[s]
           w == Bytes(s, 0, h + m)
<1>1. h \in Nat /\ m \in Nat /\ h + m \in Nat
  BY PacketsAssumption
<1>2. Data(s) = SubSeq(w, h + 1, h + m)
  BY <1>1 DEF Data, Whole
<1>3. /\ w \in Seq(Byte) /\ Len(w) = h + m
      /\ \A k \in 1 .. h + m : w[k] = [of |-> s, pos |-> 0 + k]
  <2>1. 0 \in Nat /\ 0 <= h + m /\ (h + m) - 0 = h + m
    BY <1>1
  <2> HIDE DEF h, m
  <2>2. QED
    BY <1>1, <2>1, BytesAre
<1> HIDE DEF h, m, w
<1>4. /\ SubSeq(w, h + 1, h + m) \in Seq(Byte) /\ Len(SubSeq(w, h + 1, h + m)) = m
      /\ \A k \in 1 .. m : SubSeq(w, h + 1, h + m)[k] = w[h + k]
  BY <1>1, <1>3
<1>5. \A k \in 1 .. m : w[h + k] = [of |-> s, pos |-> h + k]
  BY <1>1, <1>3
<1>6. QED
  BY <1>2, <1>4, <1>5 DEF h, m

(* The invariant before anything is sent.                                     *)
LEMMA PacketsInitInv == PacketsInit => PacketsInv
<1> SUFFICES ASSUME PacketsInit PROVE PacketsInv
  OBVIOUS
<1>1. PacketsTypeOK
  <2>1. size \in [Senders -> Nat]
    BY PacketsAssumption DEF PacketsInit
  <2>2. /\ tx \in [Senders -> {"idle", "header", "data", "sent", "failed"}]
        /\ left \in [Senders -> Nat]
    BY DEF PacketsInit
  <2>3. QED
    BY <2>1, <2>2 DEF PacketsInit, PacketsTypeOK
<1>2. LockOrder
  BY DEF PacketsInit, LockOrder, IsInjective, Range
<1>3. Receives /\ PacketsIntact
  BY DEF PacketsInit, Receives, PacketsIntact, IsInjective
<1>4. Numbered([i \in Nat |-> 0]) /\ Wire([i \in Nat |-> 0])
  BY DEF PacketsInit, Numbered, Wire, Took, Gave, Taken
<1>5. QED
  BY <1>1, <1>2, <1>3, <1>4 DEF PacketsInv

(* The order grows by who takes the lock; the numbers of the bytes of others  *)
(* stay (ConnectionTransceiver::sendDataPacket).                              *)
LEMMA LockTxInv == ASSUME PacketsInv, NEW s \in Senders, lockTx(s) PROVE PacketsInv'
<1> DEFINE n == Len(order)
           k == Len(packets)
<1>1. /\ PacketsTypeOK /\ LockOrder /\ Receives /\ PacketsIntact
      /\ HEADER_SIZE \in Nat \ {0}
  BY PacketsAssumption DEF PacketsInv
<1>2. /\ tx[s] = "idle" /\ m_txLock = {} /\ order' = Append(order, s) /\ m_txLock' = {s}
      /\ tx' = [tx EXCEPT ![s] = "header"] /\ left' = [left EXCEPT ![s] = HEADER_SIZE]
      /\ UNCHANGED <<size, stream, alive, reading, expected, received, packets>>
  BY DEF lockTx
<1>3. /\ n \in Nat /\ order' \in Seq(Senders) /\ Len(order') = n + 1
      /\ order'[n + 1] = s /\ \A i \in 1 .. n : order'[i] = order[i]
  BY <1>1, <1>2 DEF PacketsTypeOK
<1>4. s \notin Range(order) /\ IsInjective(order)
  BY <1>1, <1>2 DEF LockOrder
<1>5. IsInjective(order') /\ Range(order') = Range(order) \cup {s}
  BY <1>1, <1>2, <1>4, InjectiveAppend DEF PacketsTypeOK
<1>6. k \in Nat /\ k <= n
  BY <1>1, <1>3 DEF PacketsIntact, PacketsTypeOK
<1>a. \A i \in 1 .. n : order[i] \in Senders
  BY <1>1 DEF PacketsTypeOK
<1>b. \A i \in 1 .. n + 1 : \/ i = n + 1 /\ order'[i] = s
                            \/ i \in 1 .. n /\ order'[i] = order[i]
  <2> HIDE DEF n
  <2>1. QED
    BY <1>3
<1>c. k' = k
  BY <1>2
<1>7. PacketsTypeOK'
  BY <1>1, <1>2, <1>3 DEF PacketsTypeOK
<1>8. LockOrder'
  <2>1. \A t \in Senders : tx'[t] = IF t = s THEN "header" ELSE tx[t]
    BY <1>1, <1>2 DEF PacketsTypeOK
  <2>2. left'[s] = HEADER_SIZE
    BY <1>1, <1>2 DEF PacketsTypeOK
  <2>3. \A t \in Senders : t # s => tx[t] \notin {"header", "data"}
    BY <1>1, <1>2 DEF LockOrder
  <2>4. \A t \in Senders : tx'[t] # "idle" <=> t \in Range(order')
    BY <1>1, <1>5, <2>1 DEF LockOrder
  <2>5. order' # <<>> /\ s = order'[Len(order')]
    BY <1>3
  <2>6. \A t \in Senders : tx'[t] \in {"header", "data"} => t = s
    BY <2>1, <2>3
  <2>7. alive' => \A t \in Senders : tx'[t] # "failed"
    BY <1>1, <1>2, <2>1 DEF LockOrder
  <2>8. HEADER_SIZE <= HEADER_SIZE
    BY <1>1
  <2>9. QED
    BY <1>2, <1>5, <2>1, <2>2, <2>4, <2>5, <2>6, <2>7, <2>8 DEF LockOrder
<1>9. Receives'
  <2>1. reading = "data" /\ alive => k + 1 \in 1 .. n /\ order'[k + 1] = order[k + 1] /\ k < n + 1
    BY <1>1, <1>3, <1>6 DEF Receives
  <2>2. QED
    BY <1>1, <1>2, <1>3, <2>1 DEF Receives
<1>10. PacketsIntact'
  <2>1. \A t \in Senders : Data(t)' = Data(t)
    BY <1>2 DEF Data, Whole
  <2>2. DOMAIN packets = 1 .. k
    BY <1>1 DEF PacketsTypeOK
  <2>3. \A i \in 1 .. k : packets[i] = Data(order[i])
    BY <1>1, <2>2 DEF PacketsIntact
  <2>4. ASSUME NEW i \in 1 .. k PROVE packets'[i] = Data(order[i])'
    <3> HIDE DEF n, k
    <3>1. i \in 1 .. n
      BY <1>3, <1>6
    <3>2. order'[i] = order[i] /\ order[i] \in Senders
      BY <1>3, <1>a, <3>1
    <3>3. Data(order[i])' = Data(order'[i])
      BY <1>2 DEF Data, Whole
    <3>4. QED
      BY <1>2, <2>1, <2>3, <3>2, <3>3
  <2>5. Len(packets') <= Len(order')
    BY <1>2, <1>3, <1>6
  <2>6. DOMAIN packets' = 1 .. k
    BY <1>2, <2>2
  <2>7. QED
    BY <1>5, <2>4, <2>5, <2>6 DEF PacketsIntact
<1>11. ASSUME alive' PROVE \E base : (Numbered(base) /\ Wire(base))'
  <2>1. PICK base : Numbered(base) /\ Wire(base)
    BY <1>2, <1>11 DEF PacketsInv
  <2>0. PICK after : after = [base EXCEPT ![n + 2] = base[n + 1] + Total(s)]
    OBVIOUS
  <2>2. base \in [Nat -> Nat]
    BY <2>1 DEF Numbered
  <2>3. /\ Total(s) \in Nat
        /\ \A i \in 1 .. n : Total(order[i]) \in Nat
    <3> HIDE DEF n
    <3>1. \A t \in Senders : Total(t) \in Nat
      BY SentBounds
    <3>2. QED
      BY <1>a, <3>1
  <2>4. /\ after \in [Nat -> Nat] /\ after[n + 2] = base[n + 1] + Total(s)
        /\ \A i \in 1 .. n + 1 : after[i] = base[i]
    <3> HIDE DEF n
    <3>1. n + 2 \in Nat /\ base[n + 1] + Total(s) \in Nat
      BY <1>3, <2>2, <2>3
    <3>2. \A i \in 1 .. n + 1 : i \in Nat /\ i # n + 2
      BY <1>3
    <3>3. QED
      BY <2>0, <2>2, <3>1, <3>2
  <2>5. Gave(base) = base[n + 1]
    <3>1. CASE order = <<>>
      BY <3>1 DEF Gave
    <3>2. CASE order # <<>>
      <4>1. n \in 1 .. n /\ order[n] \in Senders
        BY <1>1, <1>3, <3>2 DEF PacketsTypeOK
      <4>2. order[n] \in Range(order)
        BY <1>1, <4>1 DEF Range, PacketsTypeOK
      <4>3. tx[order[n]] = "sent"
        BY <1>1, <1>2, <1>11, <4>1, <4>2 DEF LockOrder, PacketsTypeOK
      <4>4. Gave(base) = base[n] + Total(order[n])
        BY <3>2, <4>3 DEF Gave, SentOf
      <4>5. QED
        BY <2>1, <4>1, <4>4 DEF Numbered
    <3>3. QED
      BY <3>1, <3>2
  <2>6. Took(after)' = Took(base)
    <3>1. k + 1 \in 1 .. n + 1
      BY <1>3, <1>6
    <3>2. QED
      BY <1>2, <2>4, <3>1 DEF Took, Taken
  <2>7. Gave(after)' = Gave(base)
    <3>1. order' # <<>> /\ Len(order') = n + 1 /\ order'[n + 1] = s
      BY <1>3
    <3>2. SentOf(s)' = 0
      BY <1>1, <1>2 DEF SentOf, PacketsTypeOK
    <3>3. Gave(after)' = after[n + 1] + 0
      BY <3>1, <3>2 DEF Gave
    <3>4. n + 1 \in 1 .. n + 1 /\ base[n + 1] \in Nat
      BY <1>3, <2>2
    <3>5. after[n + 1] = base[n + 1]
      <4> HIDE DEF n
      <4>1. n + 1 \in 1 .. n + 1
        BY <1>3
      <4>2. QED
        BY <2>4, <4>1
    <3>6. QED
      BY <2>5, <3>3, <3>4, <3>5
  <2> HIDE DEF n, k
  <2>8. \A i \in 1 .. n : i \in 1 .. n + 1 /\ i + 1 \in 1 .. n + 1 /\ i # n + 1
    BY <1>3
  <2>9. \A i \in 1 .. n + 1 : Total(order[i])' = Total(order'[i])
    BY <1>2 DEF Total
  <2>10. Numbered(after)'
    <3>1. ASSUME NEW i \in 1 .. n + 1
          PROVE  after[i + 1] = after[i] + Total(order'[i])
      <4>1. CASE i = n + 1
        <5>1. n + 1 \in 1 .. n + 1 /\ i + 1 = n + 2
          BY <1>3, <4>1
        <5>2. QED
          BY <1>3, <2>4, <4>1, <5>1
      <4>2. CASE i \in 1 .. n
        <5>1. base[i + 1] = base[i] + Total(order[i])
          BY <2>1, <4>2 DEF Numbered, n
        <5>2. after[i] = base[i] /\ after[i + 1] = base[i + 1] /\ order'[i] = order[i]
          BY <1>3, <2>4, <2>8, <4>2
        <5>3. QED
          BY <5>1, <5>2
      <4>3. QED
        BY <1>b, <4>1, <4>2
    <3>2. ASSUME NEW i \in 1 .. n + 1, NEW j \in 1 .. n + 2, i < j
          PROVE  after[i] + Total(order'[i]) <= after[j]
      <4>0. /\ \A l \in 1 .. n + 2 : after[l] \in Nat
            /\ \A l \in 1 .. n + 1 : base[l] \in Nat
        <5>1. \A l \in 1 .. n + 2 : l \in Nat
          OBVIOUS
        <5>2. \A l \in 1 .. n + 1 : l \in Nat
          OBVIOUS
        <5>3. QED
          BY <2>2, <2>4, <5>1, <5>2
      <4>1. CASE i = n + 1
        <5>1. j = n + 2 /\ n + 1 \in 1 .. n + 1
          BY <1>3, <3>2, <4>1
        <5>2. after[i] + Total(order'[i]) = after[j]
          BY <1>3, <2>4, <4>1, <5>1
        <5>3. QED
          BY <4>0, <5>2
      <4>2. CASE i \in 1 .. n /\ j \in 1 .. n + 1
        <5>1. base[i] + Total(order[i]) <= base[j]
          BY <2>1, <3>2, <4>2 DEF Numbered, n
        <5>2. after[i] = base[i] /\ after[j] = base[j] /\ order'[i] = order[i]
          BY <1>3, <2>4, <2>8, <4>2
        <5>3. QED
          BY <5>1, <5>2
      <4>3. CASE i \in 1 .. n /\ j = n + 2
        <5>1. i < n + 1 /\ n + 1 \in 1 .. n + 1
          BY <1>3, <4>3
        <5>2. base[i] + Total(order[i]) <= base[n + 1]
          BY <2>1, <4>3, <5>1 DEF Numbered, n
        <5>3. after[i] = base[i] /\ order'[i] = order[i] /\ Total(order[i]) \in Nat
          BY <1>3, <2>3, <2>4, <2>8, <4>3
        <5>4. after[j] = base[n + 1] + Total(s)
          BY <2>4, <4>3
        <5>5. base[i] \in Nat /\ base[n + 1] \in Nat
          BY <2>8, <4>0, <4>3, <5>1
        <5>6. QED
          BY <2>3, <5>2, <5>3, <5>4, <5>5
      <4>4. j \in 1 .. n + 1 \/ j = n + 2
        BY <1>3
      <4>5. QED
        BY <1>b, <4>1, <4>2, <4>3, <4>4
    <3>3. \A i \in 1 .. n + 1 : after[i + 1] = after[i] + Total(order[i])'
      BY <2>9, <3>1
    <3>4. \A i \in 1 .. n + 1, j \in 1 .. n + 2 :
            i < j => after[i] + Total(order[i])' <= after[j]
      BY <2>9, <3>2
    <3>5. Len(order') = n + 1 /\ (n + 1) + 1 = n + 2
      BY <1>3
    <3>6. QED
      BY <2>4, <3>3, <3>4, <3>5 DEF Numbered
  <2>11. Wire(after)'
    <3>1. Len(stream') = Gave(after)' - Took(after)'
      BY <1>2, <2>1, <2>6, <2>7 DEF Wire
    <3>2. ASSUME NEW i \in 1 .. n + 1, NEW p \in 1 .. Total(order'[i]),
                 Took(base) < after[i] + p, after[i] + p <= Gave(base)
          PROVE  stream[after[i] + p - Took(base)] = [of |-> order'[i], pos |-> p]
      <4>1. i # n + 1
        <5>1. ASSUME i = n + 1 PROVE FALSE
          <6>1. n + 1 \in 1 .. n + 1 /\ n + 1 \in Nat
            BY <1>3
          <6>2. after[i] = base[n + 1] /\ base[n + 1] \in Nat
            BY <2>2, <2>4, <5>1, <6>1
          <6>3. base[n + 1] + p <= base[n + 1]
            BY <2>5, <3>2, <6>2
          <6>4. p \in Int /\ p >= 1
            BY <1>3, <2>3, <5>1
          <6>5. QED
            BY <6>2, <6>3, <6>4
        <5>2. QED
          BY <5>1
      <4>2. i \in 1 .. n /\ order'[i] = order[i]
        BY <1>b, <4>1
      <4>3. after[i] = base[i]
        BY <2>4
      <4>4. QED
        BY <2>1, <3>2, <4>2, <4>3 DEF Wire, n
    <3>3. \A i \in 1 .. n + 1 : \A p \in 1 .. Total(order[i])' :
             Took(after)' < after[i] + p /\ after[i] + p <= Gave(after)' =>
               stream'[after[i] + p - Took(after)'] = [of |-> order'[i], pos |-> p]
      BY <1>2, <2>6, <2>7, <2>9, <3>2
    <3>4. QED
      BY <1>3, <3>1, <3>3 DEF Wire
  <2>12. QED
    BY <2>10, <2>11
<1>12. QED
  BY <1>7, <1>8, <1>9, <1>10, <1>11 DEF PacketsInv

(* Where the bytes of the packets are.                                        *)
LEMMA Places ==
  ASSUME PacketsInv, NEW base, Numbered(base)
  PROVE  /\ Took(base) \in Nat /\ Gave(base) \in Nat
         /\ Len(packets) \in 0 .. Len(order)
         /\ \A i \in 1 .. Len(order) : /\ order[i] \in Senders /\ Total(order[i]) \in Nat
                                       /\ base[i] \in Nat
         /\ Gave(base) <= base[Len(order) + 1]
<1> DEFINE n == Len(order)
           k == Len(packets)
<1>1. /\ PacketsTypeOK /\ PacketsIntact /\ base \in [Nat -> Nat]
      /\ HEADER_SIZE \in Nat
  BY PacketsAssumption DEF PacketsInv, Numbered
<1>2. n \in Nat /\ k \in Nat /\ k <= n /\ k \in 0 .. n
  <2>a. order \in Seq(Senders) /\ packets \in Seq(Seq(Byte))
    BY <1>1 DEF PacketsTypeOK
  <2>1. n \in Nat /\ k \in Nat
    BY <2>a
  <2>2. k <= n
    BY <1>1 DEF PacketsIntact
  <2> HIDE DEF n, k
  <2>3. QED
    BY <2>1, <2>2
<1>3. \A i \in 1 .. n : order[i] \in Senders
  BY <1>1 DEF PacketsTypeOK
<1>4. \A i \in 1 .. n : Total(order[i]) \in Nat
  BY <1>3, SentBounds
<1>5. Taken \in Nat
  BY <1>1 DEF Taken, PacketsTypeOK
<1>6. Took(base) \in Nat
  <2>1. k + 1 \in Nat
    BY <1>2
  <2>2. base[k + 1] \in Nat
    BY <1>1, <2>1
  <2>3. QED
    BY <1>5, <2>2 DEF Took
<1>a. \A i \in 1 .. n : base[i] \in Nat
  BY <1>1
<1>7. CASE order = <<>>
  <2>1. n = 0
    BY <1>7
  <2>2. Gave(base) = base[1] /\ base[1] \in Nat /\ base[n + 1] = base[1]
    BY <1>1, <1>7, <2>1 DEF Gave
  <2>3. QED
    BY <1>2, <1>3, <1>4, <1>6, <1>a, <2>2
<1>8. CASE order # <<>>
  <2>1. n \in 1 .. n
    BY <1>1, <1>8 DEF PacketsTypeOK
  <2>2. /\ order[n] \in Senders /\ Total(order[n]) \in Nat
        /\ SentOf(order[n]) \in 0 .. Total(order[n])
    BY <1>3, <2>1, SentBounds
  <2>3. Gave(base) = base[n] + SentOf(order[n]) /\ base[n] \in Nat
    BY <1>1, <1>2, <1>8 DEF Gave
  <2>4. base[n + 1] = base[n] + Total(order[n])
    BY <2>1 DEF Numbered
  <2>5. QED
    <3> DEFINE g == SentOf(order[n])
               t == Total(order[n])
               b == base[n]
    <3>1. g \in 0 .. t /\ t \in Nat /\ b \in Nat
      BY <2>2, <2>3
    <3> HIDE DEF g, t, b
    <3>2. b + g \in Nat /\ b + g <= b + t
      BY <3>1
    <3>3. Gave(base) \in Nat /\ Gave(base) <= base[n + 1]
      BY <2>3, <2>4, <3>2 DEF g, t, b
    <3>4. QED
      BY <1>2, <1>3, <1>4, <1>6, <1>a, <3>3
<1>9. QED
  BY <1>7, <1>8

(* The first bytes in the socket are the next ones of their packet.           *)
LEMMA NextBytes ==
  ASSUME PacketsInv, NEW base, Numbered(base), Wire(base),
         NEW i \in 1 .. Len(order), NEW from \in Nat, NEW m \in 1 .. Len(stream),
         Took(base) = base[i] + from, from + m <= Total(order[i])
  PROVE  \A j \in 1 .. m : stream[j] = [of |-> order[i], pos |-> from + j]
<1> DEFINE T == Took(base)
           G == Gave(base)
           b == base[i]
           t == Total(order[i])
           l == Len(stream)
<1>1. T \in Nat /\ G \in Nat /\ b \in Nat /\ t \in Nat
  BY Places
<1>2. l = G - T /\ T = b + from /\ from + m <= t
  BY DEF Wire
<1>3. \A p \in 1 .. t : T < b + p /\ b + p <= G => stream[b + p - T] = [of |-> order[i], pos |-> p]
  BY DEF Wire
<1>4. m \in 1 .. l
  OBVIOUS
<1> HIDE DEF T, G, b, t, l
<1>5. \A j \in 1 .. m : /\ from + j \in 1 .. t /\ T < b + (from + j) /\ b + (from + j) <= G
                        /\ b + (from + j) - T = j
  BY <1>1, <1>2, <1>4
<1>6. QED
  BY <1>3, <1>5

(* Bytes are numbered on when some were taken from the front.                 *)
LEMMA WireTaken ==
  ASSUME PacketsInv, NEW base, Numbered(base), Wire(base), NEW m \in 1 .. Len(stream),
         stream' = SubSeq(stream, m + 1, Len(stream)),
         UNCHANGED <<size, tx, left, order>>, Took(base)' = Took(base) + m
  PROVE  Numbered(base)' /\ Wire(base)'
<1> DEFINE T == Took(base)
           G == Gave(base)
           l == Len(stream)
<1>1. T \in Nat /\ G \in Nat /\ l = G - T /\ \A i \in 1 .. Len(order) : base[i] \in Nat
  BY Places DEF Wire
<1>2. Numbered(base)' /\ Gave(base)' = G /\ \A i \in 1 .. Len(order) : Total(order[i])' = Total(order[i])
  BY DEF Numbered, Total, Gave, SentOf
<1>3. /\ Len(stream') = l - m
      /\ \A j \in 1 .. l - m : stream'[j] = stream[m + j]
  BY DEF PacketsInv, PacketsTypeOK
<1>4. ASSUME NEW i \in 1 .. Len(order), NEW p \in 1 .. Total(order[i]),
             T + m < base[i] + p, base[i] + p <= G
      PROVE  stream'[base[i] + p - (T + m)] = [of |-> order[i], pos |-> p]
  <2>1. base[i] \in Nat /\ p \in Int /\ m \in Nat
    BY <1>1
  <2> DEFINE t == Total(order[i])
  <2>2. \A q \in 1 .. t : T < base[i] + q /\ base[i] + q <= G =>
                              stream[base[i] + q - T] = [of |-> order[i], pos |-> q]
    BY DEF Wire
  <2> DEFINE b == base[i]
  <2>3. b \in Nat /\ p \in Int /\ m \in Nat /\ T + m < b + p /\ b + p <= G /\ p \in 1 .. t
    BY <1>4, <2>1
  <2>4. \A q \in 1 .. t : T < b + q /\ b + q <= G => stream[b + q - T] = [of |-> order[i], pos |-> q]
    BY <2>2
  <2> HIDE DEF t, T, G, l, b
  <2>5. /\ b + p - (T + m) \in 1 .. l - m /\ m + (b + p - (T + m)) = b + p - T
        /\ T < b + p
    BY <1>1, <2>3
  <2>6. stream'[b + p - (T + m)] = stream[m + (b + p - (T + m))]
    BY <1>3, <2>5
  <2>7. stream[b + p - T] = [of |-> order[i], pos |-> p]
    BY <2>3, <2>4, <2>5
  <2>8. stream'[b + p - (T + m)] = [of |-> order[i], pos |-> p]
    BY <2>5, <2>6, <2>7
  <2>9. QED
    BY <2>8 DEF b
<1>5. Len(stream') = G - (T + m)
  BY <1>1, <1>3
<1>6. order' = order /\ Took(base)' = T + m
  OBVIOUS
<1>7. \A i \in 1 .. Len(order) : \A p \in 1 .. Total(order[i])' :
        T + m < base[i] + p /\ base[i] + p <= G =>
          stream'[base[i] + p - (T + m)] = [of |-> order[i], pos |-> p]
  <2> HIDE DEF T, G, l
  <2>1. QED
    BY <1>2, <1>4
<1>8. QED
  <2> HIDE DEF T, G, l
  <2>1. QED
    BY <1>2, <1>5, <1>6, <1>7 DEF Wire

(* What a sender leaves alone keeps what was received and handed on.          *)
LEMMA ReceivedKept ==
  ASSUME PacketsInv, UNCHANGED <<size, alive, reading, expected, received, packets, order>>
  PROVE  /\ Receives' /\ PacketsIntact'
         /\ \A base : Numbered(base) => Numbered(base)' /\ Took(base)' = Took(base)
         /\ \A s \in Senders : Total(s)' = Total(s)
<1>1. Receives' /\ PacketsIntact'
  BY DEF PacketsInv, Receives, PacketsIntact, Data, Whole
<1>2. \A s \in Senders : Total(s)' = Total(s)
  BY DEF Total
<1>3. \A base : Numbered(base) => Numbered(base)'
  BY DEF Numbered, Total
<1>4. \A base : Took(base)' = Took(base)
  BY DEF Took, Taken
<1>5. QED
  BY <1>1, <1>2, <1>3, <1>4

(* A send puts the next bytes of its packet behind all the others.            *)
LEMMA SendInv == ASSUME PacketsInv, NEW s \in Senders, send(s) PROVE PacketsInv'
<1> DEFINE n == Len(order)
           end == IF tx[s] = "header" THEN HEADER_SIZE ELSE HEADER_SIZE + size[s]
           from == end - left[s]
<1>1. /\ PacketsTypeOK /\ LockOrder /\ HEADER_SIZE \in Nat
  BY PacketsAssumption DEF PacketsInv
<1>2. PICK m \in 1 .. left[s] :
        /\ stream' = stream \o Bytes(s, end - left[s], end - left[s] + m)
        /\ left' = [left EXCEPT ![s] = @ - m]
  BY DEF send
<1>3. /\ tx[s] \in {"header", "data"} /\ alive
      /\ UNCHANGED <<size, tx, m_txLock, alive, reading, expected, received, packets, order>>
  BY DEF send
<1>4. /\ order # <<>> /\ s = order[n] /\ n \in Nat /\ n \in 1 .. n
      /\ left[s] <= IF tx[s] = "header" THEN HEADER_SIZE ELSE size[s]
  BY <1>1, <1>3 DEF LockOrder, PacketsTypeOK
<1>5. size[s] \in Nat /\ left[s] \in Nat /\ left'[s] = left[s] - m
  BY <1>1, <1>2 DEF PacketsTypeOK
<1>6. /\ from \in Nat /\ from = SentOf(s) /\ SentOf(s)' = from + m /\ from + m \in Nat
      /\ left'[s] \in Nat /\ left'[s] <= left[s]
  <2>1. CASE tx[s] = "header"
    BY <1>1, <1>3, <1>4, <1>5, <2>1 DEF SentOf, Total
  <2>2. CASE tx[s] = "data"
    BY <1>1, <1>3, <1>4, <1>5, <2>2 DEF SentOf, Total
  <2>3. QED
    BY <1>3, <2>1, <2>2
<1> DEFINE bytes == Bytes(s, from, from + m)
<1>7. /\ bytes \in Seq(Byte) /\ Len(bytes) = m
      /\ \A j \in 1 .. m : bytes[j] = [of |-> s, pos |-> from + j]
  <2>1. m \in Nat /\ from <= from + m /\ (from + m) - from = m
    BY <1>6
  <2> HIDE DEF from
  <2>2. QED
    BY <1>6, <2>1, BytesAre
<1>8. /\ stream' = stream \o bytes /\ stream' \in Seq(Byte) /\ Len(stream') = Len(stream) + m
      /\ \A j \in 1 .. Len(stream) : stream'[j] = stream[j]
      /\ \A j \in 1 .. m : stream'[Len(stream) + j] = bytes[j]
  <2> HIDE DEF bytes
  <2>1. stream \in Seq(Byte)
    BY <1>1 DEF PacketsTypeOK
  <2>2. stream' = stream \o bytes
    BY <1>2 DEF bytes
  <2>3. bytes \in Seq(Byte) /\ Len(bytes) = m
    BY <1>7
  <2>4. /\ stream \o bytes \in Seq(Byte) /\ Len(stream \o bytes) = Len(stream) + m
        /\ \A j \in 1 .. Len(stream) : (stream \o bytes)[j] = stream[j]
        /\ \A j \in 1 .. m : (stream \o bytes)[Len(stream) + j] = bytes[j]
    BY <2>1, <2>3
  <2>5. QED
    BY <2>2, <2>4
<1> HIDE DEF bytes, from, end
<1>9. left' \in [Senders -> Nat] /\ \A t \in Senders : t # s => left'[t] = left[t]
  BY <1>1, <1>2, <1>5, <1>6 DEF PacketsTypeOK
<1>10. PacketsTypeOK'
  BY <1>1, <1>3, <1>8, <1>9 DEF PacketsTypeOK
<1>11. LockOrder'
  <2>1. \A t \in Senders : left'[t] <= left[t]
    <3>1. \A t \in Senders : left[t] \in Nat
      BY <1>1 DEF PacketsTypeOK
    <3>2. QED
      BY <1>6, <1>9, <3>1
  <2>2. ASSUME NEW t \in Senders, tx[t] \in {"header", "data"}
        PROVE  left'[t] <= IF tx[t] = "header" THEN HEADER_SIZE ELSE size[t]
    <3>1. left[t] <= IF tx[t] = "header" THEN HEADER_SIZE ELSE size[t]
      BY <1>1, <2>2 DEF LockOrder
    <3>2. left'[t] \in Nat /\ left[t] \in Nat /\ size[t] \in Nat
      BY <1>1, <1>9 DEF PacketsTypeOK
    <3>3. QED
      BY <1>1, <2>1, <3>1, <3>2
  <2>3. QED
    BY <1>1, <1>3, <2>2 DEF LockOrder
<1>12. PICK base : Numbered(base) /\ Wire(base)
  BY <1>3 DEF PacketsInv
<1>13. /\ Receives' /\ PacketsIntact' /\ Numbered(base)' /\ Took(base)' = Took(base)
       /\ \A t \in Senders : Total(t)' = Total(t)
  BY <1>3, <1>12, ReceivedKept
<1>14. Wire(base)'
  <2> DEFINE T == Took(base)
             G == Gave(base)
             l == Len(stream)
  <2>1. T \in Nat /\ G \in Nat /\ \A i \in 1 .. n : base[i] \in Nat /\ order[i] \in Senders
    BY <1>12, Places
  <2>2. l = G - T
    BY <1>12 DEF Wire
  <2>3. G = base[n] + from /\ Gave(base)' = base[n] + (from + m)
    BY <1>3, <1>4, <1>6 DEF Gave
  <2>4. base[n] \in Nat
    BY <1>4, <2>1
  <2>5. Gave(base)' = G + m
    BY <1>6, <2>3, <2>4
  <2>6. \A i \in 1 .. n : \A q \in 1 .. Total(order[i]) : T < base[i] + q /\ base[i] + q <= G =>
                            stream[base[i] + q - T] = [of |-> order[i], pos |-> q]
    BY <1>12 DEF Wire
  <2>7. \A i \in 1 .. n : i < n => base[i] + Total(order[i]) <= base[n]
    <3>1. n \in 1 .. n + 1
      BY <1>4
    <3>2. QED
      BY <1>12, <3>1 DEF Numbered
  <2> HIDE DEF T, G, l, n
  <2>8. ASSUME NEW i \in 1 .. n, NEW q \in 1 .. Total(order[i]),
               T < base[i] + q, base[i] + q <= G + m
        PROVE  stream'[base[i] + q - T] = [of |-> order[i], pos |-> q]
    <3> DEFINE b == base[i]
               t == Total(order[i])
    <3>1. b \in Nat /\ q \in 1 .. t /\ T < b + q /\ b + q <= G + m /\ t \in Nat
      BY <2>1, <2>8, SentBounds
    <3>2. \A p \in 1 .. t : T < b + p /\ b + p <= G => stream[b + p - T] = [of |-> order[i], pos |-> p]
      BY <2>6
    <3>3. i < n => b + t <= base[n]
      BY <2>7
    <3>4. i = n => b = base[n] /\ order[i] = s
      BY <1>4 DEF n
    <3>5. i < n \/ i = n
      BY <1>4
    <3> HIDE DEF b, t
    <3>6. CASE b + q <= G
      <4>1. stream[b + q - T] = [of |-> order[i], pos |-> q]
        BY <3>1, <3>2, <3>6
      <4>2. b + q - T \in 1 .. l
        BY <2>1, <2>2, <3>1, <3>6
      <4>3. stream'[b + q - T] = [of |-> order[i], pos |-> q]
        BY <1>8, <4>1, <4>2 DEF l
      <4>4. QED
        BY <4>3 DEF b
    <3>7. CASE ~(b + q <= G)
      <4>1. i = n
        BY <1>6, <2>3, <2>4, <3>1, <3>3, <3>5, <3>7
      <4>2. b = base[n] /\ order[i] = s
        BY <3>4, <4>1
      <4>3. q - from \in 1 .. m /\ b + q - T = l + (q - from) /\ from + (q - from) = q
        BY <1>6, <2>1, <2>2, <2>3, <2>4, <3>1, <3>7, <4>2
      <4>4. stream'[l + (q - from)] = bytes[q - from]
        BY <1>8, <4>3 DEF l
      <4>5. bytes[q - from] = [of |-> s, pos |-> from + (q - from)]
        BY <1>7, <4>3
      <4>6. stream'[b + q - T] = [of |-> order[i], pos |-> q]
        BY <4>2, <4>3, <4>4, <4>5
      <4>7. QED
        BY <4>6 DEF b
    <3>8. QED
      BY <3>6, <3>7
  <2>9. Len(stream') = (G + m) - T
    BY <1>8, <2>1, <2>2 DEF l
  <2>10. \A i \in 1 .. n : Total(order[i])' = Total(order[i])
    BY <1>3 DEF Total
  <2>11. \A i \in 1 .. n : \A q \in 1 .. Total(order[i])' :
           T < base[i] + q /\ base[i] + q <= G + m =>
             stream'[base[i] + q - T] = [of |-> order[i], pos |-> q]
    BY <2>8, <2>10
  <2>12. order' = order /\ Gave(base)' = G + m /\ Took(base)' = T
    BY <1>3, <1>13, <2>5 DEF T
  <2>13. QED
    BY <2>9, <2>11, <2>12 DEF Wire, n
<1>15. QED
  BY <1>10, <1>11, <1>13, <1>14 DEF PacketsInv

(* The end of a send moves no bytes.                                          *)
LEMMA SentInv == ASSUME PacketsInv, NEW s \in Senders, sent(s) PROVE PacketsInv'
<1>1. /\ PacketsTypeOK /\ LockOrder /\ HEADER_SIZE \in Nat
  BY PacketsAssumption DEF PacketsInv
<1>2. /\ tx[s] \in {"header", "data"} /\ left[s] = 0 /\ alive
      /\ UNCHANGED <<size, stream, alive, reading, expected, received, packets, order>>
  BY DEF sent
<1>3. /\ m_txLock = {s} /\ order # <<>> /\ s = order[Len(order)] /\ size[s] \in Nat
  BY <1>1, <1>2 DEF LockOrder, PacketsTypeOK
<1>4. \A t \in Senders : t # s => tx[t] \notin {"header", "data"}
  BY <1>1, <1>3 DEF LockOrder
<1>5. \A t \in Senders : t # s => tx'[t] = tx[t] /\ left'[t] = left[t]
  BY <1>1 DEF sent, PacketsTypeOK
<1>6. \/ /\ tx[s] = "header" /\ tx'[s] = "data" /\ left'[s] = size[s] /\ m_txLock' = m_txLock
      \/ tx[s] = "data" /\ tx'[s] = "sent" /\ left'[s] = left[s] /\ m_txLock' = {}
  BY <1>1, <1>2 DEF sent, PacketsTypeOK
<1>7. SentOf(s)' = SentOf(s)
  BY <1>1, <1>2, <1>3, <1>6 DEF SentOf, Total
<1>8. PacketsTypeOK'
  <2>1. /\ tx' \in [Senders -> {"idle", "header", "data", "sent", "failed"}]
        /\ left' \in [Senders -> Nat]
    BY <1>1, <1>3 DEF sent, PacketsTypeOK
  <2>2. QED
    BY <1>1, <1>2, <2>1 DEF PacketsTypeOK
<1>9. LockOrder'
  <2>1. \A t \in Senders : tx'[t] # "idle" <=> tx[t] # "idle"
    BY <1>2, <1>5, <1>6
  <2>2. \A t \in Senders : tx'[t] \in {"header", "data"} =>
          /\ t = s /\ m_txLock' = {s} /\ tx'[s] = "data" /\ left'[s] = size[s]
    BY <1>3, <1>4, <1>5, <1>6
  <2>3. \A t \in Senders : tx[t] # "failed" => tx'[t] # "failed"
    BY <1>5, <1>6
  <2>4. \A t \in Senders : tx'[t] \in {"header", "data"} =>
          left'[t] <= IF tx'[t] = "header" THEN HEADER_SIZE ELSE size'[t]
    BY <1>2, <1>3, <2>2
  <2>5. QED
    BY <1>1, <1>2, <1>3, <2>1, <2>2, <2>3, <2>4 DEF LockOrder
<1>10. PICK base : Numbered(base) /\ Wire(base)
  BY <1>2 DEF PacketsInv
<1>11. /\ Receives' /\ PacketsIntact' /\ Numbered(base)' /\ Took(base)' = Took(base)
       /\ \A t \in Senders : Total(t)' = Total(t)
  BY <1>2, <1>10, ReceivedKept
<1>12. Gave(base)' = Gave(base)
  BY <1>2, <1>3, <1>7 DEF Gave
<1>13. Wire(base)'
  BY <1>2, <1>10, <1>11, <1>12 DEF Wire, Total
<1>14. QED
  BY <1>8, <1>9, <1>11, <1>13 DEF PacketsInv

(* A send fails only once the connection is closed.                           *)
LEMMA SendFailsInv == ASSUME PacketsInv, NEW s \in Senders, sendFails(s) PROVE PacketsInv'
<1>1. /\ PacketsTypeOK /\ LockOrder
  BY DEF PacketsInv
<1>2. /\ tx[s] \in {"header", "data"} /\ ~alive /\ m_txLock' = {}
      /\ tx' = [tx EXCEPT ![s] = "failed"]
      /\ UNCHANGED <<size, left, stream, alive, reading, expected, received, packets, order>>
  BY DEF sendFails
<1>3. \A t \in Senders : tx'[t] = IF t = s THEN "failed" ELSE tx[t]
  BY <1>1, <1>2 DEF PacketsTypeOK
<1>4. PacketsTypeOK'
  BY <1>1, <1>2 DEF PacketsTypeOK
<1>5. LockOrder'
  <2>1. \A t \in Senders : t # s => tx[t] \notin {"header", "data"}
    BY <1>1, <1>2 DEF LockOrder
  <2>2. \A t \in Senders : tx'[t] \notin {"header", "data"}
    BY <1>3, <2>1
  <2>3. \A t \in Senders : tx'[t] # "idle" <=> tx[t] # "idle"
    BY <1>2, <1>3
  <2>4. QED
    BY <1>1, <1>2, <2>2, <2>3 DEF LockOrder
<1>6. Receives' /\ PacketsIntact'
  BY <1>2, ReceivedKept
<1>7. QED
  BY <1>2, <1>4, <1>5, <1>6 DEF PacketsInv

(* Nothing more is received over a connection that ended.                     *)
LEMMA ErrorInv ==
  ASSUME PacketsInv, Error, UNCHANGED <<size, tx, left, m_txLock, order>>, stream' \in Seq(Byte)
  PROVE  PacketsInv'
<1>1. PacketsTypeOK'
  BY DEF PacketsInv, PacketsTypeOK, Error
<1>2. LockOrder' /\ Receives' /\ ~alive'
  BY DEF PacketsInv, LockOrder, Receives, Error
<1>3. PacketsIntact'
  BY DEF PacketsInv, PacketsIntact, Error, Data, Whole
<1>4. QED
  BY <1>1, <1>2, <1>3 DEF PacketsInv

(* A packet is complete: what follows is the next one of the order.           *)
LEMMA NextPacket ==
  ASSUME PacketsInv, NEW base, Numbered(base), NEW more \in Seq(Byte),
         Len(packets) < Len(order), more = Data(order[Len(packets) + 1]),
         packets' = Append(packets, more), reading' = "header",
         UNCHANGED <<size, tx, left, m_txLock, order>>
  PROVE  /\ PacketsIntact' /\ packets' \in Seq(Seq(Byte))
         /\ Took(base)' = base[Len(packets) + 1] + Total(order[Len(packets) + 1])
<1> DEFINE n == Len(order)
           k == Len(packets)
<1>1. packets \in Seq(Seq(Byte)) /\ order \in Seq(Senders) /\ base \in [Nat -> Nat]
  BY DEF PacketsInv, PacketsTypeOK, Numbered
<1>2. n \in Nat /\ k \in Nat /\ k < n /\ k + 1 \in Nat
  <2>1. packets \in Seq(Seq(Byte)) /\ order \in Seq(Senders)
    BY <1>1
  <2>2. n \in Nat /\ k \in Nat
    BY <2>1
  <2>3. QED
    BY <2>2
<1>3. /\ packets' \in Seq(Seq(Byte)) /\ Len(packets') = k + 1 /\ packets'[k + 1] = more
      /\ \A i \in 1 .. k : packets'[i] = packets[i]
  BY <1>1
<1>4. PacketsIntact'
  <2>1. /\ IsInjective(order) /\ \A i \in 1 .. k : packets[i] = Data(order[i])
    <3>1. DOMAIN packets = 1 .. k
      BY <1>1
    <3>2. QED
      BY <3>1 DEF PacketsInv, PacketsIntact
  <2>2. \A i \in 1 .. n : Data(order[i])' = Data(order[i])
    BY DEF Data, Whole
  <2>3. DOMAIN packets' = 1 .. k + 1
    BY <1>3
  <2>4. ASSUME NEW i \in 1 .. k + 1 PROVE packets'[i] = Data(order[i])'
    <3> HIDE DEF n, k
    <3>1. i \in 1 .. k \/ i = k + 1
      BY <1>2
    <3>2. i \in 1 .. n
      BY <1>2
    <3>3. QED
      BY <1>3, <2>1, <2>2, <3>1, <3>2 DEF k
  <2>5. Len(packets') <= n
    <3> HIDE DEF n, k
    <3>1. QED
      BY <1>2, <1>3
  <2>6. QED
    BY <2>1, <2>3, <2>4, <2>5 DEF PacketsIntact
<1>5. Took(base)' = base[k + 1] + Total(order[k + 1])
  <2>1. k + 1 \in 1 .. n
    <3> HIDE DEF n, k
    <3>1. QED
      BY <1>2
  <2>2. order[k + 1] \in Senders
    BY <1>1, <2>1
  <2>3. base[(k + 1) + 1] = base[k + 1] + Total(order[k + 1])
    BY <2>1 DEF Numbered
  <2>4. Total(order[k + 1]) \in Nat /\ base[k + 1] \in Nat
    <3>1. Total(order[k + 1]) \in Nat
      BY <2>2, SentBounds
    <3> HIDE DEF k
    <3>2. QED
      BY <1>1, <1>2, <3>1
  <2>5. Took(base)' = base[(k + 1) + 1] + 0
    BY <1>3 DEF Took, Taken
  <2>6. QED
    BY <2>3, <2>4, <2>5
<1>6. QED
  BY <1>3, <1>4, <1>5

(* However the bytes are split, a piece that is received is part of the next  *)
(* packet of the order (ConnectionTransceiver::receivePacket).                *)
LEMMA RecvInv == ASSUME PacketsInv, NEW m \in 1 .. Len(stream), recv(m) PROVE PacketsInv'
<1> DEFINE n == Len(order)
           k == Len(packets)
           bytes == SubSeq(stream, 1, m)
           more == received \o bytes
           s == order[k + 1]
<1>1. /\ PacketsTypeOK /\ LockOrder /\ Receives /\ HEADER_SIZE \in Nat \ {0}
  BY PacketsAssumption DEF PacketsInv
<1>2. /\ reading \in {"header", "data"} /\ alive
      /\ stream' = SubSeq(stream, m + 1, Len(stream))
      /\ UNCHANGED <<size, tx, left, m_txLock, order>>
  BY DEF recv
<1>3. PICK base : Numbered(base) /\ Wire(base)
  BY <1>2 DEF PacketsInv
<1>4. /\ stream \in Seq(Byte) /\ Len(stream) \in Nat /\ m \in Nat /\ m <= Len(stream)
      /\ received \in Seq(Byte) /\ n \in Nat /\ k \in Nat /\ order \in Seq(Senders)
  BY <1>1 DEF PacketsTypeOK
<1>5. /\ stream' \in Seq(Byte)
      /\ bytes \in Seq(Byte) /\ Len(bytes) = m
      /\ \A j \in 1 .. m : bytes[j] = stream[j]
  BY <1>2, <1>4
<1>6. k < n
  <2>1. /\ Took(base) \in Nat /\ Gave(base) \in Nat /\ k \in 0 .. n
        /\ Gave(base) <= base[n + 1]
    BY <1>3, Places
  <2>2. Took(base) < Gave(base)
    BY <1>3, <1>4, <2>1 DEF Wire
  <2>3. ASSUME k = n PROVE FALSE
    <3>1. base[n + 1] \in Nat
      BY <1>3, <1>4 DEF Numbered
    <3>2. Taken \in Nat
      BY <1>1, <1>4 DEF Taken
    <3>3. Took(base) = base[n + 1] + Taken
      BY <2>3 DEF Took
    <3>4. QED
      BY <2>1, <2>2, <3>1, <3>2, <3>3
  <2> HIDE DEF n, k
  <2>4. QED
    BY <1>4, <2>1, <2>3
<1>7. /\ k + 1 \in 1 .. n /\ s \in Senders /\ size[s] \in Nat /\ base[k + 1] \in Nat
  <2>1. k + 1 \in 1 .. n
    <3> HIDE DEF n, k
    <3>1. QED
      BY <1>4, <1>6
  <2>2. s \in Senders /\ base[k + 1] \in Nat
    <3>1. base \in [Nat -> Nat]
      BY <1>3 DEF Numbered
    <3>2. s \in Senders
      BY <1>4, <2>1
    <3>3. k + 1 \in Nat
      BY <1>4
    <3> HIDE DEF k, s
    <3>4. QED
      BY <3>1, <3>2, <3>3
  <2>3. QED
    BY <1>1, <2>1, <2>2 DEF PacketsTypeOK
<1>8. Total(s) = HEADER_SIZE + size[s]
  BY DEF Total
<1>9. CASE reading = "header"
  <2>1. m <= HEADER_SIZE /\ processHeader(bytes)
    BY <1>9 DEF recv
  <2>2. received = <<>> /\ Took(base) = base[k + 1] + 0
    BY <1>1, <1>2, <1>9 DEF Receives, Took, Taken
  <2>3. \A j \in 1 .. m : stream[j] = [of |-> s, pos |-> 0 + j]
    <3>1. 0 \in Nat /\ 0 + m <= Total(s)
      BY <1>1, <1>4, <1>7, <1>8, <2>1
    <3> HIDE DEF s, n, k
    <3>2. QED
      BY <1>3, <1>7, <2>2, <3>1, NextBytes DEF s, n
  <2>4. CASE Error
    BY <1>2, <1>5, <2>4, ErrorInv
  <2>5. CASE ~Error
    <3>1. /\ ~(Len(bytes) < HEADER_SIZE) /\ expected' = size[bytes[1].of]
          /\ IF expected' = 0 THEN packets' = Append(packets, <<>>) /\ reading' = "header"
                              ELSE reading' = "data" /\ UNCHANGED packets
          /\ UNCHANGED <<alive, received>>
      BY <2>1, <2>5 DEF processHeader
    <3>2. m = HEADER_SIZE
      BY <1>1, <1>4, <1>5, <2>1, <3>1
    <3>3. bytes[1].of = s
      <4>1. 1 \in 1 .. m
        BY <1>1, <3>2
      <4>2. bytes[1] = [of |-> s, pos |-> 0 + 1]
        BY <1>5, <2>3, <4>1
      <4>3. QED
        BY <4>2
    <3>4. expected' = size[s]
      BY <3>1, <3>3
    <3>5. LockOrder'
      BY <1>1, <1>2, <3>1 DEF LockOrder
    <3>6. CASE size[s] = 0
      <4>1. packets' = Append(packets, <<>>) /\ reading' = "header"
        BY <3>1, <3>4, <3>6
      <4>2. Data(s) = <<>>
        <5>1. Data(s) \in Seq(Byte) /\ Len(Data(s)) = 0
          BY <1>7, <3>6, DataIs
        <5>2. QED
          BY <5>1
      <4>3. <<>> \in Seq(Byte)
        OBVIOUS
      <4>4. /\ PacketsIntact' /\ packets' \in Seq(Seq(Byte))
            /\ Took(base)' = base[k + 1] + Total(s)
        <5>1. k < n /\ <<>> = Data(order[k + 1])
          BY <1>6, <4>2
        <5>2. QED
          BY <1>2, <1>3, <3>1, <4>1, <4>3, <5>1, NextPacket
      <4>5. Took(base)' = Took(base) + m
        BY <1>1, <1>7, <1>8, <2>2, <3>2, <3>6, <4>4
      <4>6. Numbered(base)' /\ Wire(base)'
        BY <1>2, <1>3, <4>5, WireTaken
      <4>7. Receives'
        BY <2>2, <3>1, <4>1 DEF Receives
      <4>8. PacketsTypeOK'
        BY <1>1, <1>2, <1>5, <3>1, <4>4 DEF PacketsTypeOK
      <4>9. QED
        BY <3>5, <4>4, <4>6, <4>7, <4>8 DEF PacketsInv
    <3>7. CASE size[s] # 0
      <4>1. reading' = "data" /\ packets' = packets
        BY <3>1, <3>4, <3>7
      <4>2. PacketsIntact'
        BY <1>2, <4>1 DEF PacketsInv, PacketsIntact, Data, Whole
      <4>3. Took(base)' = Took(base) + m
        <5>1. Len(received') = 0
          BY <2>2, <3>1
        <5>2. Took(base)' = base[k + 1] + (HEADER_SIZE + 0)
          BY <4>1, <5>1 DEF Took, Taken
        <5>3. QED
          BY <1>1, <1>7, <2>2, <3>2, <5>2
      <4>4. Numbered(base)' /\ Wire(base)'
        BY <1>2, <1>3, <4>3, WireTaken
      <4>5. Receives'
        <5>1. Len(received') = 0 /\ 1 .. 0 = {}
          BY <2>2, <3>1
        <5>2. 0 < expected'
          BY <1>7, <3>4, <3>7
        <5>3. QED
          BY <1>2, <1>6, <3>4, <4>1, <5>1, <5>2 DEF Receives
      <4>6. PacketsTypeOK'
        BY <1>1, <1>2, <1>5, <3>1, <4>1 DEF PacketsTypeOK
      <4>7. QED
        BY <3>5, <4>2, <4>4, <4>5, <4>6 DEF PacketsInv
    <3>8. QED
      BY <3>6, <3>7
  <2>6. QED
    BY <2>4, <2>5
<1>10. CASE reading = "data"
  <2> DEFINE r == Len(received)
  <2>1. /\ m <= expected - r
        /\ IF Len(more) = expected
           THEN packets' = Append(packets, more) /\ reading' = "header" /\ received' = <<>>
           ELSE received' = more /\ UNCHANGED <<packets, reading>>
        /\ UNCHANGED <<alive, expected>>
    BY <1>10 DEF recv
  <2>2. /\ expected = size[s] /\ r < expected
        /\ \A j \in 1 .. r : received[j] = [of |-> s, pos |-> HEADER_SIZE + j]
    BY <1>1, <1>2, <1>10 DEF Receives
  <2>3. r \in Nat /\ HEADER_SIZE + r \in Nat
    BY <1>1, <1>4
  <2>4. Took(base) = base[k + 1] + (HEADER_SIZE + r)
    BY <1>10 DEF Took, Taken
  <2>5. \A j \in 1 .. m : stream[j] = [of |-> s, pos |-> (HEADER_SIZE + r) + j]
    <3>1. (HEADER_SIZE + r) + m <= Total(s)
      BY <1>1, <1>4, <1>7, <1>8, <2>1, <2>2, <2>3
    <3>2. PICK from \in Nat : from = HEADER_SIZE + r
      BY <2>3
    <3> HIDE DEF s, n, k, r
    <3>3. \A j \in 1 .. m : stream[j] = [of |-> s, pos |-> from + j]
      BY <1>3, <1>7, <2>4, <3>1, <3>2, NextBytes DEF s, n
    <3>4. QED
      BY <3>2, <3>3
  <2>6. more \in Seq(Byte) /\ Len(more) = r + m
    BY <1>4, <1>5
  <2>7. \A j \in 1 .. r + m : more[j] = [of |-> s, pos |-> HEADER_SIZE + j]
    <3>1. \A j \in 1 .. r : more[j] = received[j]
      BY <1>4, <1>5
    <3>2. \A j \in 1 .. m : more[r + j] = bytes[j]
      BY <1>4, <1>5
    <3> HIDE DEF more, bytes, s, r
    <3>3. ASSUME NEW j \in 1 .. r + m PROVE more[j] = [of |-> s, pos |-> HEADER_SIZE + j]
      <4>1. CASE j \in 1 .. r
        BY <2>2, <3>1, <4>1
      <4>2. CASE j \notin 1 .. r
        <5>1. j - r \in 1 .. m /\ r + (j - r) = j /\ (HEADER_SIZE + r) + (j - r) = HEADER_SIZE + j
          BY <1>1, <1>4, <2>3, <4>2
        <5>2. more[r + (j - r)] = bytes[j - r]
          BY <3>2, <5>1
        <5>3. bytes[j - r] = [of |-> s, pos |-> (HEADER_SIZE + r) + (j - r)]
          BY <1>5, <2>5, <5>1
        <5>4. QED
          BY <5>1, <5>2, <5>3
      <4>3. QED
        BY <4>1, <4>2
    <3>4. QED
      BY <3>3
  <2>8. LockOrder'
    BY <1>1, <1>2, <2>1 DEF LockOrder
  <2>9. CASE Len(more) = expected
    <3>1. packets' = Append(packets, more) /\ reading' = "header" /\ received' = <<>>
      BY <2>1, <2>9
    <3>2. more = Data(s)
      <4>1. /\ Data(s) \in Seq(Byte) /\ Len(Data(s)) = size[s]
            /\ \A j \in 1 .. size[s] : Data(s)[j] = [of |-> s, pos |-> HEADER_SIZE + j]
        BY <1>7, DataIs
      <4>2. Len(more) = size[s] /\ r + m = size[s]
        BY <2>2, <2>6, <2>9
      <4> HIDE DEF more, s
      <4>3. Len(more) = Len(Data(s)) /\ \A j \in 1 .. Len(more) : more[j] = Data(s)[j]
        BY <2>7, <4>1, <4>2
      <4>4. QED
        BY <2>6, <4>1, <4>3, SeqEqual
    <3>3. /\ PacketsIntact' /\ packets' \in Seq(Seq(Byte))
          /\ Took(base)' = base[k + 1] + Total(s)
      <4> HIDE DEF more
      <4>1. k < n /\ more = Data(order[k + 1])
        BY <1>6, <3>2
      <4>2. QED
        BY <1>2, <1>3, <2>1, <2>6, <3>1, <4>1, NextPacket
    <3>4. Took(base)' = Took(base) + m
      BY <1>1, <1>4, <1>7, <1>8, <2>2, <2>3, <2>4, <2>6, <2>9, <3>3
    <3>5. Numbered(base)' /\ Wire(base)'
      BY <1>2, <1>3, <3>4, WireTaken
    <3>6. Receives'
      BY <3>1 DEF Receives
    <3>7. PacketsTypeOK'
      <4>1. /\ stream' \in Seq(Byte) /\ received' \in Seq(Byte)
            /\ packets' \in Seq(Seq(Byte))
        BY <1>5, <3>1, <3>3
      <4>2. QED
        BY <1>1, <1>2, <4>1 DEF PacketsTypeOK
    <3>8. QED
      BY <2>8, <3>3, <3>5, <3>6, <3>7 DEF PacketsInv
  <2>10. CASE Len(more) # expected
    <3>1. received' = more /\ packets' = packets /\ reading' = "data"
      BY <1>10, <2>1, <2>10
    <3>2. PacketsIntact'
      BY <1>2, <3>1 DEF PacketsInv, PacketsIntact, Data, Whole
    <3>3. Took(base)' = Took(base) + m
      <4>1. Took(base)' = base[k + 1] + (HEADER_SIZE + (r + m))
        BY <2>6, <3>1 DEF Took, Taken
      <4>2. QED
        BY <1>1, <1>4, <1>7, <2>3, <2>4, <4>1
    <3>4. Numbered(base)' /\ Wire(base)'
      BY <1>2, <1>3, <3>3, WireTaken
    <3>5. Receives'
      <4>1. Len(received') = r + m /\ r + m < expected
        <5>1. expected \in Nat /\ r + m # expected
          BY <1>7, <2>2, <2>6, <2>10
        <5>2. QED
          <6> DEFINE e == expected
          <6>1. e \in Nat /\ r \in Nat /\ m \in Nat /\ r + m # e /\ m <= e - r
            BY <1>4, <2>1, <2>3, <5>1
          <6> HIDE DEF e, r, more
          <6>2. r + m < e
            BY <6>1
          <6>3. QED
            BY <2>6, <3>1, <6>2 DEF e
      <4> HIDE DEF more
      <4>2. \A j \in 1 .. Len(received') : received'[j] = [of |-> s, pos |-> HEADER_SIZE + j]
        BY <2>7, <3>1, <4>1
      <4>3. QED
        BY <1>2, <1>6, <2>1, <2>2, <3>1, <4>1, <4>2 DEF Receives
    <3>6. PacketsTypeOK'
      <4>1. stream' \in Seq(Byte) /\ received' \in Seq(Byte)
        BY <1>5, <2>6, <3>1
      <4>2. QED
        BY <1>1, <1>2, <3>1, <4>1 DEF PacketsTypeOK
    <3>7. QED
      BY <2>8, <3>2, <3>4, <3>5, <3>6 DEF PacketsInv
  <2>11. QED
    BY <2>9, <2>10
<1>11. QED
  BY <1>2, <1>9, <1>10

(* The steps of the senders and of the receiver keep the invariant.           *)
LEMMA PacketsStepInv == PacketsInv /\ [PacketsNext]_packetVars => PacketsInv'
<1> SUFFICES ASSUME PacketsInv, [PacketsNext]_packetVars PROVE PacketsInv'
  OBVIOUS
<1>1. ASSUME NEW s \in Senders, lockTx(s) \/ send(s) \/ sendFails(s) \/ sent(s)
      PROVE  PacketsInv'
  BY <1>1, LockTxInv, SendInv, SendFailsInv, SentInv
<1>2. ASSUME NEW m \in 1 .. Len(stream), recv(m) PROVE PacketsInv'
  BY <1>2, RecvInv
<1>3. CASE Hangup
  BY <1>3, ErrorInv DEF Hangup, PacketsInv, PacketsTypeOK
<1>4. CASE UNCHANGED packetVars
  <2>1. PacketsTypeOK' /\ LockOrder' /\ Receives' /\ PacketsIntact'
    BY <1>4 DEF packetVars, PacketsInv, PacketsTypeOK, LockOrder, Receives, PacketsIntact, Data, Whole
  <2>2. \A base : Numbered(base) /\ Wire(base) => Numbered(base)' /\ Wire(base)'
    <3>1. UNCHANGED <<size, tx, left, order, stream, reading, received, packets>>
      BY <1>4 DEF packetVars
    <3>2. \A base : Numbered(base) => Numbered(base)'
      BY <3>1 DEF Numbered, Total
    <3>3. \A base : Took(base)' = Took(base) /\ Gave(base)' = Gave(base)
      BY <3>1 DEF Took, Taken, Gave, SentOf, Total
    <3>4. QED
      BY <3>1, <3>2, <3>3 DEF Wire, Total
  <2>3. QED
    BY <1>4, <2>1, <2>2 DEF packetVars, PacketsInv
<1>5. QED
  BY <1>1, <1>2, <1>3, <1>4 DEF PacketsNext

(* Whatever the sizes, however send() and recv() split the bytes and whenever *)
(* the connection ends: what is handed to onDataPacket are the data of the    *)
(* packets, whole and in the order in which the senders had the lock.         *)
THEOREM PacketsCrossWhole == PacketsSpec => []PacketsIntact
<1>1. PacketsInv => PacketsIntact
  BY DEF PacketsInv
<1>2. QED
  BY <1>1, PacketsInitInv, PacketsStepInv, PTL DEF PacketsSpec
-----------------------------------------------------------------------------
(* RpcCalls: each remote call gets its own answer, once, for every number of   *)
(* calls and every limit, as long as the session ids do not wrap around.      *)

\* A call takes one session id, and there are SidMod of them.
SidsSuffice ==
    /\ SidMod \in Nat \ {0}
    /\ IsFiniteSet(Calls) /\ Cardinality(Calls) <= SidMod

CallPlaces == {"idle", "sid", "register", "send", "unsent", "wait", "late",
           "cancel", "timeout", "returned"}

CallType == [at : CallPlaces, sid : Nat, done : BOOLEAN, posts : Nat, runs : Nat,
             err : BOOLEAN, out : SUBSET Calls, seen : BOOLEAN]
Method == [sid : Nat, of : Calls]
Response == [sid : Nat, ok : BOOLEAN, of : Calls]

TypeOK ==
    /\ call \in [Calls -> CallType]
    /\ m_clntPendingMethods \subseteq Method
    /\ requests \in Seq(Method)
    /\ m_srvPendingMethods \subseteq Method
    /\ responses \in Seq(Response)

\* The receiving thread holds a method of the table between the two halves of
\* Run, and only then.
RxHolds ==
    IF rx.at \in {"post", "postlast"}
    THEN \E m \in m_clntPendingMethods : rx.of = {m}
    ELSE rx.of = {}

\* Calls that have gone past getNextSid
Named == {c \in Calls : call[c].at \notin {"idle", "sid"}}

\* What has been registered or sent carries the session id of its call.
UnderWay ==
    m_clntPendingMethods \cup {requests[i] : i \in 1..Len(requests)}
      \cup m_srvPendingMethods \cup {responses[i] : i \in 1..Len(responses)}

Carries(x) == x.of \in Named /\ x.sid = call[x.of].sid

Records == \A x \in UnderWay : Carries(x)

\* A session id may still arrive somewhere.
Issued(c) ==
    call[c].at \in {"register", "send"} \/ \E x \in UnderWay : x.of = c

\* The ids were given out in turn, and no two calls share one.
SidsBelow(n) ==
    /\ n <= Cardinality(Named)
    /\ m_sidRef = n % SidMod
    /\ \A c \in Calls : Issued(c) => call[c].sid < n
    /\ \A c, d \in Calls :
         Issued(c) /\ Issued(d) /\ call[c].sid = call[d].sid => c = d

Sids == \E n \in Nat : SidsBelow(n)

\* A call has run once it is not pending, or while it is being run.
Held(c) == \E m \in rx.of : m.of = c
RunsOnce(c) ==
    IF call[c].at \in {"idle", "sid", "register"}
    THEN call[c].runs = 0 /\ PendingOf(c) = {}
    ELSE call[c].runs = IF PendingOf(c) = {} \/ Held(c) THEN 1 ELSE 0

\* An outcome is an error or the answer to the call.
Outcome(c) ==
    /\ call[c].done => call[c].err \/ call[c].out = {c}
    /\ call[c].posts > 0 \/ Held(c) => call[c].done
    /\ call[c].at = "returned" => call[c].err \/ call[c].done

\* The inductive invariant.
RpcInv ==
    /\ TypeOK /\ RxHolds /\ Records /\ Sids
    /\ \A c \in Calls : RunsOnce(c) /\ Outcome(c)

-----------------------------------------------------------------------------
\* RpcInit establishes the invariant.
LEMMA InitRpcInv == ASSUME SidsSuffice, RpcInit PROVE RpcInv
<1>1. NewCall \in CallType
  BY DEF NewCall, CallType, CallPlaces
<1>2. TypeOK
  BY <1>1 DEF RpcInit, TypeOK
<1>3. RxHolds /\ Records
  BY DEF RpcInit, RxHolds, Records, UnderWay
<1>4. \A c \in Calls : call[c] = NewCall /\ ~Issued(c) /\ PendingOf(c) = {} /\ ~Held(c)
  BY DEF RpcInit, Held, Issued, UnderWay, PendingOf, NewCall
<1>5. Sids
  <2>1. Named = {}
    BY <1>4 DEF Named, NewCall
  <2>2. 0 <= Cardinality(Named) /\ m_sidRef = 0 % SidMod
    BY <2>1, FS_EmptySet DEF RpcInit, SidsSuffice
  <2> QED
    BY <1>4, <2>2 DEF Sids, SidsBelow
<1>6. \A c \in Calls : RunsOnce(c) /\ Outcome(c)
  BY <1>4 DEF RunsOnce, Outcome, NewCall
<1> QED
  BY <1>2, <1>3, <1>5, <1>6 DEF RpcInv

\* What a call has under way is one method, its own.
LEMMA PendingIsNew ==
    ASSUME TypeOK, Records, NEW m \in m_clntPendingMethods
    PROVE  m.of \in Named /\ m = NewMethod(m.of) /\ PendingOf(m.of) = {m}
<1>1. m.of \in Named /\ m.sid = call[m.of].sid /\ m \in Method
  BY DEF TypeOK, Records, Carries, UnderWay
<1>2. \A x \in PendingOf(m.of) : x \in Method /\ x.sid = m.sid /\ x.of = m.of
  BY <1>1 DEF TypeOK, Records, Carries, UnderWay, PendingOf
<1>3. \A x \in PendingOf(m.of) : x = m
  BY <1>1, <1>2 DEF Method
<1>4. m = NewMethod(m.of)
  BY <1>1 DEF Method, NewMethod
<1> QED
  BY <1>1, <1>3, <1>4 DEF PendingOf

\* A step that gives out no session id keeps them apart: what is under way
\* afterwards was so before, or is of a call that registers or sends it.
LEMMA SidsKept ==
    ASSUME SidsSuffice, TypeOK, Records, Sids,
           m_sidRef' = m_sidRef, Named \subseteq Named',
           \A c \in Calls : call'[c].sid = call[c].sid,
           \A c \in Calls : call'[c].at \in {"register", "send"}
                              => call[c].at \in {"register", "send"},
           \A x \in UnderWay' :
             \/ \E y \in UnderWay : x.of = y.of /\ x.sid = y.sid
             \/ /\ x.of \in Calls /\ call[x.of].at \in {"register", "send"}
                /\ x.sid = call[x.of].sid
    PROVE  Records' /\ Sids'
<1>1. PICK n \in Nat : SidsBelow(n)
  BY DEF Sids
<1>2. /\ IsFiniteSet(Named) /\ IsFiniteSet(Named')
      /\ Cardinality(Named) \in Nat /\ Cardinality(Named') \in Nat
      /\ Cardinality(Named) <= Cardinality(Named')
  BY FS_Subset, FS_CardinalityType DEF SidsSuffice, Named
<1>3. n <= Cardinality(Named')
  BY <1>1, <1>2 DEF SidsBelow
<1>4. \A x \in UnderWay' : /\ x.of \in Named' /\ x.sid = call'[x.of].sid
                           /\ Issued(x.of)
  BY DEF Records, Carries, Named, Issued
<1>5. \A c \in Calls : Issued(c)' => Issued(c)
  BY <1>4 DEF Issued
<1>6. SidsBelow(n)'
  BY <1>1, <1>3, <1>5 DEF SidsBelow
<1>7. Records'
  BY <1>4 DEF Records, Carries
<1> QED
  BY <1>6, <1>7 DEF Sids

-----------------------------------------------------------------------------
(* Types.                                                                  *)

\* A call that changes stays one.
LEMMA CallTyped ==
    ASSUME TypeOK, NEW c \in Calls, NEW r \in CallType,
           call' = [call EXCEPT ![c] = r]
    PROVE  /\ call' \in [Calls -> CallType]
           /\ call'[c] = r /\ \A d \in Calls : d # c => call'[d] = call[d]
BY DEF TypeOK

\* A call that goes on keeps its other fields.
LEMMA AtTyped ==
    ASSUME NEW r \in CallType, NEW p \in CallPlaces
    PROVE  /\ [r EXCEPT !.at = p] \in CallType /\ [r EXCEPT !.at = p].at = p
           /\ [r EXCEPT !.at = p].sid = r.sid /\ [r EXCEPT !.at = p].runs = r.runs
           /\ [r EXCEPT !.at = p].err = r.err /\ [r EXCEPT !.at = p].done = r.done
           /\ [r EXCEPT !.at = p].out = r.out /\ [r EXCEPT !.at = p].posts = r.posts
BY DEF CallType

\* A failed call is one.
LEMMA FailedTyped ==
    ASSUME NEW r \in CallType
    PROVE  /\ Failed(r) \in CallType
           /\ Failed(r).sid = r.sid /\ Failed(r).runs = r.runs + 1
           /\ Failed(r).err = TRUE /\ Failed(r).done = TRUE
<1>1. r.posts + 1 \in Nat /\ r.runs + 1 \in Nat
  BY DEF CallType
<1> QED
  BY <1>1 DEF Failed, CallType
-----------------------------------------------------------------------------
(* The threads of the callers.                                             *)

\* What remains to be shown of a step of a call's own thread.
LEMMA CallerMoves ==
    ASSUME SidsSuffice, RpcInv, NEW c \in Calls, NEW r \in CallType,
           call' = [call EXCEPT ![c] = r], r.sid = call[c].sid,
           c \in Named => r.at \notin {"idle", "sid"},
           r.at \in {"register", "send"} => call[c].at \in {"register", "send"},
           UNCHANGED <<m_sidRef, m_srvPendingMethods, responses, rx>>,
           \/ /\ m_clntPendingMethods' \in {m_clntPendingMethods, m_clntPendingMethods \ PendingOf(c)}
              /\ requests' = requests
           \/ /\ call[c].at = "register" /\ requests' = requests
              /\ m_clntPendingMethods' = m_clntPendingMethods \cup {NewMethod(c)}
           \/ /\ call[c].at = "send" /\ requests' = Append(requests, NewMethod(c))
              /\ m_clntPendingMethods' = m_clntPendingMethods,
           RxHolds', RunsOnce(c)', Outcome(c)'
    PROVE  RpcInv'
<1>1. /\ TypeOK /\ Records /\ Sids
      /\ \A d \in Calls : RunsOnce(d) /\ Outcome(d)
  BY DEF RpcInv
<1>2. /\ call' \in [Calls -> CallType] /\ call'[c] = r
      /\ \A d \in Calls : d # c => call'[d] = call[d]
  BY <1>1, CallTyped
<1>3. /\ NewMethod(c) \in Method /\ NewMethod(c).of = c
      /\ NewMethod(c).sid = call[c].sid
  BY <1>1 DEF NewMethod, Method, TypeOK, CallType
<1>4. TypeOK'
  <2>1. m_clntPendingMethods' \subseteq Method
    BY <1>1, <1>3 DEF TypeOK
  <2>2. requests' \in Seq(Method)
    BY <1>1, <1>3 DEF TypeOK
  <2> QED
    BY <1>1, <1>2, <2>1, <2>2 DEF TypeOK
<1>5. ASSUME NEW x \in UnderWay'
      PROVE  x \in UnderWay \/ (x = NewMethod(c) /\ call[c].at \in {"register", "send"})
  <2>1. CASE x \in m_clntPendingMethods'
    <3>1. x \in m_clntPendingMethods \/ (x = NewMethod(c) /\ call[c].at = "register")
      BY <2>1
    <3> QED
      BY <3>1 DEF UnderWay
  <2>2. CASE x \in m_srvPendingMethods \cup {responses[i] : i \in 1..Len(responses)}
    BY <2>2, Zenon DEF UnderWay
  <2>3. ASSUME NEW i \in 1..Len(requests'), x = requests'[i]
        PROVE  x \in UnderWay \/ (x = NewMethod(c) /\ call[c].at \in {"register", "send"})
    <3>1. CASE requests' = requests
      BY <2>3, <3>1, Zenon DEF UnderWay
    <3>2. CASE call[c].at = "send" /\ requests' = Append(requests, NewMethod(c))
      BY <1>1, <1>3, <2>3, <3>2 DEF UnderWay, TypeOK
    <3> QED
      BY <3>1, <3>2
  <2> QED
    BY <2>1, <2>2, <2>3 DEF UnderWay
<1>6. Records' /\ Sids'
  <2>1. Named \subseteq Named'
    BY <1>2 DEF Named
  <2>2. \A d \in Calls : call'[d].sid = call[d].sid
    BY <1>2
  <2>3. \A d \in Calls : call'[d].at \in {"register", "send"}
                          => call[d].at \in {"register", "send"}
    BY <1>2
  <2> QED
    BY <1>1, <1>3, <1>5, <2>1, <2>2, <2>3, SidsKept
<1>7. ASSUME NEW d \in Calls, d # c PROVE RunsOnce(d)' /\ Outcome(d)'
  <2>1. PendingOf(d)' = PendingOf(d)
    BY <1>3, <1>7 DEF PendingOf
  <2>2. Held(d)' <=> Held(d)
    BY DEF Held
  <2>3. call'[d] = call[d] /\ RunsOnce(d) /\ Outcome(d)
    BY <1>1, <1>2, <1>7
  <2> QED
    BY <2>1, <2>2, <2>3 DEF RunsOnce, Outcome
<1> QED
  BY <1>4, <1>6, <1>7 DEF RpcInv

\* A call that fails without a method in the table.
LEMMA FailsUnlisted ==
    ASSUME SidsSuffice, RpcInv, NEW c \in Calls, NEW p \in {"wait", "timeout"},
           call' = [call EXCEPT ![c] = [Failed(@) EXCEPT !.at = p]],
           UNCHANGED <<m_sidRef, m_clntPendingMethods, requests, m_srvPendingMethods, responses, rx>>,
           call[c].runs = 0, PendingOf(c) = {}
    PROVE  RpcInv'
<1> DEFINE r == [Failed(call[c]) EXCEPT !.at = p]
<1>1. r \in CallType /\ r.at = p /\ r.sid = call[c].sid /\ r.runs = 1
      /\ r.err = TRUE /\ r.done = TRUE
  <2>1. call[c] \in CallType /\ p \in CallPlaces
    BY DEF RpcInv, TypeOK, CallPlaces
  <2>2. /\ Failed(call[c]) \in CallType
        /\ Failed(call[c]).sid = call[c].sid /\ Failed(call[c]).runs = call[c].runs + 1
        /\ Failed(call[c]).err = TRUE /\ Failed(call[c]).done = TRUE
    BY <2>1, FailedTyped
  <2>3. call[c].runs + 1 = 1
    OBVIOUS
  <2> QED
    BY <2>1, <2>2, <2>3, AtTyped
<1>2. call' = [call EXCEPT ![c] = r]
  OBVIOUS
<1> HIDE DEF r
<1>3. call'[c] = r
  BY <1>1, <1>2, CallTyped DEF RpcInv
<1>4. RxHolds' /\ PendingOf(c)' = {}
  BY DEF RpcInv, RxHolds, PendingOf
<1>5. RunsOnce(c)' /\ Outcome(c)'
  BY <1>1, <1>3, <1>4 DEF RunsOnce, Outcome
<1> QED
  BY <1>1, <1>2, <1>4, <1>5, CallerMoves

\* A call that fails before it is in the table, and one that is not yet there.
LEMMA sendMethodKeeps ==
    ASSUME SidsSuffice, RpcInv, NEW c \in Calls, sendMethod(c) PROVE RpcInv'
<1>1. /\ call[c] \in CallType /\ call[c].at = "idle" /\ RunsOnce(c)
      /\ UNCHANGED <<m_sidRef, m_clntPendingMethods, requests, m_srvPendingMethods, responses, rx>>
  BY DEF RpcInv, TypeOK, sendMethod
<1>2. RxHolds' /\ PendingOf(c)' = {}
  BY <1>1 DEF RpcInv, RxHolds, RunsOnce, PendingOf
<1>3. CASE call' = [call EXCEPT ![c].at = "sid"]
  <2> DEFINE r == [call[c] EXCEPT !.at = "sid"]
  <2>1. r \in CallType /\ r.at = "sid" /\ r.sid = call[c].sid /\ r.runs = call[c].runs
        /\ r.done = call[c].done /\ r.err = call[c].err /\ r.out = call[c].out
        /\ r.posts = call[c].posts
    BY <1>1, AtTyped DEF CallPlaces
  <2>2. call' = [call EXCEPT ![c] = r]
    BY <1>3
  <2> HIDE DEF r
  <2>3. call'[c] = r
    BY <2>1, <2>2, CallTyped DEF RpcInv
  <2>4. RunsOnce(c)'
    BY <1>1, <1>2, <2>1, <2>3 DEF RunsOnce
  <2>5. Outcome(c)'
    <3>1. Held(c)' <=> Held(c)
      BY <1>1 DEF Held
    <3> QED
      BY <2>1, <2>3, <3>1 DEF RpcInv, Outcome
  <2> QED
    BY <1>1, <1>2, <2>1, <2>2, <2>4, <2>5, CallerMoves DEF Named
<1>4. CASE call' = [call EXCEPT ![c] = [Failed(@) EXCEPT !.at = "wait"]]
  <2>1. call[c].runs = 0 /\ PendingOf(c) = {}
    BY <1>1 DEF RunsOnce
  <2> QED
    BY <1>1, <1>4, <2>1, FailsUnlisted
<1> QED
  BY <1>3, <1>4 DEF sendMethod

\* A step of a call that was or was not registered, which runs nothing.
LEMMA CallOnly ==
    ASSUME SidsSuffice, RpcInv, NEW c \in Calls, NEW r \in CallType,
           call' = [call EXCEPT ![c] = r], r.sid = call[c].sid, r.runs = call[c].runs,
           call[c].at \notin {"idle", "sid", "register"},
           r.at \notin {"idle", "sid", "register", "send"},
           UNCHANGED <<m_sidRef, m_clntPendingMethods, m_srvPendingMethods, responses, rx>>,
           \/ requests' = requests
           \/ call[c].at = "send" /\ requests' = Append(requests, NewMethod(c)),
           r.done => r.err \/ r.out = {c}, r.posts > 0 \/ Held(c) => r.done,
           r.at = "returned" => r.err \/ r.done
    PROVE  RpcInv'
<1>1. call'[c] = r
  BY CallTyped DEF RpcInv
<1>2. RxHolds' /\ PendingOf(c)' = PendingOf(c) /\ (Held(c)' <=> Held(c))
  BY DEF RpcInv, RxHolds, PendingOf, Held
<1>3. RunsOnce(c)'
  BY <1>1, <1>2 DEF RpcInv, RunsOnce
<1>4. Outcome(c)'
  BY <1>1, <1>2 DEF Outcome
<1>5. m_clntPendingMethods' = m_clntPendingMethods
  OBVIOUS
<1> QED
  BY <1>2, <1>3, <1>4, <1>5, CallerMoves

\* A call that only goes on to another place.
LEMMA GoesOn ==
    ASSUME SidsSuffice, RpcInv, NEW c \in Calls, NEW p \in CallPlaces,
           call' = [call EXCEPT ![c].at = p],
           call[c].at \notin {"idle", "sid", "register"},
           p \notin {"idle", "sid", "register", "send", "returned"},
           UNCHANGED <<m_sidRef, m_clntPendingMethods, m_srvPendingMethods, responses, rx>>,
           \/ requests' = requests
           \/ call[c].at = "send" /\ requests' = Append(requests, NewMethod(c))
    PROVE  RpcInv'
<1> DEFINE r == [call[c] EXCEPT !.at = p]
<1>1. call[c] \in CallType /\ Outcome(c)
  BY DEF RpcInv, TypeOK
<1>2. /\ r \in CallType /\ r.at = p /\ r.sid = call[c].sid /\ r.runs = call[c].runs
      /\ r.done = call[c].done /\ r.err = call[c].err /\ r.out = call[c].out
      /\ r.posts = call[c].posts
  BY <1>1, AtTyped
<1>3. call' = [call EXCEPT ![c] = r]
  OBVIOUS
<1> HIDE DEF r
<1>4. (r.done => r.err \/ r.out = {c}) /\ (r.posts > 0 \/ Held(c) => r.done)
  BY <1>1, <1>2 DEF Outcome
<1> QED
  BY <1>2, <1>3, <1>4, CallOnly

\* A method is failed by who takes it out of the table, and by nobody else.
LEMMA FailPendingKeeps ==
    ASSUME SidsSuffice, RpcInv, NEW c \in Calls, NEW to \in {"wait", "timeout"},
           FailPending(c, to), call[c].at \in {"unsent", "cancel"}
    PROVE  RpcInv'
<1>1. CASE PendingOf(c) = {}
  <2>1. /\ call' = [call EXCEPT ![c].at = to]
        /\ m_clntPendingMethods' = m_clntPendingMethods
    BY <1>1 DEF FailPending
  <2> QED
    BY <2>1, GoesOn DEF FailPending, CallPlaces
<1>2. CASE PendingOf(c) # {}
  <2> DEFINE r == [Failed(call[c]) EXCEPT !.at = to]
  <2>1. RxHolds' /\ ~Held(c)
    BY DEF FailPending, ClntLockFree, RpcInv, RxHolds, Held
  <2>2. call[c] \in CallType /\ call[c].runs = 0
    BY <1>2, <2>1 DEF RpcInv, TypeOK, RunsOnce
  <2>3. call[c].runs + 1 = 1 /\ to \in CallPlaces
    BY <2>2 DEF CallPlaces
  <2>4. /\ Failed(call[c]) \in CallType
        /\ Failed(call[c]).sid = call[c].sid /\ Failed(call[c]).runs = call[c].runs + 1
        /\ Failed(call[c]).err = TRUE /\ Failed(call[c]).done = TRUE
    BY <2>2, FailedTyped
  <2>5. r \in CallType /\ r.at = to /\ r.sid = call[c].sid /\ r.runs = 1
        /\ r.err = TRUE /\ r.done = TRUE
    BY <2>3, <2>4, AtTyped
  <2>6. call' = [call EXCEPT ![c] = r]
    BY <1>2 DEF FailPending
  <2> HIDE DEF r
  <2>7. call'[c] = r
    BY <2>5, <2>6, CallTyped DEF RpcInv
  <2>8. PendingOf(c)' = {}
    BY DEF FailPending, PendingOf
  <2>9. RunsOnce(c)' /\ Outcome(c)'
    BY <2>5, <2>7, <2>8 DEF RunsOnce, Outcome
  <2> QED
    BY <2>1, <2>5, <2>6, <2>9, CallerMoves DEF FailPending
<1> QED
  BY <1>1, <1>2

\* What a call does from SendPacket until it returns.
LEMMA WaitKeeps ==
    ASSUME SidsSuffice, RpcInv, NEW c \in Calls,
           \/ SendPacket(c) \/ failClientMethod(c) \/ Waited(c) \/ TimeOut(c)
           \/ ReadDone(c) \/ StartCancel(c) \/ SetFailed(c)
    PROVE  RpcInv'
<1>1. call[c] \in CallType /\ Outcome(c)
  BY DEF RpcInv, TypeOK
<1>2. CASE SendPacket(c)
  <2>1. PICK p \in {"wait", "unsent"} : Go(c, "send", p)
    BY <1>2 DEF SendPacket
  <2> QED
    BY <1>2, <2>1, GoesOn DEF SendPacket, Go, CallPlaces
<1>3. CASE failClientMethod(c)
  BY <1>3, FailPendingKeeps DEF failClientMethod
<1>4. CASE Waited(c)
  <2> DEFINE r == [call[c] EXCEPT !.at = "returned", !.posts = @ - 1]
  <2>1. call[c].posts - 1 \in Nat /\ call[c].done
    BY <1>1, <1>4 DEF Waited, CallType, Outcome
  <2>2. /\ r \in CallType /\ r.at = "returned" /\ r.sid = call[c].sid
        /\ r.runs = call[c].runs /\ r.done = call[c].done /\ r.err = call[c].err
        /\ r.out = call[c].out
    BY <1>1, <2>1 DEF CallType, CallPlaces
  <2>3. call' = [call EXCEPT ![c] = r]
    BY <1>4 DEF Waited
  <2> HIDE DEF r
  <2>4. r.done /\ (r.done => r.err \/ r.out = {c})
    BY <1>1, <2>1, <2>2 DEF Outcome
  <2> QED
    BY <1>4, <2>2, <2>3, <2>4, CallOnly DEF Waited
<1>5. CASE TimeOut(c)
  BY <1>5, GoesOn DEF TimeOut, Go, CallPlaces
<1>6. CASE ReadDone(c)
  <2> DEFINE p == IF call[c].done THEN "returned" ELSE "cancel"
             r == [call[c] EXCEPT !.at = p, !.seen = call[c].done]
  <2>1. /\ r \in CallType /\ r.at = p /\ r.sid = call[c].sid
        /\ r.runs = call[c].runs /\ r.done = call[c].done /\ r.err = call[c].err
        /\ r.out = call[c].out /\ r.posts = call[c].posts
    BY <1>1 DEF CallType, CallPlaces
  <2>2. call' = [call EXCEPT ![c] = r]
    BY <1>6 DEF ReadDone
  <2>3. p = "cancel" \/ (p = "returned" /\ call[c].done)
    OBVIOUS
  <2> HIDE DEF r, p
  <2>4. /\ r.done => r.err \/ r.out = {c}
        /\ r.posts > 0 \/ Held(c) => r.done
        /\ r.at = "returned" => r.done
    BY <1>1, <2>1, <2>3 DEF Outcome
  <2> QED
    BY <1>6, <2>1, <2>2, <2>3, <2>4, CallOnly DEF ReadDone
<1>7. CASE StartCancel(c)
  <2>1. CASE rx.at # "ended"
    BY <1>7, <2>1, FailPendingKeeps DEF StartCancel
  <2>2. CASE rx.at = "ended"
    BY <1>7, <2>2, GoesOn DEF StartCancel, Go, CallPlaces
  <2> QED
    BY <2>1, <2>2
<1>8. CASE SetFailed(c)
  <2> DEFINE r == [call[c] EXCEPT !.at = "returned", !.err = TRUE]
  <2>1. /\ r \in CallType /\ r.at = "returned" /\ r.sid = call[c].sid
        /\ r.runs = call[c].runs /\ r.done = call[c].done /\ r.err = TRUE
        /\ r.posts = call[c].posts
    BY <1>1 DEF CallType, CallPlaces
  <2>2. call' = [call EXCEPT ![c] = r]
    BY <1>8 DEF SetFailed
  <2> HIDE DEF r
  <2>3. r.err /\ (r.posts > 0 \/ Held(c) => r.done)
    BY <1>1, <2>1 DEF Outcome
  <2> QED
    BY <1>8, <2>1, <2>2, <2>3, CallOnly DEF SetFailed
<1> QED
  BY <1>2, <1>3, <1>4, <1>5, <1>6, <1>7, <1>8

\* A registered method is the only one of its call, and is run by nobody yet.
LEMMA RegisterKeeps ==
    ASSUME SidsSuffice, RpcInv, NEW c \in Calls, Register(c) PROVE RpcInv'
<1>1. /\ call[c] \in CallType /\ call[c].at = "register"
      /\ call[c].runs = 0 /\ PendingOf(c) = {} /\ Outcome(c)
      /\ UNCHANGED <<m_sidRef, requests, m_srvPendingMethods, responses, rx>>
  BY DEF RpcInv, TypeOK, Register, RunsOnce
<1>2. CASE /\ call' = [call EXCEPT ![c] = [Failed(@) EXCEPT !.at = "wait"]]
           /\ m_clntPendingMethods' = m_clntPendingMethods
  BY <1>1, <1>2, FailsUnlisted
<1>3. CASE /\ call' = [call EXCEPT ![c].at = "send"]
           /\ m_clntPendingMethods' = m_clntPendingMethods \cup {NewMethod(c)}
  <2> DEFINE r == [call[c] EXCEPT !.at = "send"]
  <2>1. /\ r \in CallType /\ r.at = "send" /\ r.sid = call[c].sid /\ r.runs = call[c].runs
        /\ r.done = call[c].done /\ r.err = call[c].err /\ r.out = call[c].out
        /\ r.posts = call[c].posts
    BY <1>1, AtTyped DEF CallPlaces
  <2>2. call' = [call EXCEPT ![c] = r]
    BY <1>3
  <2> HIDE DEF r
  <2>3. call'[c] = r
    BY <2>1, <2>2, CallTyped DEF RpcInv
  <2>4. rx.of = {} /\ RxHolds'
    BY <1>1 DEF Register, ClntLockFree, RpcInv, RxHolds
  <2>5. NewMethod(c) \in PendingOf(c)'
    BY <1>3 DEF PendingOf, NewMethod
  <2>6. ~Held(c)' /\ PendingOf(c)' # {}
    BY <1>1, <2>4, <2>5 DEF Held
  <2>7. RunsOnce(c)'
    BY <1>1, <2>1, <2>3, <2>6 DEF RunsOnce
  <2>8. Outcome(c)'
    BY <1>1, <2>1, <2>3, <2>6 DEF Outcome
  <2> QED
    BY <1>1, <1>3, <2>1, <2>2, <2>4, <2>7, <2>8, CallerMoves
<1> QED
  BY <1>2, <1>3 DEF Register

\* As the ids do not wrap, the first one that is tried is free.
LEMMA NextIsFree ==
    ASSUME SidsSuffice, RpcInv, NEW c \in Calls, call[c].at = "sid",
           NEW n \in Nat, SidsBelow(n)
    PROVE  /\ n + 1 <= Cardinality(Named \cup {c}) /\ n < SidMod
           /\ m_sidRef = n /\ NextSid = 0
<1>1. /\ IsFiniteSet(Named) /\ Cardinality(Named) \in Nat /\ c \notin Named
      /\ Named \cup {c} \in SUBSET Calls
  BY FS_Subset, FS_CardinalityType DEF SidsSuffice, Named
<1>2. /\ Cardinality(Named \cup {c}) = Cardinality(Named) + 1
      /\ IsFiniteSet(Named \cup {c})
  BY <1>1, FS_AddElement
<1>3. Cardinality(Named \cup {c}) <= Cardinality(Calls) /\ Cardinality(Calls) \in Nat
  BY <1>1, FS_Subset, FS_CardinalityType DEF SidsSuffice
<1>4. n + 1 <= Cardinality(Named \cup {c}) /\ n < SidMod
  BY <1>1, <1>2, <1>3 DEF SidsBelow, SidsSuffice
<1>5. n % SidMod = n
  BY <1>4 DEF SidsSuffice
<1>6. m_sidRef = n
  BY <1>5 DEF SidsBelow
<1>7. WithSid(m_clntPendingMethods, n) = {}
  <2> SUFFICES ASSUME NEW m \in m_clntPendingMethods, m.sid = n PROVE FALSE
    BY DEF WithSid
  <2>1. m \in UnderWay /\ Carries(m) /\ m.of \in Calls
    BY DEF RpcInv, Records, UnderWay, Carries, Named
  <2>2. call[m.of].sid < n
    BY <2>1 DEF Issued, SidsBelow
  <2> QED
    BY <2>1, <2>2 DEF Carries
<1>8. NextSid = 0
  <2> DEFINE Free(k) ==
        /\ WithSid(m_clntPendingMethods, (m_sidRef + k) % SidMod) = {}
        /\ \A j \in 0 .. k - 1 :
             WithSid(m_clntPendingMethods, (m_sidRef + j) % SidMod) # {}
  <2>1. (m_sidRef + 0) % SidMod = n
    BY <1>5, <1>6
  <2>2. 0 \in 0 .. SidMod - 1 /\ Free(0)
    BY <1>7, <2>1 DEF SidsSuffice
  <2>3. NextSid = CHOOSE k \in 0 .. SidMod - 1 : Free(k)
    BY DEF NextSid
  <2> HIDE DEF Free
  <2>4. NextSid \in 0 .. SidMod - 1 /\ Free(NextSid)
    BY <2>2, <2>3
  <2>5. ASSUME NextSid # 0 PROVE FALSE
    <3>1. 0 \in 0 .. NextSid - 1
      BY <2>4, <2>5 DEF SidsSuffice
    <3>2. WithSid(m_clntPendingMethods, (m_sidRef + 0) % SidMod) # {}
      BY <2>4, <3>1 DEF Free
    <3> QED
      BY <1>7, <2>1, <3>2
  <2> QED
    BY <2>5
<1> QED
  BY <1>4, <1>6, <1>8

\* Calls get session ids in turn.
LEMMA getNextSidKeeps ==
    ASSUME SidsSuffice, RpcInv, NEW c \in Calls, getNextSid(c) PROVE RpcInv'
<1>1. PICK n \in Nat : SidsBelow(n)
  BY DEF RpcInv, Sids
<1>2. /\ call[c].at = "sid" /\ call[c] \in CallType
      /\ UNCHANGED <<m_clntPendingMethods, requests, m_srvPendingMethods, responses, rx>>
      /\ RunsOnce(c) /\ Outcome(c)
  BY DEF getNextSid, RpcInv, TypeOK
<1>3. /\ n + 1 <= Cardinality(Named \cup {c}) /\ n < SidMod
      /\ m_sidRef = n /\ NextSid = 0
  BY <1>1, <1>2, NextIsFree
<1>4. n % SidMod = n
  BY <1>3 DEF SidsSuffice
<1> DEFINE r == [call[c] EXCEPT !.at = "register", !.sid = n]
<1>5. call' = [call EXCEPT ![c] = r] /\ m_sidRef' = (n + 1) % SidMod
  <2>1. (m_sidRef + NextSid) % SidMod = n /\ m_sidRef + NextSid + 1 = n + 1
    BY <1>3, <1>4
  <2> QED
    BY <2>1 DEF getNextSid
<1>6. /\ r \in CallType /\ r.at = "register" /\ r.sid = n /\ r.runs = call[c].runs
      /\ r.done = call[c].done /\ r.err = call[c].err /\ r.out = call[c].out
      /\ r.posts = call[c].posts
  BY <1>2 DEF CallType, CallPlaces
<1> HIDE DEF r
<1>7. /\ call' \in [Calls -> CallType] /\ call'[c] = r
      /\ \A d \in Calls : d # c => call'[d] = call[d]
  BY <1>5, <1>6, CallTyped DEF RpcInv
<1>8. TypeOK' /\ RxHolds'
  BY <1>2, <1>7 DEF RpcInv, TypeOK, RxHolds
<1>9. UnderWay' = UnderWay /\ Named' = Named \cup {c} /\ c \notin Named
  BY <1>2, <1>6, <1>7 DEF UnderWay, Named
<1>10. Records'
  BY <1>7, <1>9 DEF RpcInv, Records, Carries, Named
<1>11. \A d \in Calls : Issued(d)' => d = c \/ Issued(d)
  BY <1>7, <1>9 DEF Issued
<1>12. SidsBelow(n + 1)'
  <2>1. n + 1 <= Cardinality(Named') /\ m_sidRef' = (n + 1) % SidMod
    BY <1>3, <1>5, <1>9
  <2>2. ASSUME NEW d \in Calls, Issued(d)'
        PROVE  \/ d = c /\ call'[d].sid = n
               \/ d # c /\ Issued(d) /\ call'[d].sid = call[d].sid /\ call[d].sid < n
    BY <1>1, <1>6, <1>7, <1>11, <2>2 DEF SidsBelow
  <2>3. \A d \in Calls : call[d].sid \in Nat
    BY DEF RpcInv, TypeOK, CallType
  <2>4. \A d \in Calls : Issued(d)' => call'[d].sid < n + 1
    BY <2>2, <2>3
  <2>5. ASSUME NEW d \in Calls, NEW e \in Calls, Issued(d)', Issued(e)',
               call'[d].sid = call'[e].sid
        PROVE  d = e
    <3>1. d = c <=> e = c
      BY <2>2, <2>3, <2>5
    <3>2. CASE d # c /\ e # c
      BY <1>1, <2>2, <2>5, <3>2 DEF SidsBelow
    <3> QED
      BY <3>1, <3>2
  <2> QED
    BY <2>1, <2>4, <2>5 DEF SidsBelow
<1>13. ASSUME NEW d \in Calls PROVE RunsOnce(d)' /\ Outcome(d)'
  <2>1. PendingOf(d)' = PendingOf(d) /\ (Held(d)' <=> Held(d))
    BY <1>2 DEF PendingOf, Held
  <2>2. CASE d = c
    BY <1>2, <1>6, <1>7, <2>1, <2>2 DEF RunsOnce, Outcome
  <2>3. CASE d # c
    BY <1>7, <2>1, <2>3 DEF RpcInv, RunsOnce, Outcome
  <2> QED
    BY <2>2, <2>3
<1> QED
  BY <1>8, <1>10, <1>12, <1>13 DEF RpcInv, Sids

-----------------------------------------------------------------------------
(* The receiving thread and the server.                                    *)

\* What remains to be shown of a step that leaves every call and the table
\* of the client alone.
LEMMA OthersMove ==
    ASSUME SidsSuffice, RpcInv, UNCHANGED <<call, m_sidRef, m_clntPendingMethods>>,
           requests' \in Seq(Method), m_srvPendingMethods' \subseteq Method,
           responses' \in Seq(Response),
           RxHolds', rx'.of = rx.of,
           \A x \in UnderWay' : \E y \in UnderWay : x.of = y.of /\ x.sid = y.sid
    PROVE  RpcInv'
<1>1. TypeOK'
  BY DEF RpcInv, TypeOK
<1>2. Named' = Named
  BY DEF Named
<1>3. Records' /\ Sids'
  BY <1>2, SidsKept DEF RpcInv
<1>4. ASSUME NEW c \in Calls PROVE RunsOnce(c)' /\ Outcome(c)'
  <2>1. PendingOf(c)' = PendingOf(c) /\ (Held(c)' <=> Held(c))
    BY DEF PendingOf, Held
  <2> QED
    BY <2>1 DEF RpcInv, RunsOnce, Outcome
<1> QED
  BY <1>1, <1>3, <1>4 DEF RpcInv

\* The tail of what is under way was under way.
LEMMA TailUnderWay ==
    ASSUME NEW S, NEW q \in Seq(S), q # <<>>
    PROVE  /\ Tail(q) \in Seq(S) /\ Head(q) \in S
           /\ Head(q) \in {q[i] : i \in 1..Len(q)}
           /\ {Tail(q)[i] : i \in 1..Len(Tail(q))} \subseteq {q[i] : i \in 1..Len(q)}
<1>1. Tail(q) \in Seq(S) /\ Len(Tail(q)) = Len(q) - 1 /\ Len(q) > 0
  OBVIOUS
<1>2. \A i \in 1..Len(Tail(q)) : Tail(q)[i] = q[i + 1] /\ i + 1 \in 1..Len(q)
  BY <1>1
<1>3. Head(q) = q[1] /\ 1 \in 1..Len(q) /\ Head(q) \in S
  BY <1>1
<1> QED
  BY <1>1, <1>2, <1>3

\* The server and the connection
LEMMA ServerKeeps ==
    ASSUME SidsSuffice, RpcInv,
           \/ handleServerMethod \/ Disconnect
           \/ \E m \in m_srvPendingMethods : sendResponse(m)
    PROVE  RpcInv'
<1>1. /\ UNCHANGED <<call, m_sidRef, m_clntPendingMethods, rx>> /\ TypeOK
      /\ RxHolds'
  BY DEF handleServerMethod, Disconnect, sendResponse, RpcInv, RxHolds
<1>2. CASE handleServerMethod
  <2>1. /\ requests # <<>> /\ requests' = Tail(requests) /\ responses' = responses
        /\ m_srvPendingMethods' = m_srvPendingMethods \cup {Head(requests)}
    BY <1>2 DEF handleServerMethod
  <2>2. /\ Tail(requests) \in Seq(Method) /\ Head(requests) \in Method
        /\ Head(requests) \in {requests[i] : i \in 1..Len(requests)}
        /\ {requests'[i] : i \in 1..Len(requests')} \subseteq {requests[i] : i \in 1..Len(requests)}
    BY <1>1, <2>1, TailUnderWay DEF TypeOK
  <2>3. UnderWay' \subseteq UnderWay
    BY <1>1, <2>1, <2>2 DEF UnderWay
  <2> QED
    BY <1>1, <2>1, <2>2, <2>3, OthersMove DEF TypeOK
<1>3. CASE Disconnect
  <2>1. UNCHANGED <<requests, responses, m_srvPendingMethods>>
    BY <1>3 DEF Disconnect
  <2>2. UnderWay' = UnderWay
    BY <1>1, <2>1 DEF UnderWay
  <2> QED
    BY <1>1, <2>1, <2>2, OthersMove DEF TypeOK
<1>4. ASSUME NEW m \in m_srvPendingMethods, sendResponse(m) PROVE RpcInv'
  <2>1. /\ requests' = requests
        /\ m_srvPendingMethods' = m_srvPendingMethods \ {m}
    BY <1>4 DEF sendResponse
  <2>2. CASE responses' = responses
    <3>1. UnderWay' \subseteq UnderWay
      BY <1>1, <2>1, <2>2 DEF UnderWay
    <3> QED
      BY <1>1, <2>1, <2>2, <3>1, OthersMove DEF TypeOK
  <2>3. ASSUME NEW ok \in BOOLEAN,
               responses' = Append(responses, [sid |-> m.sid, ok |-> ok, of |-> m.of])
        PROVE  RpcInv'
    <3> DEFINE r == [sid |-> m.sid, ok |-> ok, of |-> m.of]
    <3>1. r \in Response /\ r.sid = m.sid /\ r.of = m.of
      BY <1>1 DEF TypeOK, Method, Response
    <3> HIDE DEF r
    <3>2. /\ responses' \in Seq(Response) /\ Len(responses') = Len(responses) + 1
          /\ \A i \in 1..Len(responses') :
               responses'[i] = r \/ (i \in 1..Len(responses) /\ responses'[i] = responses[i])
      BY <1>1, <2>3, <3>1 DEF TypeOK, r
    <3>3. \A x \in UnderWay' : x = r \/ x \in UnderWay
      BY <1>1, <2>1, <3>2 DEF UnderWay
    <3>4. m \in UnderWay
      BY DEF UnderWay
    <3> QED
      BY <1>1, <2>1, <3>1, <3>2, <3>3, <3>4, OthersMove DEF TypeOK
  <2> QED
    BY <1>4, <2>2, <2>3 DEF sendResponse
<1> QED
  BY <1>2, <1>3, <1>4

\* complete and fail: a method of the table is run for the first time, with
\* an error or the answer to it.
LEMMA SetDoneKeeps ==
    ASSUME SidsSuffice, RpcInv, NEW m \in m_clntPendingMethods, rx.of = {},
           NEW failed \in BOOLEAN, NEW answer \in SUBSET Calls,
           NEW to \in {"post", "postlast"}, SetDone(m, failed, answer, to),
           failed \/ answer = {m.of},
           UNCHANGED <<m_sidRef, m_clntPendingMethods, requests, m_srvPendingMethods>>,
           responses' \in Seq(Response),
           {responses'[i] : i \in 1..Len(responses')} \subseteq {responses[i] : i \in 1..Len(responses)}
    PROVE  RpcInv'
<1> DEFINE c == m.of
           r == [call[c] EXCEPT !.err = @ \/ failed, !.out = answer, !.done = TRUE, !.runs = @ + 1]
<1>1. /\ TypeOK /\ Records /\ Sids
      /\ c \in Calls /\ c \in Named /\ PendingOf(c) = {m} /\ call[c] \in CallType
  BY PendingIsNew DEF RpcInv, Named, TypeOK
<1>2. ~Held(c) /\ call[c].at \notin {"idle", "sid", "register"} /\ call[c].runs = 0
  BY <1>1 DEF Held, RpcInv, RunsOnce
<1>3. /\ r \in CallType /\ r.at = call[c].at /\ r.sid = call[c].sid
      /\ r.runs = call[c].runs + 1 /\ r.out = answer /\ r.done = TRUE
  <2>1. (call[c].err \/ failed) \in BOOLEAN
    BY Zenon
  <2>2. call[c].runs + 1 \in Nat
    BY <1>1 DEF CallType
  <2> QED
    BY <1>1, <2>1, <2>2 DEF CallType
<1>4. r.err = (call[c].err \/ failed)
  BY <1>1 DEF CallType
<1>5. call' = [call EXCEPT ![c] = r] /\ rx'.at = to /\ rx'.of = {m}
  BY DEF SetDone
<1>6. c = m.of
  OBVIOUS
<1> HIDE DEF r, c
<1>7. /\ call' \in [Calls -> CallType] /\ call'[c] = r
      /\ \A d \in Calls : d # c => call'[d] = call[d]
  BY <1>1, <1>3, <1>5, CallTyped
<1>8. TypeOK' /\ RxHolds'
  BY <1>1, <1>5, <1>7 DEF TypeOK, RxHolds
<1>9. UnderWay' \subseteq UnderWay
  BY DEF UnderWay
<1>10. Records' /\ Sids'
  <2>1. Named' = Named
    BY <1>3, <1>7 DEF Named
  <2>2. \A d \in Calls : call'[d].sid = call[d].sid /\ call'[d].at = call[d].at
    BY <1>3, <1>7
  <2> QED
    BY <1>1, <1>9, <2>1, <2>2, SidsKept
<1>11. ASSUME NEW d \in Calls, d # c PROVE RunsOnce(d)' /\ Outcome(d)'
  <2>1. PendingOf(d)' = PendingOf(d) /\ ~Held(d)' /\ ~Held(d)
    BY <1>5, <1>6, <1>11 DEF PendingOf, Held
  <2> QED
    BY <1>7, <1>11, <2>1 DEF RpcInv, RunsOnce, Outcome
<1>12. RunsOnce(c)'
  <2>1. Held(c)'
    BY <1>5, <1>6 DEF Held
  <2> QED
    BY <1>2, <1>3, <1>7, <2>1 DEF RunsOnce
<1>13. Outcome(c)'
  <2>1. r.err \/ r.out = {c}
    <3>1. CASE failed
      BY <1>4, <3>1, Zenon
    <3>2. CASE answer = {m.of}
      BY <1>3, <1>6, <3>2
    <3> QED
      BY <3>1, <3>2
  <2> QED
    BY <1>3, <1>7, <2>1 DEF Outcome
<1> QED
  BY <1>8, <1>10, <1>11, <1>12, <1>13 DEF RpcInv

\* An answer that comes in is that of the method in the table with its
\* session id, or of none.
LEMMA completeKeeps ==
    ASSUME SidsSuffice, RpcInv, completeClientMethod PROVE RpcInv'
<1> DEFINE a == Head(responses)
<1>1. /\ rx.at = "run" /\ responses # <<>> /\ responses' = Tail(responses)
      /\ UNCHANGED <<m_sidRef, m_clntPendingMethods, requests, m_srvPendingMethods, active>>
      /\ TypeOK /\ Records /\ Sids
  BY DEF completeClientMethod, CallersUnchanged, RpcInv
<1>2. rx.of = {}
  BY <1>1 DEF RpcInv, RxHolds
<1>3. /\ responses' \in Seq(Response) /\ a \in Response
      /\ a \in {responses[i] : i \in 1..Len(responses)}
      /\ {responses'[i] : i \in 1..Len(responses')} \subseteq {responses[i] : i \in 1..Len(responses)}
  BY <1>1, TailUnderWay DEF TypeOK
<1>4. a \in UnderWay /\ Carries(a) /\ Issued(a.of) /\ a.of \in Calls
  BY <1>1, <1>3 DEF UnderWay, Records, Issued, Carries, Named
<1>5. CASE WithSid(m_clntPendingMethods, a.sid) = {}
  <2>1. UNCHANGED <<call, rx>>
    BY <1>5 DEF completeClientMethod
  <2>2. UnderWay' \subseteq UnderWay /\ RxHolds'
    BY <1>1, <1>2, <1>3, <2>1 DEF UnderWay, RxHolds
  <2> QED
    BY <1>1, <1>3, <2>1, <2>2, OthersMove DEF TypeOK
<1>6. CASE WithSid(m_clntPendingMethods, a.sid) # {}
  <2>1. PICK m \in WithSid(m_clntPendingMethods, a.sid) :
          SetDone(m, ~a.ok, IF a.ok THEN {a.of} ELSE {}, "post")
    BY <1>6 DEF completeClientMethod
  <2>2. m \in m_clntPendingMethods /\ m.sid = a.sid
    BY <2>1 DEF WithSid
  <2>3. m.of = a.of
    <3>1. m \in UnderWay /\ Carries(m) /\ Issued(m.of) /\ m.of \in Calls
      BY <1>1, <2>2 DEF UnderWay, Records, Issued, Carries, Named
    <3>2. call[m.of].sid = call[a.of].sid
      BY <1>4, <2>2, <3>1 DEF Carries
    <3> QED
      BY <1>1, <1>4, <3>1, <3>2 DEF Sids, SidsBelow
  <2>4. (~a.ok) \in BOOLEAN /\ (~a.ok \/ (IF a.ok THEN {a.of} ELSE {}) = {m.of})
    BY <2>3, Zenon
  <2>5. (IF a.ok THEN {a.of} ELSE {}) \in SUBSET Calls
    BY <1>4
  <2> HIDE DEF a
  <2> QED
    BY <1>1, <1>2, <1>3, <2>1, <2>2, <2>4, <2>5, SetDoneKeeps
<1> QED
  BY <1>5, <1>6

\* The other half of Run, and the erasure of the method that was run
LEMMA PostKeeps == ASSUME SidsSuffice, RpcInv, Post PROVE RpcInv'
<1>1. /\ TypeOK /\ Records /\ Sids
      /\ UNCHANGED <<m_sidRef, requests, m_srvPendingMethods, responses>>
  BY DEF Post, CallersUnchanged, RpcInv
<1>2. PICK m \in m_clntPendingMethods : rx.of = {m}
  BY DEF Post, RpcInv, RxHolds
<1> DEFINE c == m.of
           r == [call[c] EXCEPT !.posts = @ + 1]
<1>3. /\ call' = [call EXCEPT ![c].posts = @ + 1]
      /\ m_clntPendingMethods' = m_clntPendingMethods \ {m}
      /\ rx'.at \in {"run", "cancel"} /\ rx'.of = {}
  BY <1>2 DEF Post
<1>4. /\ c \in Calls /\ PendingOf(c) = {m} /\ Held(c) /\ call[c] \in CallType
      /\ call[c].at \notin {"idle", "sid"} /\ m.of = c
  BY <1>1, <1>2, PendingIsNew DEF Named, Held, TypeOK
<1>5. call[c].posts + 1 \in Nat
  BY <1>4 DEF CallType
<1>6. /\ r \in CallType /\ r.at = call[c].at /\ r.sid = call[c].sid
      /\ r.runs = call[c].runs /\ r.out = call[c].out /\ r.done = call[c].done
      /\ r.err = call[c].err
  BY <1>4, <1>5 DEF CallType
<1>7. call' = [call EXCEPT ![c] = r]
  BY <1>3
<1> HIDE DEF r, c
<1>8. /\ call' \in [Calls -> CallType] /\ call'[c] = r
      /\ \A d \in Calls : d # c => call'[d] = call[d]
  BY <1>1, <1>4, <1>6, <1>7, CallTyped
<1>9. TypeOK' /\ RxHolds'
  BY <1>1, <1>3, <1>8 DEF TypeOK, RxHolds
<1>10. Records' /\ Sids'
  <2>1. UnderWay' \subseteq UnderWay
    BY <1>1, <1>3 DEF UnderWay
  <2>2. Named' = Named
    BY <1>6, <1>8 DEF Named
  <2>3. \A d \in Calls : call'[d].sid = call[d].sid /\ call'[d].at = call[d].at
    BY <1>6, <1>8
  <2> QED
    BY <1>1, <2>1, <2>2, <2>3, SidsKept
<1>11. ASSUME NEW d \in Calls, d # c PROVE RunsOnce(d)' /\ Outcome(d)'
  <2>1. PendingOf(d)' = PendingOf(d) /\ ~Held(d)' /\ ~Held(d)
    BY <1>2, <1>3, <1>4, <1>11 DEF PendingOf, Held
  <2> QED
    BY <1>8, <1>11, <2>1 DEF RpcInv, RunsOnce, Outcome
<1>12. RunsOnce(c)' /\ Outcome(c)'
  <2>1. PendingOf(c)' = {}
    BY <1>3, <1>4 DEF PendingOf
  <2>2. call[c].runs = 1 /\ call[c].at # "register" /\ call[c].done
    BY <1>4 DEF RpcInv, RunsOnce, Outcome
  <2>3. RunsOnce(c)'
    BY <1>4, <1>6, <1>8, <2>1, <2>2 DEF RunsOnce
  <2>4. Outcome(c)'
    BY <1>4, <1>6, <1>8, <2>2 DEF RpcInv, Outcome
  <2> QED
    BY <2>3, <2>4
<1> QED
  BY <1>9, <1>10, <1>11, <1>12 DEF RpcInv

\* The receiving thread leaves its loop and fails what is pending.
LEMMA DisconnectionKeeps ==
    ASSUME SidsSuffice, RpcInv, LeaveLoop \/ onDisconnection PROVE RpcInv'
<1>1. /\ UNCHANGED <<m_sidRef, m_clntPendingMethods, requests, m_srvPendingMethods, responses>>
      /\ rx.at \in {"run", "cancel"} /\ rx.of = {} /\ TypeOK
  BY DEF LeaveLoop, onDisconnection, CallersUnchanged, RpcInv, RxHolds
<1>2. CASE call' = call /\ \E p \in {"cancel", "ended"} : rx' = [rx EXCEPT !.at = p]
  <2>1. rx'.of = rx.of /\ RxHolds'
    <3>1. PICK p \in {"cancel", "ended"} : rx' = [rx EXCEPT !.at = p]
      BY <1>2
    <3>2. rx'.of = rx.of
      BY <3>1
    <3>3. rx'.at \notin {"post", "postlast"}
      BY <3>1
    <3> QED
      BY <1>1, <3>2, <3>3 DEF RxHolds
  <2>2. UnderWay' = UnderWay
    BY <1>1 DEF UnderWay
  <2> QED
    BY <1>1, <1>2, <2>1, <2>2, OthersMove DEF TypeOK
<1>3. ASSUME NEW m \in m_clntPendingMethods, SetDone(m, TRUE, {}, "postlast") PROVE RpcInv'
  BY <1>1, <1>3, SetDoneKeeps DEF TypeOK
<1> QED
  BY <1>2, <1>3 DEF LeaveLoop, onDisconnection

-----------------------------------------------------------------------------
\* Every step keeps the invariant.
LEMMA StepRpcInv == ASSUME SidsSuffice, RpcInv, [RpcNext]_rvars PROVE RpcInv'
<1>1. ASSUME NEW c \in Calls, Caller(c) PROVE RpcInv'
  BY <1>1, sendMethodKeeps, getNextSidKeeps, RegisterKeeps, WaitKeeps DEF Caller
<1>2. CASE Receiver
  BY <1>2, completeKeeps, PostKeeps, DisconnectionKeeps DEF Receiver
<1>3. CASE handleServerMethod \/ Disconnect \/ \E m \in m_srvPendingMethods : sendResponse(m)
  BY <1>3, ServerKeeps
<1>4. CASE UNCHANGED rvars
  <2>1. UnderWay' = UnderWay /\ RxHolds'
    BY <1>4 DEF UnderWay, rvars, RpcInv, RxHolds
  <2> QED
    BY <1>4, <2>1, OthersMove DEF rvars, RpcInv, TypeOK
<1> QED
  BY <1>1, <1>2, <1>3, <1>4 DEF RpcNext

(* A call that returns without an error has the answer to its own request,    *)
(* and no closure is run twice, whatever timed out, was cancelled, was        *)
(* answered late or lost its connection, for every number of calls and every  *)
(* limit of the tables, as long as there is a session id for each call: a     *)
(* late answer to an id that came round again would match another call.       *)
THEOREM AnswersCorrect == ASSUME SidsSuffice PROVE RpcSpec => []AnswersMatch
<1>1. RpcInit => RpcInv
  BY InitRpcInv
<1>2. RpcInv /\ [RpcNext]_rvars => RpcInv'
  BY StepRpcInv
<1>3. RpcInv => AnswersMatch
  <2> SUFFICES ASSUME RpcInv, NEW c \in Calls
               PROVE  /\ call[c].runs <= 1
                      /\ call[c].at = "returned" /\ ~call[c].err => call[c].out = {c}
    BY DEF AnswersMatch
  <2>1. RunsOnce(c) /\ Outcome(c)
    BY DEF RpcInv
  <2>2. call[c].runs <= 1
    BY <2>1 DEF RunsOnce
  <2>3. call[c].at = "returned" /\ ~call[c].err => call[c].out = {c}
    BY <2>1 DEF Outcome
  <2> QED
    BY <2>2, <2>3
<1> QED
  BY <1>1, <1>2, <1>3, PTL DEF RpcSpec

-----------------------------------------------------------------------------
(* No closure for a call that has returned.                                *)

\* A call that was posted, cancelled or returned is not pending any more,
\* unless it saw m_done between the halves of Run.
Over(c) ==
    /\ call[c].at \in {"idle", "sid", "register"} => call[c].posts = 0
    /\ call[c].posts > 0 => PendingOf(c) = {}
    /\ call[c].at = "timeout" => PendingOf(c) = {}
    /\ call[c].at = "returned" => call[c].seen \/ PendingOf(c) = {}

\* What is registered after the last cancellation is not sent, and fails.
Ended ==
    /\ rx.at \in {"cancel", "postlast", "ended"} => ~active
    /\ rx.at = "ended"
         => \A m \in m_clntPendingMethods : call[m.of].at \in {"send", "unsent"}

LInv == Ended /\ \A c \in Calls : Over(c)

\* RpcInit establishes it.
LEMMA InitLInv == RpcInit => LInv
BY DEF RpcInit, LInv, Ended, Over, PendingOf, NewCall

\* What remains to be shown of a step of a call's own thread.
LEMMA CallerOver ==
    ASSUME LInv, NEW c \in Calls, rx' = rx, active' = active,
           \A d \in Calls \ {c} : call'[d] = call[d] /\ PendingOf(d)' = PendingOf(d),
           \A m \in m_clntPendingMethods' : m \in m_clntPendingMethods \/ m.of = c,
           m_clntPendingMethods' \subseteq [sid : Nat, of : Calls],
           Over(c)',
           rx.at = "ended" /\ PendingOf(c)' # {} => call'[c].at \in {"send", "unsent"}
    PROVE  LInv'
<1>1. \A d \in Calls : Over(d)'
  BY DEF LInv, Over
<1>2. Ended'
  <2> SUFFICES ASSUME rx.at = "ended", NEW m \in m_clntPendingMethods'
               PROVE  call'[m.of].at \in {"send", "unsent"}
    BY DEF LInv, Ended
  <2>1. CASE m.of = c
    BY <2>1 DEF PendingOf
  <2>2. CASE m.of # c
    BY <2>2 DEF LInv, Ended
  <2> QED
    BY <2>1, <2>2
<1> QED
  BY <1>1, <1>2 DEF LInv

\* A call that ends is not in the table, and one that registers has not ended.
LEMMA CallerLive ==
    ASSUME SidsSuffice, RpcInv, RpcInv', LInv, NEW c \in Calls, Caller(c) PROVE LInv'
<1>1. /\ call[c] \in CallType /\ call \in [Calls -> CallType]
      /\ m_clntPendingMethods' \subseteq [sid : Nat, of : Calls]
      /\ RunsOnce(c) /\ RunsOnce(c)' /\ Over(c)
  BY DEF RpcInv, TypeOK, Method, LInv
<1>2. /\ rx' = rx /\ active' = active
      /\ \A d \in Calls \ {c} : call'[d] = call[d]
  BY <1>1 DEF Caller, sendMethod, getNextSid, Register, SendPacket, failClientMethod,
         Waited, TimeOut, ReadDone, StartCancel, FailPending, SetFailed, Go
<1>3. /\ \A d \in Calls \ {c} : PendingOf(d)' = PendingOf(d)
      /\ \A m \in m_clntPendingMethods' : m \in m_clntPendingMethods \/ m.of = c
  <2>1. \/ m_clntPendingMethods' = m_clntPendingMethods
        \/ m_clntPendingMethods' = m_clntPendingMethods \cup {NewMethod(c)}
        \/ m_clntPendingMethods' = m_clntPendingMethods \ PendingOf(c)
    BY DEF Caller, sendMethod, getNextSid, Register, SendPacket, failClientMethod,
         Waited, TimeOut, ReadDone, StartCancel, FailPending, SetFailed, Go
  <2> QED
    BY <2>1 DEF PendingOf, NewMethod
<1>4. Over(c)' /\ (rx.at = "ended" /\ PendingOf(c)' # {} => call'[c].at \in {"send", "unsent"})
  <2>1. CASE sendMethod(c)
    <3>1. PendingOf(c) = {} /\ PendingOf(c)' = {} /\ call[c].posts = 0
      BY <1>1, <2>1 DEF sendMethod, RunsOnce, PendingOf, Over
    <3>2. call'[c].at \in {"sid", "wait"} /\ (call'[c].at = "sid" => call'[c].posts = 0)
      <4>1. CASE call' = [call EXCEPT ![c].at = "sid"]
        BY <1>1, <3>1, <4>1 DEF CallType
      <4>2. CASE call' = [call EXCEPT ![c] = [Failed(@) EXCEPT !.at = "wait"]]
        BY <1>1, <4>2 DEF CallType, Failed
      <4> QED
        BY <2>1, <4>1, <4>2 DEF sendMethod
    <3> QED
      BY <3>1, <3>2 DEF Over
  <2>2. CASE getNextSid(c)
    <3>1. /\ PendingOf(c)' = {} /\ call[c].posts = 0
      BY <1>1, <2>2 DEF getNextSid, RunsOnce, PendingOf, Over
    <3>2. call'[c].at = "register" /\ call'[c].posts = call[c].posts
      BY <1>1, <2>2 DEF getNextSid, CallType
    <3> QED
      BY <3>1, <3>2 DEF Over
  <2>3. CASE Register(c)
    <3>1. PendingOf(c) = {} /\ call[c].posts = 0
      BY <1>1, <2>3 DEF Register, RunsOnce, Over
    <3>2. \/ PendingOf(c)' = {} /\ call'[c].at = "wait"
          \/ call'[c].at = "send" /\ call'[c].posts = 0
      <4>1. CASE /\ call' = [call EXCEPT ![c] = [Failed(@) EXCEPT !.at = "wait"]]
                 /\ UNCHANGED m_clntPendingMethods
        BY <1>1, <3>1, <4>1 DEF CallType, Failed, PendingOf
      <4>2. CASE call' = [call EXCEPT ![c].at = "send"]
        BY <1>1, <3>1, <4>2 DEF CallType
      <4> QED
        BY <2>3, <4>1, <4>2 DEF Register
    <3> QED
      BY <3>1, <3>2 DEF Over
  <2>4. CASE SendPacket(c)
    <3>1. /\ call[c].at = "send" /\ PendingOf(c)' = PendingOf(c)
          /\ call'[c] = [call[c] EXCEPT !.at = IF active THEN "wait" ELSE "unsent"]
      BY <1>1, <2>4 DEF SendPacket, Go, PendingOf
    <3>2. rx.at = "ended" => ~active
      BY DEF LInv, Ended
    <3> QED
      BY <1>1, <3>1, <3>2 DEF Over, CallType
  <2>5. ASSUME NEW to \in {"wait", "timeout"}, FailPending(c, to)
        PROVE  Over(c)' /\ PendingOf(c)' = {}
    <3>1. PendingOf(c)' = {}
      BY <2>5 DEF FailPending, PendingOf
    <3>2. call'[c].at = to
      BY <1>1, <2>5 DEF FailPending, CallType, Failed
    <3> QED
      BY <3>1, <3>2 DEF Over
  <2>6. CASE Waited(c)
    <3>1. /\ call[c].posts > 0 /\ PendingOf(c)' = PendingOf(c) /\ call'[c].at = "returned"
      BY <1>1, <2>6 DEF Waited, PendingOf, CallType
    <3> QED
      BY <1>1, <3>1 DEF Over
  <2>7. ASSUME TimeOut(c) \/ ReadDone(c)
        PROVE  Over(c)' /\ (rx.at = "ended" => PendingOf(c)' = {})
    <3>1. /\ call[c].at \in {"wait", "late"} /\ PendingOf(c)' = PendingOf(c)
          /\ call'[c].at \in {"late", "returned", "cancel"}
          /\ call'[c].posts = call[c].posts
          /\ call'[c].at = "returned" => call'[c].seen
      BY <1>1, <2>7 DEF TimeOut, ReadDone, Go, PendingOf, CallType
    <3>2. rx.at = "ended" => PendingOf(c) = {}
      BY <3>1 DEF LInv, Ended, PendingOf
    <3> QED
      BY <1>1, <3>1, <3>2 DEF Over
  <2>8. CASE StartCancel(c)
    <3>1. rx.at = "ended" /\ call[c].at = "cancel" => PendingOf(c) = {}
      BY DEF LInv, Ended, PendingOf
    <3>2. CASE rx.at # "ended"
      BY <2>5, <2>8, <3>2 DEF StartCancel
    <3>3. CASE rx.at = "ended"
      <4>1. PendingOf(c)' = {} /\ call'[c].at = "timeout"
        BY <1>1, <2>8, <3>1, <3>3 DEF StartCancel, Go, PendingOf, CallType
      <4> QED
        BY <4>1 DEF Over
    <3> QED
      BY <3>2, <3>3
  <2>9. CASE SetFailed(c)
    <3>1. PendingOf(c)' = PendingOf(c) /\ PendingOf(c) = {} /\ call'[c].at = "returned"
      BY <1>1, <2>9 DEF SetFailed, PendingOf, Over, CallType
    <3> QED
      BY <3>1 DEF Over
  <2>10. CASE failClientMethod(c)
    BY <2>5, <2>10 DEF failClientMethod
  <2> QED
    BY <2>1, <2>2, <2>3, <2>4, <2>6, <2>7, <2>8, <2>9, <2>10 DEF Caller
<1> QED
  BY <1>1, <1>2, <1>3, <1>4, CallerOver

\* The receiving thread posts a method as it erases it, and ends with none.
LEMMA ReceiverLive == ASSUME SidsSuffice, RpcInv, LInv, Receiver PROVE LInv'
<1>1. /\ call \in [Calls -> CallType] /\ active' = active
      /\ \A m \in m_clntPendingMethods : m.of \in Calls /\ PendingOf(m.of) = {m}
      /\ \A c \in Calls : RunsOnce(c)
  <2>1. active' = active
    BY DEF Receiver, completeClientMethod, Post, LeaveLoop, onDisconnection, CallersUnchanged
  <2>2. \A m \in m_clntPendingMethods : m.of \in Calls /\ PendingOf(m.of) = {m}
    BY PendingIsNew DEF RpcInv, TypeOK, Method
  <2> QED
    BY <2>1, <2>2 DEF RpcInv, TypeOK
<1>2. ASSUME m_clntPendingMethods' = m_clntPendingMethods,
             \A c \in Calls : /\ call'[c].at = call[c].at /\ call'[c].posts = call[c].posts
                              /\ call'[c].seen = call[c].seen
      PROVE  \A c \in Calls : Over(c)'
  BY <1>2 DEF LInv, Over, PendingOf
<1>3. ASSUME NEW m \in m_clntPendingMethods, NEW failed, NEW answer, NEW to, SetDone(m, failed, answer, to)
      PROVE  \A c \in Calls : /\ call'[c].at = call[c].at /\ call'[c].posts = call[c].posts
                              /\ call'[c].seen = call[c].seen
  BY <1>1, <1>3 DEF SetDone, CallType
<1>4. CASE completeClientMethod
  <2>1. rx' = rx \/ rx'.at = "post"
    <3>1. ASSUME NEW m, NEW failed, NEW answer, SetDone(m, failed, answer, "post")
          PROVE  rx'.at = "post"
      BY <3>1 DEF SetDone
    <3> QED
      BY <1>4, <3>1 DEF completeClientMethod
  <2>2. m_clntPendingMethods' = m_clntPendingMethods /\ rx.at = "run"
    BY <1>4 DEF completeClientMethod
  <2>3. \A c \in Calls : /\ call'[c].at = call[c].at /\ call'[c].posts = call[c].posts
                         /\ call'[c].seen = call[c].seen
    BY <1>3, <1>4 DEF completeClientMethod, WithSid
  <2> QED
    BY <1>2, <2>1, <2>2, <2>3 DEF LInv, Ended
<1>5. CASE Post
  <2>1. PICK m \in rx.of : /\ call' = [call EXCEPT ![m.of].posts = @ + 1]
                           /\ m_clntPendingMethods' = m_clntPendingMethods \ {m}
    BY <1>5 DEF Post
  <2>2. m \in m_clntPendingMethods /\ m.of \in Calls /\ PendingOf(m.of) = {m}
    BY <1>1, <1>5, <2>1 DEF Post, RpcInv, RxHolds
  <2>3. PendingOf(m.of)' = {}
    BY <2>1, <2>2 DEF PendingOf
  <2>4. \A d \in Calls : d # m.of => call'[d] = call[d] /\ PendingOf(d)' = PendingOf(d)
    BY <1>1, <2>1 DEF PendingOf
  <2>5. call'[m.of].at = call[m.of].at /\ call[m.of].at \notin {"idle", "sid", "register"}
    BY <1>1, <2>1, <2>2 DEF RunsOnce, CallType
  <2>6. \A d \in Calls : Over(d)'
    BY <2>3, <2>4, <2>5 DEF LInv, Over
  <2>7. rx'.at \in {"run", "cancel"} /\ (rx'.at = "cancel" => rx.at = "postlast")
    BY <1>5 DEF Post
  <2> QED
    BY <1>1, <2>6, <2>7 DEF LInv, Ended
<1>6. CASE LeaveLoop
  <2>1. rx'.at = "cancel" \/ rx' = rx
    BY <1>6 DEF LeaveLoop, RpcInv, RxHolds
  <2>2. ~active /\ UNCHANGED <<call, m_clntPendingMethods>>
    BY <1>6 DEF LeaveLoop
  <2> QED
    BY <1>1, <1>2, <2>1, <2>2 DEF LInv, Ended
<1>7. CASE onDisconnection
  <2>1. m_clntPendingMethods' = m_clntPendingMethods /\ rx.at = "cancel" /\ ~active
    BY <1>7 DEF onDisconnection, LInv, Ended
  <2>2. CASE m_clntPendingMethods = {}
    <3>1. UNCHANGED call
      BY <1>7, <2>2 DEF onDisconnection
    <3> QED
      BY <1>1, <1>2, <2>1, <2>2, <3>1 DEF LInv, Ended
  <2>3. ASSUME NEW m \in m_clntPendingMethods, SetDone(m, TRUE, {}, "postlast") PROVE LInv'
    <3>1. rx'.at = "postlast"
      BY <2>3 DEF SetDone
    <3> QED
      BY <1>1, <1>2, <1>3, <2>1, <2>3, <3>1 DEF LInv, Ended
  <2> QED
    BY <1>7, <2>2, <2>3 DEF onDisconnection
<1> QED
  BY <1>4, <1>5, <1>6, <1>7 DEF Receiver

(* No closure is run for a call whose caller may have destroyed it: a call    *)
(* that returned is neither in the table nor in the hands of the receiving    *)
(* thread, unless its timeout saw m_done before the semaphore was posted;     *)
(* whatever is registered while the connection goes down.                     *)
THEOREM LiveCallCorrect == ASSUME SidsSuffice PROVE RpcSpec => []RunsOnLiveCall
<1>1. RpcInv /\ LInv /\ [RpcNext]_rvars => LInv'
  <2> SUFFICES ASSUME RpcInv, LInv, [RpcNext]_rvars PROVE LInv'
    OBVIOUS
  <2>1. RpcInv'
    BY StepRpcInv
  <2>2. ASSUME NEW c \in Calls, Caller(c) PROVE LInv'
    BY <2>1, <2>2, CallerLive
  <2>3. CASE Receiver
    BY <2>3, ReceiverLive
  <2>4. ASSUME UNCHANGED <<call, m_clntPendingMethods, rx>>, active' = active \/ active' = FALSE
        PROVE  LInv'
    BY <2>4 DEF LInv, Ended, Over, PendingOf
  <2>5. CASE handleServerMethod \/ Disconnect \/ \E m \in m_srvPendingMethods : sendResponse(m)
    BY <2>4, <2>5 DEF handleServerMethod, Disconnect, sendResponse
  <2>6. CASE UNCHANGED rvars
    BY <2>4, <2>6 DEF rvars
  <2> QED
    BY <2>2, <2>3, <2>5, <2>6 DEF RpcNext
<1>2. RpcInv /\ LInv => RunsOnLiveCall
  <2> SUFFICES ASSUME RpcInv, LInv, NEW c \in Calls, call[c].at = "returned", ~call[c].seen
               PROVE  PendingOf(c) = {} /\ ~\E m \in rx.of : m.of = c
    BY DEF RunsOnLiveCall, RpcInv, TypeOK, CallType
  <2>1. PendingOf(c) = {}
    BY DEF LInv, Over
  <2> QED
    BY <2>1 DEF RpcInv, RxHolds, PendingOf
<1> QED
  BY InitRpcInv, InitLInv, StepRpcInv, <1>1, <1>2, PTL DEF RpcSpec
=============================================================================
