--------------------------- MODULE TraceRing_proofs ---------------------------
(***************************************************************************)
(* Theorems about the trace ring, for every ring size, alignment, set of   *)
(* threads and set of event sizes; the last of them: it implements the     *)
(* queue of TraceQueue when the 32-bit _size of _allocate_event is exact   *)
(* (NoSizeWrap).                                                           *)
(***************************************************************************)
EXTENDS TraceRing, TLAPS, SequenceTheorems

-----------------------------------------------------------------------------
(* Arithmetic of the helpers.                                              *)

\* Rounding down to a multiple.
LEMMA DivMul ==
    ASSUME NEW x \in Nat, NEW d \in Nat \ {0}
    PROVE  /\ x \div d \in Nat
           /\ (x \div d) * d \in Nat
           /\ (x \div d) * d <= x
           /\ x < (x \div d) * d + d
BY SMT

\* A remainder is an offset.
LEMMA ModType ==
    ASSUME NEW x \in Nat, NEW d \in Nat \ {0}
    PROVE  x % d \in 0..(d - 1)
BY SMT

\* The two cases in which the code's modulo is used: exactly at the end of
\* the ring, and not at all.
LEMMA ModExact ==
    ASSUME NEW d \in Nat \ {0}
    PROVE  d % d = 0 /\ \A x \in 0..(d - 1) : x % d = x
BY SMT

\* _init_ring never produces an empty ring.
LEMMA RingSizeType == ring_size \in Nat \ {0} /\ ring_size >= TRACE_ALIGNMENT
BY HeaderAssumption, MempoolAssumption, DivMul DEF ring_size

\* TRACE_ALIGN rounds up.
LEMMA AlignType ==
    ASSUME NEW s \in Nat
    PROVE  TRACE_ALIGN(s) \in Nat /\ TRACE_ALIGN(s) >= s
BY HeaderAssumption, DivMul DEF TRACE_ALIGN

\* _move_ptr keeps a pointer inside the ring.
LEMMA MovePtrType ==
    ASSUME NEW ptr \in Nat, NEW mv \in Nat
    PROVE  move_ptr(ptr, mv) \in Addr
<1>1. ptr + mv \in Nat /\ (ptr + mv) % ring_size \in 0..(ring_size - 1)
  BY RingSizeType, ModType
<1> QED
  BY <1>1, RingSizeType DEF move_ptr, Addr

\* The free space _get_continuous_space finds is never negative.
LEMMA ContinuousSpaceType ==
    ASSUME NEW rdp \in Addr, NEW wrp \in Addr
    PROVE  get_continuous_space(rdp, wrp) \in Nat
BY RingSizeType DEF get_continuous_space, Addr

\* _allocate_event computes only offsets inside the ring.
LEMMA AllocateType ==
    ASSUME NEW rdp \in Addr, NEW wrp \in Addr, NEW size \in Nat
    PROVE  LET e == allocate_event(rdp, wrp, size)
           IN  /\ e.fits \in BOOLEAN
               /\ [hdr |-> e.hdr, data |-> e.data, next |-> e.next] \in Handles
<1> DEFINE afterHdr == move_ptr(wrp, TRACE_ALIGNMENT)
           space == get_continuous_space(rdp, afterHdr)
           asize == TRACE_ALIGN(size) % SIZE_MOD
           skipped == move_ptr(afterHdr, space)
<1>1. Addr \subseteq Nat
  BY RingSizeType DEF Addr
<1>2. afterHdr \in Addr
  BY <1>1, MovePtrType, HeaderAssumption
<1>3. space \in Nat
  BY <1>2, ContinuousSpaceType
<1>4. skipped \in Addr
  BY <1>1, <1>2, <1>3, MovePtrType
<1>5. asize \in Nat
  BY AlignType, SizesAssumption, ModType
<1>6. \A d \in Addr : move_ptr(d, asize) \in Addr
  BY <1>1, <1>5, MovePtrType
<1> HIDE DEF afterHdr, space, asize, skipped
<1>7. LET e == allocate_event(rdp, wrp, size)
      IN  /\ e.fits \in BOOLEAN
          /\ e.hdr = wrp
          /\ e.data \in Addr
          /\ e.next = move_ptr(e.data, asize)
  BY <1>2, <1>4 DEF allocate_event, afterHdr, space, asize, skipped
<1> QED
  BY <1>6, <1>7 DEF Handles

\* Bytes read inside the ring are payload bytes or zeroes.
LEMMA BytesType ==
    ASSUME TypeOK, NEW from \in Nat, NEW count \in Nat,
           integrity_check(from, count)
    PROVE  Bytes(from, count) \in SUBSET (Payloads \cup {NoPayload})
<1>1. from..(from + count - 1) \subseteq Addr
  BY RingSizeType DEF integrity_check, Addr
<1>2. \A a \in Addr : mem[a].byte \in Payloads \cup {NoPayload}
  BY DEF TypeOK, Cell
<1> QED
  BY <1>1, <1>2 DEF Bytes

-----------------------------------------------------------------------------
(* Type correctness.                                                       *)

\* A thread that moves on keeps every thread at a label of its own kind.
LEMMA GotoType ==
    ASSUME TypeOK
    PROVE  /\ \A p \in Producers, l \in ProducerLabels : Goto(p, l) => PcType'
           /\ \A c \in Consumers, l \in ConsumerLabels : Goto(c, l) => PcType'
<1>1. ASSUME NEW p \in Producers, NEW l \in ProducerLabels, Goto(p, l)
      PROVE  PcType'
  <2>1. \A q \in Producers : pc'[q] \in ProducerLabels
    BY <1>1 DEF TypeOK, PcType, Goto
  <2>2. \A c \in Consumers : pc'[c] \in ConsumerLabels
    BY <1>1, ThreadsAssumption DEF TypeOK, PcType, Goto
  <2> QED
    BY <1>1, <2>1, <2>2 DEF TypeOK, PcType, Goto
<1>2. ASSUME NEW c \in Consumers, NEW l \in ConsumerLabels, Goto(c, l)
      PROVE  PcType'
  <2>1. \A d \in Consumers : pc'[d] \in ConsumerLabels
    BY <1>2 DEF TypeOK, PcType, Goto
  <2>2. \A p \in Producers : pc'[p] \in ProducerLabels
    BY <1>2, ThreadsAssumption DEF TypeOK, PcType, Goto
  <2> QED
    BY <1>2, <2>1, <2>2 DEF TypeOK, PcType, Goto
<1> QED
  BY <1>1, <1>2

\* The locals of a call that has not started or has returned.
LEMMA NoCallType == NoPush \in PushRecord /\ NoPop \in PopRecord
<1>1. 0 \in Addr
  BY RingSizeType DEF Addr
<1>2. NoHandle \in Handles
  BY <1>1 DEF NoHandle, Handles
<1>3. 0 \in 0..(WR_LOCK_RETRY + 1)
  BY BoundsAssumption
<1> QED
  BY <1>1, <1>2, <1>3
     DEF NoPush, NoPop, PushRecord, PopRecord, ConsumerResults

\* The initial values are of their types.
LEMMA InitType == Init => TypeOK
<1> SUFFICES ASSUME Init PROVE TypeOK
  OBVIOUS
<1>1. 0 \in Addr
  BY RingSizeType DEF Addr
<1>2. mem \in [Addr -> Cell]
  BY DEF Init, Cell, ZeroCell
<1>3. push \in [Producers -> PushRecord] /\ pop \in [Consumers -> PopRecord]
  BY NoCallType DEF Init
<1>4. live \in Seq(EventRecord)
  BY DEF Init
<1> QED
  BY <1>1, <1>2, <1>3, <1>4 DEF Init, TypeOK, PcType,
     ProducerLabels, ProducerResults, ConsumerLabels, ConsumerResults

\* A step of a producer thread keeps the types.
LEMMA ProducerStepType ==
    ASSUME TypeOK, NEW p \in Producers
    PROVE  /\ \A api \in ProducerApis, s \in Sizes, v \in Payloads :
                PushCall(p, api, s, v) => TypeOK'
           /\ \A n \in 1..MaxLost : AddLost(p, n) => TypeOK'
           /\ FreeSpaceReadWr(p) => TypeOK'
           /\ PushStep(p) => TypeOK'
<1> USE DEF ProducerLabels, ProducerResults, ProducerSteps
<1>a. push[p] \in PushRecord /\ NoPush \in PushRecord
  BY NoCallType DEF TypeOK
<1>b. Addr \subseteq Nat
  BY RingSizeType DEF Addr
<1>1. ASSUME NEW api \in ProducerApis, NEW s \in Sizes, NEW v \in Payloads,
             PushCall(p, api, s, v)
      PROVE  TypeOK'
  <2>1. [NoPush EXCEPT !.api = api, !.size = s, !.payload = v] \in PushRecord
    <3>1. api \in {"push", "wrbuf"} /\ s \in Nat
      BY <1>1, SizesAssumption DEF PushCall
    <3> QED
      BY <1>a, <3>1 DEF PushRecord
  <2>2. push' \in [Producers -> PushRecord]
    BY <1>1, <1>a, <2>1 DEF PushCall, TypeOK
  <2>3. PcType'
    BY <1>1, GotoType DEF PushCall
  <2> QED
    BY <1>1, <2>2, <2>3 DEF PushCall, TypeOK, hdrVars
<1>2. ASSUME NEW n \in 1..MaxLost, AddLost(p, n)
      PROVE  TypeOK'
  BY <1>2, BoundsAssumption DEF AddLost, TypeOK, PcType
<1>3. ASSUME FreeSpaceReadWr(p) PROVE TypeOK'
  <2>1. [NoPush EXCEPT !.slot.next = wr_ptr] \in PushRecord
    BY <1>a DEF PushRecord, Handles, TypeOK
  <2>2. push' \in [Producers -> PushRecord]
    BY <1>3, <1>a, <2>1 DEF FreeSpaceReadWr, TypeOK
  <2>3. PcType'
    BY <1>3, GotoType DEF FreeSpaceReadWr
  <2> QED
    BY <1>3, <2>2, <2>3 DEF FreeSpaceReadWr, TypeOK, hdrVars
<1>4. ASSUME TryLockWr(p) PROVE TypeOK'
  <2>1. push[p].retry <= WR_LOCK_RETRY =>
          [push[p] EXCEPT !.retry = push[p].retry + 1] \in PushRecord
    BY <1>a, BoundsAssumption DEF PushRecord
  <2>2. [push[p] EXCEPT !.retry = 0] \in PushRecord
    BY <1>a, BoundsAssumption DEF PushRecord
  <2>3. push' \in [Producers -> PushRecord]
    BY <1>4, <1>a, <2>1, <2>2 DEF TryLockWr, TypeOK
  <2>4. PcType'
    BY <1>4, GotoType DEF TryLockWr, TypeOK, PcType
  <2> QED
    BY <1>4, <2>3, <2>4 DEF TryLockWr, TypeOK
<1>5. ASSUME TryLockWrGiveUp(p) PROVE TypeOK'
  <2>1. [push[p] EXCEPT !.retry = 0] \in PushRecord
    BY <1>a, BoundsAssumption DEF PushRecord
  <2>2. push' \in [Producers -> PushRecord]
    BY <1>5, <1>a, <2>1 DEF TryLockWrGiveUp, TypeOK
  <2>3. PcType'
    BY <1>5, GotoType DEF TryLockWrGiveUp
  <2> QED
    BY <1>5, <2>2, <2>3 DEF TryLockWrGiveUp, TypeOK, hdrVars
<1>6. ASSUME AllocateEvent(p) PROVE TypeOK'
  <2> DEFINE e == allocate_event(rd_ptr, wr_ptr, push[p].size)
             h == [hdr |-> e.hdr, data |-> e.data, next |-> e.next]
  <2>1. h \in Handles
    BY <1>a, AllocateType DEF TypeOK, PushRecord
  <2>2. [push[p] EXCEPT !.slot = h] \in PushRecord
    BY <1>a, <2>1 DEF PushRecord
  <2>3. push' \in [Producers -> PushRecord]
    BY <1>6, <1>a, <2>2 DEF AllocateEvent, TypeOK
  <2>4. PcType'
    BY <1>6, GotoType DEF AllocateEvent
  <2>5. magic' \in BOOLEAN
    BY <1>6 DEF AllocateEvent
  <2> QED
    BY <1>6, <2>3, <2>4, <2>5 DEF AllocateEvent, TypeOK
<1>7. ASSUME PrepareHdr(p) PROVE TypeOK'
  <2>1. [ready |-> FALSE, data_ptr |-> push[p].slot.data,
         data_size |-> push[p].size, byte |-> NoPayload] \in Cell
    BY <1>a, <1>b DEF PushRecord, Handles, Cell
  <2>2. ZeroCell \in Cell
    BY DEF ZeroCell, Cell
  <2>3. mem' \in [Addr -> Cell]
    BY <1>7, <2>1, <2>2 DEF PrepareHdr, TypeOK
  <2>4. PcType'
    BY <1>7, GotoType DEF PrepareHdr
  <2> QED
    BY <1>7, <2>3, <2>4 DEF PrepareHdr, TypeOK, hdrVars
<1>8. ASSUME PublishWrPtr(p) PROVE TypeOK'
  <2>1. Event(p) \in EventRecord
    BY <1>a DEF Event, EventRecord, PushRecord, Handles
  <2>2. live' \in Seq(EventRecord)
    BY <1>8, <2>1 DEF PublishWrPtr, TypeOK
  <2>3. wr_ptr' \in Addr
    BY <1>8, <1>a DEF PublishWrPtr, PushRecord, Handles
  <2>4. PcType'
    BY <1>8, GotoType DEF PublishWrPtr
  <2> QED
    BY <1>8, <2>2, <2>3, <2>4 DEF PublishWrPtr, TypeOK
<1>9. ASSUME UnlockWr(p) PROVE TypeOK'
  <2>1. PcType'
    BY <1>9, GotoType DEF UnlockWr
  <2> QED
    BY <1>9, <2>1 DEF UnlockWr, TypeOK
<1>10. ASSUME CountLost(p) PROVE TypeOK'
  <2>1. PcType'
    BY <1>10, GotoType DEF CountLost
  <2>2. push' \in [Producers -> PushRecord]
    BY <1>10, <1>a DEF CountLost, TypeOK
  <2> QED
    BY <1>10, <2>1, <2>2 DEF CountLost, TypeOK
<1>11. ASSUME CopyData(p) PROVE TypeOK'
  <2>1. DataCell(push[p].payload) \in Cell
    BY <1>a DEF PushRecord, Cell, DataCell
  <2>2. mem' \in [Addr -> Cell]
    BY <1>11, <2>1 DEF CopyData, TypeOK
  <2>3. PcType'
    BY <1>11, GotoType DEF CopyData
  <2>4. push' \in [Producers -> PushRecord] /\ magic' \in BOOLEAN
    BY <1>11, <1>a DEF CopyData, TypeOK
  <2> QED
    BY <1>11, <2>2, <2>3, <2>4 DEF CopyData, TypeOK
<1>12. ASSUME CommitEvent(p) PROVE TypeOK'
  <2>1. push[p].slot.hdr \in Addr
    BY <1>a DEF PushRecord, Handles
  <2>2. mem' \in [Addr -> Cell]
    BY <1>12, <2>1 DEF CommitEvent, TypeOK, Cell
  <2>3. PcType'
    BY <1>12, GotoType DEF CommitEvent
  <2>4. push' \in [Producers -> PushRecord] /\ magic' \in BOOLEAN
    BY <1>12, <1>a DEF CommitEvent, TypeOK
  <2> QED
    BY <1>12, <2>2, <2>3, <2>4 DEF CommitEvent, TypeOK
<1>13. ASSUME FreeSpaceReadRd(p) PROVE TypeOK'
  <2>1. get_free_space(rd_ptr, push[p].slot.next) \in Int
    <3>1. push[p].slot.next \in Nat /\ rd_ptr \in Nat
      BY <1>a, <1>b DEF PushRecord, Handles, TypeOK
    <3> QED
      BY <3>1, RingSizeType DEF get_free_space
  <2>2. [NoPush EXCEPT !.free = get_free_space(rd_ptr, push[p].slot.next)]
          \in PushRecord
    BY <1>a, <2>1 DEF PushRecord
  <2>3. push' \in [Producers -> PushRecord]
    BY <1>13, <2>2 DEF FreeSpaceReadRd, TypeOK
  <2>4. PcType'
    BY <1>13, GotoType DEF FreeSpaceReadRd
  <2> QED
    BY <1>13, <2>3, <2>4 DEF FreeSpaceReadRd, TypeOK, hdrVars
<1> QED
  BY <1>1, <1>2, <1>3, <1>4, <1>5, <1>6, <1>7, <1>8, <1>9, <1>10, <1>11,
     <1>12, <1>13 DEF PushStep

\* A step of a consumer thread keeps the types.
LEMMA ConsumerStepType ==
    ASSUME TypeOK, NEW c \in Consumers
    PROVE  /\ \A api \in ConsumerApis, cap \in BufSizes :
                PopCall(c, api, cap) => TypeOK'
           /\ IsEmptyReadRd(c) => TypeOK'
           /\ PopStep(c) => TypeOK'
<1> USE DEF ConsumerLabels, ConsumerResults, ConsumerSteps
<1>a. pop[c] \in PopRecord /\ NoPop \in PopRecord
  BY NoCallType DEF TypeOK
<1>b. rd_ptr \in Addr /\ mem[rd_ptr] \in Cell /\ Addr \subseteq Nat
  BY RingSizeType DEF TypeOK, Addr
<1>1. ASSUME NEW api \in ConsumerApis, NEW cap \in BufSizes,
             PopCall(c, api, cap)
      PROVE  TypeOK'
  <2>1. [NoPop EXCEPT !.api = api, !.cap = IF api = "pop" THEN cap ELSE 0]
          \in PopRecord
    <3>1. api \in {"pop", "rdbuf"} /\ cap \in Nat
      BY <1>1, SizesAssumption DEF PopCall
    <3> QED
      BY <1>a, <3>1 DEF PopRecord
  <2>2. pop' \in [Consumers -> PopRecord]
    BY <1>1, <1>a, <2>1 DEF PopCall, TypeOK
  <2>3. PcType'
    BY <1>1, GotoType DEF PopCall
  <2> QED
    BY <1>1, <2>2, <2>3 DEF PopCall, TypeOK, hdrVars
<1>2. ASSUME IsEmptyReadRd(c) PROVE TypeOK'
  <2>1. [NoPop EXCEPT !.rdp = rd_ptr] \in PopRecord
    BY <1>a, <1>b DEF PopRecord
  <2>2. pop' \in [Consumers -> PopRecord]
    BY <1>2, <1>a, <2>1 DEF IsEmptyReadRd, TypeOK
  <2>3. PcType'
    BY <1>2, GotoType DEF IsEmptyReadRd
  <2> QED
    BY <1>2, <2>2, <2>3 DEF IsEmptyReadRd, TypeOK, hdrVars
<1>3. ASSUME TryLockRd(c) PROVE TypeOK'
  <2>1. pop' \in [Consumers -> PopRecord]
    BY <1>3, <1>a DEF TryLockRd, TypeOK
  <2>2. PcType'
    BY <1>3, GotoType DEF TryLockRd
  <2> QED
    BY <1>3, <2>1, <2>2 DEF TryLockRd, TypeOK
<1>4. ASSUME GetRdHdr(c) PROVE TypeOK'
  <2>1. PcType'
    BY <1>4, GotoType DEF GetRdHdr
  <2> QED
    BY <1>4, <2>1 DEF GetRdHdr, TypeOK, hdrVars
<1>5. ASSUME NoEvent(c) PROVE TypeOK'
  <2>1. \A r \in ConsumerResults : [pop[c] EXCEPT !.res = r] \in PopRecord
    BY <1>a DEF PopRecord
  <2>2. pop' \in [Consumers -> PopRecord]
    BY <1>5, <1>a, <2>1 DEF NoEvent, TypeOK
  <2>3. PcType'
    BY <1>5, GotoType DEF NoEvent
  <2> QED
    BY <1>5, <2>2, <2>3 DEF NoEvent, TypeOK, hdrVars
<1>6. ASSUME TakeEvent(c) PROVE TypeOK'
  <2> DEFINE h == mem[rd_ptr]
  <2>1. \A r \in ConsumerResults : [pop[c] EXCEPT !.res = r] \in PopRecord
    BY <1>a DEF PopRecord
  <2>2. integrity_check(h.data_ptr, h.data_size) =>
          [pop[c] EXCEPT !.out = Bytes(h.data_ptr, h.data_size)] \in PopRecord
    <3>1. h.data_ptr \in Nat /\ h.data_size \in Nat
      BY <1>b DEF Cell
    <3> HIDE DEF h
    <3> QED
      BY <1>a, <3>1, BytesType DEF PopRecord
  <2>3. pop' \in [Consumers -> PopRecord]
    <3> HIDE DEF h
    <3>1. \/ pop' = [pop EXCEPT ![c].out = Bytes(h.data_ptr, h.data_size)]
             /\ integrity_check(h.data_ptr, h.data_size)
          \/ \E r \in ConsumerResults : pop' = [pop EXCEPT ![c].res = r]
      BY <1>6 DEF TakeEvent, h
    <3> QED
      BY <3>1, <2>1, <2>2, <1>a DEF TypeOK
  <2>4. PcType'
    BY <1>6, GotoType DEF TakeEvent
  <2> QED
    BY <1>6, <2>3, <2>4 DEF TakeEvent, TypeOK, hdrVars
<1>7. ASSUME ReleaseCall(c) PROVE TypeOK'
  <2>1. pop' \in [Consumers -> PopRecord]
    BY <1>7, <1>a DEF ReleaseCall, TypeOK
  <2>2. PcType'
    BY <1>7, GotoType DEF ReleaseCall
  <2>3. magic' \in BOOLEAN
    BY <1>7 DEF ReleaseCall
  <2> QED
    BY <1>7, <2>1, <2>2, <2>3 DEF ReleaseCall, TypeOK
<1>8. ASSUME MoveRdPtr(c) PROVE TypeOK'
  <2>1. rd_ptr' \in Addr
    <3>1. /\ mem[rd_ptr].data_ptr \in Nat
          /\ TRACE_ALIGN(mem[rd_ptr].data_size) \in Nat
      BY <1>b, AlignType DEF Cell
    <3> QED
      BY <1>8, <3>1, MovePtrType DEF MoveRdPtr
  <2>2. live' \in Seq(EventRecord)
    BY <1>8, SubSeqProperties DEF MoveRdPtr, TypeOK
  <2>3. PcType'
    BY <1>8, GotoType DEF MoveRdPtr
  <2> QED
    BY <1>8, <2>1, <2>2, <2>3 DEF MoveRdPtr, TypeOK
<1>9. ASSUME UnlockRd(c) PROVE TypeOK'
  <2>1. pop' \in [Consumers -> PopRecord]
    BY <1>9, <1>a DEF UnlockRd, TypeOK
  <2>2. PcType'
    <3>1. pop[c].res \in ConsumerLabels
      BY <1>a DEF PopRecord
    <3> QED
      BY <1>9, <3>1, GotoType DEF UnlockRd
  <2> QED
    BY <1>9, <2>1, <2>2 DEF UnlockRd, TypeOK
<1>10. ASSUME IsEmptyReadWr(c) PROVE TypeOK'
  <2>1. pop' \in [Consumers -> PopRecord]
    BY <1>10, <1>a DEF IsEmptyReadWr, TypeOK
  <2>2. PcType'
    BY <1>10, GotoType DEF IsEmptyReadWr
  <2> QED
    BY <1>10, <2>1, <2>2 DEF IsEmptyReadWr, TypeOK, hdrVars
<1> QED
  BY <1>1, <1>2, <1>3, <1>4, <1>5, <1>6, <1>7, <1>8, <1>9, <1>10 DEF PopStep

\* Opening and closing handles keeps the types.
LEMMA HandleStepType ==
    ASSUME TypeOK
    PROVE  /\ OpenProducer => TypeOK'
           /\ \A ext \in BOOLEAN : OpenConsumer(ext) => TypeOK'
           /\ CloseProducer => TypeOK'
           /\ CloseConsumer => TypeOK'
<1>1. ASSUME OpenProducer PROVE TypeOK'
  <2>1. 0 \in Addr
    BY RingSizeType DEF Addr
  <2>2. mem' \in [Addr -> Cell]
    BY <1>1 DEF OpenProducer, Cell, ZeroCell
  <2>3. live' \in Seq(EventRecord)
    BY <1>1 DEF OpenProducer
  <2> QED
    BY <1>1, <2>1, <2>2, <2>3 DEF OpenProducer, TypeOK, PcType
<1>2. ASSUME NEW ext \in BOOLEAN, OpenConsumer(ext) PROVE TypeOK'
  BY <1>2 DEF OpenConsumer, TypeOK, PcType, hdrVars
<1>3. ASSUME CloseProducer PROVE TypeOK'
  BY <1>3 DEF CloseProducer, TypeOK, PcType
<1>4. ASSUME CloseConsumer PROVE TypeOK'
  BY <1>4 DEF CloseConsumer, TypeOK, PcType, hdrVars
<1> QED
  BY <1>1, <1>2, <1>3, <1>4

\* Every step keeps the types.
LEMMA TypeStep == TypeOK /\ [Next]_vars => TypeOK'
<1> SUFFICES ASSUME TypeOK, [Next]_vars PROVE TypeOK'
  OBVIOUS
<1>1. CASE Next
  BY <1>1, ProducerStepType, ConsumerStepType, HandleStepType DEF Next
<1>2. CASE UNCHANGED vars
  BY <1>2 DEF vars, TypeOK, PcType
<1> QED
  BY <1>1, <1>2

\* trace.c keeps every word of the shared memory, and every local of its
\* callers, of its type: neither pointer ever leaves the ring, not even for
\* event sizes for which the 32-bit _size wraps around.
THEOREM TypeCorrect == Spec => []TypeOK
BY InitType, TypeStep, PTL DEF Spec

-----------------------------------------------------------------------------
(* The memory layout of the ring, where the 32-bit _size of _allocate_event  *)
(* is exact (NoSizeWrap).  From rd_ptr forward to wr_ptr, past the end of the *)
(* ring if need be, lies the arc in use; _allocate_event places a header and  *)
(* data outside.                                                              *)

-----------------------------------------------------------------------------
(* Geometry.                                                               *)

\* The bytes x..(x + len - 1) lie on the way forward from "from" to "to".
InArc(from, to, x, len) ==
    IF from <= to
    THEN from <= x /\ x + len <= to
    ELSE x + len <= to \/ (from <= x /\ x + len <= ring_size)

\* The header and the data of an event, its aligned data size being n, lie
\* outside the arc from rdp to wrp and end before rdp.
Fits(rdp, wrp, hdr, data, next, n) ==
    /\ hdr = wrp
    /\ IF wrp < rdp
       THEN /\ wrp + TRACE_ALIGNMENT <= data
            /\ data + n < rdp /\ next = data + n
       ELSE /\ wrp + TRACE_ALIGNMENT <= ring_size
            /\ \/ /\ wrp + TRACE_ALIGNMENT <= data
                  /\ \/ data + n < ring_size /\ next = data + n
                     \/ data + n = ring_size /\ next = 0 /\ rdp # 0
               \/ data + n < rdp /\ next = data + n

\* What the arithmetic below needs to know of the ring.
LEMMA RingConstants ==
    /\ ring_size \in Nat /\ TRACE_ALIGNMENT \in Nat
    /\ 1 <= TRACE_ALIGNMENT /\ TRACE_ALIGNMENT <= ring_size
    /\ \A x \in Addr : x \in Nat /\ x < ring_size
    /\ \A x \in Nat : x < ring_size => x \in Addr
BY RingSizeType, HeaderAssumption DEF Addr

\* _move_ptr, on operands for which the code's modulo does no more than wrap
\* the end of the ring.
LEMMA MovePtrValue ==
    ASSUME NEW ptr \in Nat, NEW mv \in Nat, ptr + mv <= ring_size
    PROVE  move_ptr(ptr, mv) = IF ptr + mv = ring_size THEN 0 ELSE ptr + mv
<1>1. ptr + mv \in Nat /\ ring_size \in Nat \ {0}
  BY RingConstants
<1>2. ring_size % ring_size = 0
  BY RingSizeType, ModExact
<1> QED
  BY <1>1, <1>2 DEF move_ptr

\* _allocate_event finds room only outside the arc in use.
LEMMA AllocateFits ==
    ASSUME NEW rdp \in Addr, NEW wrp \in Addr, NEW size \in Nat,
           TRACE_ALIGN(size) < SIZE_MOD,
           allocate_event(rdp, wrp, size).fits
    PROVE  LET e == allocate_event(rdp, wrp, size)
           IN  /\ Fits(rdp, wrp, e.hdr, e.data, e.next, TRACE_ALIGN(size))
               /\ e.data + TRACE_ALIGN(size) <= ring_size
               /\ move_ptr(e.data, TRACE_ALIGN(size)) = e.next
<1> DEFINE n == TRACE_ALIGN(size)
           A == TRACE_ALIGNMENT
           afterHdr == move_ptr(wrp, A)
           space == get_continuous_space(rdp, afterHdr)
           skip == n > space /\ is_wrap(rdp, afterHdr) /\ rdp # 0
           data == IF skip THEN move_ptr(afterHdr, space) ELSE afterHdr
           next == move_ptr(data, n)
<1>1. n \in Nat /\ n % SIZE_MOD = n
  <2>1. n \in 0..(SIZE_MOD - 1)
    BY AlignType, SizesAssumption
  <2> QED
    BY <2>1, SizesAssumption, ModExact
<1>2. /\ A <= get_continuous_space(rdp, wrp) /\ wrp + A <= ring_size
      /\ n <= get_continuous_space(rdp, data) /\ data + n <= ring_size
  BY <1>1 DEF allocate_event
<1>3. LET e == allocate_event(rdp, wrp, size)
      IN  e.hdr = wrp /\ e.data = data /\ e.next = next
  BY <1>1 DEF allocate_event
<1> HIDE DEF n
<1>4. /\ rdp \in Nat /\ rdp < ring_size /\ wrp \in Nat /\ wrp < ring_size
      /\ ring_size \in Nat /\ A \in Nat /\ 1 <= A /\ A <= ring_size
  BY RingConstants
<1>5. afterHdr = IF wrp + A = ring_size THEN 0 ELSE wrp + A
  BY <1>2, <1>4, MovePtrValue
<1>6. afterHdr \in Nat /\ afterHdr < ring_size
  BY <1>2, <1>4, <1>5
<1>7. skip => data = 0
  <2> SUFFICES ASSUME skip PROVE data = 0
    OBVIOUS
  <2>1. afterHdr > rdp /\ rdp # 0
    BY DEF is_wrap
  <2>2. space = ring_size - afterHdr
    BY <2>1, <1>4, <1>6 DEF get_continuous_space
  <2>3. space \in Nat /\ afterHdr + space = ring_size
    BY <2>2, <1>4, <1>6
  <2> QED
    BY <2>3, <1>6, MovePtrValue
<1>8. skip => afterHdr > rdp /\ rdp # 0
  BY DEF is_wrap
<1>9. ~skip => data = afterHdr
  OBVIOUS
<1>10. data \in Nat /\ data < ring_size
  BY <1>4, <1>6, <1>7, <1>9
<1>11. next = IF data + n = ring_size THEN 0 ELSE data + n
  BY <1>1, <1>2, <1>10, MovePtrValue
<1> HIDE DEF afterHdr, space, skip, data, next, A
<1>12. Fits(rdp, wrp, wrp, data, next, n)
  <2>1. CASE wrp < rdp
    BY <2>1, <1>1, <1>2, <1>4, <1>5, <1>6, <1>7, <1>8, <1>9, <1>10, <1>11
       DEF Fits, get_continuous_space, A
  <2>2. CASE rdp <= wrp /\ wrp + A = ring_size
    BY <2>2, <1>1, <1>2, <1>4, <1>5, <1>6, <1>7, <1>8, <1>9, <1>10, <1>11
       DEF Fits, get_continuous_space, A
  <2>3. CASE rdp <= wrp /\ wrp + A # ring_size
    BY <2>3, <1>1, <1>2, <1>4, <1>5, <1>6, <1>7, <1>8, <1>9, <1>10, <1>11
       DEF Fits, get_continuous_space, A
  <2> QED
    BY <2>1, <2>2, <2>3, <1>4
<1> QED
  BY <1>2, <1>3, <1>12 DEF n, next

\* A place that fits lies in the ring, in two pieces that do not overlap.
LEMMA FitsInRing ==
    ASSUME NEW rdp \in Addr, NEW wrp \in Addr, NEW data \in Addr,
           NEW next \in Addr, NEW n \in Nat, NEW hdr \in Addr,
           Fits(rdp, wrp, hdr, data, next, n)
    PROVE  /\ hdr + TRACE_ALIGNMENT <= ring_size
           /\ data + n <= ring_size
           /\ Disjoint(hdr, TRACE_ALIGNMENT, data, n)
           /\ next # wrp
           /\ InArc(wrp, next, hdr, TRACE_ALIGNMENT)
           /\ InArc(wrp, next, data, n)
BY RingConstants DEF Fits, Disjoint, InArc

\* A place still fits when rd_ptr has moved forward, at most to wr_ptr.
LEMMA FitsMonotone ==
    ASSUME NEW rdp \in Addr, NEW wrp \in Addr, NEW data \in Addr,
           NEW next \in Addr, NEW n \in Nat, NEW hdr \in Addr,
           NEW rdp2 \in Addr, InArc(rdp, wrp, rdp2, 0),
           Fits(rdp, wrp, hdr, data, next, n)
    PROVE  Fits(rdp2, wrp, hdr, data, next, n)
BY RingConstants DEF Fits, InArc

\* A place that fits touches nothing on the arc in use ...
LEMMA FitsApart ==
    ASSUME NEW rdp \in Addr, NEW wrp \in Addr, NEW data \in Addr,
           NEW next \in Addr, NEW n \in Nat, NEW hdr \in Addr,
           Fits(rdp, wrp, hdr, data, next, n), rdp # wrp,
           NEW x \in Addr, NEW len \in Nat, InArc(rdp, wrp, x, len)
    PROVE  /\ Disjoint(x, len, hdr, TRACE_ALIGNMENT)
           /\ Disjoint(x, len, data, n)
BY RingConstants DEF Fits, InArc, Disjoint

\* ... and extends the arc, seen from any header on it ...
LEMMA FitsExtends ==
    ASSUME NEW rdp \in Addr, NEW wrp \in Addr, NEW data \in Addr,
           NEW next \in Addr, NEW n \in Nat, NEW hdr \in Addr,
           Fits(rdp, wrp, hdr, data, next, n), rdp # wrp,
           NEW h \in Addr, h # wrp, InArc(rdp, wrp, h, TRACE_ALIGNMENT)
    PROVE  /\ h # next
           /\ InArc(h, next, hdr, TRACE_ALIGNMENT)
           /\ InArc(h, next, data, n)
BY RingConstants DEF Fits, InArc

\* ... with everything that was on it.
LEMMA ArcExtends ==
    ASSUME NEW h \in Addr, NEW wrp \in Addr, NEW next \in Addr,
           InArc(h, next, wrp, TRACE_ALIGNMENT),
           NEW x \in Addr, NEW len \in Nat, InArc(h, wrp, x, len)
    PROVE  InArc(h, next, x, len)
BY RingConstants DEF InArc

-----------------------------------------------------------------------------
(* The inductive invariant.                                                *)

\* Calls are made on open handles of a valid ring.
HandlesOpen ==
    /\ \A p \in Producers : ~ProducerIdle(p) => prodOpen
    /\ \A c \in Consumers : ~ConsumerIdle(c) => consOpen
    /\ prodOpen \/ consOpen \/ closed => magic

\* The sizes _allocate_event will see.
SizesKnown == \A p \in Producers : pc[p] \in {"lock", "alloc"} =>
                  push[p].size \in Sizes

Chained ==
    /\ IF live = <<>>
       THEN rd_ptr = wr_ptr
       ELSE live[1].hdr = rd_ptr /\ live[Len(live)].next = wr_ptr
    /\ \A i \in 1..(Len(live) - 1) : live[i].next = live[i + 1].hdr
    /\ \A i \in 1..Len(live) :
         move_ptr(live[i].data, TRACE_ALIGN(live[i].size)) = live[i].next

\* Seen from the header of any event, that event and all later ones lie
\* before wr_ptr.
Ordered ==
    \A i, j \in 1..Len(live) : i <= j =>
        /\ live[i].hdr # wr_ptr
        /\ InArc(live[i].hdr, wr_ptr, live[j].hdr, TRACE_ALIGNMENT)
        /\ InArc(live[i].hdr, wr_ptr, live[j].data,
                 TRACE_ALIGN(live[j].size))

Placed ==
    /\ \A i \in 1..Len(live) : InRing(live[i])
    /\ \A i, j \in 1..Len(live) : i # j => Separate(live[i], live[j])

\* A place that was chosen with an older rd_ptr is still free.
PendingFits ==
    \A p \in Producers : pc[p] \in {"prepare", "publish"} =>
        /\ Fits(rd_ptr, wr_ptr, push[p].slot.hdr, push[p].slot.data,
                push[p].slot.next, TRACE_ALIGN(push[p].size))
        /\ InRing(Event(p))
        /\ move_ptr(push[p].slot.data, TRACE_ALIGN(push[p].size))
             = push[p].slot.next

\* About a memory m: what a header says, and that data is in place.
HeaderIn(m, hdr, data, size) ==
    m[hdr].data_ptr = data /\ m[hdr].data_size = size

FilledIn(m, data, size, v) ==
    \A a \in data..(data + size - 1) : m[a].byte = v

HeadersWritten ==
    /\ \A i \in 1..Len(live) :
         HeaderIn(mem, live[i].hdr, live[i].data, live[i].size)
    /\ \A p \in Producers : pc[p] = "publish" =>
         /\ HeaderIn(mem, push[p].slot.hdr, push[p].slot.data, push[p].size)
         /\ ~mem[push[p].slot.hdr].ready

ReadyFilled ==
    \A i \in 1..Len(live) : mem[live[i].hdr].ready =>
        FilledIn(mem, live[i].data, live[i].size, live[i].payload)

\* A producer between the publication and the commit of its event.
Owning(p) == pc[p] \in {"unlock", "copy", "commit"}

Owners ==
    /\ \A p \in Producers : Owning(p) =>
         \E i \in 1..Len(live) :
             live[i] = Event(p) /\ ~mem[live[i].hdr].ready
    /\ \A i \in 1..Len(live) : ~mem[live[i].hdr].ready =>
         Owning(live[i].by) /\ push[live[i].by].slot.hdr = live[i].hdr
    /\ \A p \in Producers : pc[p] = "commit" =>
         FilledIn(mem, push[p].slot.data, push[p].size, push[p].payload)

\* A consumer that has found the oldest event keeps it where it is.
Readers ==
    \A c \in Consumers :
        /\ pc[c] \in {"take", "hold", "move"} =>
             live # <<>> /\ mem[rd_ptr].ready
        /\ pc[c] \in {"hold", "move"} => pop[c].out = Content(live[1])

IInv ==
    /\ TypeOK /\ HandlesOpen /\ SizesKnown /\ LocksExact
    /\ Chained /\ Ordered /\ Placed /\ PendingFits
    /\ HeadersWritten /\ ReadyFilled /\ Owners /\ Readers

-----------------------------------------------------------------------------
(* Steps that leave the events and the memory alone.                       *)

\* What TypeOK says of the places of events and threads.
LEMMA PlaceTypes ==
    ASSUME TypeOK
    PROVE  /\ \A i \in 1..Len(live) :
                /\ live[i] \in EventRecord
                /\ live[i].hdr \in Addr /\ live[i].data \in Addr
                /\ live[i].next \in Addr /\ live[i].size \in Nat
                /\ live[i].by \in Producers
                /\ TRACE_ALIGN(live[i].size) \in Nat
           /\ \A p \in Producers :
                /\ push[p].slot.hdr \in Addr /\ push[p].slot.data \in Addr
                /\ push[p].slot.next \in Addr /\ push[p].size \in Nat
                /\ TRACE_ALIGN(push[p].size) \in Nat
           /\ Len(live) \in Nat
           /\ live # <<>> <=> 1 \in 1..Len(live)
<1>1. live \in Seq(EventRecord) /\ push \in [Producers -> PushRecord]
  BY DEF TypeOK
<1>2. \A i \in 1..Len(live) : live[i] \in EventRecord
  BY <1>1
<1>3. \A p \in Producers : push[p] \in PushRecord
  BY <1>1
<1>4. Len(live) \in Nat /\ (live # <<>> <=> 1 \in 1..Len(live))
  BY <1>1
<1> QED
  BY <1>2, <1>3, <1>4, AlignType DEF EventRecord, PushRecord, Handles

\* A step of a producer thread, before it has chosen a place or after it has
\* published it.
LEMMA ProducerMoves ==
    ASSUME IInv, TypeOK', NEW p \in Producers, NEW l \in ProducerLabels,
           Goto(p, l), prodOpen,
           \A q \in Producers \ {p} : push'[q] = push[q],
           UNCHANGED <<magic, closed, wr_ptr, rd_ptr, rd_lock, mem, prodOpen,
                       consOpen, pop, live>>,
           l \in {"lock", "alloc"} => push'[p].size \in Sizes,
           \/ wr_lock' = wr_lock /\ (HoldsWr(p)' <=> HoldsWr(p))
           \/ ~wr_lock /\ wr_lock' /\ HoldsWr(p)'
           \/ HoldsWr(p) /\ ~wr_lock' /\ ~HoldsWr(p)',
           l \notin {"publish", "commit"},
           l = "prepare" =>
             /\ Fits(rd_ptr, wr_ptr, push'[p].slot.hdr, push'[p].slot.data,
                     push'[p].slot.next, TRACE_ALIGN(push'[p].size))
             /\ InRing(Event(p))'
             /\ move_ptr(push'[p].slot.data, TRACE_ALIGN(push'[p].size))
                  = push'[p].slot.next,
           Owning(p)' <=> Owning(p),
           Owning(p) => Event(p)' = Event(p)
    PROVE  IInv'
<1>a. /\ pc'[p] = l
      /\ \A q \in Producers \ {p} : pc'[q] = pc[q]
      /\ \A c \in Consumers : pc'[c] = pc[c]
  BY ThreadsAssumption DEF Goto, IInv, TypeOK, PcType
<1>1. HandlesOpen'
  BY <1>a DEF IInv, HandlesOpen, ProducerIdle, ConsumerIdle
<1>2. SizesKnown'
  BY <1>a DEF IInv, SizesKnown
<1>3. LocksExact'
  <2>1. \A q \in Producers \ {p} : HoldsWr(q)' <=> HoldsWr(q)
    BY <1>a DEF HoldsWr
  <2>2. \A c \in Consumers : HoldsRd(c)' <=> HoldsRd(c)
    BY <1>a DEF HoldsRd
  <2> QED
    BY <2>1, <2>2 DEF IInv, LocksExact
<1>4. Chained' /\ Ordered' /\ Placed' /\ ReadyFilled'
  BY DEF IInv, Chained, Ordered, Placed, ReadyFilled, InArc, InRing,
         Separate, FilledIn
<1>5. PendingFits'
  <2> SUFFICES ASSUME NEW q \in Producers, pc'[q] \in {"prepare", "publish"}
               PROVE
        /\ Fits(rd_ptr, wr_ptr, push'[q].slot.hdr, push'[q].slot.data,
                push'[q].slot.next, TRACE_ALIGN(push'[q].size))
        /\ InRing(Event(q))'
        /\ move_ptr(push'[q].slot.data, TRACE_ALIGN(push'[q].size))
             = push'[q].slot.next
    BY DEF PendingFits, Fits
  <2>1. CASE q = p
    BY <2>1, <1>a
  <2>2. CASE q # p
    BY <2>2, <1>a DEF IInv, PendingFits, InRing, Event
  <2> QED
    BY <2>1, <2>2
<1>6. HeadersWritten'
  BY <1>a DEF IInv, HeadersWritten, HeaderIn
<1>7. Owners'
  <2>1. \A q \in Producers : Owning(q)' <=> Owning(q)
    BY <1>a DEF Owning
  <2>2. \A q \in Producers : Owning(q) => Event(q)' = Event(q)
    BY DEF Event
  <2>3. \A q \in Producers : Owning(q) =>
          push'[q].slot.hdr = push[q].slot.hdr
    BY <2>2 DEF Event
  <2>4. ASSUME NEW q \in Producers, Owning(q)'
        PROVE  \E i \in 1..Len(live) :
                 live[i] = Event(q)' /\ ~mem[live[i].hdr].ready
    BY <2>1, <2>2, <2>4 DEF IInv, Owners
  <2>5. ASSUME NEW i \in 1..Len(live), ~mem[live[i].hdr].ready
        PROVE  Owning(live[i].by)' /\ push'[live[i].by].slot.hdr = live[i].hdr
    BY <2>1, <2>3, <2>5, PlaceTypes DEF IInv, Owners
  <2>6. ASSUME NEW q \in Producers, pc'[q] = "commit"
        PROVE  FilledIn(mem, push'[q].slot.data, push'[q].size,
                        push'[q].payload)
    BY <1>a, <2>6 DEF IInv, Owners
  <2> QED
    BY <2>4, <2>5, <2>6 DEF Owners, FilledIn
<1>8. Readers'
  BY <1>a DEF IInv, Readers, Content
<1> QED
  BY <1>1, <1>2, <1>3, <1>4, <1>5, <1>6, <1>7, <1>8 DEF IInv

\* A step of a consumer thread that does not move rd_ptr.
LEMMA ConsumerMoves ==
    ASSUME IInv, TypeOK', NEW c \in Consumers, NEW l \in ConsumerLabels,
           Goto(c, l), consOpen,
           \A d \in Consumers \ {c} : pop'[d] = pop[d],
           UNCHANGED <<magic, closed, wr_ptr, wr_lock, rd_ptr, mem, prodOpen,
                       consOpen, push, live>>,
           \/ rd_lock' = rd_lock /\ (HoldsRd(c)' <=> HoldsRd(c))
           \/ ~rd_lock /\ rd_lock' /\ HoldsRd(c)'
           \/ HoldsRd(c) /\ ~rd_lock' /\ ~HoldsRd(c)',
           l \in {"take", "hold", "move"} => live # <<>> /\ mem[rd_ptr].ready,
           l \in {"hold", "move"} => pop'[c].out = Content(live[1])
    PROVE  IInv'
<1>a. /\ pc'[c] = l
      /\ \A d \in Consumers \ {c} : pc'[d] = pc[d]
      /\ \A p \in Producers : pc'[p] = pc[p]
  BY ThreadsAssumption DEF Goto, IInv, TypeOK, PcType
<1>1. HandlesOpen'
  BY <1>a DEF IInv, HandlesOpen, ProducerIdle, ConsumerIdle
<1>2. SizesKnown'
  BY <1>a DEF IInv, SizesKnown
<1>3. LocksExact'
  <2>1. \A d \in Consumers \ {c} : HoldsRd(d)' <=> HoldsRd(d)
    BY <1>a DEF HoldsRd
  <2>2. \A p \in Producers : HoldsWr(p)' <=> HoldsWr(p)
    BY <1>a DEF HoldsWr
  <2> QED
    BY <2>1, <2>2 DEF IInv, LocksExact
<1>4. Chained' /\ Ordered' /\ Placed' /\ ReadyFilled'
  BY DEF IInv, Chained, Ordered, Placed, ReadyFilled, InArc, InRing,
         Separate, FilledIn
<1>5. PendingFits' /\ HeadersWritten'
  BY <1>a DEF IInv, PendingFits, HeadersWritten, HeaderIn, Fits, InRing, Event
<1>6. Owners'
  BY <1>a, PlaceTypes DEF IInv, Owners, Owning, Event, FilledIn
<1>7. Readers'
  BY <1>a DEF IInv, Readers, Content
<1> QED
  BY <1>1, <1>2, <1>3, <1>4, <1>5, <1>6, <1>7 DEF IInv

-----------------------------------------------------------------------------
(* The initial states, and the steps that leave the events alone.          *)

\* A pool no handle was opened on satisfies the invariant.
LEMMA InitSafe == Init => IInv
<1> SUFFICES ASSUME Init PROVE IInv
  OBVIOUS
<1>1. TypeOK
  BY InitType
<1>2. /\ \A p \in Producers : pc[p] = "idle"
      /\ \A c \in Consumers : pc[c] = "idle"
      /\ live = <<>> /\ Len(live) = 0
  BY DEF Init
<1>3. HandlesOpen /\ SizesKnown /\ LocksExact
  BY <1>2 DEF Init, HandlesOpen, SizesKnown, LocksExact, HoldsWr, HoldsRd,
         ProducerIdle, ConsumerIdle, ProducerResults, ConsumerResults
<1>4. Chained /\ Ordered /\ Placed
  BY <1>2 DEF Init, Chained, Ordered, Placed
<1>5. PendingFits /\ HeadersWritten /\ ReadyFilled /\ Owners /\ Readers
  BY <1>2 DEF PendingFits, HeadersWritten, ReadyFilled, Owners, Owning,
         Readers
<1> QED
  BY <1>1, <1>3, <1>4, <1>5 DEF IInv

\* An event _allocate_event finds room for fits where it puts it.
LEMMA AllocateSafe ==
    ASSUME NoSizeWrap, IInv, NEW p \in Producers, pc[p] = "alloc",
           AllocateEvent(p), pc'[p] = "prepare", TypeOK'
    PROVE  /\ Fits(rd_ptr, wr_ptr, push'[p].slot.hdr, push'[p].slot.data,
                   push'[p].slot.next, TRACE_ALIGN(push'[p].size))
           /\ InRing(Event(p))'
           /\ move_ptr(push'[p].slot.data, TRACE_ALIGN(push'[p].size))
                = push'[p].slot.next
<1> DEFINE e == allocate_event(rd_ptr, wr_ptr, push[p].size)
<1>1. push[p].size \in Nat /\ TRACE_ALIGN(push[p].size) < SIZE_MOD
  BY PlaceTypes DEF NoSizeWrap, IInv, SizesKnown
<1>2. rd_ptr \in Addr /\ wr_ptr \in Addr /\ p \in DOMAIN pc
  BY DEF IInv, TypeOK, PcType
<1>3. e.fits /\ push' = [push EXCEPT ![p].slot = [hdr |-> e.hdr,
                                                data |-> e.data,
                                                next |-> e.next]]
  <2> HIDE DEF e
  <2>1. ~e.fits => pc'[p] = "fail"
    BY <1>2 DEF AllocateEvent, Goto, e
  <2> QED
    BY <2>1 DEF AllocateEvent, e
<1>4. /\ Fits(rd_ptr, wr_ptr, e.hdr, e.data, e.next,
              TRACE_ALIGN(push[p].size))
      /\ move_ptr(e.data, TRACE_ALIGN(push[p].size)) = e.next
  BY <1>1, <1>2, <1>3, AllocateFits
<1> HIDE DEF e
<1>5. /\ push'[p].slot = [hdr |-> e.hdr, data |-> e.data, next |-> e.next]
      /\ push'[p].size = push[p].size
  <2>1. push \in [Producers -> PushRecord] /\ push[p] \in PushRecord
    BY DEF IInv, TypeOK
  <2> QED
    BY <1>3, <2>1 DEF PushRecord
<1>6. e.hdr \in Addr /\ e.data \in Addr /\ e.next \in Addr
  <2>1. push'[p] \in PushRecord
    BY DEF TypeOK
  <2>2. push'[p].slot \in Handles
    BY <2>1 DEF PushRecord
  <2> QED
    BY <1>5, <2>2 DEF Handles
<1>7. TRACE_ALIGN(push[p].size) \in Nat
  BY <1>1, AlignType
<1>8. /\ e.hdr + TRACE_ALIGNMENT <= ring_size
      /\ e.data + TRACE_ALIGN(push[p].size) <= ring_size
      /\ Disjoint(e.hdr, TRACE_ALIGNMENT, e.data, TRACE_ALIGN(push[p].size))
  BY <1>2, <1>4, <1>6, <1>7, FitsInRing
<1>9. InRing(Event(p))'
  BY <1>5, <1>8 DEF InRing, Event
<1> QED
  BY <1>4, <1>5, <1>9

\* The steps of a producer thread that touch neither the events nor the
\* memory.
LEMMA QuietProducerSafe ==
    ASSUME NoSizeWrap, IInv, TypeOK', NEW p \in Producers
    PROVE  /\ \A api \in ProducerApis, s \in Sizes, v \in Payloads :
                PushCall(p, api, s, v) => IInv'
           /\ \A n \in 1..MaxLost : AddLost(p, n) => IInv'
           /\ FreeSpaceReadWr(p) => IInv'
           /\ TryLockWr(p) => IInv'
           /\ TryLockWrGiveUp(p) => IInv'
           /\ AllocateEvent(p) => IInv'
           /\ UnlockWr(p) => IInv'
           /\ CountLost(p) => IInv'
           /\ FreeSpaceReadRd(p) => IInv'
<1> USE DEF ProducerLabels, ProducerResults, ProducerSteps
<1>a. /\ push \in [Producers -> PushRecord] /\ push[p] \in PushRecord
      /\ pc \in [Producers \cup Consumers ->
                   ProducerLabels \cup ConsumerLabels]
      /\ wr_lock \in BOOLEAN /\ wr_ptr \in Addr /\ rd_ptr \in Addr
  BY DEF IInv, TypeOK, PcType
<1>b. ~ProducerIdle(p) => prodOpen
  BY DEF IInv, HandlesOpen
<1>c. prodOpen => magic
  BY DEF IInv, HandlesOpen
<1>d. HoldsWr(p) => wr_lock
  BY DEF IInv, LocksExact
<1>1. ASSUME NEW api \in ProducerApis, NEW s \in Sizes, NEW v \in Payloads,
             PushCall(p, api, s, v)
      PROVE  IInv'
  <2>1. Goto(p, "lock") /\ prodOpen /\ pc'[p] = "lock"
    BY <1>1, <1>a, <1>c DEF PushCall, Goto
  <2>2. push'[p].size = s /\ \A q \in Producers \ {p} : push'[q] = push[q]
    BY <1>1, <1>a, <1>c DEF PushCall, NoPush
  <2>3. ~HoldsWr(p) /\ ~HoldsWr(p)' /\ ~Owning(p) /\ ~Owning(p)'
    BY <1>1, <2>1 DEF PushCall, HoldsWr, Owning, ProducerIdle
  <2> QED
    BY <1>1, <2>1, <2>2, <2>3, ProducerMoves DEF PushCall, hdrVars
<1>2. ASSUME NEW n \in 1..MaxLost, AddLost(p, n)
      PROVE  IInv'
  BY <1>2 DEF AddLost, IInv, HandlesOpen, SizesKnown, LocksExact, Chained,
         Ordered, Placed, PendingFits, HeadersWritten, ReadyFilled, Owners,
         Readers, ProducerIdle, ConsumerIdle, HoldsWr, HoldsRd, InArc, InRing,
         Separate, Fits, Event, HeaderIn, FilledIn, Owning, Content
<1>3. ASSUME FreeSpaceReadWr(p) PROVE IInv'
  <2>1. Goto(p, "free_rd") /\ prodOpen /\ pc'[p] = "free_rd"
    BY <1>3, <1>a, <1>c DEF FreeSpaceReadWr, Goto
  <2>2. \A q \in Producers \ {p} : push'[q] = push[q]
    BY <1>3, <1>a DEF FreeSpaceReadWr
  <2>3. ~HoldsWr(p) /\ ~HoldsWr(p)' /\ ~Owning(p) /\ ~Owning(p)'
    BY <1>3, <2>1 DEF FreeSpaceReadWr, HoldsWr, Owning, ProducerIdle
  <2> QED
    BY <1>3, <2>1, <2>2, <2>3, ProducerMoves DEF FreeSpaceReadWr, hdrVars
<1>4. ASSUME TryLockWr(p) PROVE IInv'
  <2>1. prodOpen /\ pc[p] = "lock"
    BY <1>4, <1>b DEF TryLockWr, ProducerIdle
  <2>2. \A q \in Producers \ {p} : push'[q] = push[q]
    BY <1>4, <1>a DEF TryLockWr
  <2>3. push'[p].size \in Sizes
    <3>1. push[p].size \in Sizes
      BY <2>1 DEF IInv, SizesKnown
    <3> QED
      BY <1>4, <3>1, <1>a DEF TryLockWr, PushRecord
  <2>4. ~HoldsWr(p) /\ ~Owning(p)
    BY <2>1 DEF HoldsWr, Owning
  <2>5. CASE wr_lock
    <3>1. Goto(p, "lock") /\ wr_lock' = wr_lock /\ pc'[p] = "lock"
      BY <1>4, <1>a, <2>1, <2>5 DEF TryLockWr, Goto
    <3>2. ~HoldsWr(p)' /\ ~Owning(p)'
      BY <3>1 DEF HoldsWr, Owning
    <3> QED
      BY <1>4, <2>1, <2>2, <2>3, <2>4, <3>1, <3>2, ProducerMoves
         DEF TryLockWr
  <2>6. CASE ~wr_lock
    <3>1. Goto(p, "alloc") /\ wr_lock' /\ pc'[p] = "alloc"
      BY <1>4, <1>a, <2>6 DEF TryLockWr, Goto
    <3>2. HoldsWr(p)' /\ ~Owning(p)'
      BY <3>1 DEF HoldsWr, Owning
    <3> QED
      BY <1>4, <2>1, <2>2, <2>3, <2>4, <2>6, <3>1, <3>2, ProducerMoves
         DEF TryLockWr
  <2> QED
    BY <2>5, <2>6
<1>5. ASSUME TryLockWrGiveUp(p) PROVE IInv'
  <2>1. Goto(p, "lost") /\ prodOpen /\ pc[p] = "lock" /\ pc'[p] = "lost"
    BY <1>5, <1>a, <1>b DEF TryLockWrGiveUp, ProducerIdle, Goto
  <2>2. \A q \in Producers \ {p} : push'[q] = push[q]
    BY <1>5, <1>a DEF TryLockWrGiveUp
  <2>3. ~HoldsWr(p) /\ ~Owning(p) /\ ~HoldsWr(p)' /\ ~Owning(p)'
    BY <2>1 DEF HoldsWr, Owning
  <2> QED
    BY <1>5, <2>1, <2>2, <2>3, ProducerMoves DEF TryLockWrGiveUp, hdrVars
<1>6. ASSUME AllocateEvent(p) PROVE IInv'
  <2>1. prodOpen /\ magic /\ pc[p] = "alloc"
    BY <1>6, <1>b, <1>c DEF AllocateEvent, ProducerIdle
  <2>2. PICK l \in {"prepare", "fail"} : Goto(p, l)
    BY <1>6 DEF AllocateEvent
  <2>3. pc'[p] = l
    BY <2>2, <1>a DEF Goto
  <2>4. magic' = magic
    BY <1>6, <1>a, <2>1, RingConstants DEF AllocateEvent
  <2>5. \A q \in Producers \ {p} : push'[q] = push[q]
    BY <1>6, <1>a DEF AllocateEvent
  <2>6. HoldsWr(p) /\ ~Owning(p) /\ HoldsWr(p)' /\ ~Owning(p)'
    BY <2>1, <2>2, <2>3 DEF HoldsWr, Owning
  <2>7. l = "prepare" =>
          /\ Fits(rd_ptr, wr_ptr, push'[p].slot.hdr, push'[p].slot.data,
                  push'[p].slot.next, TRACE_ALIGN(push'[p].size))
          /\ InRing(Event(p))'
          /\ move_ptr(push'[p].slot.data, TRACE_ALIGN(push'[p].size))
               = push'[p].slot.next
    BY <1>6, <2>1, <2>3, AllocateSafe
  <2>8. UNCHANGED <<closed, wr_ptr, wr_lock, rd_ptr, rd_lock, mem, prodOpen,
                    consOpen, pop, live>>
    BY <1>6 DEF AllocateEvent
  <2>9. l \in ProducerLabels /\ l \notin {"lock", "alloc", "publish", "commit"}
    BY <2>2
  <2> QED
    BY <2>1, <2>2, <2>4, <2>5, <2>6, <2>7, <2>8, <2>9, ProducerMoves
<1>7. ASSUME UnlockWr(p) PROVE IInv'
  <2>1. prodOpen
    BY <1>7, <1>b DEF UnlockWr, ProducerIdle
  <2>2. HoldsWr(p)
    BY <1>7 DEF UnlockWr, HoldsWr
  <2>3. PICK l \in {"copy", "lost"} :
          Goto(p, l) /\ (l = "copy" <=> pc[p] = "unlock")
    BY <1>7 DEF UnlockWr
  <2>4. pc'[p] = l
    BY <2>3, <1>a DEF Goto
  <2>5. ~HoldsWr(p)' /\ (Owning(p)' <=> Owning(p))
    BY <1>7, <2>3, <2>4 DEF UnlockWr, HoldsWr, Owning
  <2>6. Event(p)' = Event(p)
    BY <1>7 DEF UnlockWr, Event
  <2> QED
    BY <1>7, <2>1, <2>2, <2>3, <2>5, <2>6, ProducerMoves DEF UnlockWr
<1>8. ASSUME CountLost(p) PROVE IInv'
  <2>1. Goto(p, "ENOSPC") /\ prodOpen /\ pc[p] = "lost" /\ pc'[p] = "ENOSPC"
    BY <1>8, <1>a, <1>b DEF CountLost, ProducerIdle, Goto
  <2>2. \A q \in Producers \ {p} : push'[q] = push[q]
    BY <1>8, <1>a DEF CountLost
  <2>3. ~HoldsWr(p) /\ ~Owning(p) /\ ~HoldsWr(p)' /\ ~Owning(p)'
    BY <2>1 DEF HoldsWr, Owning
  <2> QED
    BY <1>8, <2>1, <2>2, <2>3, ProducerMoves DEF CountLost
<1>9. ASSUME FreeSpaceReadRd(p) PROVE IInv'
  <2>1. Goto(p, "free") /\ prodOpen /\ pc[p] = "free_rd" /\ pc'[p] = "free"
    BY <1>9, <1>a, <1>b DEF FreeSpaceReadRd, ProducerIdle, Goto
  <2>2. \A q \in Producers \ {p} : push'[q] = push[q]
    BY <1>9, <1>a DEF FreeSpaceReadRd
  <2>3. ~HoldsWr(p) /\ ~Owning(p) /\ ~HoldsWr(p)' /\ ~Owning(p)'
    BY <2>1 DEF HoldsWr, Owning
  <2> QED
    BY <1>9, <2>1, <2>2, <2>3, ProducerMoves DEF FreeSpaceReadRd, hdrVars
<1> QED
  BY <1>1, <1>2, <1>3, <1>4, <1>5, <1>6, <1>7, <1>8, <1>9

\* What is read of an event whose bytes are all in place.
LEMMA FilledBytes ==
    ASSUME NEW e \in EventRecord, FilledIn(mem, e.data, e.size, e.payload)
    PROVE  Bytes(e.data, e.size) = Content(e)
<1>1. e.data \in Nat /\ e.size \in Nat
  BY RingConstants DEF EventRecord
<1>2. CASE e.size = 0
  BY <1>1, <1>2 DEF Bytes, Content
<1>3. CASE e.size # 0
  <2>1. e.data \in e.data..(e.data + e.size - 1) /\ 1 \in 1..e.size
    BY <1>1, <1>3
  <2>2. Bytes(e.data, e.size) = {e.payload}
    BY <2>1 DEF Bytes, FilledIn
  <2>3. Content(e) = {e.payload}
    BY <2>1 DEF Content
  <2> QED
    BY <2>2, <2>3
<1> QED
  BY <1>2, <1>3

\* Where the oldest event is, and what the consumer finds there.
LEMMA HeadEvent ==
    ASSUME IInv, live # <<>>
    PROVE  /\ 1 \in 1..Len(live) /\ live[1].hdr = rd_ptr /\ rd_ptr # wr_ptr
           /\ HeaderIn(mem, rd_ptr, live[1].data, live[1].size)
           /\ integrity_check(live[1].data, live[1].size)
           /\ mem[rd_ptr].ready =>
                Bytes(live[1].data, live[1].size) = Content(live[1])
<1>1. 1 \in 1..Len(live) /\ live[1].hdr = rd_ptr
  BY PlaceTypes DEF IInv, Chained
<1>2. rd_ptr # wr_ptr
  BY <1>1 DEF IInv, Ordered
<1>3. HeaderIn(mem, rd_ptr, live[1].data, live[1].size)
  BY <1>1 DEF IInv, HeadersWritten
<1>4. /\ live[1].data \in Addr /\ live[1].size \in Nat
      /\ live[1].data \in Nat /\ live[1].data < ring_size
  BY <1>1, PlaceTypes, RingConstants DEF IInv
<1>5. integrity_check(live[1].data, live[1].size)
  <2>1. live[1].data + TRACE_ALIGN(live[1].size) <= ring_size
    BY <1>1 DEF IInv, Placed, InRing
  <2>2. /\ TRACE_ALIGN(live[1].size) \in Nat
        /\ TRACE_ALIGN(live[1].size) >= live[1].size
    BY <1>4, AlignType
  <2> QED
    BY <1>4, <2>1, <2>2, RingConstants DEF integrity_check
<1>6. mem[rd_ptr].ready =>
        Bytes(live[1].data, live[1].size) = Content(live[1])
  <2> SUFFICES ASSUME mem[rd_ptr].ready
               PROVE  Bytes(live[1].data, live[1].size) = Content(live[1])
    OBVIOUS
  <2>1. FilledIn(mem, live[1].data, live[1].size, live[1].payload)
    <3>1. mem[live[1].hdr].ready
      BY <1>1
    <3>2. \A i \in 1..Len(live) : mem[live[i].hdr].ready =>
            FilledIn(mem, live[i].data, live[i].size, live[i].payload)
      BY DEF IInv, ReadyFilled
    <3> QED
      BY <1>1, <3>1, <3>2, Zenon
  <2>2. live[1] \in EventRecord
    BY <1>1, PlaceTypes DEF IInv
  <2> QED
    BY <2>1, <2>2, FilledBytes
<1> QED
  BY <1>1, <1>2, <1>3, <1>5, <1>6

\* The steps of a consumer thread that do not move rd_ptr.
LEMMA QuietConsumerSafe ==
    ASSUME IInv, TypeOK', NEW c \in Consumers
    PROVE  /\ \A api \in ConsumerApis, cap \in BufSizes :
                PopCall(c, api, cap) => IInv'
           /\ IsEmptyReadRd(c) => IInv'
           /\ TryLockRd(c) => IInv'
           /\ GetRdHdr(c) => IInv'
           /\ NoEvent(c) => IInv'
           /\ TakeEvent(c) => IInv'
           /\ ReleaseCall(c) => IInv'
           /\ UnlockRd(c) => IInv'
           /\ IsEmptyReadWr(c) => IInv'
<1> USE DEF ConsumerLabels, ConsumerResults, ConsumerSteps
<1>a. /\ pop \in [Consumers -> PopRecord] /\ pop[c] \in PopRecord
      /\ pc \in [Producers \cup Consumers ->
                   ProducerLabels \cup ConsumerLabels]
      /\ rd_lock \in BOOLEAN /\ rd_ptr \in Addr
  BY DEF IInv, TypeOK, PcType
<1>b. ~ConsumerIdle(c) => consOpen
  BY DEF IInv, HandlesOpen
<1>c. consOpen => magic
  BY DEF IInv, HandlesOpen
<1>d. HoldsRd(c) => rd_lock
  BY DEF IInv, LocksExact
<1>1. ASSUME NEW api \in ConsumerApis, NEW cap \in BufSizes,
             PopCall(c, api, cap)
      PROVE  IInv'
  <2>1. Goto(c, "lock") /\ consOpen /\ pc'[c] = "lock"
    BY <1>1, <1>a, <1>c DEF PopCall, Goto
  <2>2. \A d \in Consumers \ {c} : pop'[d] = pop[d]
    BY <1>1, <1>a DEF PopCall
  <2>3. ~HoldsRd(c) /\ ~HoldsRd(c)'
    BY <1>1, <2>1 DEF PopCall, HoldsRd, ConsumerIdle
  <2> QED
    BY <1>1, <2>1, <2>2, <2>3, ConsumerMoves DEF PopCall, hdrVars
<1>2. ASSUME IsEmptyReadRd(c) PROVE IInv'
  <2>1. Goto(c, "empty_wr") /\ consOpen /\ pc'[c] = "empty_wr"
    BY <1>2, <1>a, <1>c DEF IsEmptyReadRd, Goto
  <2>2. \A d \in Consumers \ {c} : pop'[d] = pop[d]
    BY <1>2, <1>a DEF IsEmptyReadRd
  <2>3. ~HoldsRd(c) /\ ~HoldsRd(c)'
    BY <1>2, <2>1 DEF IsEmptyReadRd, HoldsRd, ConsumerIdle
  <2> QED
    BY <1>2, <2>1, <2>2, <2>3, ConsumerMoves DEF IsEmptyReadRd, hdrVars
<1>3. ASSUME TryLockRd(c) PROVE IInv'
  <2>1. consOpen /\ pc[c] = "lock" /\ ~HoldsRd(c) /\ rd_lock'
    BY <1>3, <1>b DEF TryLockRd, ConsumerIdle, HoldsRd
  <2>2. \A d \in Consumers \ {c} : pop'[d] = pop[d]
    BY <1>3, <1>a DEF TryLockRd
  <2>3. CASE rd_lock
    <3>1. Goto(c, "EBUSY") /\ rd_lock' = rd_lock /\ pc'[c] = "EBUSY"
      BY <1>3, <1>a, <2>3 DEF TryLockRd, Goto
    <3>2. ~HoldsRd(c)'
      BY <3>1 DEF HoldsRd
    <3> QED
      BY <1>3, <2>1, <2>2, <3>1, <3>2, ConsumerMoves DEF TryLockRd
  <2>4. CASE ~rd_lock
    <3>1. Goto(c, "read") /\ pc'[c] = "read"
      BY <1>3, <1>a, <2>4 DEF TryLockRd, Goto
    <3>2. HoldsRd(c)'
      BY <3>1 DEF HoldsRd
    <3> QED
      BY <1>3, <2>1, <2>2, <2>4, <3>1, <3>2, ConsumerMoves DEF TryLockRd
  <2> QED
    BY <2>3, <2>4
<1>4. ASSUME GetRdHdr(c) PROVE IInv'
  <2>1. consOpen /\ HoldsRd(c)
    BY <1>4, <1>b DEF GetRdHdr, ConsumerIdle, HoldsRd
  <2>2. PICK l \in {"take", "none"} :
          /\ Goto(c, l)
          /\ l = "take" => rd_ptr # wr_ptr /\ mem[rd_ptr].ready
    BY <1>4 DEF GetRdHdr
  <2>3. pc'[c] = l
    BY <2>2, <1>a DEF Goto
  <2>4. HoldsRd(c)'
    BY <2>2, <2>3 DEF HoldsRd
  <2>5. l = "take" => live # <<>> /\ mem[rd_ptr].ready
    BY <2>2 DEF IInv, Chained
  <2> QED
    BY <1>4, <2>1, <2>2, <2>4, <2>5, ConsumerMoves DEF GetRdHdr, hdrVars
<1>5. ASSUME NoEvent(c) PROVE IInv'
  <2>1. Goto(c, "unlock") /\ consOpen /\ HoldsRd(c) /\ pc'[c] = "unlock"
    BY <1>5, <1>a, <1>b DEF NoEvent, ConsumerIdle, HoldsRd, Goto
  <2>2. \A d \in Consumers \ {c} : pop'[d] = pop[d]
    BY <1>5, <1>a DEF NoEvent
  <2>3. HoldsRd(c)'
    BY <2>1 DEF HoldsRd
  <2> QED
    BY <1>5, <2>1, <2>2, <2>3, ConsumerMoves DEF NoEvent, hdrVars
<1>6. ASSUME TakeEvent(c) PROVE IInv'
  <2> DEFINE h == mem[rd_ptr]
  <2>1. consOpen /\ HoldsRd(c) /\ live # <<>> /\ h.ready
    BY <1>6, <1>b DEF TakeEvent, ConsumerIdle, HoldsRd, IInv, Readers
  <2>2. Bytes(h.data_ptr, h.data_size) = Content(live[1])
    BY <2>1, HeadEvent DEF HeaderIn
  <2>3. \A d \in Consumers \ {c} : pop'[d] = pop[d]
    BY <1>6, <1>a DEF TakeEvent
  <2>4. PICK l \in {"move", "hold", "unlock"} :
          /\ Goto(c, l)
          /\ l \in {"move", "hold"} =>
               pop' = [pop EXCEPT ![c].out = Bytes(h.data_ptr, h.data_size)]
    <3> HIDE DEF h
    <3> QED
      BY <1>6 DEF TakeEvent, h
  <2>5. l \in {"move", "hold"} => pop'[c].out = Content(live[1])
    <3> HIDE DEF h
    <3> QED
      BY <2>2, <2>4, <1>a DEF PopRecord
  <2>6. pc'[c] = l /\ HoldsRd(c)'
    BY <2>4, <1>a DEF Goto, HoldsRd
  <2> QED
    BY <1>6, <2>1, <2>3, <2>4, <2>5, <2>6, ConsumerMoves
       DEF TakeEvent, hdrVars
<1>7. ASSUME ReleaseCall(c) PROVE IInv'
  <2> DEFINE h == mem[rd_ptr]
  <2>1. consOpen /\ magic /\ HoldsRd(c)
    BY <1>7, <1>b, <1>c DEF ReleaseCall, ConsumerIdle, HoldsRd
  <2>2. live # <<>> /\ h.ready /\ pop[c].out = Content(live[1])
    BY <1>7 DEF ReleaseCall, IInv, Readers
  <2>3. integrity_check(h.data_ptr, h.data_size)
    BY <2>2, HeadEvent DEF HeaderIn
  <2>4. Goto(c, "move") /\ magic' = magic /\ pop' = pop
    <3> HIDE DEF h
    <3> QED
      BY <1>7, <2>1, <2>3 DEF ReleaseCall, h
  <2>5. HoldsRd(c)'
    BY <2>4, <1>a DEF Goto, HoldsRd
  <2> QED
    BY <1>7, <2>1, <2>2, <2>4, <2>5, ConsumerMoves DEF ReleaseCall
<1>8. ASSUME UnlockRd(c) PROVE IInv'
  <2>1. consOpen /\ HoldsRd(c) /\ ~rd_lock'
    BY <1>8, <1>b DEF UnlockRd, ConsumerIdle, HoldsRd
  <2>2. PICK l \in ConsumerResults : Goto(c, l)
    BY <1>8, <1>a DEF UnlockRd, PopRecord
  <2>3. \A d \in Consumers \ {c} : pop'[d] = pop[d]
    BY <1>8, <1>a DEF UnlockRd
  <2>4. ~HoldsRd(c)'
    BY <2>2, <1>a DEF Goto, HoldsRd
  <2> QED
    BY <1>8, <2>1, <2>2, <2>3, <2>4, ConsumerMoves DEF UnlockRd
<1>9. ASSUME IsEmptyReadWr(c) PROVE IInv'
  <2>1. consOpen /\ ~HoldsRd(c)
    BY <1>9, <1>b DEF IsEmptyReadWr, ConsumerIdle, HoldsRd
  <2>2. PICK l \in {"empty", "nonempty"} : Goto(c, l)
    BY <1>9 DEF IsEmptyReadWr
  <2>3. \A d \in Consumers \ {c} : pop'[d] = pop[d]
    BY <1>9, <1>a DEF IsEmptyReadWr
  <2>4. ~HoldsRd(c)'
    BY <2>2, <1>a DEF Goto, HoldsRd
  <2> QED
    BY <1>9, <2>1, <2>2, <2>3, <2>4, ConsumerMoves DEF IsEmptyReadWr, hdrVars
<1> QED
  BY <1>1, <1>2, <1>3, <1>4, <1>5, <1>6, <1>7, <1>8, <1>9

-----------------------------------------------------------------------------
(* Opening and closing handles.                                            *)

\* octf_trace_open and octf_trace_close keep the invariant.
LEMMA HandlesSafe ==
    ASSUME IInv, TypeOK'
    PROVE  /\ OpenProducer => IInv'
           /\ \A ext \in BOOLEAN : OpenConsumer(ext) => IInv'
           /\ CloseProducer => IInv'
           /\ CloseConsumer => IInv'
<1>1. ASSUME OpenProducer PROVE IInv'
  <2>1. /\ \A p \in Producers : ProducerIdle(p)
        /\ \A c \in Consumers : ConsumerIdle(c)
    BY <1>1 DEF OpenProducer, IInv, HandlesOpen
  <2>2. /\ pc' = pc /\ live' = <<>> /\ Len(live') = 0 /\ magic'
        /\ rd_ptr' = 0 /\ wr_ptr' = 0 /\ ~wr_lock' /\ ~rd_lock'
    BY <1>1 DEF OpenProducer
  <2>3. /\ \A p \in Producers : ~HoldsWr(p)' /\ ~Owning(p)'
        /\ \A p \in Producers : pc'[p] \in ProducerResults
    BY <2>1, <2>2 DEF ProducerIdle, ProducerResults, HoldsWr, Owning
  <2>4. /\ \A c \in Consumers : ~HoldsRd(c)'
        /\ \A c \in Consumers : pc'[c] \in ConsumerResults
    BY <2>1, <2>2 DEF ConsumerIdle, ConsumerResults, HoldsRd
  <2>5. HandlesOpen' /\ SizesKnown' /\ LocksExact'
    BY <2>2, <2>3, <2>4 DEF HandlesOpen, SizesKnown, LocksExact, ProducerIdle,
       ConsumerIdle, ProducerResults
  <2>6. Chained' /\ Ordered' /\ Placed'
    BY <2>2 DEF Chained, Ordered, Placed
  <2>7. PendingFits' /\ HeadersWritten' /\ ReadyFilled' /\ Owners' /\ Readers'
    BY <2>2, <2>3, <2>4 DEF PendingFits, HeadersWritten, ReadyFilled, Owners,
       Readers, ProducerResults, ConsumerResults
  <2> QED
    BY <2>5, <2>6, <2>7 DEF IInv
<1>2. ASSUME UNCHANGED <<wr_ptr, wr_lock, rd_ptr, rd_lock, mem, pc, push, pop,
                         live>>,
             HandlesOpen'
      PROVE  IInv'
  BY <1>2 DEF IInv, SizesKnown, LocksExact, Chained, Ordered, Placed,
     PendingFits, HeadersWritten, ReadyFilled, Owners, Readers, HoldsWr,
     HoldsRd, InArc, InRing, Separate, Fits, Event, HeaderIn, FilledIn, Owning,
     Content
<1>3. ASSUME NEW ext \in BOOLEAN, OpenConsumer(ext) PROVE IInv'
  <2>1. HandlesOpen'
    BY <1>3 DEF OpenConsumer, IInv, HandlesOpen, ProducerIdle, ConsumerIdle,
       hdrVars
  <2> QED
    BY <1>2, <1>3, <2>1 DEF OpenConsumer, hdrVars
<1>4. ASSUME CloseProducer PROVE IInv'
  <2>1. HandlesOpen'
    BY <1>4 DEF CloseProducer, IInv, HandlesOpen, ProducerIdle, ConsumerIdle
  <2> QED
    BY <1>2, <1>4, <2>1 DEF CloseProducer
<1>5. ASSUME CloseConsumer PROVE IInv'
  <2>1. HandlesOpen'
    BY <1>5 DEF CloseConsumer, IInv, HandlesOpen, ProducerIdle, ConsumerIdle,
       hdrVars
  <2> QED
    BY <1>2, <1>5, <2>1 DEF CloseConsumer, hdrVars
<1> QED
  BY <1>1, <1>3, <1>4, <1>5

-----------------------------------------------------------------------------
(* The steps of a producer that write the memory.                          *)

\* Such a step leaves the pointers, the locks and the events alone.
LEMMA WriterFrame ==
    ASSUME IInv, NEW p \in Producers, NEW l \in ProducerLabels,
           Goto(p, l), prodOpen, ~ProducerIdle(p),
           UNCHANGED <<magic, closed, wr_ptr, wr_lock, rd_ptr, rd_lock,
                       prodOpen, consOpen, pop, live>>,
           \A q \in Producers \ {p} : push'[q] = push[q],
           l \notin {"lock", "alloc"},
           HoldsWr(p)' <=> HoldsWr(p)
    PROVE  /\ pc'[p] = l
           /\ \A q \in Producers \ {p} : pc'[q] = pc[q]
           /\ \A c \in Consumers : pc'[c] = pc[c]
           /\ HandlesOpen' /\ SizesKnown' /\ LocksExact'
           /\ Chained' /\ Ordered' /\ Placed'
<1>a. /\ pc'[p] = l
      /\ \A q \in Producers \ {p} : pc'[q] = pc[q]
      /\ \A c \in Consumers : pc'[c] = pc[c]
  BY ThreadsAssumption DEF Goto, IInv, TypeOK, PcType
<1>1. HandlesOpen'
  BY <1>a DEF IInv, HandlesOpen, ProducerIdle, ConsumerIdle
<1>2. SizesKnown'
  BY <1>a DEF IInv, SizesKnown
<1>3. LocksExact'
  <2>1. \A q \in Producers : HoldsWr(q)' <=> HoldsWr(q)
    BY <1>a DEF HoldsWr
  <2>2. \A c \in Consumers : HoldsRd(c)' <=> HoldsRd(c)
    BY <1>a DEF HoldsRd
  <2> QED
    BY <2>1, <2>2 DEF IInv, LocksExact
<1>4. Chained' /\ Ordered' /\ Placed'
  BY DEF IInv, Chained, Ordered, Placed, InArc, InRing, Separate
<1> QED
  BY <1>a, <1>1, <1>2, <1>3, <1>4

\* A piece of the ring keeps its contents when only bytes apart from it are
\* written.
LEMMA Untouched ==
    ASSUME NEW x \in Addr, NEW len \in Nat,
           NEW from \in Addr, NEW n \in Nat, NEW m \in Nat,
           m <= n, from + n <= ring_size, Disjoint(from, n, x, len),
           \A a \in Addr : a \notin x..(x + len - 1) => mem'[a] = mem[a]
    PROVE  /\ n >= 1 => mem'[from] = mem[from]
           /\ \A v : FilledIn(mem, from, m, v) => FilledIn(mem', from, m, v)
<1>1. \A a \in from..(from + n - 1) :
        a \in Addr /\ a \notin x..(x + len - 1)
  BY RingConstants DEF Disjoint
<1>2. \A a \in from..(from + n - 1) : mem'[a] = mem[a]
  BY <1>1
<1>3. from \in Nat
  BY RingConstants
<1> QED
  BY <1>2, <1>3 DEF FilledIn

\* A place that is chosen but not published shares no byte with an event.
LEMMA PendingApart ==
    ASSUME IInv, NEW p \in Producers, pc[p] \in {"prepare", "publish"},
           NEW i \in 1..Len(live)
    PROVE  /\ rd_ptr # wr_ptr
           /\ Disjoint(live[i].hdr, TRACE_ALIGNMENT,
                       push[p].slot.hdr, TRACE_ALIGNMENT)
           /\ Disjoint(live[i].hdr, TRACE_ALIGNMENT,
                       push[p].slot.data, TRACE_ALIGN(push[p].size))
           /\ Disjoint(live[i].data, TRACE_ALIGN(live[i].size),
                       push[p].slot.hdr, TRACE_ALIGNMENT)
           /\ Disjoint(live[i].data, TRACE_ALIGN(live[i].size),
                       push[p].slot.data, TRACE_ALIGN(push[p].size))
<1>1. /\ live[i].hdr \in Addr /\ live[i].data \in Addr
      /\ TRACE_ALIGN(live[i].size) \in Nat
      /\ push[p].slot.hdr \in Addr /\ push[p].slot.data \in Addr
      /\ push[p].slot.next \in Addr /\ TRACE_ALIGN(push[p].size) \in Nat
      /\ 1 \in 1..Len(live) /\ 1 <= i /\ live # <<>>
  BY PlaceTypes DEF IInv
<1>2. rd_ptr \in Addr /\ wr_ptr \in Addr /\ TRACE_ALIGNMENT \in Nat
  BY RingConstants DEF IInv, TypeOK
<1>3. live[1].hdr = rd_ptr
  BY <1>1 DEF IInv, Chained
<1>4. /\ rd_ptr # wr_ptr
      /\ InArc(rd_ptr, wr_ptr, live[i].hdr, TRACE_ALIGNMENT)
      /\ InArc(rd_ptr, wr_ptr, live[i].data, TRACE_ALIGN(live[i].size))
  BY <1>1, <1>3 DEF IInv, Ordered
<1>5. Fits(rd_ptr, wr_ptr, push[p].slot.hdr, push[p].slot.data,
           push[p].slot.next, TRACE_ALIGN(push[p].size))
  BY DEF IInv, PendingFits
<1>6. \A x \in Addr, len \in Nat : InArc(rd_ptr, wr_ptr, x, len) =>
        /\ Disjoint(x, len, push[p].slot.hdr, TRACE_ALIGNMENT)
        /\ Disjoint(x, len, push[p].slot.data, TRACE_ALIGN(push[p].size))
  BY <1>1, <1>2, <1>4, <1>5, FitsApart
<1> QED
  BY <1>1, <1>2, <1>4, <1>6

\* The event of a producer that has published it.
LEMMA OwnEvent ==
    ASSUME IInv, NEW p \in Producers, Owning(p)
    PROVE  \E k \in 1..Len(live) :
             /\ live[k] = Event(p) /\ ~mem[live[k].hdr].ready
             /\ HeaderIn(mem, push[p].slot.hdr, push[p].slot.data,
                         push[p].size)
             /\ integrity_check(push[p].slot.data, push[p].size)
<1>1. PICK k \in 1..Len(live) :
        live[k] = Event(p) /\ ~mem[live[k].hdr].ready
  BY DEF IInv, Owners
<1>2. /\ live[k].hdr = push[p].slot.hdr /\ live[k].data = push[p].slot.data
      /\ live[k].size = push[p].size
  BY <1>1 DEF Event
<1>3. HeaderIn(mem, live[k].hdr, live[k].data, live[k].size)
  BY DEF IInv, HeadersWritten
<1>4. live[k].data + TRACE_ALIGN(live[k].size) <= ring_size
  BY DEF IInv, Placed, InRing
<1>5. /\ live[k].data \in Addr /\ live[k].size \in Nat
      /\ TRACE_ALIGN(live[k].size) \in Nat
      /\ TRACE_ALIGN(live[k].size) >= live[k].size
  BY PlaceTypes, AlignType DEF IInv
<1>6. integrity_check(live[k].data, live[k].size)
  BY <1>4, <1>5, RingConstants DEF integrity_check
<1> QED
  BY <1>1, <1>2, <1>3, <1>6

\* _prepare_hdr writes only where no event is.
LEMMA PrepareHdrSafe ==
    ASSUME IInv, TypeOK', NEW p \in Producers, PrepareHdr(p)
    PROVE  IInv'
<1> DEFINE h == push[p].slot.hdr
<1>1. pc[p] = "prepare" /\ HoldsWr(p) /\ ~Owning(p)
  BY DEF PrepareHdr, HoldsWr, Owning
<1>2. ~ProducerIdle(p) /\ prodOpen /\ "publish" \in ProducerLabels
  BY <1>1 DEF ProducerIdle, ProducerResults, ProducerSteps, ProducerLabels,
     IInv, HandlesOpen
<1>3. pc \in [Producers \cup Consumers -> ProducerLabels \cup ConsumerLabels]
  BY DEF IInv, TypeOK, PcType
<1>4. HoldsWr(p)'
  BY <1>3 DEF PrepareHdr, Goto, HoldsWr
<1>5. /\ pc'[p] = "publish"
      /\ \A q \in Producers \ {p} : pc'[q] = pc[q]
      /\ \A c \in Consumers : pc'[c] = pc[c]
      /\ HandlesOpen' /\ SizesKnown' /\ LocksExact'
      /\ Chained' /\ Ordered' /\ Placed'
  BY <1>1, <1>2, <1>4, WriterFrame DEF PrepareHdr, hdrVars
<1>6. UNCHANGED <<rd_ptr, wr_ptr, push, pop, live>>
  BY DEF PrepareHdr, hdrVars
<1>7. /\ h \in Addr
      /\ \A a \in Addr : a \notin h..(h + TRACE_ALIGNMENT - 1) =>
                           mem'[a] = mem[a]
      /\ HeaderIn(mem', h, push[p].slot.data, push[p].size)
      /\ ~mem'[h].ready
  <2>1. h \in Addr
    BY PlaceTypes DEF IInv
  <2>2. mem'[h] = [ready |-> FALSE, data_ptr |-> push[p].slot.data,
                   data_size |-> push[p].size, byte |-> NoPayload]
    BY <2>1 DEF PrepareHdr
  <2>3. h \in h..(h + TRACE_ALIGNMENT - 1)
    BY <2>1, RingConstants
  <2>4. \A a \in Addr : a \notin h..(h + TRACE_ALIGNMENT - 1) =>
                          mem'[a] = mem[a]
    BY <2>3 DEF PrepareHdr
  <2> QED
    BY <1>6, <2>1, <2>2, <2>4 DEF HeaderIn
<1>8. ASSUME NEW i \in 1..Len(live)
      PROVE  /\ mem'[live[i].hdr] = mem[live[i].hdr]
             /\ FilledIn(mem, live[i].data, live[i].size, live[i].payload) =>
                  FilledIn(mem', live[i].data, live[i].size, live[i].payload)
  <2>1. /\ Disjoint(live[i].hdr, TRACE_ALIGNMENT, h, TRACE_ALIGNMENT)
        /\ Disjoint(live[i].data, TRACE_ALIGN(live[i].size),
                    h, TRACE_ALIGNMENT)
    BY <1>1, PendingApart
  <2>2. /\ live[i].hdr \in Addr /\ live[i].data \in Addr
        /\ live[i].size \in Nat /\ TRACE_ALIGN(live[i].size) \in Nat
        /\ TRACE_ALIGN(live[i].size) >= live[i].size
        /\ TRACE_ALIGNMENT \in Nat /\ 1 <= TRACE_ALIGNMENT
    BY PlaceTypes, AlignType, RingConstants DEF IInv
  <2>3. /\ live[i].hdr + TRACE_ALIGNMENT <= ring_size
        /\ live[i].data + TRACE_ALIGN(live[i].size) <= ring_size
    BY DEF IInv, Placed, InRing
  <2> QED
    <3> HIDE DEF h
    <3> QED
      BY <1>7, <2>1, <2>2, <2>3, Untouched
<1> HIDE DEF h
<1>9. PendingFits'
  BY <1>1, <1>5, <1>6 DEF IInv, PendingFits, Fits, InRing, Event
<1>10. HeadersWritten'
  <2>1. \A q \in Producers : pc'[q] = "publish" => q = p
    BY <1>1, <1>5 DEF IInv, LocksExact, HoldsWr
  <2>2. \A i \in 1..Len(live') :
          HeaderIn(mem', live[i].hdr, live[i].data, live[i].size)
    BY <1>6, <1>8 DEF IInv, HeadersWritten, HeaderIn
  <2> QED
    BY <1>6, <1>7, <2>1, <2>2 DEF HeadersWritten, h
<1>11. ReadyFilled'
  BY <1>6, <1>8 DEF IInv, ReadyFilled
<1>12. Owners'
  <2>1. \A q \in Producers : Owning(q)' <=> Owning(q)
    BY <1>1, <1>5 DEF Owning
  <2>2. \A q \in Producers : Event(q)' = Event(q)
    BY <1>6 DEF Event
  <2>3. ASSUME NEW q \in Producers, Owning(q)'
        PROVE  \E i \in 1..Len(live') :
                 live'[i] = Event(q)' /\ ~mem'[live'[i].hdr].ready
    BY <1>6, <1>8, <2>1, <2>2, <2>3 DEF IInv, Owners
  <2>4. ASSUME NEW i \in 1..Len(live'), ~mem'[live'[i].hdr].ready
        PROVE  /\ Owning(live[i].by)'
               /\ push'[live'[i].by].slot.hdr = live'[i].hdr
    BY <1>6, <1>8, <2>1, <2>4, PlaceTypes DEF IInv, Owners
  <2>5. ASSUME NEW q \in Producers, pc'[q] = "commit"
        PROVE  FilledIn(mem', push[q].slot.data, push[q].size, push[q].payload)
    <3>1. pc[q] = "commit" /\ Owning(q)
      BY <1>5, <2>5 DEF Owning
    <3>2. PICK i \in 1..Len(live) : live[i] = Event(q)
      BY <3>1 DEF IInv, Owners
    <3>3. /\ live[i].data = push[q].slot.data /\ live[i].size = push[q].size
          /\ live[i].payload = push[q].payload
      BY <3>2 DEF Event
    <3>4. FilledIn(mem, live[i].data, live[i].size, live[i].payload)
      BY <3>1, <3>3 DEF IInv, Owners
    <3> QED
      BY <1>6, <1>8, <3>3, <3>4
  <2> QED
    BY <1>6, <2>3, <2>4, <2>5 DEF Owners
<1>13. Readers'
  <2>1. live # <<>> => mem'[rd_ptr] = mem[rd_ptr]
    BY <1>8, HeadEvent
  <2> QED
    BY <1>5, <1>6, <2>1 DEF IInv, Readers, Content
<1> QED
  BY <1>5, <1>9, <1>10, <1>11, <1>12, <1>13 DEF IInv

\* The copy into an event writes its own data bytes only.
LEMMA CopyDataSafe ==
    ASSUME IInv, TypeOK', NEW p \in Producers, CopyData(p)
    PROVE  IInv'
<1> DEFINE x == push[p].slot.data
           n == TRACE_ALIGN(push[p].size)
<1>1. pc[p] = "copy" /\ ~HoldsWr(p) /\ Owning(p)
  BY DEF CopyData, HoldsWr, Owning
<1>2. ~ProducerIdle(p) /\ prodOpen /\ "commit" \in ProducerLabels
  BY <1>1 DEF ProducerIdle, ProducerResults, ProducerSteps, ProducerLabels,
     IInv, HandlesOpen
<1>3. pc \in [Producers \cup Consumers -> ProducerLabels \cup ConsumerLabels]
  BY DEF IInv, TypeOK, PcType
<1>4. PICK k \in 1..Len(live) :
        /\ live[k] = Event(p) /\ ~mem[live[k].hdr].ready
        /\ HeaderIn(mem, push[p].slot.hdr, x, push[p].size)
        /\ integrity_check(x, push[p].size)
  BY <1>1, OwnEvent
<1>5. /\ mem' = [a \in Addr |->
                   IF a \in x..(x + push[p].size - 1)
                   THEN DataCell(push[p].payload) ELSE mem[a]]
      /\ Goto(p, "commit")
      /\ UNCHANGED <<magic, push>>
  BY <1>4 DEF CopyData, HeaderIn
<1>6. pc'[p] = "commit" /\ ~HoldsWr(p)' /\ Owning(p)'
  BY <1>3, <1>5 DEF Goto, HoldsWr, Owning
<1>7. UNCHANGED <<closed, wr_ptr, wr_lock, rd_ptr, rd_lock, prodOpen, consOpen,
                  pop, live>>
  BY DEF CopyData
<1>8. /\ \A q \in Producers \ {p} : pc'[q] = pc[q]
      /\ \A c \in Consumers : pc'[c] = pc[c]
      /\ HandlesOpen' /\ SizesKnown' /\ LocksExact'
      /\ Chained' /\ Ordered' /\ Placed'
  BY <1>1, <1>2, <1>5, <1>6, <1>7, WriterFrame
<1>9. /\ live[k].data = x /\ live[k].size = push[p].size
      /\ live[k].hdr = push[p].slot.hdr /\ live[k].by = p
      /\ live[k].payload = push[p].payload
  BY <1>4 DEF Event
<1>10. /\ x \in Addr /\ push[p].size \in Nat /\ n \in Nat /\ push[p].size <= n
       /\ x + n <= ring_size
  <2>1. InRing(live[k])
    BY DEF IInv, Placed
  <2> QED
    BY <1>9, <2>1, PlaceTypes, AlignType DEF IInv, InRing
<1>11. /\ \A a \in Addr : a \notin x..(x + n - 1) => mem'[a] = mem[a]
       /\ FilledIn(mem', x, push[p].size, push[p].payload)
  <2>1. x..(x + push[p].size - 1) \subseteq Addr
    BY <1>10, RingConstants
  <2>2. \A a \in x..(x + push[p].size - 1) : a \in x..(x + n - 1)
    BY <1>10, RingConstants
  <2>3. \A a \in Addr : a \notin x..(x + n - 1) => mem'[a] = mem[a]
    BY <1>5, <2>2
  <2>4. \A a \in x..(x + push[p].size - 1) :
          mem'[a] = DataCell(push[p].payload)
    BY <1>5, <2>1
  <2> QED
    BY <2>3, <2>4 DEF FilledIn, DataCell
<1> HIDE DEF x, n
<1>12. ASSUME NEW i \in 1..Len(live)
       PROVE  mem'[live[i].hdr] = mem[live[i].hdr]
  <2>1. Disjoint(live[i].hdr, TRACE_ALIGNMENT, x, n)
    <3>1. CASE i = k
      BY <3>1, <1>9 DEF IInv, Placed, InRing, x, n
    <3>2. CASE i # k
      BY <3>2, <1>9 DEF IInv, Placed, Separate, x, n
    <3> QED
      BY <3>1, <3>2
  <2>2. /\ live[i].hdr \in Addr
        /\ TRACE_ALIGNMENT \in Nat /\ 1 <= TRACE_ALIGNMENT
        /\ live[i].hdr + TRACE_ALIGNMENT <= ring_size
    BY PlaceTypes, RingConstants DEF IInv, Placed, InRing
  <2> QED
    BY <1>10, <1>11, <2>1, <2>2, Untouched
<1>13. ASSUME NEW i \in 1..Len(live), i # k,
              FilledIn(mem, live[i].data, live[i].size, live[i].payload)
       PROVE  FilledIn(mem', live[i].data, live[i].size, live[i].payload)
  <2>1. Disjoint(live[i].data, TRACE_ALIGN(live[i].size), x, n)
    BY <1>9, <1>13 DEF IInv, Placed, Separate, x, n
  <2>2. /\ live[i].data \in Addr /\ live[i].size \in Nat
        /\ TRACE_ALIGN(live[i].size) \in Nat
        /\ live[i].size <= TRACE_ALIGN(live[i].size)
        /\ live[i].data + TRACE_ALIGN(live[i].size) <= ring_size
    BY PlaceTypes, AlignType DEF IInv, Placed, InRing
  <2> QED
    BY <1>10, <1>11, <1>13, <2>1, <2>2, Untouched
<1>14. PendingFits'
  BY <1>5, <1>6, <1>7, <1>8
     DEF IInv, PendingFits, Fits, InRing, Event
<1>15. HeadersWritten'
  <2>1. ASSUME NEW q \in Producers, pc'[q] = "publish"
        PROVE  mem'[push[q].slot.hdr] = mem[push[q].slot.hdr]
    <3>1. pc[q] = "publish" /\ InRing(Event(q))
      BY <1>6, <1>8, <2>1 DEF IInv, PendingFits
    <3>2. Disjoint(x, n, push[q].slot.hdr, TRACE_ALIGNMENT)
      BY <1>9, <3>1, PendingApart DEF x, n
    <3>3. push[q].slot.hdr + TRACE_ALIGNMENT <= ring_size
      BY <3>1 DEF InRing, Event
    <3>4. /\ push[q].slot.hdr \in Addr
          /\ TRACE_ALIGNMENT \in Nat /\ 1 <= TRACE_ALIGNMENT
          /\ Disjoint(push[q].slot.hdr, TRACE_ALIGNMENT, x, n)
      BY <3>2, PlaceTypes, RingConstants DEF IInv, Disjoint
    <3> QED
      BY <1>10, <1>11, <3>3, <3>4, Untouched
  <2>2. \A i \in 1..Len(live) :
          HeaderIn(mem', live[i].hdr, live[i].data, live[i].size)
    BY <1>12 DEF IInv, HeadersWritten, HeaderIn
  <2>3. \A q \in Producers : pc'[q] = "publish" =>
          /\ HeaderIn(mem', push[q].slot.hdr, push[q].slot.data, push[q].size)
          /\ ~mem'[push[q].slot.hdr].ready
    BY <1>6, <1>8, <2>1 DEF IInv, HeadersWritten, HeaderIn
  <2> QED
    BY <1>5, <1>7, <2>2, <2>3 DEF HeadersWritten
<1>16. ReadyFilled'
  <2>1. ASSUME NEW i \in 1..Len(live), mem'[live[i].hdr].ready
        PROVE  FilledIn(mem', live[i].data, live[i].size, live[i].payload)
    <3>1. mem[live[i].hdr].ready
      BY <1>12, <2>1
    <3>2. i # k
      BY <1>4, <3>1
    <3>3. FilledIn(mem, live[i].data, live[i].size, live[i].payload)
      BY <3>1 DEF IInv, ReadyFilled
    <3> QED
      BY <1>13, <3>2, <3>3
  <2> QED
    BY <1>7, <2>1 DEF ReadyFilled
<1>17. Owners'
  <2>1. \A q \in Producers : Owning(q)' <=> Owning(q)
    BY <1>1, <1>6, <1>8 DEF Owning
  <2>2. \A q \in Producers : Event(q)' = Event(q)
    BY <1>5 DEF Event
  <2>3. ASSUME NEW q \in Producers, Owning(q)'
        PROVE  \E i \in 1..Len(live') :
                 live'[i] = Event(q)' /\ ~mem'[live'[i].hdr].ready
    BY <1>7, <1>12, <2>1, <2>2, <2>3 DEF IInv, Owners
  <2>4. ASSUME NEW i \in 1..Len(live'), ~mem'[live'[i].hdr].ready
        PROVE  /\ Owning(live[i].by)'
               /\ push'[live'[i].by].slot.hdr = live'[i].hdr
    BY <1>5, <1>7, <1>12, <2>1, <2>4, PlaceTypes DEF IInv, Owners
  <2>5. ASSUME NEW q \in Producers, pc'[q] = "commit"
        PROVE  FilledIn(mem', push[q].slot.data, push[q].size,
                        push[q].payload)
    <3>1. CASE q = p
      BY <3>1, <1>11 DEF x
    <3>2. CASE q # p
      <4>1. pc[q] = "commit" /\ Owning(q)
        BY <1>8, <2>5, <3>2 DEF Owning
      <4>2. PICK i \in 1..Len(live) : live[i] = Event(q)
        BY <4>1 DEF IInv, Owners
      <4>3. /\ live[i].data = push[q].slot.data
            /\ live[i].size = push[q].size
            /\ live[i].payload = push[q].payload
            /\ live[i].by = q
        BY <4>2 DEF Event
      <4>4. FilledIn(mem, live[i].data, live[i].size, live[i].payload)
        BY <4>1, <4>3 DEF IInv, Owners
      <4>5. i # k
        BY <1>9, <3>2, <4>3
      <4> QED
        BY <1>13, <4>3, <4>4, <4>5
    <3> QED
      BY <3>1, <3>2
  <2> QED
    BY <1>5, <2>3, <2>4, <2>5 DEF Owners
<1>18. Readers'
  <2>1. live # <<>> => mem'[rd_ptr] = mem[rd_ptr]
    BY <1>12, HeadEvent
  <2> QED
    BY <1>7, <1>8, <2>1 DEF IInv, Readers, Content
<1> QED
  BY <1>8, <1>14, <1>15, <1>16, <1>17, <1>18 DEF IInv

\* The commit changes the ready bit of the producer's own event only.
LEMMA CommitEventSafe ==
    ASSUME IInv, TypeOK', NEW p \in Producers, CommitEvent(p)
    PROVE  IInv'
<1> DEFINE h == push[p].slot.hdr
<1>1. pc[p] = "commit" /\ ~HoldsWr(p) /\ Owning(p)
  BY DEF CommitEvent, HoldsWr, Owning
<1>2. ~ProducerIdle(p) /\ prodOpen /\ magic /\ "ok" \in ProducerLabels
  BY <1>1 DEF ProducerIdle, ProducerResults, ProducerSteps, ProducerLabels,
     IInv, HandlesOpen
<1>3. /\ pc \in [Producers \cup Consumers ->
                   ProducerLabels \cup ConsumerLabels]
      /\ push \in [Producers -> PushRecord]
      /\ mem \in [Addr -> Cell] /\ magic \in BOOLEAN
  BY DEF IInv, TypeOK, PcType
<1>4. PICK k \in 1..Len(live) :
        /\ live[k] = Event(p) /\ ~mem[live[k].hdr].ready
        /\ HeaderIn(mem, h, push[p].slot.data, push[p].size)
        /\ integrity_check(push[p].slot.data, push[p].size)
  BY <1>1, OwnEvent
<1>5. live[k].hdr = h /\ live[k].by = p
  BY <1>4 DEF Event
<1>6. /\ mem' = [mem EXCEPT ![h].ready = TRUE]
      /\ magic' = magic
      /\ Goto(p, "ok")
      /\ \A q \in Producers \ {p} : push'[q] = push[q]
  <2>1. integrity_check(mem[h].data_ptr, mem[h].data_size)
    BY <1>4 DEF HeaderIn
  <2> HIDE DEF h
  <2> QED
    BY <1>2, <1>3, <2>1 DEF CommitEvent, h
<1>7. /\ h \in Addr
      /\ \A a \in Addr : a # h => mem'[a] = mem[a]
      /\ mem'[h].ready /\ mem'[h].byte = mem[h].byte
      /\ mem'[h].data_ptr = mem[h].data_ptr
      /\ mem'[h].data_size = mem[h].data_size
  <2>1. h \in Addr /\ mem[h] \in Cell
    BY <1>3, PlaceTypes DEF IInv
  <2> QED
    BY <1>3, <1>6, <2>1 DEF Cell
<1> HIDE DEF h
<1>8. pc'[p] = "ok" /\ ~HoldsWr(p)' /\ ~Owning(p)'
  BY <1>3, <1>6 DEF Goto, HoldsWr, Owning
<1>9. UNCHANGED <<closed, wr_ptr, wr_lock, rd_ptr, rd_lock, prodOpen, consOpen,
                  pop, live>>
  BY DEF CommitEvent
<1>10. /\ \A q \in Producers \ {p} : pc'[q] = pc[q]
       /\ \A c \in Consumers : pc'[c] = pc[c]
       /\ HandlesOpen' /\ SizesKnown' /\ LocksExact'
       /\ Chained' /\ Ordered' /\ Placed'
  BY <1>1, <1>2, <1>6, <1>8, <1>9, WriterFrame
<1>11. /\ \A hdr \in Addr : \A d, m : HeaderIn(mem, hdr, d, m) =>
                                     HeaderIn(mem', hdr, d, m)
       /\ \A a \in Addr : mem'[a].byte = mem[a].byte
  BY <1>7 DEF HeaderIn
<1>12. ASSUME NEW i \in 1..Len(live), i # k
       PROVE  live[i].hdr # h
  <2>1. Disjoint(live[i].hdr, TRACE_ALIGNMENT, h, TRACE_ALIGNMENT)
    BY <1>5, <1>12 DEF IInv, Placed, Separate
  <2> QED
    BY <1>7, <2>1, PlaceTypes, RingConstants DEF IInv, Disjoint
<1>13. ASSUME NEW i \in 1..Len(live),
              FilledIn(mem, live[i].data, live[i].size, live[i].payload)
       PROVE  FilledIn(mem', live[i].data, live[i].size, live[i].payload)
  <2>1. /\ live[i].data \in Addr /\ live[i].size \in Nat
        /\ TRACE_ALIGN(live[i].size) \in Nat
        /\ live[i].size <= TRACE_ALIGN(live[i].size)
        /\ live[i].data + TRACE_ALIGN(live[i].size) <= ring_size
    BY PlaceTypes, AlignType DEF IInv, Placed, InRing
  <2>2. live[i].data..(live[i].data + live[i].size - 1) \subseteq Addr
    BY <2>1, RingConstants
  <2> QED
    BY <1>11, <1>13, <2>2 DEF FilledIn
<1>14. PendingFits'
  <2>1. \A q \in Producers : pc'[q] \in {"prepare", "publish"} =>
          q # p /\ pc[q] \in {"prepare", "publish"} /\ push'[q] = push[q]
    BY <1>6, <1>8, <1>10
  <2> QED
    BY <1>9, <2>1 DEF IInv, PendingFits, Fits, InRing, Event
<1>15. HeadersWritten'
  <2>1. ASSUME NEW q \in Producers, pc'[q] = "publish"
        PROVE  /\ HeaderIn(mem', push'[q].slot.hdr, push'[q].slot.data,
                           push'[q].size)
               /\ ~mem'[push'[q].slot.hdr].ready
    <3>1. q # p /\ pc[q] = "publish" /\ push'[q] = push[q]
      BY <1>6, <1>8, <1>10, <2>1
    <3>2. Disjoint(h, TRACE_ALIGNMENT, push[q].slot.hdr, TRACE_ALIGNMENT)
      BY <1>5, <3>1, PendingApart
    <3>3. push[q].slot.hdr \in Addr /\ push[q].slot.hdr # h
      BY <1>7, <3>2, PlaceTypes, RingConstants DEF IInv, Disjoint
    <3>4. /\ HeaderIn(mem, push[q].slot.hdr, push[q].slot.data, push[q].size)
          /\ ~mem[push[q].slot.hdr].ready
      BY <3>1 DEF IInv, HeadersWritten
    <3> QED
      BY <1>7, <1>11, <3>1, <3>3, <3>4
  <2>2. \A i \in 1..Len(live) :
          HeaderIn(mem', live[i].hdr, live[i].data, live[i].size)
    BY <1>11, PlaceTypes DEF IInv, HeadersWritten
  <2> QED
    BY <1>9, <2>1, <2>2 DEF HeadersWritten
<1>16. ReadyFilled'
  <2>1. ASSUME NEW i \in 1..Len(live), mem'[live[i].hdr].ready
        PROVE  FilledIn(mem', live[i].data, live[i].size, live[i].payload)
    <3>1. CASE i = k
      <4>1. /\ live[k].data = push[p].slot.data /\ live[k].size = push[p].size
            /\ live[k].payload = push[p].payload
        BY <1>4 DEF Event
      <4>2. FilledIn(mem, live[k].data, live[k].size, live[k].payload)
        BY <1>1, <4>1 DEF IInv, Owners
      <4> QED
        BY <1>13, <3>1, <4>2
    <3>2. CASE i # k
      <4>1. mem[live[i].hdr].ready
        BY <1>7, <1>12, <2>1, <3>2, PlaceTypes DEF IInv
      <4>2. FilledIn(mem, live[i].data, live[i].size, live[i].payload)
        BY <4>1 DEF IInv, ReadyFilled
      <4> QED
        BY <1>13, <4>2
    <3> QED
      BY <3>1, <3>2
  <2> QED
    BY <1>9, <2>1 DEF ReadyFilled
<1>17. Owners'
  <2>1. \A q \in Producers : Owning(q)' <=> Owning(q) /\ q # p
    BY <1>8, <1>10 DEF Owning
  <2>2. \A q \in Producers \ {p} : Event(q)' = Event(q)
    BY <1>6 DEF Event
  <2>3. ASSUME NEW q \in Producers, Owning(q)'
        PROVE  \E i \in 1..Len(live') :
                 live'[i] = Event(q)' /\ ~mem'[live'[i].hdr].ready
    <3>1. PICK i \in 1..Len(live) :
            live[i] = Event(q) /\ ~mem[live[i].hdr].ready
      BY <2>1, <2>3 DEF IInv, Owners
    <3>2. i # k
      <4>1. live[i].by = q /\ q # p
        BY <2>1, <2>3, <3>1 DEF Event
      <4> QED
        BY <1>5, <4>1
    <3>3. ~mem'[live[i].hdr].ready
      BY <1>7, <1>12, <3>1, <3>2, PlaceTypes DEF IInv
    <3> QED
      BY <1>9, <2>1, <2>2, <2>3, <3>1, <3>3
  <2>4. ASSUME NEW i \in 1..Len(live'), ~mem'[live'[i].hdr].ready
        PROVE  /\ Owning(live[i].by)'
               /\ push'[live'[i].by].slot.hdr = live'[i].hdr
    <3>1. i \in 1..Len(live) /\ live'[i] = live[i] /\ live[i].by \in Producers
      BY <1>9, PlaceTypes DEF IInv
    <3>2. i # k /\ live[i].hdr # h
      BY <1>5, <1>7, <1>9, <1>12, <2>4, <3>1
    <3>3. ~mem[live[i].hdr].ready
      BY <1>7, <2>4, <3>1, <3>2, PlaceTypes DEF IInv
    <3>4. Owning(live[i].by) /\ push[live[i].by].slot.hdr = live[i].hdr
      BY <3>1, <3>3 DEF IInv, Owners
    <3>5. live[i].by # p
      BY <3>2, <3>4 DEF h
    <3> QED
      BY <1>6, <1>9, <2>1, <3>1, <3>4, <3>5
  <2>5. ASSUME NEW q \in Producers, pc'[q] = "commit"
        PROVE  FilledIn(mem', push'[q].slot.data, push'[q].size,
                        push'[q].payload)
    <3>1. q # p /\ pc[q] = "commit" /\ Owning(q) /\ push'[q] = push[q]
      BY <1>6, <1>8, <1>10, <2>5 DEF Owning
    <3>2. PICK i \in 1..Len(live) : live[i] = Event(q)
      BY <3>1 DEF IInv, Owners
    <3>3. /\ live[i].data = push[q].slot.data /\ live[i].size = push[q].size
          /\ live[i].payload = push[q].payload
      BY <3>2 DEF Event
    <3>4. FilledIn(mem, live[i].data, live[i].size, live[i].payload)
      BY <3>1, <3>3 DEF IInv, Owners
    <3> QED
      BY <1>13, <3>1, <3>3, <3>4
  <2> QED
    BY <2>3, <2>4, <2>5 DEF Owners
<1>18. Readers'
  <2>1. live # <<>> /\ mem[rd_ptr].ready => mem'[rd_ptr].ready
    BY <1>7 DEF IInv, TypeOK
  <2> QED
    BY <1>9, <1>10, <2>1 DEF IInv, Readers, Content
<1> QED
  BY <1>10, <1>14, <1>15, <1>16, <1>17, <1>18 DEF IInv

-----------------------------------------------------------------------------
(* The two steps that move a pointer.                                      *)

\* The publication of wr_ptr puts the event behind all others.
LEMMA PublishSafe ==
    ASSUME IInv, TypeOK', NEW p \in Producers, PublishWrPtr(p)
    PROVE  IInv'
<1> DEFINE e == Event(p)
           n == Len(live)
           next == push[p].slot.next
           size == TRACE_ALIGN(push[p].size)
<1>1. pc[p] = "publish" /\ HoldsWr(p)
  BY DEF PublishWrPtr, HoldsWr
<1>2. prodOpen
  BY <1>1 DEF ProducerIdle, ProducerResults, IInv, HandlesOpen
<1>3. /\ pc'[p] = "unlock"
      /\ \A q \in Producers \ {p} : pc'[q] = pc[q]
      /\ \A c \in Consumers : pc'[c] = pc[c]
  BY ThreadsAssumption DEF PublishWrPtr, Goto, IInv, TypeOK, PcType
<1>4. UNCHANGED <<magic, closed, wr_lock, rd_ptr, rd_lock, mem, prodOpen,
                  consOpen, push, pop>>
  BY DEF PublishWrPtr
<1>5. /\ n \in Nat /\ Len(live') = n + 1 /\ live' # <<>>
      /\ \A i \in 1..n : i \in 1..(n + 1) /\ live'[i] = live[i]
      /\ live'[n + 1] = e
      /\ \A i \in 1..(n + 1) : i = n + 1 \/ i \in 1..n
  <2>1. live \in Seq(EventRecord) /\ n \in Nat
    BY DEF IInv, TypeOK
  <2>2. live' = Append(live, e)
    BY DEF PublishWrPtr
  <2> HIDE DEF e
  <2> QED
    BY <2>1, <2>2
<1>6. /\ e.hdr = push[p].slot.hdr /\ e.data = push[p].slot.data
      /\ e.next = next /\ e.size = push[p].size
      /\ e.payload = push[p].payload /\ e.by = p
  BY DEF Event
<1>7. /\ e.hdr \in Addr /\ e.data \in Addr /\ next \in Addr /\ size \in Nat
      /\ rd_ptr \in Addr /\ wr_ptr \in Addr
      /\ TRACE_ALIGNMENT \in Nat /\ 1 <= TRACE_ALIGNMENT
  BY <1>6, PlaceTypes, RingConstants DEF IInv, TypeOK
<1>8. /\ Fits(rd_ptr, wr_ptr, e.hdr, e.data, next, size)
      /\ InRing(e) /\ move_ptr(e.data, size) = next
  BY <1>1, <1>6 DEF IInv, PendingFits
<1>9. e.hdr = wr_ptr /\ wr_ptr' = next
  BY <1>8 DEF Fits, PublishWrPtr
<1>10. \A q \in Producers : pc'[q] \notin {"prepare", "publish"}
  BY <1>1, <1>3 DEF IInv, LocksExact, HoldsWr
<1>11. HandlesOpen' /\ SizesKnown'
  <2>1. HandlesOpen'
    BY <1>2, <1>3, <1>4
       DEF IInv, HandlesOpen, ProducerIdle, ConsumerIdle
  <2>2. SizesKnown'
    BY <1>3, <1>4 DEF IInv, SizesKnown
  <2> QED
    BY <2>1, <2>2
<1>12. LocksExact'
  <2>1. \A q \in Producers : HoldsWr(q)' <=> HoldsWr(q)
    BY <1>1, <1>3 DEF HoldsWr
  <2>2. \A c \in Consumers : HoldsRd(c)' <=> HoldsRd(c)
    BY <1>3 DEF HoldsRd
  <2> QED
    BY <1>4, <2>1, <2>2 DEF IInv, LocksExact
<1> HIDE DEF e, n, next, size
<1>13. Chained'
  <2>1. live'[1].hdr = rd_ptr
    <3>1. CASE n = 0
      <4>1. live = <<>>
        BY <3>1, PlaceTypes DEF IInv, n
      <4>2. rd_ptr = wr_ptr
        BY <4>1 DEF IInv, Chained
      <4> QED
        BY <1>5, <1>9, <3>1, <4>2
    <3>2. CASE n # 0
      <4>1. live # <<>> /\ 1 \in 1..n
        BY <1>5, <3>2, PlaceTypes DEF IInv, n
      <4>2. live[1].hdr = rd_ptr
        BY <4>1 DEF IInv, Chained
      <4> QED
        BY <1>5, <4>1, <4>2
    <3> QED
      BY <3>1, <3>2
  <2>2. live'[Len(live')].next = wr_ptr'
    BY <1>5, <1>6, <1>9
  <2>3. ASSUME NEW i \in 1..(Len(live') - 1)
        PROVE  live'[i].next = live'[i + 1].hdr
    <3>0. i \in 1..n
      BY <1>5, <2>3
    <3>1. CASE i = n
      <4>1. live # <<>>
        BY <1>5, <3>0, PlaceTypes DEF IInv, n
      <4>2. live[n].next = wr_ptr
        BY <4>1 DEF IInv, Chained, n
      <4> QED
        BY <1>5, <1>9, <3>0, <3>1, <4>2
    <3>2. CASE i # n
      <4>1. i \in 1..(n - 1) /\ i + 1 \in 1..n
        BY <1>5, <3>0, <3>2
      <4>2. live[i].next = live[i + 1].hdr
        BY <4>1 DEF IInv, Chained, n
      <4> QED
        BY <1>5, <3>0, <4>1, <4>2
    <3> QED
      BY <3>1, <3>2
  <2>4. ASSUME NEW i \in 1..Len(live')
        PROVE  move_ptr(live'[i].data, TRACE_ALIGN(live'[i].size))
                 = live'[i].next
    <3>1. CASE i = n + 1
      BY <1>5, <1>6, <1>8, <3>1 DEF size
    <3>2. CASE i \in 1..n
      <4>1. move_ptr(live[i].data, TRACE_ALIGN(live[i].size)) = live[i].next
        BY <3>2 DEF IInv, Chained, n
      <4> QED
        BY <1>5, <3>2, <4>1
    <3> QED
      BY <1>5, <3>1, <3>2
  <2> QED
    BY <1>4, <1>5, <2>1, <2>2, <2>3, <2>4 DEF Chained
<1>14. Ordered'
  <2> SUFFICES ASSUME NEW i \in 1..(n + 1), NEW j \in 1..(n + 1), i <= j
               PROVE  /\ live'[i].hdr # next
                      /\ InArc(live'[i].hdr, next, live'[j].hdr,
                               TRACE_ALIGNMENT)
                      /\ InArc(live'[i].hdr, next, live'[j].data,
                               TRACE_ALIGN(live'[j].size))
    BY <1>5, <1>9 DEF Ordered, InArc
  <2>1. CASE i = n + 1
    <3>1. j = n + 1
      BY <1>5, <2>1
    <3>2. /\ next # wr_ptr
          /\ InArc(wr_ptr, next, e.hdr, TRACE_ALIGNMENT)
          /\ InArc(wr_ptr, next, e.data, size)
      BY <1>7, <1>8, FitsInRing
    <3> QED
      BY <1>5, <1>6, <1>9, <2>1, <3>1, <3>2 DEF size
  <2>2. CASE i \in 1..n
    <3>1. live # <<>> /\ 1 \in 1..n /\ 1 <= i
      BY <1>5, <2>2, PlaceTypes DEF IInv, n
    <3>2. live[1].hdr = rd_ptr
      BY <3>1 DEF IInv, Chained
    <3>3. /\ rd_ptr # wr_ptr /\ live[i].hdr # wr_ptr
          /\ InArc(rd_ptr, wr_ptr, live[i].hdr, TRACE_ALIGNMENT)
      BY <2>2, <3>1, <3>2 DEF IInv, Ordered, n
    <3>4. live[i].hdr \in Addr
      BY <2>2, PlaceTypes DEF IInv, n
    <3>5. /\ live[i].hdr # next
          /\ InArc(live[i].hdr, next, e.hdr, TRACE_ALIGNMENT)
          /\ InArc(live[i].hdr, next, e.data, size)
      BY <1>7, <1>8, <3>3, <3>4, FitsExtends
    <3>6. CASE j = n + 1
      BY <1>5, <1>6, <2>2, <3>5, <3>6 DEF size
    <3>7. CASE j \in 1..n
      <4>1. /\ InArc(live[i].hdr, wr_ptr, live[j].hdr, TRACE_ALIGNMENT)
            /\ InArc(live[i].hdr, wr_ptr, live[j].data,
                     TRACE_ALIGN(live[j].size))
        BY <2>2, <3>7 DEF IInv, Ordered, n
      <4>2. /\ live[j].hdr \in Addr /\ live[j].data \in Addr
            /\ TRACE_ALIGN(live[j].size) \in Nat
        BY <3>7, PlaceTypes DEF IInv, n
      <4>3. /\ InArc(live[i].hdr, next, live[j].hdr, TRACE_ALIGNMENT)
            /\ InArc(live[i].hdr, next, live[j].data,
                     TRACE_ALIGN(live[j].size))
        <5>1. InArc(live[i].hdr, next, wr_ptr, TRACE_ALIGNMENT)
          BY <1>9, <3>5
        <5> QED
          BY <1>7, <3>4, <4>1, <4>2, <5>1, ArcExtends
      <4> QED
        BY <1>5, <2>2, <3>5, <3>7, <4>3
    <3> QED
      BY <1>5, <3>6, <3>7
  <2> QED
    BY <1>5, <2>1, <2>2
<1>15. Placed'
  <2>1. ASSUME NEW i \in 1..n
        PROVE  Separate(live[i], e) /\ Separate(e, live[i])
    <3>1. /\ Disjoint(live[i].hdr, TRACE_ALIGNMENT, e.hdr, TRACE_ALIGNMENT)
          /\ Disjoint(live[i].hdr, TRACE_ALIGNMENT, e.data, size)
          /\ Disjoint(live[i].data, TRACE_ALIGN(live[i].size),
                      e.hdr, TRACE_ALIGNMENT)
          /\ Disjoint(live[i].data, TRACE_ALIGN(live[i].size), e.data, size)
      BY <1>1, <1>6, PendingApart DEF n, size
    <3>2. size = TRACE_ALIGN(e.size)
      BY <1>6 DEF size
    <3> QED
      BY <3>1, <3>2 DEF Separate, Disjoint
  <2>2. \A i \in 1..n : InRing(live[i])
    BY DEF IInv, Placed, n
  <2>3. \A i, j \in 1..n : i # j => Separate(live[i], live[j])
    BY DEF IInv, Placed, n
  <2>4. \A i \in 1..(n + 1) : InRing(live'[i])
    BY <1>5, <1>8, <2>2
  <2>5. \A i, j \in 1..(n + 1) : i # j => Separate(live'[i], live'[j])
    BY <1>5, <2>1, <2>3
  <2> QED
    BY <1>5, <2>4, <2>5 DEF Placed, InRing, Separate
<1>16. PendingFits'
  BY <1>10 DEF PendingFits
<1>17. HeadersWritten'
  <2>1. HeaderIn(mem, e.hdr, e.data, e.size)
    BY <1>1, <1>6 DEF IInv, HeadersWritten
  <2>2. \A i \in 1..n : HeaderIn(mem, live[i].hdr, live[i].data, live[i].size)
    BY DEF IInv, HeadersWritten, n
  <2>3. \A i \in 1..(n + 1) :
          HeaderIn(mem, live'[i].hdr, live'[i].data, live'[i].size)
    BY <1>5, <2>1, <2>2
  <2> QED
    BY <1>4, <1>5, <1>10, <2>3 DEF HeadersWritten
<1>18. ~mem[e.hdr].ready
  BY <1>1, <1>6 DEF IInv, HeadersWritten
<1>19. ReadyFilled'
  <2>1. \A i \in 1..n : mem[live[i].hdr].ready =>
          FilledIn(mem, live[i].data, live[i].size, live[i].payload)
    BY DEF IInv, ReadyFilled, n
  <2>2. \A i \in 1..(n + 1) : mem[live'[i].hdr].ready =>
          FilledIn(mem, live'[i].data, live'[i].size, live'[i].payload)
    BY <1>5, <1>18, <2>1
  <2> QED
    BY <1>4, <1>5, <2>2 DEF ReadyFilled
<1>20. Owners'
  <2>1. \A q \in Producers : Owning(q)' <=> Owning(q) \/ q = p
    BY <1>3 DEF Owning
  <2>2. \A q \in Producers : Event(q)' = Event(q)
    BY <1>4 DEF Event
  <2>3. ASSUME NEW q \in Producers, Owning(q)'
        PROVE  \E i \in 1..(n + 1) :
                 live'[i] = Event(q) /\ ~mem[live'[i].hdr].ready
    <3>1. CASE q = p
      <4>1. n + 1 \in 1..(n + 1)
        BY <1>5
      <4> QED
        BY <1>5, <1>18, <3>1, <4>1 DEF e
    <3>2. CASE q # p
      <4>1. PICK i \in 1..n : live[i] = Event(q) /\ ~mem[live[i].hdr].ready
        BY <2>1, <2>3, <3>2 DEF IInv, Owners, n
      <4> QED
        BY <1>5, <4>1
    <3> QED
      BY <3>1, <3>2
  <2>4. ASSUME NEW i \in 1..(n + 1), ~mem[live'[i].hdr].ready
        PROVE  /\ Owning(live[i].by)'
               /\ push[live'[i].by].slot.hdr = live'[i].hdr
    <3>1. CASE i = n + 1
      BY <1>5, <1>6, <2>1, <3>1
    <3>2. CASE i \in 1..n
      <4>1. live'[i] = live[i] /\ live[i].by \in Producers
        BY <1>5, <3>2, PlaceTypes DEF IInv, n
      <4>2. Owning(live[i].by) /\ push[live[i].by].slot.hdr = live[i].hdr
        BY <2>4, <3>2, <4>1 DEF IInv, Owners, n
      <4> QED
        BY <2>1, <4>1, <4>2
    <3> QED
      BY <1>5, <3>1, <3>2
  <2>5. ASSUME NEW q \in Producers, pc'[q] = "commit"
        PROVE  FilledIn(mem, push[q].slot.data, push[q].size,
                        push[q].payload)
    BY <1>3, <2>5 DEF IInv, Owners
  <2> QED
    BY <1>4, <1>5, <2>2, <2>3, <2>4, <2>5 DEF Owners
<1>21. Readers'
  <2>1. live # <<>> => live'[1] = live[1]
    BY <1>5, PlaceTypes DEF IInv, n
  <2> QED
    BY <1>3, <1>4, <1>5, <2>1 DEF IInv, Readers, Content
<1> QED
  BY <1>11, <1>12, <1>13, <1>14, <1>15, <1>16, <1>17, <1>19, <1>20, <1>21
     DEF IInv

\* _move_rd_ptr removes the oldest event, and only that.
LEMMA MoveRdPtrSafe ==
    ASSUME IInv, TypeOK', NEW c \in Consumers, MoveRdPtr(c)
    PROVE  IInv'
<1> DEFINE n == Len(live)
<1>1. pc[c] = "move" /\ HoldsRd(c)
  BY DEF MoveRdPtr, HoldsRd
<1>2. consOpen
  BY <1>1 DEF ConsumerIdle, ConsumerResults, IInv, HandlesOpen
<1>3. /\ pc'[c] = "unlock"
      /\ \A d \in Consumers \ {c} : pc'[d] = pc[d]
      /\ \A p \in Producers : pc'[p] = pc[p]
  BY ThreadsAssumption DEF MoveRdPtr, Goto, IInv, TypeOK, PcType
<1>4. UNCHANGED <<magic, closed, wr_ptr, wr_lock, rd_lock, mem, prodOpen,
                  consOpen, push, pop>>
  BY DEF MoveRdPtr
<1>5. /\ live # <<>> /\ mem[rd_ptr].ready
      /\ 1 \in 1..n /\ live[1].hdr = rd_ptr /\ rd_ptr # wr_ptr
      /\ HeaderIn(mem, rd_ptr, live[1].data, live[1].size)
  BY <1>1, HeadEvent DEF IInv, Readers
<1>6. rd_ptr' = live[1].next
  <2>1. move_ptr(live[1].data, TRACE_ALIGN(live[1].size)) = live[1].next
    BY <1>5 DEF IInv, Chained
  <2> QED
    BY <1>5, <2>1 DEF MoveRdPtr, HeaderIn
<1>7. /\ n \in Nat /\ n >= 1 /\ Len(live') = n - 1
      /\ \A i \in 1..(n - 1) : i + 1 \in 1..n /\ live'[i] = live[i + 1]
      /\ live' = <<>> <=> n = 1
  <2>1. live \in Seq(EventRecord) /\ n \in Nat /\ n >= 1
    BY <1>5 DEF IInv, TypeOK
  <2>2. live' = SubSeq(live, 2, n)
    BY DEF MoveRdPtr
  <2>3. /\ Len(live') = n - 1
        /\ \A i \in 1..(n - 1) : live'[i] = live[i + 1]
    <3>1. /\ Len(SubSeq(live, 2, n)) = IF 2 <= n THEN n - 2 + 1 ELSE 0
          /\ \A i \in 1..(n - 2 + 1) :
               SubSeq(live, 2, n)[i] = live[2 + i - 1]
      <4>1. \A i \in 2..n : live[i] \in EventRecord
        BY <2>1
      <4> QED
        BY <2>1, <4>1, SubSeqProperties
    <3>2. \A i \in 1..(n - 1) : i \in 1..(n - 2 + 1) /\ 2 + i - 1 = i + 1
      BY <2>1
    <3>3. n - 2 + 1 = n - 1 /\ (2 <= n \/ n - 1 = 0)
      BY <2>1
    <3>4. Len(SubSeq(live, 2, n)) = n - 1
      BY <3>1, <3>3, <2>1
    <3>5. \A i \in 1..(n - 1) : SubSeq(live, 2, n)[i] = live[i + 1]
      BY <3>1, <3>2
    <3> HIDE DEF n
    <3> QED
      BY <2>2, <3>4, <3>5
  <2>4. live' \in Seq(EventRecord)
    BY DEF TypeOK
  <2> QED
    BY <2>1, <2>3, <2>4
<1> HIDE DEF n
<1>8. \A d \in Consumers : pc'[d] \notin {"take", "hold", "move"}
  BY <1>1, <1>3 DEF IInv, LocksExact, HoldsRd
<1>9. HandlesOpen' /\ SizesKnown'
  <2>1. HandlesOpen'
    BY <1>2, <1>3, <1>4
       DEF IInv, HandlesOpen, ProducerIdle, ConsumerIdle
  <2>2. SizesKnown'
    BY <1>3, <1>4 DEF IInv, SizesKnown
  <2> QED
    BY <2>1, <2>2
<1>10. LocksExact'
  <2>1. \A d \in Consumers : HoldsRd(d)' <=> HoldsRd(d)
    BY <1>1, <1>3 DEF HoldsRd
  <2>2. \A p \in Producers : HoldsWr(p)' <=> HoldsWr(p)
    BY <1>3 DEF HoldsWr
  <2> QED
    BY <1>4, <2>1, <2>2 DEF IInv, LocksExact
<1>11. /\ live[n].next = wr_ptr
       /\ \A i \in 1..(n - 1) : live[i].next = live[i + 1].hdr
       /\ \A i \in 1..n :
            move_ptr(live[i].data, TRACE_ALIGN(live[i].size)) = live[i].next
  BY <1>5 DEF IInv, Chained, n
<1>12. Chained'
  <2>1. n = 1 => rd_ptr' = wr_ptr'
    BY <1>4, <1>6, <1>11
  <2>2. n # 1 => /\ live'[1].hdr = rd_ptr'
                 /\ live'[Len(live')].next = wr_ptr'
    <3> SUFFICES ASSUME n # 1
                 PROVE  /\ live'[1].hdr = rd_ptr'
                        /\ live'[n - 1].next = wr_ptr
      BY <1>4, <1>7
    <3>1. 1 \in 1..(n - 1) /\ n - 1 \in 1..(n - 1)
      BY <1>7
    <3>2. live'[1] = live[1 + 1] /\ live'[n - 1] = live[n - 1 + 1]
      BY <1>7, <3>1
    <3>3. n - 1 + 1 = n
      BY <1>7
    <3>4. live[1].next = live[1 + 1].hdr
      BY <1>11, <3>1
    <3> QED
      BY <1>6, <1>11, <3>2, <3>3, <3>4
  <2>3. \A i \in 1..(n - 2) : live'[i].next = live'[i + 1].hdr
    <3> SUFFICES ASSUME NEW i \in 1..(n - 2)
                 PROVE  live'[i].next = live'[i + 1].hdr
      OBVIOUS
    <3>1. i \in 1..(n - 1) /\ i + 1 \in 1..(n - 1)
      BY <1>7
    <3> QED
      BY <1>7, <1>11, <3>1
  <2>4. \A i \in 1..(n - 1) :
          move_ptr(live'[i].data, TRACE_ALIGN(live'[i].size)) = live'[i].next
    BY <1>7, <1>11
  <2>5. Len(live') - 1 = n - 2
    BY <1>7
  <2> QED
    BY <1>7, <2>1, <2>2, <2>3, <2>4, <2>5 DEF Chained
<1>13. Ordered'
  <2> SUFFICES ASSUME NEW i \in 1..(n - 1), NEW j \in 1..(n - 1), i <= j
               PROVE  /\ live'[i].hdr # wr_ptr
                      /\ InArc(live'[i].hdr, wr_ptr, live'[j].hdr,
                               TRACE_ALIGNMENT)
                      /\ InArc(live'[i].hdr, wr_ptr, live'[j].data,
                               TRACE_ALIGN(live'[j].size))
    BY <1>4, <1>7 DEF Ordered, InArc
  <2>1. i + 1 \in 1..n /\ j + 1 \in 1..n /\ i + 1 <= j + 1
    BY <1>7
  <2>2. /\ live[i + 1].hdr # wr_ptr
        /\ InArc(live[i + 1].hdr, wr_ptr, live[j + 1].hdr, TRACE_ALIGNMENT)
        /\ InArc(live[i + 1].hdr, wr_ptr, live[j + 1].data,
                 TRACE_ALIGN(live[j + 1].size))
    BY <2>1 DEF IInv, Ordered, n
  <2> QED
    BY <1>7, <2>2
<1>14. Placed'
  <2>1. \A i \in 1..n : InRing(live[i])
    BY DEF IInv, Placed, n
  <2>2. \A i, j \in 1..n : i # j => Separate(live[i], live[j])
    BY DEF IInv, Placed, n
  <2>3. \A i \in 1..(n - 1) : InRing(live'[i])
    BY <1>7, <2>1
  <2>4. \A i, j \in 1..(n - 1) : i # j => Separate(live'[i], live'[j])
    <3> SUFFICES ASSUME NEW i \in 1..(n - 1), NEW j \in 1..(n - 1), i # j
                 PROVE  Separate(live'[i], live'[j])
      OBVIOUS
    <3>1. i + 1 \in 1..n /\ j + 1 \in 1..n /\ i + 1 # j + 1
      BY <1>7
    <3> QED
      BY <1>7, <2>2, <3>1
  <2> QED
    BY <1>7, <2>3, <2>4 DEF Placed, InRing, Separate
<1>15. PendingFits'
  <2>1. InArc(rd_ptr, wr_ptr, rd_ptr', 0) /\ rd_ptr' \in Addr
    <3>1. /\ rd_ptr \in Addr /\ wr_ptr \in Addr /\ rd_ptr' \in Addr
          /\ TRACE_ALIGNMENT \in Nat
      BY RingConstants DEF IInv, TypeOK
    <3>2. CASE n = 1
      <4>1. rd_ptr' = wr_ptr
        BY <1>6, <1>11, <3>2
      <4> QED
        BY <3>1, <4>1, RingConstants DEF InArc
    <3>3. CASE n # 1
      <4>1. 1 \in 1..(n - 1) /\ 1 + 1 \in 1..n /\ 1 \in 1..n /\ 1 <= 1 + 1
        BY <1>7, <3>3
      <4>2. rd_ptr' = live[1 + 1].hdr
        BY <1>6, <1>11, <4>1
      <4>3. InArc(live[1].hdr, wr_ptr, live[1 + 1].hdr, TRACE_ALIGNMENT)
        BY <4>1 DEF IInv, Ordered, n
      <4>4. InArc(rd_ptr, wr_ptr, rd_ptr', TRACE_ALIGNMENT)
        BY <1>5, <4>2, <4>3
      <4> QED
        BY <3>1, <4>4, RingConstants DEF InArc
    <3> QED
      BY <3>2, <3>3
  <2>2. ASSUME NEW p \in Producers, pc'[p] \in {"prepare", "publish"}
        PROVE  /\ Fits(rd_ptr', wr_ptr, push[p].slot.hdr, push[p].slot.data,
                       push[p].slot.next, TRACE_ALIGN(push[p].size))
               /\ InRing(Event(p))
               /\ move_ptr(push[p].slot.data, TRACE_ALIGN(push[p].size))
                    = push[p].slot.next
    <3>1. /\ Fits(rd_ptr, wr_ptr, push[p].slot.hdr, push[p].slot.data,
                  push[p].slot.next, TRACE_ALIGN(push[p].size))
          /\ InRing(Event(p))
          /\ move_ptr(push[p].slot.data, TRACE_ALIGN(push[p].size))
               = push[p].slot.next
      BY <1>3, <2>2 DEF IInv, PendingFits
    <3>2. /\ push[p].slot.hdr \in Addr /\ push[p].slot.data \in Addr
          /\ push[p].slot.next \in Addr /\ TRACE_ALIGN(push[p].size) \in Nat
          /\ rd_ptr \in Addr /\ wr_ptr \in Addr
      BY PlaceTypes DEF IInv, TypeOK
    <3>3. Fits(rd_ptr', wr_ptr, push[p].slot.hdr, push[p].slot.data,
               push[p].slot.next, TRACE_ALIGN(push[p].size))
      BY <2>1, <3>1, <3>2, FitsMonotone
    <3> QED
      BY <3>1, <3>3
  <2> QED
    BY <1>4, <2>2 DEF PendingFits, Fits, InRing, Event
<1>16. HeadersWritten'
  <2>1. \A i \in 1..n : HeaderIn(mem, live[i].hdr, live[i].data, live[i].size)
    BY DEF IInv, HeadersWritten, n
  <2>2. \A i \in 1..(n - 1) :
          HeaderIn(mem, live'[i].hdr, live'[i].data, live'[i].size)
    BY <1>7, <2>1
  <2>3. \A p \in Producers : pc'[p] = "publish" =>
          /\ HeaderIn(mem, push[p].slot.hdr, push[p].slot.data, push[p].size)
          /\ ~mem[push[p].slot.hdr].ready
    BY <1>3 DEF IInv, HeadersWritten
  <2> QED
    BY <1>4, <1>7, <2>2, <2>3 DEF HeadersWritten
<1>17. ReadyFilled'
  <2>1. \A i \in 1..n : mem[live[i].hdr].ready =>
          FilledIn(mem, live[i].data, live[i].size, live[i].payload)
    BY DEF IInv, ReadyFilled, n
  <2>2. \A i \in 1..(n - 1) : mem[live'[i].hdr].ready =>
          FilledIn(mem, live'[i].data, live'[i].size, live'[i].payload)
    BY <1>7, <2>1
  <2> QED
    BY <1>4, <1>7, <2>2 DEF ReadyFilled
<1>18. Owners'
  <2>1. \A q \in Producers : Owning(q)' <=> Owning(q)
    BY <1>3 DEF Owning
  <2>2. \A q \in Producers : Event(q)' = Event(q)
    BY <1>4 DEF Event
  <2>3. ASSUME NEW q \in Producers, Owning(q)'
        PROVE  \E i \in 1..(n - 1) :
                 live'[i] = Event(q) /\ ~mem[live'[i].hdr].ready
    <3>1. PICK i \in 1..n : live[i] = Event(q) /\ ~mem[live[i].hdr].ready
      BY <2>1, <2>3 DEF IInv, Owners, n
    <3>2. i # 1
      BY <1>5, <3>1
    <3>3. i - 1 \in 1..(n - 1) /\ i - 1 + 1 = i
      BY <1>7, <3>2
    <3>4. live'[i - 1] = live[i]
      BY <1>7, <3>3
    <3> QED
      BY <3>1, <3>3, <3>4
  <2>4. ASSUME NEW i \in 1..(n - 1), ~mem[live'[i].hdr].ready
        PROVE  /\ Owning(live[i].by)'
               /\ push[live'[i].by].slot.hdr = live'[i].hdr
    <3>1. /\ i + 1 \in 1..n /\ live'[i] = live[i + 1]
          /\ live[i + 1].by \in Producers
      BY <1>7, PlaceTypes DEF IInv, n
    <3>2. /\ Owning(live[i + 1].by)
          /\ push[live[i + 1].by].slot.hdr = live[i + 1].hdr
      BY <2>4, <3>1 DEF IInv, Owners, n
    <3> QED
      BY <2>1, <3>1, <3>2
  <2>5. ASSUME NEW q \in Producers, pc'[q] = "commit"
        PROVE  FilledIn(mem, push[q].slot.data, push[q].size,
                        push[q].payload)
    BY <1>3, <2>5 DEF IInv, Owners
  <2> QED
    BY <1>4, <1>7, <2>2, <2>3, <2>4, <2>5 DEF Owners
<1>19. Readers'
  BY <1>8 DEF Readers
<1> QED
  BY <1>9, <1>10, <1>12, <1>13, <1>14, <1>15, <1>16, <1>17, <1>18, <1>19
     DEF IInv

-----------------------------------------------------------------------------
(* Every step keeps the invariant, and what it says.                       *)

\* Every access of every thread keeps the invariant.
LEMMA SafeStep ==
    ASSUME NoSizeWrap
    PROVE  IInv /\ [Next]_vars => IInv'
<1> SUFFICES ASSUME IInv, [Next]_vars PROVE IInv'
  OBVIOUS
<1>1. TypeOK'
  BY TypeStep DEF IInv
<1>2. ASSUME NEW p \in Producers, PushStep(p) PROVE IInv'
  BY <1>1, <1>2, QuietProducerSafe, PrepareHdrSafe, PublishSafe, CopyDataSafe,
     CommitEventSafe DEF PushStep
<1>3. ASSUME NEW c \in Consumers, PopStep(c) PROVE IInv'
  BY <1>1, <1>3, QuietConsumerSafe, MoveRdPtrSafe DEF PopStep
<1>4. CASE Next
  BY <1>1, <1>2, <1>3, <1>4, QuietProducerSafe, QuietConsumerSafe, HandlesSafe
     DEF Next
<1>5. CASE UNCHANGED vars
  BY <1>5 DEF vars, IInv, TypeOK, PcType, HandlesOpen, SizesKnown, LocksExact,
     Chained, Ordered, Placed, PendingFits, HeadersWritten, ReadyFilled,
     Owners, Readers, ProducerIdle, ConsumerIdle, HoldsWr, HoldsRd, InArc,
     InRing, Separate, Fits, Event, HeaderIn, FilledIn, Owning, Content
<1> QED
  BY <1>4, <1>5

\* The invariant holds in every reachable state.
LEMMA Safe ==
    ASSUME NoSizeWrap
    PROVE  Spec => []IInv
BY InitSafe, SafeStep, PTL DEF Spec

\* The positions of the events.
LEMMA LivePositions ==
    ASSUME TypeOK
    PROVE  DOMAIN live = 1..Len(live)
BY DEF TypeOK

\* Events placed on the arc one after the other share no byte.
LEMMA ImpliesNoOverlap == IInv => NoOverlap
<1> SUFFICES ASSUME IInv PROVE NoOverlap
  OBVIOUS
<1>1. DOMAIN live = 1..Len(live)
  BY LivePositions DEF IInv
<1>2. /\ \A i \in 1..Len(live) : InRing(live[i])
      /\ \A i, j \in 1..Len(live) : i # j => Separate(live[i], live[j])
  BY DEF IInv, Placed
<1>3. ASSUME NEW p \in Producers, pc[p] \in {"prepare", "publish"}
      PROVE  /\ InRing(Event(p))
             /\ \A i \in 1..Len(live) : Separate(Event(p), live[i])
  <2>1. InRing(Event(p))
    BY <1>3 DEF IInv, PendingFits
  <2>2. ASSUME NEW i \in 1..Len(live) PROVE Separate(Event(p), live[i])
    <3>1. /\ Event(p).hdr = push[p].slot.hdr
          /\ Event(p).data = push[p].slot.data
          /\ Event(p).size = push[p].size
      BY DEF Event
    <3> HIDE DEF Event
    <3> QED
      BY <1>3, <3>1, PendingApart DEF Separate, Disjoint
  <2> QED
    BY <2>1, <2>2
<1> QED
  BY <1>1, <1>2, <1>3 DEF NoOverlap

\* The chain of events starts at rd_ptr and ends at wr_ptr.
LEMMA ImpliesPointersChain == IInv => PointersChain
<1> SUFFICES ASSUME IInv PROVE PointersChain
  OBVIOUS
<1>1. DOMAIN live = 1..Len(live)
  BY LivePositions DEF IInv
<1>2. live # <<>> => rd_ptr # wr_ptr
  BY HeadEvent
<1> QED
  BY <1>1, <1>2 DEF IInv, Chained, PointersChain

\* Headers on bytes of their own keep what was written to them.
LEMMA ImpliesEventsIntact == IInv => EventsIntact
<1> SUFFICES ASSUME IInv, NEW i \in DOMAIN live
             PROVE  /\ mem[live[i].hdr].data_ptr = live[i].data
                    /\ mem[live[i].hdr].data_size = live[i].size
                    /\ mem[live[i].hdr].ready =>
                         Bytes(live[i].data, live[i].size) = Content(live[i])
  BY DEF EventsIntact
<1>1. i \in 1..Len(live) /\ live[i] \in EventRecord
  BY LivePositions, PlaceTypes DEF IInv
<1>2. HeaderIn(mem, live[i].hdr, live[i].data, live[i].size)
  BY <1>1 DEF IInv, HeadersWritten
<1>3. mem[live[i].hdr].ready =>
        FilledIn(mem, live[i].data, live[i].size, live[i].payload)
  BY <1>1 DEF IInv, ReadyFilled
<1> QED
  BY <1>1, <1>2, <1>3, FilledBytes DEF HeaderIn

\* The consumer that holds rd_lock holds the oldest event.
LEMMA ImpliesDeliveredIsHead == IInv => DeliveredIsHead
<1> SUFFICES ASSUME IInv, NEW c \in Consumers, pc[c] \in {"hold", "move"}
             PROVE  /\ live # <<>>
                    /\ live[1].hdr = rd_ptr
                    /\ pop[c].out = Content(live[1])
                    /\ Bytes(live[1].data, live[1].size) = Content(live[1])
  BY DEF DeliveredIsHead
<1>1. live # <<>> /\ mem[rd_ptr].ready /\ pop[c].out = Content(live[1])
  BY DEF IInv, Readers
<1> QED
  BY <1>1, HeadEvent

\* An event that is not ready has a push that will commit it.
LEMMA ImpliesPendingIsOwned == IInv => PendingIsOwned
BY LivePositions DEF IInv, Owners, Owning, PendingIsOwned

\* _allocate_event never places an event on bytes in use, though it works
\* with a copy of rd_ptr that consumers have left behind.
THEOREM NoOverlapCorrect ==
    ASSUME NoSizeWrap
    PROVE  Spec => []NoOverlap
BY Safe, ImpliesNoOverlap, PTL

\* The events stored form one chain from rd_ptr to wr_ptr; equal pointers mean
\* an empty ring, never a full one.
THEOREM PointersChainCorrect ==
    ASSUME NoSizeWrap
    PROVE  Spec => []PointersChain
BY Safe, ImpliesPointersChain, PTL

\* The spin locks exclude, and no return path of the push and pop functions
\* leaks one.
THEOREM LocksCorrect ==
    ASSUME NoSizeWrap
    PROVE  Spec => []LocksExact
<1>1. IInv => LocksExact
  BY DEF IInv
<1> QED
  BY <1>1, Safe, PTL

\* No consistency check of trace.c fires on a ring its own functions wrote.
THEOREM ValidCorrect ==
    ASSUME NoSizeWrap
    PROVE  Spec => []NeverInvalidated
<1>1. IInv => NeverInvalidated
  BY DEF IInv, HandlesOpen, NeverInvalidated
<1> QED
  BY <1>1, Safe, PTL

\* Headers keep what _prepare_hdr wrote, and an event marked ready is complete.
THEOREM EventsIntactCorrect ==
    ASSUME NoSizeWrap
    PROVE  Spec => []EventsIntact
BY Safe, ImpliesEventsIntact, PTL

\* A consumer gets the oldest event, complete, until it releases it.
THEOREM DeliveredIsHeadCorrect ==
    ASSUME NoSizeWrap
    PROVE  Spec => []DeliveredIsHead
BY Safe, ImpliesDeliveredIsHead, PTL

\* Every event that blocks the consumers is about to be committed.
THEOREM PendingIsOwnedCorrect ==
    ASSUME NoSizeWrap
    PROVE  Spec => []PendingIsOwned
BY Safe, ImpliesPendingIsOwned, PTL

\* A push into a ring that is valid never returns -EINVAL.
THEOREM EinvalCorrect ==
    ASSUME NoSizeWrap
    PROVE  Spec => EinvalMeansInvalid
<1>1. ASSUME IInv, NEW p \in Producers, CopyData(p), pc'[p] = "EINVAL"
      PROVE  FALSE
  <2>1. Owning(p)
    BY <1>1 DEF CopyData, Owning
  <2>2. integrity_check(mem[push[p].slot.hdr].data_ptr,
                        mem[push[p].slot.hdr].data_size)
    BY <1>1, <2>1, OwnEvent DEF HeaderIn
  <2>3. Goto(p, "commit")
    BY <1>1, <2>2 DEF CopyData
  <2>4. p \in DOMAIN pc
    BY <1>1 DEF IInv, TypeOK, PcType
  <2> QED
    BY <1>1, <2>3, <2>4 DEF Goto
<1>2. IInv => [\A p \in Producers : CopyData(p) /\ pc'[p] = "EINVAL"
                 => ~magic]_vars
  BY <1>1
<1> QED
  BY <1>2, Safe, PTL DEF EinvalMeansInvalid

-----------------------------------------------------------------------------
(* What is read without a lock: get_free_space for one producer thread,    *)
(* is_empty for one consumer thread.                                       *)

\* A lone producer has read a wr_ptr that is still the same, and what it
\* computed from it has only become an understatement.
FreeSpaceKnown ==
    \A p \in Producers :
        /\ pc[p] = "free_rd" => push[p].slot.next = wr_ptr
        /\ pc[p] = "free" => /\ push[p].free >= 0
                             /\ push[p].free <= get_free_space(rd_ptr, wr_ptr)

\* A lone consumer has read an rd_ptr that is still the same.
ReadPtrKnown ==
    \A c \in Consumers : pc[c] = "empty_wr" => pop[c].rdp = rd_ptr

\* Between nothing and all but one byte of the ring is free.
LEMMA FreeSpaceBounds ==
    ASSUME NEW rdp \in Addr, NEW wrp \in Addr
    PROVE  /\ get_free_space(rdp, wrp) \in Int
           /\ 0 <= get_free_space(rdp, wrp)
           /\ get_free_space(rdp, wrp) <= ring_size - 1
           /\ get_free_space(rdp, rdp) = ring_size - 1
BY RingConstants DEF get_free_space

\* Removing an event frees space.
LEMMA FreeSpaceGrows ==
    ASSUME NEW rdp \in Addr, NEW wrp \in Addr, rdp # wrp,
           NEW h \in Addr, InArc(rdp, wrp, h, TRACE_ALIGNMENT)
    PROVE  get_free_space(rdp, wrp) <= get_free_space(h, wrp)
BY RingConstants DEF get_free_space, InArc

\* _move_rd_ptr never takes space away.
LEMMA FreeSpaceMove ==
    ASSUME IInv, NEW c \in Consumers, MoveRdPtr(c)
    PROVE  get_free_space(rd_ptr, wr_ptr) <= get_free_space(rd_ptr', wr_ptr)
<1> DEFINE n == Len(live)
<1>1. /\ live # <<>> /\ 1 \in 1..n /\ live[1].hdr = rd_ptr /\ rd_ptr # wr_ptr
      /\ HeaderIn(mem, rd_ptr, live[1].data, live[1].size)
  BY HeadEvent DEF IInv, Readers, MoveRdPtr
<1>2. rd_ptr' = live[1].next
  <2>1. move_ptr(live[1].data, TRACE_ALIGN(live[1].size)) = live[1].next
    BY <1>1 DEF IInv, Chained
  <2> QED
    BY <1>1, <2>1 DEF MoveRdPtr, HeaderIn
<1>3. rd_ptr \in Addr /\ wr_ptr \in Addr /\ n \in Nat
  BY PlaceTypes DEF IInv, TypeOK
<1>4. CASE n = 1
  <2>1. live[1].next = wr_ptr
    BY <1>1, <1>4 DEF IInv, Chained
  <2> QED
    BY <1>2, <1>3, <2>1, FreeSpaceBounds
<1>5. CASE n # 1
  <2> HIDE DEF n
  <2>1. 1 \in 1..(n - 1) /\ 2 \in 1..n
    BY <1>1, <1>3, <1>5
  <2>2. live[1].next = live[2].hdr /\ live[2].hdr \in Addr
    BY <2>1, PlaceTypes DEF IInv, Chained, n
  <2>3. InArc(rd_ptr, wr_ptr, live[2].hdr, TRACE_ALIGNMENT)
    BY <1>1, <2>1 DEF IInv, Ordered, n
  <2> QED
    BY <1>1, <1>2, <1>3, <2>2, <2>3, FreeSpaceGrows
<1> QED
  BY <1>4, <1>5

\* No other step of a consumer moves a pointer, and none is a step of a
\* producer.
LEMMA ConsumerLeaves ==
    ASSUME IInv, NEW c \in Consumers,
           \/ PopStep(c) \/ IsEmptyReadRd(c)
           \/ \E api \in ConsumerApis, cap \in BufSizes : PopCall(c, api, cap)
    PROVE  /\ UNCHANGED <<wr_ptr, push>>
           /\ \A p \in Producers : pc'[p] = pc[p]
           /\ MoveRdPtr(c) \/ rd_ptr' = rd_ptr
<1>1. c \notin Producers
  BY ThreadsAssumption
<1>2. \A l : Goto(c, l) => \A p \in Producers : pc'[p] = pc[p]
  BY <1>1 DEF Goto, IInv, TypeOK, PcType
<1>3. ASSUME NEW api \in ConsumerApis, NEW cap \in BufSizes, PopCall(c, api, cap)
      PROVE  /\ UNCHANGED <<wr_ptr, push, rd_ptr>>
             /\ \A p \in Producers : pc'[p] = pc[p]
  BY <1>2, <1>3 DEF PopCall, hdrVars
<1>4. CASE IsEmptyReadRd(c)
  BY <1>2, <1>4 DEF IsEmptyReadRd, hdrVars
<1>5. CASE PopStep(c)
  BY <1>2, <1>5 DEF PopStep, hdrVars, TryLockRd, GetRdHdr, NoEvent, TakeEvent,
     ReleaseCall, MoveRdPtr, UnlockRd, IsEmptyReadWr
<1> QED
  BY <1>3, <1>4, <1>5

\* What a lone producer knows of the free space stays true.
LEMMA FreeSpaceStep ==
    ASSUME \A p, q \in Producers : p = q
    PROVE  IInv /\ FreeSpaceKnown /\ [Next]_vars => FreeSpaceKnown'
<1> SUFFICES ASSUME IInv, FreeSpaceKnown, [Next]_vars PROVE FreeSpaceKnown'
  OBVIOUS
<1>1. rd_ptr \in Addr /\ wr_ptr \in Addr /\ push \in [Producers -> PushRecord]
  BY DEF IInv, TypeOK
<1>2. ASSUME NEW c \in Consumers,
             \/ PopStep(c) \/ IsEmptyReadRd(c)
             \/ \E api \in ConsumerApis, cap \in BufSizes : PopCall(c, api, cap)
      PROVE  FreeSpaceKnown'
  <2>1. /\ UNCHANGED <<wr_ptr, push>>
        /\ \A p \in Producers : pc'[p] = pc[p]
        /\ MoveRdPtr(c) \/ rd_ptr' = rd_ptr
    BY <1>2, ConsumerLeaves
  <2>2. CASE rd_ptr' = rd_ptr
    BY <2>1, <2>2 DEF FreeSpaceKnown
  <2>3. CASE MoveRdPtr(c)
    <3>1. TypeOK'
      BY TypeStep DEF IInv
    <3>2. /\ get_free_space(rd_ptr, wr_ptr) \in Int
          /\ get_free_space(rd_ptr', wr_ptr) \in Int
          /\ get_free_space(rd_ptr, wr_ptr) <= get_free_space(rd_ptr', wr_ptr)
      BY <1>1, <2>3, <3>1, FreeSpaceMove, FreeSpaceBounds DEF TypeOK
    <3>3. \A p \in Producers : push[p].free \in Int
      BY <1>1 DEF PushRecord
    <3> QED
      BY <2>1, <3>2, <3>3 DEF FreeSpaceKnown
  <2> QED
    BY <2>1, <2>2, <2>3
<1>3. ASSUME NEW p \in Producers,
             \/ PushStep(p) \/ FreeSpaceReadWr(p)
             \/ \E api \in ProducerApis, s \in Sizes, v \in Payloads :
                    PushCall(p, api, s, v)
      PROVE  FreeSpaceKnown'
  <2>1. \A q \in Producers : q = p
    OBVIOUS
  <2>2. \A l : Goto(p, l) => pc'[p] = l
    BY DEF Goto, IInv, TypeOK, PcType
  <2>3. CASE FreeSpaceReadWr(p)
    <3>1. UNCHANGED <<rd_ptr, wr_ptr>>
      BY <2>3 DEF FreeSpaceReadWr, hdrVars
    <3>2. \/ pc'[p] = "EINVAL"
          \/ pc'[p] = "free_rd" /\ push'[p].slot.next = wr_ptr
      BY <1>1, <2>2, <2>3 DEF FreeSpaceReadWr, NoPush, NoHandle
    <3> QED
      BY <2>1, <3>1, <3>2 DEF FreeSpaceKnown
  <2>4. CASE FreeSpaceReadRd(p)
    <3>1. UNCHANGED <<rd_ptr, wr_ptr>> /\ pc'[p] = "free"
      BY <2>2, <2>4 DEF FreeSpaceReadRd, hdrVars
    <3>2. push'[p].free = get_free_space(rd_ptr, push[p].slot.next)
      BY <1>1, <2>4 DEF FreeSpaceReadRd, NoPush
    <3>3. push[p].slot.next = wr_ptr
      BY <2>4 DEF FreeSpaceReadRd, FreeSpaceKnown
    <3> QED
      BY <1>1, <2>1, <3>1, <3>2, <3>3, FreeSpaceBounds DEF FreeSpaceKnown
  <2>5. CASE TryLockWr(p) /\ pc' = pc
    <3>1. pc[p] = "lock"
      BY <2>5 DEF TryLockWr
    <3> QED
      BY <2>1, <2>5, <3>1 DEF FreeSpaceKnown
  <2>6. CASE ~FreeSpaceReadWr(p) /\ ~FreeSpaceReadRd(p) /\ ~(TryLockWr(p) /\ pc' = pc)
    <3>1. pc'[p] \notin {"free_rd", "free"}
      BY <1>3, <2>2, <2>6 DEF PushStep, PushCall, TryLockWr, TryLockWrGiveUp,
         AllocateEvent, PrepareHdr, PublishWrPtr, UnlockWr, CountLost, CopyData,
         CommitEvent
    <3> QED
      BY <2>1, <3>1 DEF FreeSpaceKnown
  <2> QED
    BY <2>3, <2>4, <2>5, <2>6
<1>4. CASE OpenProducer
  <2>1. \A p \in Producers : pc[p] # "free_rd"
    BY <1>4 DEF OpenProducer, IInv, HandlesOpen, ProducerIdle, ProducerResults
  <2>2. /\ push' = push /\ pc' = pc
        /\ get_free_space(rd_ptr', wr_ptr') = ring_size - 1
    BY <1>4, RingConstants, FreeSpaceBounds DEF OpenProducer
  <2>3. \A p \in Producers : push[p].free \in Int
    BY <1>1 DEF PushRecord
  <2>4. /\ get_free_space(rd_ptr, wr_ptr) <= ring_size - 1
        /\ get_free_space(rd_ptr, wr_ptr) \in Int /\ ring_size \in Nat
    BY <1>1, FreeSpaceBounds, RingConstants
  <2> QED
    BY <2>1, <2>2, <2>3, <2>4 DEF FreeSpaceKnown
<1>5. CASE UNCHANGED <<pc, push, wr_ptr, rd_ptr>>
  BY <1>5 DEF FreeSpaceKnown
<1>6. \/ UNCHANGED <<pc, push, wr_ptr, rd_ptr>> \/ OpenProducer
      \/ \E p \in Producers :
           \/ PushStep(p) \/ FreeSpaceReadWr(p)
           \/ \E api \in ProducerApis, s \in Sizes, v \in Payloads :
                  PushCall(p, api, s, v)
      \/ \E c \in Consumers :
           \/ PopStep(c) \/ IsEmptyReadRd(c)
           \/ \E api \in ConsumerApis, cap \in BufSizes : PopCall(c, api, cap)
  BY DEF Next, vars, OpenConsumer, CloseProducer, CloseConsumer, AddLost, hdrVars
<1> QED
  BY <1>2, <1>3, <1>4, <1>5, <1>6

\* get_free_space never promises a lone producer more than is free, however
\* consumers move rd_ptr between its two reads and afterwards.
THEOREM FreeSpaceCorrect ==
    ASSUME NoSizeWrap, \A p, q \in Producers : p = q
    PROVE  Spec => []FreeSpaceSafe
<1>1. Init => FreeSpaceKnown
  BY DEF Init, FreeSpaceKnown
<1>2. FreeSpaceKnown => FreeSpaceSafe
  BY DEF FreeSpaceKnown, FreeSpaceSafe
<1> QED
  BY <1>1, <1>2, Safe, FreeSpaceStep, PTL DEF Spec

\* What a lone consumer has read of rd_ptr stays true.
LEMMA ReadPtrStep ==
    ASSUME \A c, d \in Consumers : c = d
    PROVE  IInv /\ ReadPtrKnown /\ [Next]_vars => ReadPtrKnown'
<1> SUFFICES ASSUME IInv, ReadPtrKnown, [Next]_vars PROVE ReadPtrKnown'
  OBVIOUS
<1>1. pop \in [Consumers -> PopRecord]
  BY DEF IInv, TypeOK
<1>2. ASSUME NEW c \in Consumers,
             \/ PopStep(c) \/ IsEmptyReadRd(c)
             \/ \E api \in ConsumerApis, cap \in BufSizes : PopCall(c, api, cap)
      PROVE  ReadPtrKnown'
  <2>1. \A d \in Consumers : d = c
    OBVIOUS
  <2>2. \A l : Goto(c, l) => pc'[c] = l
    BY DEF Goto, IInv, TypeOK, PcType
  <2>3. CASE IsEmptyReadRd(c)
    <3>1. \/ pc'[c] = "EINVAL" 
          \/ pc'[c] = "empty_wr" /\ pop'[c].rdp = rd_ptr
      BY <1>1, <2>2, <2>3 DEF IsEmptyReadRd, NoPop
    <3>2. rd_ptr' = rd_ptr
      BY <2>3 DEF IsEmptyReadRd, hdrVars
    <3> QED
      BY <2>1, <3>1, <3>2 DEF ReadPtrKnown
  <2>4. CASE ~IsEmptyReadRd(c)
    <3>1. CASE UnlockRd(c)
      <4>1. pc'[c] = pop[c].res
        BY <2>2, <3>1 DEF UnlockRd
      <4>2. pop[c].res \in ConsumerResults
        BY <1>1 DEF PopRecord
      <4> QED
        BY <2>1, <4>1, <4>2 DEF ConsumerResults, ReadPtrKnown
    <3>2. CASE ~UnlockRd(c)
      <4>1. pc'[c] # "empty_wr"
        BY <1>2, <2>2, <2>4, <3>2 DEF PopStep, PopCall, TryLockRd, GetRdHdr, NoEvent,
           TakeEvent, ReleaseCall, MoveRdPtr, IsEmptyReadWr
      <4> QED
        BY <2>1, <4>1 DEF ReadPtrKnown
    <3> QED
      BY <3>1, <3>2
  <2> QED
    BY <2>3, <2>4
<1>3. ASSUME NEW p \in Producers,
             \/ PushStep(p) \/ FreeSpaceReadWr(p)
             \/ \E api \in ProducerApis, s \in Sizes, v \in Payloads :
                    PushCall(p, api, s, v)
      PROVE  ReadPtrKnown'
  <2>1. \A l : Goto(p, l) => \A c \in Consumers : pc'[c] = pc[c]
    BY ThreadsAssumption DEF Goto, IInv, TypeOK, PcType
  <2>2. UNCHANGED <<rd_ptr, pop>> /\ \A c \in Consumers : pc'[c] = pc[c]
    BY <1>3, <2>1 DEF PushStep, PushCall, FreeSpaceReadWr, TryLockWr, TryLockWrGiveUp,
       AllocateEvent, PrepareHdr, PublishWrPtr, UnlockWr, CountLost, CopyData,
       CommitEvent, FreeSpaceReadRd, hdrVars
  <2> QED
    BY <2>2 DEF ReadPtrKnown
<1>4. CASE OpenProducer
  <2>1. \A c \in Consumers : pc[c] # "empty_wr"
    BY <1>4 DEF OpenProducer, IInv, HandlesOpen, ConsumerIdle, ConsumerResults
  <2> QED
    BY <1>4, <2>1 DEF OpenProducer, ReadPtrKnown
<1>5. CASE UNCHANGED <<pc, pop, rd_ptr>>
  BY <1>5 DEF ReadPtrKnown
<1>6. \/ UNCHANGED <<pc, pop, rd_ptr>> \/ OpenProducer
      \/ \E p \in Producers :
           \/ PushStep(p) \/ FreeSpaceReadWr(p)
           \/ \E api \in ProducerApis, s \in Sizes, v \in Payloads :
                  PushCall(p, api, s, v)
      \/ \E c \in Consumers :
           \/ PopStep(c) \/ IsEmptyReadRd(c)
           \/ \E api \in ConsumerApis, cap \in BufSizes : PopCall(c, api, cap)
  BY DEF Next, vars, OpenConsumer, CloseProducer, CloseConsumer, AddLost, hdrVars
<1> QED
  BY <1>2, <1>3, <1>4, <1>5, <1>6

\* is_empty tells a lone consumer that the ring is empty only when it is, though
\* it reads the pointers one after the other without a lock.
THEOREM EmptyCorrect ==
    ASSUME NoSizeWrap, \A c, d \in Consumers : c = d
    PROVE  Spec => EmptyIsEmpty
<1>1. Init => ReadPtrKnown
  BY DEF Init, ReadPtrKnown
<1>2. IInv /\ ReadPtrKnown =>
        [\A c \in Consumers : IsEmptyReadWr(c) /\ pc'[c] = "empty" => live = <<>>]_vars
  <2> SUFFICES ASSUME IInv, ReadPtrKnown, NEW c \in Consumers, IsEmptyReadWr(c),
                      pc'[c] = "empty"
               PROVE  live = <<>>
    OBVIOUS
  <2>1. pc[c] = "empty_wr" /\ pop[c].rdp = rd_ptr
    BY DEF IsEmptyReadWr, ReadPtrKnown
  <2>2. pop[c].rdp = wr_ptr
    BY DEF IsEmptyReadWr, Goto, IInv, TypeOK, PcType
  <2> QED
    BY <2>1, <2>2, ImpliesPointersChain DEF PointersChain
<1> QED
  BY <1>1, <1>2, Safe, ReadPtrStep, PTL DEF Spec, EmptyIsEmpty

-----------------------------------------------------------------------------
(* What the queue needs to know beyond the invariant of the ring.          *)

\* An event is made of what the caller pushed, on a trace that is not closed.
Known ==
    /\ \A p \in Producers : pc[p] \in {"lock", "alloc", "prepare", "publish"}
         => push[p].size \in Sizes /\ push[p].payload \in Payloads
    /\ prodOpen => ~closed

\* A step of a producer thread that begins no event keeps Known.
LEMMA KnownProducer ==
    ASSUME TypeOK, Known, NEW p \in Producers, NEW l \in ProducerLabels,
           Goto(p, l), UNCHANGED <<prodOpen, closed>>,
           \A q \in Producers \ {p} : push'[q] = push[q],
           l \in {"lock", "alloc", "prepare", "publish"} =>
             push'[p].size \in Sizes /\ push'[p].payload \in Payloads
    PROVE  Known'
<1>1. pc'[p] = l /\ \A q \in Producers \ {p} : pc'[q] = pc[q]
  BY DEF Goto, TypeOK, PcType
<1> QED
  BY <1>1 DEF Known

\* Every step of every thread keeps Known.
LEMMA KnownStep == TypeOK /\ Known /\ [Next]_vars => Known'
<1> SUFFICES ASSUME TypeOK, Known, [Next]_vars PROVE Known'
  OBVIOUS
<1> USE DEF ProducerLabels, ProducerResults, ProducerSteps
<1>1. ASSUME UNCHANGED <<push, prodOpen, closed>>,
             \A p \in Producers : pc'[p] = pc[p]
      PROVE  Known'
  BY <1>1 DEF Known
<1>2. ASSUME NEW c \in Consumers, PopStep(c) \/ IsEmptyReadRd(c)
                \/ \E api \in ConsumerApis, cap \in BufSizes :
                      PopCall(c, api, cap)
      PROVE  Known'
  <2>1. UNCHANGED <<push, prodOpen, closed>>
    BY <1>2 DEF PopStep, TryLockRd, GetRdHdr, NoEvent, TakeEvent, ReleaseCall,
       MoveRdPtr, UnlockRd, IsEmptyReadWr, IsEmptyReadRd, PopCall, hdrVars
  <2>2. \E l : Goto(c, l)
    BY <1>2 DEF PopStep, TryLockRd, GetRdHdr, NoEvent, TakeEvent, ReleaseCall,
       MoveRdPtr, UnlockRd, IsEmptyReadWr, IsEmptyReadRd, PopCall
  <2>3. \A p \in Producers : pc'[p] = pc[p]
    BY <2>2, ThreadsAssumption DEF Goto, TypeOK, PcType
  <2> QED
    BY <1>1, <2>1, <2>3
<1>3. ASSUME NEW p \in Producers, PushStep(p) PROVE Known'
  <2>a. push \in [Producers -> PushRecord] /\ push[p] \in PushRecord
    BY DEF TypeOK
  <2>1. CASE TryLockWr(p)
    <3>1. /\ \A q \in Producers \ {p} : push'[q] = push[q]
          /\ push'[p].size = push[p].size
          /\ push'[p].payload = push[p].payload
      BY <2>a, <2>1 DEF TryLockWr, PushRecord
    <3>2. push[p].size \in Sizes /\ push[p].payload \in Payloads
      BY <2>1 DEF TryLockWr, Known
    <3>3. CASE wr_lock
      BY <1>1, <2>1, <3>1, <3>2, <3>3 DEF TryLockWr, Known
    <3>4. CASE ~wr_lock
      <4>1. Goto(p, "alloc")
        BY <2>1, <3>4 DEF TryLockWr
      <4> QED
        BY <2>1, <3>1, <3>2, <4>1, KnownProducer DEF TryLockWr
    <3> QED
      BY <3>3, <3>4
  <2>2. CASE TryLockWrGiveUp(p)
    BY <2>a, <2>2, KnownProducer DEF TryLockWrGiveUp, hdrVars
  <2>3. CASE AllocateEvent(p)
    <3>1. PICK l \in {"prepare", "fail"} : Goto(p, l)
      BY <2>3 DEF AllocateEvent
    <3>2. /\ \A q \in Producers \ {p} : push'[q] = push[q]
          /\ push'[p].size = push[p].size
          /\ push'[p].payload = push[p].payload
      BY <2>a, <2>3 DEF AllocateEvent, PushRecord
    <3>3. push[p].size \in Sizes /\ push[p].payload \in Payloads
      BY <2>3 DEF AllocateEvent, Known
    <3> QED
      BY <2>3, <3>1, <3>2, <3>3, KnownProducer DEF AllocateEvent
  <2>4. CASE PrepareHdr(p)
    BY <2>4, KnownProducer DEF PrepareHdr, hdrVars, Known
  <2>5. CASE PublishWrPtr(p)
    BY <2>5, KnownProducer DEF PublishWrPtr
  <2>6. CASE UnlockWr(p)
    <3>1. PICK l \in {"copy", "lost"} : Goto(p, l)
      BY <2>6 DEF UnlockWr
    <3> QED
      BY <2>6, <3>1, KnownProducer DEF UnlockWr
  <2>7. CASE CountLost(p)
    BY <2>a, <2>7, KnownProducer DEF CountLost
  <2>8. CASE CopyData(p)
    <3>1. PICK l \in {"commit", "EINVAL"} : Goto(p, l)
      BY <2>8 DEF CopyData
    <3>2. \A q \in Producers \ {p} : push'[q] = push[q]
      BY <2>a, <2>8 DEF CopyData
    <3> QED
      BY <2>8, <3>1, <3>2, KnownProducer DEF CopyData
  <2>9. CASE CommitEvent(p)
    <3>1. PICK l \in {"ok", "EINVAL"} : Goto(p, l)
      BY <2>9 DEF CommitEvent
    <3>2. \A q \in Producers \ {p} : push'[q] = push[q]
      BY <2>a, <2>9 DEF CommitEvent
    <3> QED
      BY <2>9, <3>1, <3>2, KnownProducer DEF CommitEvent
  <2>10. CASE FreeSpaceReadRd(p)
    BY <2>a, <2>10, KnownProducer DEF FreeSpaceReadRd, hdrVars
  <2> QED
    BY <1>3, <2>1, <2>2, <2>3, <2>4, <2>5, <2>6, <2>7, <2>8, <2>9, <2>10
       DEF PushStep
<1>4. ASSUME NEW p \in Producers, NEW api \in ProducerApis, NEW s \in Sizes,
             NEW v \in Payloads, PushCall(p, api, s, v)
      PROVE  Known'
  <2>1. push \in [Producers -> PushRecord]
    BY DEF TypeOK
  <2>2. \A q \in Producers \ {p} : push'[q] = push[q]
    BY <1>4, <2>1 DEF PushCall
  <2>3. CASE magic
    <3>1. Goto(p, "lock") /\ push'[p].size = s /\ push'[p].payload = v
      BY <1>4, <2>1, <2>3 DEF PushCall, NoPush
    <3> QED
      BY <1>4, <2>2, <3>1, KnownProducer DEF PushCall, hdrVars
  <2>4. CASE ~magic
    <3>1. Goto(p, "EINVAL")
      BY <1>4, <2>4 DEF PushCall
    <3> QED
      BY <1>4, <2>2, <3>1, KnownProducer DEF PushCall, hdrVars
  <2> QED
    BY <2>3, <2>4
<1>5. ASSUME NEW p \in Producers, FreeSpaceReadWr(p) PROVE Known'
  <2>1. PICK l \in {"free_rd", "EINVAL"} : Goto(p, l)
    BY <1>5 DEF FreeSpaceReadWr
  <2>2. \A q \in Producers \ {p} : push'[q] = push[q]
    BY <1>5 DEF FreeSpaceReadWr, TypeOK
  <2> QED
    BY <1>5, <2>1, <2>2, KnownProducer DEF FreeSpaceReadWr, hdrVars
<1>6. ASSUME NEW p \in Producers, NEW n \in 1..MaxLost, AddLost(p, n)
      PROVE  Known'
  BY <1>1, <1>6 DEF AddLost
<1>7. CASE OpenProducer
  <2>1. \A p \in Producers : pc'[p] = pc[p]
    BY <1>7 DEF OpenProducer
  <2> QED
    BY <1>7, <2>1 DEF OpenProducer, Known
<1>8. CASE CloseProducer
  BY <1>8 DEF CloseProducer, Known
<1>9. CASE CloseConsumer \/ \E ext \in BOOLEAN : OpenConsumer(ext)
  BY <1>1, <1>9 DEF CloseConsumer, OpenConsumer, hdrVars
<1>10. CASE UNCHANGED vars
  BY <1>1, <1>10 DEF vars
<1> QED
  BY <1>2, <1>3, <1>4, <1>5, <1>6, <1>7, <1>8, <1>9, <1>10 DEF Next

\* In every reachable state the ring is safe and Known holds.
LEMMA KnownAlways ==
    ASSUME NoSizeWrap
    PROVE  Spec => [](IInv /\ Known)
<1>1. Init => Known
  BY DEF Init, Known
<1>2. IInv => TypeOK
  BY DEF IInv
<1> QED
  BY <1>1, <1>2, InitSafe, SafeStep, KnownStep, PTL DEF Spec

-----------------------------------------------------------------------------
(* The queue seen in the ring.                                             *)

\* What the refinement mapping of TraceRing gives for queue and held.
Item(e) == [by |-> e.by, content |-> Content(e), done |-> mem[e.hdr].ready]
Items == [i \in DOMAIN live |-> [by |-> live[i].by,
                                 content |-> Content(live[i]),
                                 done |-> mem[live[i].hdr].ready]]
Viewing(c) == pc[c] \in {"hold", "move"}
Holding == [c \in Consumers |-> IF pc[c] \in {"hold", "move"}
                                THEN <<pop[c].out>> ELSE <<>>]
Empty == [c \in Consumers |-> <<>>]

\* The actions of the queue, said of the ring.
LEMMA QueueStutter ==
    ASSUME Items' = Items, Holding' = Holding, UNCHANGED <<lost, closed>>
    PROVE  UNCHANGED Queue!qvars
BY DEF Queue!qvars, Items, Holding

\* Publishing wr_ptr appends an incomplete element to the queue.
LEMMA QueueReserve ==
    ASSUME NEW p \in Producers, NEW s \in Sizes, NEW v \in Payloads,
           ~closed,
           Items' = Append(Items, [by |-> p, content |-> {v : a \in 1..s},
                                   done |-> FALSE]),
           Holding' = Holding, UNCHANGED <<lost, closed>>
    PROVE  Queue!QNext
<1>1. {v : a \in 1..s} \in {{w : a \in 1..t} : w \in Payloads, t \in Sizes}
  <2> DEFINE Bag(w, t) == {w : a \in 1..t}
  <2>1. Bag(v, s) \in {Bag(w, t) : w \in Payloads, t \in Sizes}
    <3> HIDE DEF Bag
    <3> QED
      OBVIOUS
  <2> QED
    BY <2>1
<1>2. Queue!Reserve(p, {v : a \in 1..s})
  BY DEF Queue!Reserve, Items, Holding
<1>3. \E q \in Producers,
         x \in {{w : a \in 1..t} : w \in Payloads, t \in Sizes} :
        Queue!Reserve(q, x)
  <2> WITNESS p \in Producers,
              {v : a \in 1..s} \in
                {{w : a \in 1..t} : w \in Payloads, t \in Sizes}
  <2> QED
    BY <1>2
<1> QED
  BY <1>3 DEF Queue!QNext

\* Committing an event (ready = true) completes its element.
LEMMA QueueComplete ==
    ASSUME NEW i \in DOMAIN Items, ~closed, ~Items[i].done,
           Items' = [Items EXCEPT ![i].done = TRUE],
           Holding' = Holding, UNCHANGED <<lost, closed>>
    PROVE  Queue!QNext
<1>1. Queue!Complete(i)
  BY DEF Queue!Complete, Items, Holding
<1>2. i \in DOMAIN [j \in DOMAIN live |-> [by |-> live[j].by,
                                           content |-> Content(live[j]),
                                           done |-> mem[live[j].hdr].ready]]
  BY DEF Items
<1> QED
  BY <1>1, <1>2 DEF Queue!QNext

\* Adding to the lost counter is the queue losing elements.
LEMMA QueueLose ==
    ASSUME ~closed, lost \in Nat, lost' \in Nat, lost' > lost,
           Items' = Items, Holding' = Holding, UNCHANGED closed
    PROVE  Queue!QNext
<1>1. lost' = lost + (lost' - lost)
  <2>1. \A m, n \in Nat : n = m + (n - m)
    OBVIOUS
  <2> QED
    BY <2>1, Zenon
<1>2. Queue!Lose(lost' - lost)
  BY <1>1 DEF Queue!Lose, Items, Holding
<1> QED
  BY <1>2 DEF Queue!QNext

\* Finding a ready event at rd_ptr is showing the oldest element.
LEMMA QueueView ==
    ASSUME NEW c \in Consumers, Holding = Empty, Items # <<>>, Items[1].done,
           Holding' = [Holding EXCEPT ![c] = <<Items[1].content>>],
           Items' = Items, UNCHANGED <<lost, closed>>
    PROVE  Queue!QNext
<1>1. Queue!View(c)
  BY DEF Queue!View, Queue!Nobody, Items, Holding, Empty
<1> QED
  BY <1>1 DEF Queue!QNext

\* Moving rd_ptr past the event held removes the oldest element.
LEMMA QueueRemove ==
    ASSUME NEW c \in Consumers, Holding[c] # <<>>, Holding' = Empty,
           Items' = Tail(Items), UNCHANGED <<lost, closed>>
    PROVE  Queue!QNext
<1>1. Queue!Remove(c)
  BY DEF Queue!Remove, Queue!Nobody, Items, Holding, Empty
<1> QED
  BY <1>1 DEF Queue!QNext

\* Setting closed, when every event is committed, closes the queue.
LEMMA QueueClose ==
    ASSUME \A i \in DOMAIN Items : Items[i].done, closed' = TRUE,
           Items' = Items, Holding' = Holding, UNCHANGED lost
    PROVE  Queue!QNext
<1>1. Queue!Close
  BY DEF Queue!Close, Items, Holding
<1> QED
  BY <1>1 DEF Queue!QNext

\* octf_trace_open of a producer formats an unheld queue.
LEMMA QueueFormat ==
    ASSUME Holding = Empty, Holding' = Empty, Items' = <<>>, lost' = 0,
           closed' = FALSE
    PROVE  Queue!QNext
<1>1. Queue!Format
  BY DEF Queue!Format, Queue!QInit, Queue!Nobody, Items, Holding, Empty
<1> QED
  BY <1>1 DEF Queue!QNext

-----------------------------------------------------------------------------
(* Every step of the ring is a step of the queue.                          *)

\* Whether an event is ready is told by its producer.
ReadyTold ==
    \A i \in 1..Len(live) :
        mem[live[i].hdr].ready <=>
          ~(Owning(live[i].by) /\ push[live[i].by].slot.hdr = live[i].hdr)

\* An event is not ready exactly while the push that owns it goes on.
LEMMA ReadyOwners == IInv => ReadyTold
<1> SUFFICES ASSUME IInv, NEW i \in 1..Len(live)
             PROVE  mem[live[i].hdr].ready <=>
                      ~(/\ Owning(live[i].by)
                        /\ push[live[i].by].slot.hdr = live[i].hdr)
  BY DEF ReadyTold
<1>1. ~mem[live[i].hdr].ready =>
        Owning(live[i].by) /\ push[live[i].by].slot.hdr = live[i].hdr
  BY DEF IInv, Owners
<1>2. ASSUME Owning(live[i].by), push[live[i].by].slot.hdr = live[i].hdr
      PROVE  ~mem[live[i].hdr].ready
  <2>1. live[i].by \in Producers
    BY PlaceTypes DEF IInv
  <2>2. PICK k \in 1..Len(live) :
          live[k] = Event(live[i].by) /\ ~mem[live[k].hdr].ready
    BY <1>2, <2>1 DEF IInv, Owners
  <2>3. live[k].hdr = live[i].hdr
    BY <1>2, <2>2 DEF Event
  <2> QED
    BY <2>2, <2>3
<1> QED
  BY <1>1, <1>2

\* Positions, and types of what is seen.
LEMMA ItemTypes ==
    ASSUME IInv
    PROVE  /\ DOMAIN live = 1..Len(live) /\ DOMAIN Items = 1..Len(live)
           /\ Len(live) \in Nat /\ Items \in Seq({Item(e) : e \in EventRecord})
           /\ Len(Items) = Len(live)
           /\ \A i \in 1..Len(live) :
                /\ Items[i] = Item(live[i])
                /\ Items[i].done <=> mem[live[i].hdr].ready
<1>1. DOMAIN live = 1..Len(live) /\ Len(live) \in Nat
  BY LivePositions DEF IInv, TypeOK
<1>2. \A i \in 1..Len(live) : Items[i] = Item(live[i])
  BY <1>1 DEF Items, Item
<1>3. \A i \in 1..Len(live) : Item(live[i]) \in {Item(e) : e \in EventRecord}
  BY PlaceTypes DEF IInv
<1>4. DOMAIN Items = 1..Len(live)
  BY <1>1 DEF Items
<1>5. Items = [i \in 1..Len(live) |-> Items[i]]
  BY <1>1 DEF Items
<1>6. Items \in [1..Len(live) -> {Item(e) : e \in EventRecord}]
  BY <1>2, <1>3, <1>5
<1>7. Items \in Seq({Item(e) : e \in EventRecord}) /\ Len(Items) = Len(live)
  BY <1>1, <1>6
<1> QED
  BY <1>1, <1>2, <1>4, <1>7 DEF Item

\* A step after which the same threads own the same events leaves the queue
\* alone.
LEMMA ItemsSame ==
    ASSUME IInv, IInv', live' = live,
           \A p \in Producers : Owning(p)' <=> Owning(p),
           \A p \in Producers : Owning(p) =>
             push'[p].slot.hdr = push[p].slot.hdr
    PROVE  Items' = Items
<1>1. ReadyTold /\ ReadyTold'
  BY ReadyOwners, PTL
<1>2. ASSUME NEW i \in 1..Len(live)
      PROVE  mem'[live[i].hdr].ready <=> mem[live[i].hdr].ready
  <2>1. live[i].by \in Producers
    BY PlaceTypes DEF IInv
  <2>2. /\ mem[live[i].hdr].ready <=>
             ~(/\ Owning(live[i].by)
               /\ push[live[i].by].slot.hdr = live[i].hdr)
        /\ mem'[live[i].hdr].ready <=>
             ~(/\ Owning(live[i].by)'
               /\ push'[live[i].by].slot.hdr = live[i].hdr)
    BY <1>1 DEF ReadyTold
  <2>3. Owning(live[i].by)' <=> Owning(live[i].by)
    BY <2>1 DEF Owning
  <2> QED
    BY <2>1, <2>2, <2>3
<1>3. DOMAIN live = 1..Len(live) /\ mem \in [Addr -> Cell]
      /\ mem' \in [Addr -> Cell]
  BY ItemTypes DEF IInv, TypeOK
<1>4. ASSUME NEW i \in 1..Len(live)
      PROVE  [by |-> live[i].by, content |-> Content(live[i]),
              done |-> mem'[live[i].hdr].ready]
               = [by |-> live[i].by, content |-> Content(live[i]),
                  done |-> mem[live[i].hdr].ready]
  <2>1. live[i].hdr \in Addr
    BY PlaceTypes DEF IInv
  <2>2. /\ mem[live[i].hdr].ready \in BOOLEAN
        /\ mem'[live[i].hdr].ready \in BOOLEAN
    BY <1>3, <2>1 DEF Cell
  <2>3. mem'[live[i].hdr].ready = mem[live[i].hdr].ready
    BY <1>2, <2>2
  <2> QED
    BY <2>3
<1> QED
  BY <1>3, <1>4 DEF Items, Content

\* A step of a producer that neither begins nor ends its event is hidden.
LEMMA HiddenProducer ==
    ASSUME IInv, IInv', NEW p \in Producers, NEW l \in ProducerLabels,
           Goto(p, l), UNCHANGED <<pop, live>>,
           \A q \in Producers \ {p} : push'[q] = push[q],
           l \in {"unlock", "copy", "commit"} <=> Owning(p),
           Owning(p) => push'[p].slot.hdr = push[p].slot.hdr
    PROVE  Items' = Items /\ Holding' = Holding
<1>1. /\ pc'[p] = l
      /\ \A q \in Producers \ {p} : pc'[q] = pc[q]
      /\ \A c \in Consumers : pc'[c] = pc[c]
  BY ThreadsAssumption DEF Goto, IInv, TypeOK, PcType
<1>2. Holding' = Holding
  BY <1>1 DEF Holding
<1>3. \A q \in Producers : Owning(q)' <=> Owning(q)
  BY <1>1 DEF Owning
<1>4. \A q \in Producers : Owning(q) =>
        push'[q].slot.hdr = push[q].slot.hdr
  OBVIOUS
<1> QED
  BY <1>2, <1>3, <1>4, ItemsSame

\* So is a step of a consumer that keeps what it is looking at.
LEMMA HiddenConsumer ==
    ASSUME IInv, IInv', NEW c \in Consumers, NEW l \in ConsumerLabels,
           Goto(c, l), UNCHANGED <<push, live>>
    PROVE  /\ Items' = Items
           /\ /\ \A d \in Consumers \ {c} : pop'[d] = pop[d]
              /\ l \in {"hold", "move"} <=> Viewing(c)
              /\ Viewing(c) => pop'[c].out = pop[c].out
              => Holding' = Holding
<1>1. /\ pc'[c] = l
      /\ \A d \in Consumers \ {c} : pc'[d] = pc[d]
      /\ \A p \in Producers : pc'[p] = pc[p]
  BY ThreadsAssumption DEF Goto, IInv, TypeOK, PcType
<1>2. \A p \in Producers : Owning(p)' <=> Owning(p)
  BY <1>1 DEF Owning
<1>3. Items' = Items
  BY <1>2, ItemsSame
<1>4. ASSUME \A d \in Consumers \ {c} : pop'[d] = pop[d],
             l \in {"hold", "move"} <=> Viewing(c),
             Viewing(c) => pop'[c].out = pop[c].out
      PROVE  Holding' = Holding
  <2>1. \A d \in Consumers :
          (IF pc'[d] \in {"hold", "move"} THEN <<pop'[d].out>> ELSE <<>>)
            = (IF pc[d] \in {"hold", "move"} THEN <<pop[d].out>> ELSE <<>>)
    BY <1>1, <1>4 DEF Viewing
  <2> QED
    BY <2>1 DEF Holding
<1> QED
  BY <1>3, <1>4

\* The producer's steps.
LEMMA ProducerRefines ==
    ASSUME IInv, IInv', Known, NEW p \in Producers
    PROVE  /\ \A api \in ProducerApis, s \in Sizes, v \in Payloads :
                PushCall(p, api, s, v) => [Queue!QNext]_(Queue!qvars)
           /\ \A n \in 1..MaxLost :
                AddLost(p, n) => [Queue!QNext]_(Queue!qvars)
           /\ FreeSpaceReadWr(p) => [Queue!QNext]_(Queue!qvars)
           /\ PushStep(p) => [Queue!QNext]_(Queue!qvars)
<1> USE DEF ProducerLabels, ProducerResults, ProducerSteps
<1>a. /\ push \in [Producers -> PushRecord] /\ push[p] \in PushRecord
      /\ lost \in Nat /\ mem \in [Addr -> Cell] /\ mem' \in [Addr -> Cell]
  BY DEF IInv, TypeOK
<1>b. ~ProducerIdle(p) => prodOpen /\ ~closed
  BY DEF IInv, HandlesOpen, Known
<1>1. ASSUME NEW l \in ProducerLabels, Goto(p, l),
             UNCHANGED <<pop, live, lost, closed>>,
             \A q \in Producers \ {p} : push'[q] = push[q],
             l \in {"unlock", "copy", "commit"} <=> Owning(p),
             Owning(p) => push'[p].slot.hdr = push[p].slot.hdr
      PROVE  [Queue!QNext]_(Queue!qvars)
  BY <1>1, HiddenProducer, QueueStutter
<1>2. ASSUME NEW api \in ProducerApis, NEW s \in Sizes, NEW v \in Payloads,
             PushCall(p, api, s, v)
      PROVE  [Queue!QNext]_(Queue!qvars)
  <2>1. PICK l \in {"lock", "EINVAL"} : Goto(p, l)
    BY <1>2 DEF PushCall
  <2>2. \A q \in Producers \ {p} : push'[q] = push[q]
    BY <1>2, <1>a DEF PushCall
  <2>3. ~Owning(p)
    BY <1>2 DEF PushCall, ProducerIdle, Owning
  <2> QED
    BY <1>1, <1>2, <2>1, <2>2, <2>3 DEF PushCall, hdrVars
<1>3. ASSUME NEW n \in 1..MaxLost, AddLost(p, n)
      PROVE  [Queue!QNext]_(Queue!qvars)
  <2>1. Items' = Items /\ Holding' = Holding
    BY <1>3 DEF AddLost, Items, Holding, Content
  <2>2. n \in Nat /\ n >= 1 /\ ~closed /\ lost' = lost + n /\ closed' = closed
    BY <1>3, BoundsAssumption DEF AddLost, Known
  <2>3. lost' \in Nat /\ lost' > lost
    BY <1>a, <2>2
  <2> QED
    BY <1>a, <2>1, <2>2, <2>3, QueueLose
<1>4. ASSUME FreeSpaceReadWr(p) PROVE [Queue!QNext]_(Queue!qvars)
  <2>1. PICK l \in {"free_rd", "EINVAL"} : Goto(p, l)
    BY <1>4 DEF FreeSpaceReadWr
  <2>2. \A q \in Producers \ {p} : push'[q] = push[q]
    BY <1>4, <1>a DEF FreeSpaceReadWr
  <2>3. ~Owning(p)
    BY <1>4 DEF FreeSpaceReadWr, ProducerIdle, Owning
  <2> QED
    BY <1>1, <1>4, <2>1, <2>2, <2>3 DEF FreeSpaceReadWr, hdrVars
<1>5. ASSUME TryLockWr(p) PROVE [Queue!QNext]_(Queue!qvars)
  <2>1. \A q \in Producers \ {p} : push'[q] = push[q]
    BY <1>5, <1>a DEF TryLockWr
  <2>2. PICK l \in {"lock", "alloc"} : Goto(p, l)
    <3>1. pc = [pc EXCEPT ![p] = "lock"]
      BY <1>5 DEF TryLockWr, IInv, TypeOK, PcType
    <3> QED
      BY <1>5, <3>1 DEF TryLockWr, Goto
  <2>3. ~Owning(p)
    BY <1>5 DEF TryLockWr, Owning
  <2> QED
    BY <1>1, <1>5, <2>1, <2>2, <2>3 DEF TryLockWr
<1>6. ASSUME TryLockWrGiveUp(p) PROVE [Queue!QNext]_(Queue!qvars)
  <2>1. \A q \in Producers \ {p} : push'[q] = push[q]
    BY <1>6, <1>a DEF TryLockWrGiveUp
  <2>2. ~Owning(p)
    BY <1>6 DEF TryLockWrGiveUp, Owning
  <2> QED
    BY <1>1, <1>6, <2>1, <2>2 DEF TryLockWrGiveUp, hdrVars
<1>7. ASSUME AllocateEvent(p) PROVE [Queue!QNext]_(Queue!qvars)
  <2>1. PICK l \in {"prepare", "fail"} : Goto(p, l)
    BY <1>7 DEF AllocateEvent
  <2>2. \A q \in Producers \ {p} : push'[q] = push[q]
    BY <1>7, <1>a DEF AllocateEvent
  <2>3. ~Owning(p)
    BY <1>7 DEF AllocateEvent, Owning
  <2> QED
    BY <1>1, <1>7, <2>1, <2>2, <2>3 DEF AllocateEvent
<1>8. ASSUME PrepareHdr(p) PROVE [Queue!QNext]_(Queue!qvars)
  <2>1. ~Owning(p)
    BY <1>8 DEF PrepareHdr, Owning
  <2> QED
    BY <1>1, <1>8, <2>1 DEF PrepareHdr, hdrVars
<1>9. ASSUME UnlockWr(p) PROVE [Queue!QNext]_(Queue!qvars)
  <2>1. PICK l \in {"copy", "lost"} : Goto(p, l) /\ (l = "copy" <=> Owning(p))
    BY <1>9 DEF UnlockWr, Owning
  <2> QED
    BY <1>1, <1>9, <2>1 DEF UnlockWr
<1>10. ASSUME CopyData(p) PROVE [Queue!QNext]_(Queue!qvars)
  <2>1. Owning(p)
    BY <1>10 DEF CopyData, Owning
  <2>2. integrity_check(mem[push[p].slot.hdr].data_ptr,
                        mem[push[p].slot.hdr].data_size)
    BY <2>1, OwnEvent DEF HeaderIn
  <2>3. Goto(p, "commit") /\ UNCHANGED push
    BY <1>10, <2>2 DEF CopyData
  <2> QED
    BY <1>1, <1>10, <2>1, <2>3 DEF CopyData
<1>11. ASSUME FreeSpaceReadRd(p) PROVE [Queue!QNext]_(Queue!qvars)
  <2>1. \A q \in Producers \ {p} : push'[q] = push[q]
    BY <1>11, <1>a DEF FreeSpaceReadRd
  <2>2. ~Owning(p)
    BY <1>11 DEF FreeSpaceReadRd, Owning
  <2> QED
    BY <1>1, <1>11, <2>1, <2>2 DEF FreeSpaceReadRd, hdrVars
<1>12. ASSUME CountLost(p) PROVE [Queue!QNext]_(Queue!qvars)
  <2>1. \A q \in Producers \ {p} : push'[q] = push[q]
    BY <1>12, <1>a DEF CountLost
  <2>2. ~Owning(p) /\ ~ProducerIdle(p)
    BY <1>12 DEF CountLost, Owning, ProducerIdle
  <2>3. Items' = Items /\ Holding' = Holding
    BY <1>12, <2>1, <2>2, HiddenProducer DEF CountLost
  <2>4. ~closed /\ lost' = lost + 1 /\ closed' = closed
    BY <1>12, <1>b, <2>2 DEF CountLost
  <2>5. lost' \in Nat /\ lost' > lost
    BY <1>a, <2>4
  <2> QED
    BY <1>a, <2>3, <2>4, <2>5, QueueLose
<1>13. ASSUME PublishWrPtr(p) PROVE [Queue!QNext]_(Queue!qvars)
  <2> DEFINE n == Len(live)
             new == [by |-> p,
                     content |-> {push[p].payload : a \in 1..push[p].size},
                     done |-> FALSE]
  <2>1. pc[p] = "publish" /\ ~closed
    BY <1>13, <1>b DEF PublishWrPtr, ProducerIdle
  <2>2. push[p].size \in Sizes /\ push[p].payload \in Payloads
    BY <2>1 DEF Known
  <2>3. Holding' = Holding
    <3>1. \A c \in Consumers : pc'[c] = pc[c]
      BY <1>13, ThreadsAssumption
         DEF PublishWrPtr, Goto, IInv, TypeOK, PcType
    <3> QED
      BY <1>13, <3>1 DEF PublishWrPtr, Holding
  <2>4. Items' = Append(Items, new)
    <3>1. /\ n \in Nat /\ DOMAIN live = 1..n /\ Len(Items) = n
          /\ Items = [i \in 1..n |-> [by |-> live[i].by,
                                      content |-> Content(live[i]),
                                      done |-> mem[live[i].hdr].ready]]
      BY ItemTypes DEF Items
    <3>2. /\ DOMAIN live' = 1..(n + 1)
          /\ \A i \in 1..n : live'[i] = live[i]
          /\ live'[n + 1] = Event(p)
      <4>1. live \in Seq(EventRecord) /\ live' = Append(live, Event(p))
        BY <1>13 DEF PublishWrPtr, IInv, TypeOK
      <4> QED
        BY <4>1
    <3>3. /\ Event(p).by = p /\ Event(p).hdr = push[p].slot.hdr
          /\ Content(Event(p)) = new.content
      BY DEF Event, Content
    <3>4. mem[push[p].slot.hdr].ready = FALSE
      <4>1. mem[push[p].slot.hdr].ready \in BOOLEAN
        BY <1>a, PlaceTypes DEF IInv, Cell
      <4>2. ~mem[push[p].slot.hdr].ready
        BY <2>1 DEF IInv, HeadersWritten
      <4> QED
        BY <4>1, <4>2
    <3>5. mem' = mem
      BY <1>13 DEF PublishWrPtr
    <3>6. Items' = [i \in 1..(n + 1) |->
                      [by |-> live'[i].by, content |-> Content(live'[i]),
                       done |-> mem[live'[i].hdr].ready]]
      BY <3>2, <3>5 DEF Items, Content
    <3>7. [by |-> Event(p).by, content |-> Content(Event(p)),
           done |-> mem[Event(p).hdr].ready] = new
      BY <3>3, <3>4
    <3> HIDE DEF new
    <3>8. Append(Items, new) = [i \in 1..(n + 1) |->
                                  IF i = n + 1 THEN new ELSE Items[i]]
      BY <3>1, ItemTypes
    <3>9. ASSUME NEW i \in 1..(n + 1)
          PROVE  [by |-> live'[i].by, content |-> Content(live'[i]),
                  done |-> mem[live'[i].hdr].ready]
                   = IF i = n + 1 THEN new ELSE Items[i]
      <4>1. CASE i = n + 1
        BY <3>2, <3>7, <4>1
      <4>2. CASE i # n + 1
        <5>1. i \in 1..n
          BY <3>1, <4>2
        <5> QED
          BY <3>1, <3>2, <4>2, <5>1
      <4> QED
        BY <4>1, <4>2
    <3> QED
      BY <3>6, <3>8, <3>9
  <2>5. UNCHANGED <<lost, closed>>
    BY <1>13 DEF PublishWrPtr
  <2> QED
    BY <2>1, <2>2, <2>3, <2>4, <2>5, QueueReserve
<1>14. ASSUME CommitEvent(p) PROVE [Queue!QNext]_(Queue!qvars)
  <2>1. Owning(p) /\ ~closed /\ pc'[p] \notin {"unlock", "copy", "commit"}
    BY <1>14, <1>b DEF CommitEvent, Owning, ProducerIdle, Goto, IInv, TypeOK,
       PcType
  <2>2. PICK k \in 1..Len(live) :
          live[k] = Event(p) /\ ~mem[live[k].hdr].ready
    BY <2>1, OwnEvent
  <2>3. live[k].by = p /\ live[k].hdr = push[p].slot.hdr
    BY <2>2 DEF Event
  <2>4. live' = live /\ UNCHANGED <<lost, closed, pop>>
    BY <1>14 DEF CommitEvent
  <2>5. /\ \A q \in Producers \ {p} : pc'[q] = pc[q]
        /\ \A c \in Consumers : pc'[c] = pc[c]
    BY <1>14, ThreadsAssumption DEF CommitEvent, Goto, IInv, TypeOK, PcType
  <2>6. Holding' = Holding
    BY <2>4, <2>5 DEF Holding
  <2>7. ASSUME NEW i \in 1..Len(live)
        PROVE  mem'[live[i].hdr].ready = IF i = k THEN TRUE
                                         ELSE mem[live[i].hdr].ready
    <3>1. ReadyTold'
      BY ReadyOwners, PTL
    <3>2. live[i].hdr \in Addr /\ live[i].by \in Producers
      BY PlaceTypes DEF IInv
    <3>3. /\ mem[live[i].hdr].ready \in BOOLEAN
          /\ mem'[live[i].hdr].ready \in BOOLEAN
      BY <1>a, <3>2 DEF Cell
    <3>4. CASE i = k
      <4>1. ~Owning(p)'
        BY <2>1 DEF Owning
      <4>2. mem'[live[k].hdr].ready
        BY <2>3, <2>4, <3>1, <4>1 DEF ReadyTold
      <4> QED
        BY <3>3, <3>4, <4>2
    <3>5. CASE i # k
      <4>1. Separate(live[i], live[k])
        BY <3>5 DEF IInv, Placed
      <4>2. live[i].hdr # push[p].slot.hdr
        BY <2>3, <3>2, <4>1, RingConstants DEF Separate, Disjoint
      <4>3. mem'[live[i].hdr] = mem[live[i].hdr]
        BY <1>14, <1>a, <3>2, <4>2 DEF CommitEvent
      <4> QED
        BY <3>5, <4>3
    <3> QED
      BY <3>4, <3>5
  <2>8. Items' = [Items EXCEPT ![k].done = TRUE]
    <3>1. DOMAIN live = 1..Len(live) /\ DOMAIN Items = 1..Len(live)
      BY ItemTypes
    <3>2. Items = [i \in 1..Len(live) |->
                     [by |-> live[i].by, content |-> Content(live[i]),
                      done |-> mem[live[i].hdr].ready]]
      BY <3>1 DEF Items
    <3>3. Items' = [i \in 1..Len(live) |->
                      [by |-> live[i].by, content |-> Content(live[i]),
                       done |-> mem'[live[i].hdr].ready]]
      BY <2>4, <3>1 DEF Items, Content
    <3>4. Items' = [i \in 1..Len(live) |->
                      [by |-> live[i].by, content |-> Content(live[i]),
                       done |-> IF i = k THEN TRUE
                                ELSE mem[live[i].hdr].ready]]
      BY <2>7, <3>3
    <3> QED
      BY <3>2, <3>4
  <2>9. k \in DOMAIN Items /\ ~Items[k].done
    BY <2>2, ItemTypes
  <2> QED
    BY <2>1, <2>4, <2>6, <2>8, <2>9, QueueComplete
<1> QED
  BY <1>2, <1>3, <1>4, <1>5, <1>6, <1>7, <1>8, <1>9, <1>10, <1>11, <1>12,
     <1>13, <1>14 DEF PushStep

\* A sequence and its tail, as functions.
LEMMA SeqFunction ==
    ASSUME NEW S, NEW s \in Seq(S)
    PROVE  s = [i \in 1..Len(s) |-> s[i]]
OBVIOUS

\* What Tail returns, as a function: the form Items has after MoveRdPtr.
LEMMA TailFunction ==
    ASSUME NEW S, NEW s \in Seq(S), s # <<>>
    PROVE  Tail(s) = [i \in 1..(Len(s) - 1) |-> s[i + 1]]
<1>1. /\ Tail(s) \in Seq(S) /\ Len(Tail(s)) = Len(s) - 1
      /\ \A i \in 1..Len(Tail(s)) : Tail(s)[i] = s[i + 1]
  BY HeadTailProperties
<1>2. Tail(s) = [i \in 1..Len(Tail(s)) |-> Tail(s)[i]]
  BY <1>1, SeqFunction
<1> QED
  BY <1>1, <1>2

\* The consumer's steps.
LEMMA ConsumerRefines ==
    ASSUME IInv, IInv', NEW c \in Consumers
    PROVE  /\ \A api \in ConsumerApis, cap \in BufSizes :
                PopCall(c, api, cap) => [Queue!QNext]_(Queue!qvars)
           /\ IsEmptyReadRd(c) => [Queue!QNext]_(Queue!qvars)
           /\ PopStep(c) => [Queue!QNext]_(Queue!qvars)
<1> USE DEF ConsumerLabels, ConsumerResults, ConsumerSteps
<1>a. /\ pop \in [Consumers -> PopRecord] /\ pop[c] \in PopRecord
      /\ pc \in [Producers \cup Consumers ->
                   ProducerLabels \cup ConsumerLabels]
  BY DEF IInv, TypeOK, PcType
<1>1. ASSUME NEW l \in ConsumerLabels, Goto(c, l),
             UNCHANGED <<push, live, lost, closed>>,
             \A d \in Consumers \ {c} : pop'[d] = pop[d],
             l \in {"hold", "move"} <=> Viewing(c),
             Viewing(c) => pop'[c].out = pop[c].out
      PROVE  [Queue!QNext]_(Queue!qvars)
  BY <1>1, HiddenConsumer, QueueStutter
<1>2. ASSUME NEW api \in ConsumerApis, NEW cap \in BufSizes,
             PopCall(c, api, cap)
      PROVE  [Queue!QNext]_(Queue!qvars)
  <2>1. PICK l \in {"lock", "EINVAL"} : Goto(c, l)
    BY <1>2 DEF PopCall
  <2>2. \A d \in Consumers \ {c} : pop'[d] = pop[d]
    BY <1>2, <1>a DEF PopCall
  <2>3. ~Viewing(c)
    BY <1>2 DEF PopCall, ConsumerIdle, Viewing
  <2> QED
    BY <1>1, <1>2, <2>1, <2>2, <2>3 DEF PopCall, hdrVars
<1>3. ASSUME IsEmptyReadRd(c) PROVE [Queue!QNext]_(Queue!qvars)
  <2>1. PICK l \in {"empty_wr", "EINVAL"} : Goto(c, l)
    BY <1>3 DEF IsEmptyReadRd
  <2>2. \A d \in Consumers \ {c} : pop'[d] = pop[d]
    BY <1>3, <1>a DEF IsEmptyReadRd
  <2>3. ~Viewing(c)
    BY <1>3 DEF IsEmptyReadRd, ConsumerIdle, Viewing
  <2> QED
    BY <1>1, <1>3, <2>1, <2>2, <2>3 DEF IsEmptyReadRd, hdrVars
<1>4. ASSUME TryLockRd(c) PROVE [Queue!QNext]_(Queue!qvars)
  <2>1. PICK l \in {"EBUSY", "read"} : Goto(c, l)
    BY <1>4 DEF TryLockRd
  <2>2. \A d \in Consumers \ {c} : pop'[d] = pop[d]
    BY <1>4, <1>a DEF TryLockRd
  <2>3. ~Viewing(c)
    BY <1>4 DEF TryLockRd, Viewing
  <2> QED
    BY <1>1, <1>4, <2>1, <2>2, <2>3 DEF TryLockRd
<1>5. ASSUME GetRdHdr(c) PROVE [Queue!QNext]_(Queue!qvars)
  <2>1. PICK l \in {"take", "none"} : Goto(c, l)
    BY <1>5 DEF GetRdHdr
  <2>2. ~Viewing(c)
    BY <1>5 DEF GetRdHdr, Viewing
  <2> QED
    BY <1>1, <1>5, <2>1, <2>2 DEF GetRdHdr, hdrVars
<1>6. ASSUME NoEvent(c) PROVE [Queue!QNext]_(Queue!qvars)
  <2>1. \A d \in Consumers \ {c} : pop'[d] = pop[d]
    BY <1>6, <1>a DEF NoEvent
  <2>2. ~Viewing(c)
    BY <1>6 DEF NoEvent, Viewing
  <2> QED
    BY <1>1, <1>6, <2>1, <2>2 DEF NoEvent, hdrVars
<1>7. ASSUME ReleaseCall(c) PROVE [Queue!QNext]_(Queue!qvars)
  <2>1. live # <<>> /\ Viewing(c) /\ magic
    BY <1>7 DEF ReleaseCall, IInv, Readers, Viewing, HandlesOpen,
       ConsumerIdle
  <2>2. integrity_check(mem[rd_ptr].data_ptr, mem[rd_ptr].data_size)
    BY <2>1, HeadEvent DEF HeaderIn
  <2>3. Goto(c, "move") /\ pop' = pop
    BY <1>7, <2>1, <2>2 DEF ReleaseCall
  <2> QED
    BY <1>1, <1>7, <2>1, <2>3 DEF ReleaseCall
<1>8. ASSUME UnlockRd(c) PROVE [Queue!QNext]_(Queue!qvars)
  <2>1. PICK l \in ConsumerResults : Goto(c, l)
    BY <1>8, <1>a DEF UnlockRd, PopRecord
  <2>2. \A d \in Consumers \ {c} : pop'[d] = pop[d]
    BY <1>8, <1>a DEF UnlockRd
  <2>3. ~Viewing(c)
    BY <1>8 DEF UnlockRd, Viewing
  <2> QED
    BY <1>1, <1>8, <2>1, <2>2, <2>3 DEF UnlockRd
<1>9. ASSUME IsEmptyReadWr(c) PROVE [Queue!QNext]_(Queue!qvars)
  <2>1. PICK l \in {"empty", "nonempty"} : Goto(c, l)
    BY <1>9 DEF IsEmptyReadWr
  <2>2. \A d \in Consumers \ {c} : pop'[d] = pop[d]
    BY <1>9, <1>a DEF IsEmptyReadWr
  <2>3. ~Viewing(c)
    BY <1>9 DEF IsEmptyReadWr, Viewing
  <2> QED
    BY <1>1, <1>9, <2>1, <2>2, <2>3 DEF IsEmptyReadWr, hdrVars
<1>10. ASSUME HoldsRd(c), ~Viewing(c) PROVE Holding = Empty
  <2>1. \A d \in Consumers : ~Viewing(d)
    BY <1>10 DEF IInv, LocksExact, HoldsRd, Viewing
  <2> QED
    BY <2>1 DEF Viewing, Holding, Empty
<1>11. ASSUME TakeEvent(c) PROVE [Queue!QNext]_(Queue!qvars)
  <2>1. PICK l \in {"move", "hold", "unlock"} : Goto(c, l)
    BY <1>11 DEF TakeEvent
  <2>2. \A d \in Consumers \ {c} : pop'[d] = pop[d]
    BY <1>11, <1>a DEF TakeEvent
  <2>3. pc[c] = "take" /\ ~Viewing(c) /\ HoldsRd(c)
    BY <1>11 DEF TakeEvent, Viewing, HoldsRd
  <2>4. CASE l = "unlock"
    BY <1>1, <1>11, <2>1, <2>2, <2>3, <2>4 DEF TakeEvent, hdrVars
  <2>5. CASE l \in {"move", "hold"}
    <3>1. Holding = Empty
      BY <1>10, <2>3
    <3>2. live # <<>> /\ mem[rd_ptr].ready /\ live' = live
      BY <1>11, <2>3 DEF TakeEvent, IInv, Readers
    <3>3. /\ 1 \in 1..Len(live) /\ Items # <<>> /\ Items[1].done
          /\ Items[1].content = Content(live[1])
      <4>1. 1 \in 1..Len(live) /\ live[1].hdr = rd_ptr
        BY <3>2, HeadEvent
      <4>2. Items # <<>>
        BY <4>1, ItemTypes
      <4> QED
        BY <3>2, <4>1, <4>2, ItemTypes DEF Item
    <3>4. Items' = Items
      BY <1>11, <2>1, HiddenConsumer DEF TakeEvent, hdrVars
    <3>5. /\ pc'[c] = l
          /\ \A d \in Consumers \ {c} : pc'[d] = pc[d] /\ ~Viewing(d)
      <4>1. \A d \in Consumers : HoldsRd(d) => d = c
        BY <2>3 DEF IInv, LocksExact
      <4> QED
        BY <1>a, <2>1, <4>1 DEF Goto, Viewing, HoldsRd
    <3>6. pop'[c].out = Content(live[1])
      <4>1. pop'[c].out = Content(live'[1])
        BY <2>5, <3>5 DEF IInv, Readers, Content
      <4> QED
        BY <3>2, <4>1
    <3>7. \A d \in Consumers :
            (IF pc'[d] \in {"hold", "move"} THEN <<pop'[d].out>> ELSE <<>>)
              = IF d = c THEN <<Items[1].content>> ELSE <<>>
      <4>1. ASSUME NEW d \in Consumers
            PROVE  (IF pc'[d] \in {"hold", "move"}
                    THEN <<pop'[d].out>> ELSE <<>>)
                     = IF d = c THEN <<Items[1].content>> ELSE <<>>
        <5>1. CASE d = c
          BY <2>5, <3>3, <3>5, <3>6, <5>1
        <5>2. CASE d # c
          BY <3>5, <5>2 DEF Viewing
        <5> QED
          BY <5>1, <5>2
      <4> QED
        BY <4>1
    <3>8. Holding' = [Empty EXCEPT ![c] = <<Items[1].content>>]
      BY <3>7 DEF Holding, Empty
    <3>9. UNCHANGED <<lost, closed>>
      BY <1>11 DEF TakeEvent, hdrVars
    <3> QED
      BY <3>1, <3>3, <3>4, <3>8, <3>9, QueueView
  <2> QED
    BY <2>4, <2>5
<1>12. ASSUME MoveRdPtr(c) PROVE [Queue!QNext]_(Queue!qvars)
  <2> DEFINE n == Len(live)
  <2>1. pc[c] = "move" /\ HoldsRd(c) /\ Viewing(c)
    BY <1>12 DEF MoveRdPtr, HoldsRd, Viewing
  <2>2. Holding[c] # <<>>
    <3>1. Holding[c] = <<pop[c].out>>
      BY <2>1 DEF Holding
    <3> QED
      BY <3>1
  <2>3. Holding' = Empty
    <3>1. \A d \in Consumers : HoldsRd(d) => d = c
      BY <2>1 DEF IInv, LocksExact
    <3>2. \A d \in Consumers : pc'[d] \notin {"hold", "move"}
      BY <1>12, <1>a, <3>1 DEF MoveRdPtr, Goto, HoldsRd
    <3> QED
      BY <3>2 DEF Holding, Empty
  <2>4. Items' = Tail(Items)
    <3>1. /\ n \in Nat /\ DOMAIN live = 1..n /\ Len(Items) = n
          /\ Items \in Seq({Item(e) : e \in EventRecord})
          /\ \A i \in 1..n : Items[i] = Item(live[i])
      BY ItemTypes
    <3>2. n >= 1
      <4>1. live # <<>>
        BY <1>12 DEF MoveRdPtr, IInv, Readers
      <4> QED
        BY <3>1, <4>1, PlaceTypes DEF IInv
    <3>3. /\ DOMAIN live' = 1..(n - 1)
          /\ \A i \in 1..(n - 1) : live'[i] = live[i + 1]
      <4>1. live' = SubSeq(live, 2, n) /\ live \in Seq(EventRecord)
        BY <1>12 DEF MoveRdPtr, IInv, TypeOK
      <4>2. \A i \in 2..n : live[i] \in EventRecord
        BY <4>1
      <4>3. /\ SubSeq(live, 2, n) \in Seq(EventRecord)
            /\ Len(SubSeq(live, 2, n)) = IF 2 <= n THEN n - 2 + 1 ELSE 0
            /\ \A i \in 1..(n - 2 + 1) :
                 SubSeq(live, 2, n)[i] = live[2 + i - 1]
        BY <3>1, <4>2, SubSeqProperties
      <4>4. n - 2 + 1 = n - 1 /\ (2 <= n \/ n - 1 = 0)
        BY <3>1, <3>2
      <4>5. \A i \in 1..(n - 1) : 2 + i - 1 = i + 1
        BY <3>1
      <4> HIDE DEF n
      <4>6. Len(SubSeq(live, 2, n)) = n - 1
        BY <4>3, <4>4
      <4>7. DOMAIN SubSeq(live, 2, n) = 1..(n - 1)
        BY <4>3, <4>6
      <4> QED
        BY <4>1, <4>3, <4>4, <4>5, <4>7
    <3>4. mem' = mem
      BY <1>12 DEF MoveRdPtr
    <3>5. Items' = [i \in 1..(n - 1) |->
                      [by |-> live'[i].by, content |-> Content(live'[i]),
                       done |-> mem[live'[i].hdr].ready]]
      BY <3>3, <3>4 DEF Items, Content
    <3> HIDE DEF n
    <3>6. Tail(Items) = [i \in 1..(n - 1) |-> Items[i + 1]]
      <4>1. Items # <<>>
        BY <3>1, <3>2
      <4> QED
        BY <3>1, <4>1, TailFunction
    <3>7. \A i \in 1..(n - 1) :
            [by |-> live'[i].by, content |-> Content(live'[i]),
             done |-> mem[live'[i].hdr].ready] = Items[i + 1]
      <4>1. \A i \in 1..(n - 1) : i + 1 \in 1..n
        BY <3>1
      <4> QED
        BY <3>1, <3>3, <4>1 DEF Item
    <3> QED
      BY <3>5, <3>6, <3>7
  <2>5. UNCHANGED <<lost, closed>>
    BY <1>12 DEF MoveRdPtr
  <2> QED
    BY <2>2, <2>3, <2>4, <2>5, QueueRemove
<1> QED
  BY <1>2, <1>3, <1>4, <1>5, <1>6, <1>7, <1>8, <1>9, <1>11, <1>12 DEF PopStep

\* Opening and closing handles.
LEMMA HandlesRefine ==
    ASSUME IInv, IInv', Known
    PROVE  /\ OpenProducer => [Queue!QNext]_(Queue!qvars)
           /\ \A ext \in BOOLEAN :
                OpenConsumer(ext) => [Queue!QNext]_(Queue!qvars)
           /\ CloseProducer => [Queue!QNext]_(Queue!qvars)
           /\ CloseConsumer => [Queue!QNext]_(Queue!qvars)
<1>1. ASSUME UNCHANGED <<pc, pop, live, mem>>
      PROVE  Items' = Items /\ Holding' = Holding
  BY <1>1 DEF Items, Holding, Content
<1>2. ASSUME OpenProducer PROVE [Queue!QNext]_(Queue!qvars)
  <2>1. \A c \in Consumers : pc[c] \notin {"hold", "move"} /\ pc' = pc
    BY <1>2 DEF OpenProducer, IInv, HandlesOpen, ConsumerIdle, ConsumerResults
  <2>2. Holding = Empty /\ Holding' = Empty
    BY <2>1 DEF Holding, Empty
  <2>3. Items' = <<>>
    <3>1. live' = <<>>
      BY <1>2 DEF OpenProducer
    <3>2. DOMAIN live' = {}
      BY <3>1
    <3> QED
      BY <3>2 DEF Items
  <2>4. lost' = 0 /\ closed' = FALSE
    BY <1>2 DEF OpenProducer
  <2> QED
    BY <2>2, <2>3, <2>4, QueueFormat
<1>3. ASSUME NEW ext \in BOOLEAN, OpenConsumer(ext)
      PROVE  [Queue!QNext]_(Queue!qvars)
  BY <1>1, <1>3, QueueStutter DEF OpenConsumer, hdrVars
<1>4. ASSUME CloseProducer PROVE [Queue!QNext]_(Queue!qvars)
  <2>1. Items' = Items /\ Holding' = Holding
    BY <1>1, <1>4 DEF CloseProducer
  <2>2. closed' = TRUE /\ lost' = lost
    BY <1>4 DEF CloseProducer, IInv, HandlesOpen
  <2>3. \A i \in 1..Len(live) : mem[live[i].hdr].ready
    <3>1. \A p \in Producers : ~Owning(p)
      BY <1>4 DEF CloseProducer, ProducerIdle, ProducerResults, Owning
    <3> QED
      BY <3>1, PlaceTypes DEF IInv, Owners
  <2>4. \A i \in DOMAIN Items : Items[i].done
    BY <2>3, ItemTypes
  <2> QED
    BY <2>1, <2>2, <2>4, QueueClose
<1>5. ASSUME CloseConsumer PROVE [Queue!QNext]_(Queue!qvars)
  BY <1>1, <1>5, QueueStutter DEF CloseConsumer, hdrVars
<1> QED
  BY <1>2, <1>3, <1>4, <1>5

\* A pool no handle was opened on is an empty queue.
LEMMA InitRefines == Init => Queue!QInit
<1> SUFFICES ASSUME Init PROVE Queue!QInit
  OBVIOUS
<1>1. Items = <<>>
  BY DEF Init, Items
<1>2. \A c \in Consumers : pc[c] \notin {"hold", "move"}
  BY DEF Init
<1>3. Holding = Empty
  BY <1>2 DEF Holding, Empty
<1> QED
  BY <1>1, <1>3 DEF Init, Queue!QInit, Queue!Nobody, Items, Holding, Empty

\* Every step of the ring is a step of the queue or leaves it alone.
LEMMA StepRefines ==
    IInv /\ IInv' /\ Known /\ [Next]_vars => [Queue!QNext]_(Queue!qvars)
<1> SUFFICES ASSUME IInv, IInv', Known, [Next]_vars
             PROVE  [Queue!QNext]_(Queue!qvars)
  OBVIOUS
<1>1. CASE Next
  BY <1>1, ProducerRefines, ConsumerRefines, HandlesRefine DEF Next
<1>2. CASE UNCHANGED vars
  <2>1. Items' = Items /\ Holding' = Holding
    BY <1>2 DEF vars, Items, Holding, Content
  <2> QED
    BY <1>2, <2>1, QueueStutter DEF vars
<1> QED
  BY <1>1, <1>2

\* To its clients the ring is a queue: what is popped is what was pushed, in
\* the order of the reservations, each event once; a lost event is counted;
\* and the trace is closed only when every event is complete.
THEOREM RefinesQueue ==
    ASSUME NoSizeWrap
    PROVE  Spec => ImplementsQueue
BY KnownAlways, InitRefines, StepRefines, PTL
   DEF Spec, ImplementsQueue, Queue!QSpec
=============================================================================
