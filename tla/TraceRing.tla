------------------------------ MODULE TraceRing ------------------------------
(***************************************************************************)
(* The trace ring buffer of source/octf/trace/trace.c: producer threads    *)
(* push events of different sizes, consumer threads pop them, and the two  *)
(* sides share only the memory pool (headers, pointers, spin locks, event  *)
(* headers and event data).                                                *)
(*                                                                         *)
(* Offsets into the ring are in bytes, as in the code.  A step is one      *)
(* access to a shared word, or a group of accesses to words that no other  *)
(* thread touches at that point.  Stores become visible in program order.  *)
(***************************************************************************)
EXTENDS Integers, Sequences, FiniteSets

CONSTANTS
    Producers,          \* threads that use the producer handle
    Consumers,          \* threads that use the consumer handle
    ProducerApis,       \* producer calls in use: "push", "wrbuf", "free_space"
    ConsumerApis,       \* consumer calls in use: "pop", "rdbuf", "is_empty"
    Payloads,           \* what the bytes of an event may hold
    NoPayload,          \* a zeroed byte
    Sizes,              \* sizes of the pushed events
    BufSizes,           \* sizes of the buffers given to octf_trace_pop
    TRACE_ALIGNMENT,    \* sizeof(struct trace_event_hdr)
    P_HDR_SIZE,         \* aligned size of struct trace_producer_hdr
    C_HDR_SIZE,         \* aligned size of struct trace_consumer_hdr
    MempoolSize,        \* bytes handed to octf_trace_open
    HasChdr,            \* does the producer use an external consumer header
    SIZE_MOD,           \* 2^32: uint32_t _size in _allocate_event
    WR_LOCK_RETRY,      \* last retry of _try_lock_wr (128)
    MaxLost             \* bound on the lost counter: no push starts beyond it

ASSUME ThreadsAssumption == Producers \cap Consumers = {}

ASSUME ApisAssumption ==
    /\ ProducerApis \subseteq {"push", "wrbuf", "free_space"}
    /\ ConsumerApis \subseteq {"pop", "rdbuf", "is_empty"}

ASSUME SizesAssumption ==
    /\ SIZE_MOD \in Nat \ {0}
    /\ Sizes \subseteq 0..(SIZE_MOD - 1)
    /\ BufSizes \subseteq Nat

ASSUME HeaderAssumption ==
    /\ TRACE_ALIGNMENT \in Nat \ {0}
    /\ P_HDR_SIZE \in Nat
    /\ C_HDR_SIZE \in Nat
    /\ HasChdr \in BOOLEAN

ASSUME MempoolAssumption ==
    /\ MempoolSize \in Nat
    /\ MempoolSize >= P_HDR_SIZE + C_HDR_SIZE + TRACE_ALIGNMENT

ASSUME BoundsAssumption ==
    /\ WR_LOCK_RETRY \in Nat
    /\ MaxLost \in Nat

-----------------------------------------------------------------------------
(* Pure helpers of trace.c.                                                *)

TRACE_ALIGN(s) ==
    ((s + TRACE_ALIGNMENT - 1) \div TRACE_ALIGNMENT) * TRACE_ALIGNMENT

\* _init_ring: what is left of the pool after the headers, rounded down.
ring_size ==
    LET space == MempoolSize - P_HDR_SIZE - (IF HasChdr THEN 0 ELSE C_HDR_SIZE)
    IN  (space \div TRACE_ALIGNMENT) * TRACE_ALIGNMENT

Addr == 0..(ring_size - 1)

\* Mutant: an event that ends exactly at the end of the ring is refused.
Mut_integrity_check(ptr, count) ==
    /\ ptr < ring_size
    /\ ptr + count < ring_size

\* The last conjunct of the code, ptr + count < count, guards the 64-bit
\* addition; both operands are below 2^32 here, so it never fires.
integrity_check(ptr, count) ==
    /\ ptr < ring_size
    /\ ptr + count <= ring_size

\* Mutant: the byte that tells a full ring from an empty one is used, too.
Mut_get_continuous_space(rdp, wrp) ==
    IF wrp >= ring_size \/ rdp >= ring_size THEN 0
    ELSE IF wrp >= rdp THEN ring_size - wrp ELSE rdp - wrp

get_continuous_space(rdp, wrp) ==
    IF wrp >= ring_size \/ rdp >= ring_size THEN 0
    ELSE IF wrp >= rdp
         THEN ring_size - wrp - (IF rdp = 0 THEN 1 ELSE 0)
         ELSE rdp - wrp - 1

get_free_space(rdp, wrp) ==
    (IF wrp >= rdp THEN ring_size - (wrp - rdp) ELSE rdp - wrp) - 1

\* Mutant: a pointer that reaches the end of the ring is not wrapped.
Mut_move_ptr(ptr, mv) ==
    IF ptr + mv > ring_size THEN (ptr + mv) % ring_size ELSE ptr + mv

move_ptr(ptr, mv) ==
    IF ptr + mv >= ring_size THEN (ptr + mv) % ring_size ELSE ptr + mv

is_wrap(rdp, wrp) == wrp > rdp

\* The placement decided by _allocate_event for an event of "size" bytes when
\* the pointers read are rdp and wrp: where the header and the data go, the
\* next write pointer, and whether there is room at all.
allocate_event(rdp, wrp, size) ==
    LET asize == TRACE_ALIGN(size) % SIZE_MOD
        hdrFits == /\ TRACE_ALIGNMENT <= get_continuous_space(rdp, wrp)
                   /\ wrp + TRACE_ALIGNMENT <= ring_size
        afterHdr == move_ptr(wrp, TRACE_ALIGNMENT)
        continuous == get_continuous_space(rdp, afterHdr)
        skip == asize > continuous /\ is_wrap(rdp, afterHdr) /\ rdp # 0
        data == IF skip THEN move_ptr(afterHdr, continuous) ELSE afterHdr
        dataFits == /\ asize <= get_continuous_space(rdp, data)
                    /\ data + asize <= ring_size
    IN  [fits |-> hdrFits /\ dataFits,
         hdr |-> wrp,
         data |-> data,
         next |-> move_ptr(data, asize)]

-----------------------------------------------------------------------------
VARIABLES
    magic,      \* phdr->magic and version are the expected ones
    closed,     \* phdr->closed
    wr_ptr,     \* phdr->wr_ptr
    wr_lock,    \* phdr->wr_lock
    lost,       \* phdr->lost
    rd_ptr,     \* chdr->rd_ptr
    rd_lock,    \* chdr->rd_lock
    mem,        \* ring_buffer: the cell at each offset
    prodOpen,   \* a producer handle exists
    consOpen,   \* a consumer handle exists
    pc,         \* where each thread is; between calls, its last result
    push,       \* arguments and locals of each producer thread's call
    pop,        \* arguments and locals of each consumer thread's call
    live        \* history: allocated and not yet removed events, in order

hdrVars == <<magic, closed, wr_ptr, wr_lock, lost, rd_ptr, rd_lock>>
vars == <<magic, closed, wr_ptr, wr_lock, lost, rd_ptr, rd_lock, mem,
          prodOpen, consOpen, pc, push, pop, live>>

\* A cell is read either as (the start of) struct trace_event_hdr or as a
\* byte of event data.
Cell == [ready : BOOLEAN, data_ptr : Nat, data_size : Nat,
         byte : Payloads \cup {NoPayload}]

ZeroCell == [ready |-> FALSE, data_ptr |-> 0, data_size |-> 0,
             byte |-> NoPayload]

\* A data byte read back as a header: the ready bit is whatever the user wrote.
DataCell(v) == [ready |-> TRUE, data_ptr |-> 0, data_size |-> 0, byte |-> v]

Bytes(from, count) == {mem[a].byte : a \in from..(from + count - 1)}

\* What a reader of an event must see.
Content(e) == {e.payload : a \in 1..e.size}

ProducerResults == {"idle", "ok", "ENOSPC", "EINVAL", "free"}
ProducerSteps == {"lock", "alloc", "prepare", "publish", "unlock",
                  "fail", "lost", "copy", "commit", "free_rd"}
ConsumerResults == {"idle", "ok", "ENOSPC", "EINVAL", "EAGAIN", "EBADF",
                    "EBUSY", "empty", "nonempty"}
ConsumerSteps == {"lock", "read", "none", "take", "hold", "move", "unlock",
                  "empty_wr"}

ProducerLabels == ProducerResults \cup ProducerSteps
ConsumerLabels == ConsumerResults \cup ConsumerSteps

Handles == [hdr : Addr, data : Addr, next : Addr]
NoHandle == [hdr |-> 0, data |-> 0, next |-> 0]
NoPush == [api |-> "push", size |-> 0, payload |-> NoPayload, retry |-> 0,
           slot |-> NoHandle, free |-> 0]
NoPop == [api |-> "pop", cap |-> 0, res |-> "ok", out |-> {}, rdp |-> 0]

Init ==
    /\ magic = FALSE
    /\ closed = FALSE
    /\ wr_ptr = 0
    /\ wr_lock = FALSE
    /\ lost = 0
    /\ rd_ptr = 0
    /\ rd_lock = FALSE
    /\ mem = [a \in Addr |-> ZeroCell]
    /\ prodOpen = FALSE
    /\ consOpen = FALSE
    /\ pc = [t \in Producers \cup Consumers |-> "idle"]
    /\ push = [p \in Producers |-> NoPush]
    /\ pop = [c \in Consumers |-> NoPop]
    /\ live = <<>>

Goto(t, label) == pc' = [pc EXCEPT ![t] = label]
ProducerIdle(p) == pc[p] \in ProducerResults
ConsumerIdle(c) == pc[c] \in ConsumerResults

-----------------------------------------------------------------------------
(* octf_trace_open and octf_trace_close.                                   *)

\* Zeroes the pool and the consumer header.  The owner of the pool creates
\* the producer before it hands the pool to a consumer.
OpenProducer ==
    /\ ~prodOpen /\ ~consOpen
    /\ prodOpen' = TRUE
    /\ magic' = TRUE
    /\ closed' = FALSE
    /\ wr_ptr' = 0 /\ wr_lock' = FALSE /\ lost' = 0
    /\ rd_ptr' = 0 /\ rd_lock' = FALSE
    /\ mem' = [a \in Addr |-> ZeroCell]
    /\ live' = <<>>
    /\ UNCHANGED <<consOpen, pc, push, pop>>

\* ext: does the consumer bring an external header.  An invalid ring and a
\* header mismatch are refused (-EINVAL) and leave no handle.
OpenConsumer(ext) ==
    /\ ~consOpen
    /\ consOpen' = (magic /\ ext = HasChdr)
    /\ UNCHANGED <<hdrVars, mem, prodOpen, pc, push, pop, live>>

\* A handle is closed by its owner when no thread is inside a call on it.
CloseProducer ==
    /\ prodOpen
    /\ \A p \in Producers : ProducerIdle(p)
    /\ closed' = (closed \/ magic)
    /\ prodOpen' = FALSE
    /\ UNCHANGED <<magic, wr_ptr, wr_lock, lost, rd_ptr, rd_lock, mem,
                   consOpen, pc, push, pop, live>>

CloseConsumer ==
    /\ consOpen
    /\ \A c \in Consumers : ConsumerIdle(c)
    /\ consOpen' = FALSE
    /\ UNCHANGED <<hdrVars, mem, prodOpen, pc, push, pop, live>>

-----------------------------------------------------------------------------
(* octf_trace_push, octf_trace_get_wr_buffer + octf_trace_commit_wr_buffer *)

PushCall(p, api, size, v) ==
    /\ prodOpen /\ ProducerIdle(p)
    /\ api \in ProducerApis \cap {"push", "wrbuf"}
    /\ lost + Cardinality({q \in Producers : ~ProducerIdle(q)}) < MaxLost
    /\ IF magic
       THEN /\ Goto(p, "lock")
            /\ push' = [push EXCEPT ![p] = [NoPush EXCEPT !.api = api,
                                                          !.size = size,
                                                          !.payload = v]]
       ELSE /\ Goto(p, "EINVAL")
            /\ push' = [push EXCEPT ![p] = NoPush]
    /\ UNCHANGED <<hdrVars, mem, prodOpen, consOpen, pop, live>>

\* Mutant: the retries are not counted.
Mut_TryLockWr(p) ==
    /\ pc[p] = "lock"
    /\ ~wr_lock
    /\ wr_lock' = TRUE
    /\ Goto(p, "alloc")
    /\ UNCHANGED <<magic, closed, wr_ptr, lost, rd_ptr, rd_lock, mem,
                   prodOpen, consOpen, push, pop, live>>

\* Mutant: the result of the atomic exchange is not looked at.
Mut_TryLockWr_blind(p) ==
    /\ pc[p] = "lock"
    /\ wr_lock' = TRUE
    /\ Goto(p, "alloc")
    /\ UNCHANGED <<magic, closed, wr_ptr, lost, rd_ptr, rd_lock, mem,
                   prodOpen, consOpen, push, pop, live>>

TryLockWr(p) ==
    /\ pc[p] = "lock"
    /\ push[p].retry <= WR_LOCK_RETRY
    /\ IF wr_lock
       THEN /\ push' = [push EXCEPT ![p].retry = @ + 1]
            /\ UNCHANGED <<wr_lock, pc>>
       ELSE /\ wr_lock' = TRUE
            /\ push' = [push EXCEPT ![p].retry = 0]
            /\ Goto(p, "alloc")
    /\ UNCHANGED <<magic, closed, wr_ptr, lost, rd_ptr, rd_lock, mem,
                   prodOpen, consOpen, pop, live>>

\* -EBUSY from _try_lock_wr: no event is allocated.
TryLockWrGiveUp(p) ==
    /\ pc[p] = "lock"
    /\ push[p].retry > WR_LOCK_RETRY
    /\ push' = [push EXCEPT ![p].retry = 0]
    /\ Goto(p, "lost")
    /\ UNCHANGED <<hdrVars, mem, prodOpen, consOpen, pop, live>>

\* Reads the two pointers and looks for room.
AllocateEvent(p) ==
    /\ pc[p] = "alloc"
    /\ LET e == allocate_event(rd_ptr, wr_ptr, push[p].size)
       IN  IF e.fits
           THEN /\ Goto(p, "prepare")
                /\ push' = [push EXCEPT ![p].slot = [hdr |-> e.hdr,
                                                     data |-> e.data,
                                                     next |-> e.next]]
           ELSE /\ Goto(p, "fail")
                /\ UNCHANGED push
    \* _get_continuous_space stops all tracing on pointers out of range
    /\ magic' = (magic /\ wr_ptr < ring_size /\ rd_ptr < ring_size)
    /\ UNCHANGED <<closed, wr_ptr, wr_lock, lost, rd_ptr, rd_lock, mem,
                   prodOpen, consOpen, pop, live>>

\* Mutant: hdr->ready keeps what was in the ring.
Mut_PrepareHdr(p) ==
    /\ pc[p] = "prepare"
    /\ LET slot == push[p].slot
       IN  mem' = [mem EXCEPT ![slot.hdr].data_ptr = slot.data,
                              ![slot.hdr].data_size = push[p].size]
    /\ Goto(p, "publish")
    /\ UNCHANGED <<hdrVars, prodOpen, consOpen, push, pop, live>>

\* Fills the header.  Headers start at multiples of TRACE_ALIGNMENT, so the
\* other cells under the header are never read before they are rewritten; they
\* are zeroed to merge states that differ only there.
PrepareHdr(p) ==
    /\ pc[p] = "prepare"
    /\ LET hdr == push[p].slot.hdr
       IN  mem' = [a \in Addr |->
                     IF a = hdr
                     THEN [ready |-> FALSE,
                           data_ptr |-> push[p].slot.data,
                           data_size |-> push[p].size,
                           byte |-> NoPayload]
                     ELSE IF a \in hdr..(hdr + TRACE_ALIGNMENT - 1)
                          THEN ZeroCell ELSE mem[a]]
    /\ Goto(p, "publish")
    /\ UNCHANGED <<hdrVars, prodOpen, consOpen, push, pop, live>>

Event(p) == [hdr |-> push[p].slot.hdr, data |-> push[p].slot.data,
             next |-> push[p].slot.next, size |-> push[p].size,
             payload |-> push[p].payload, by |-> p]

PublishWrPtr(p) ==
    /\ pc[p] = "publish"
    /\ wr_ptr' = push[p].slot.next
    /\ live' = Append(live, Event(p))
    /\ Goto(p, "unlock")
    /\ UNCHANGED <<magic, closed, wr_lock, lost, rd_ptr, rd_lock, mem,
                   prodOpen, consOpen, push, pop>>

UnlockWr(p) ==
    /\ pc[p] \in {"unlock", "fail"}
    /\ wr_lock' = FALSE
    /\ Goto(p, IF pc[p] = "unlock" THEN "copy" ELSE "lost")
    /\ UNCHANGED <<magic, closed, wr_ptr, lost, rd_ptr, rd_lock, mem,
                   prodOpen, consOpen, push, pop, live>>

CountLost(p) ==
    /\ pc[p] = "lost"
    /\ lost' = lost + 1
    /\ Goto(p, "ENOSPC")
    /\ push' = [push EXCEPT ![p] = NoPush]
    /\ UNCHANGED <<magic, closed, wr_ptr, wr_lock, rd_ptr, rd_lock, mem,
                   prodOpen, consOpen, pop, live>>

\* _integrity_check, then memcpy_s into the ring (push) or the user filling
\* the buffer returned by octf_trace_get_wr_buffer.
CopyData(p) ==
    /\ pc[p] = "copy"
    /\ LET h == mem[push[p].slot.hdr]
       IN  IF integrity_check(h.data_ptr, h.data_size)
           THEN /\ mem' =
                     [a \in Addr |->
                        IF a \in h.data_ptr..(h.data_ptr + h.data_size - 1)
                        THEN DataCell(push[p].payload) ELSE mem[a]]
                /\ Goto(p, "commit")
                /\ UNCHANGED <<magic, push>>
           ELSE /\ magic' = FALSE
                /\ Goto(p, "EINVAL")
                /\ push' = [push EXCEPT ![p] = NoPush]
                /\ UNCHANGED mem
    /\ UNCHANGED <<closed, wr_ptr, wr_lock, lost, rd_ptr, rd_lock,
                   prodOpen, consOpen, pop, live>>

\* hdr->ready = true; octf_trace_commit_wr_buffer validates the ring and the
\* handle first.
CommitEvent(p) ==
    /\ pc[p] = "commit"
    /\ LET hdr == push[p].slot.hdr
           sound == integrity_check(mem[hdr].data_ptr, mem[hdr].data_size)
           commits == push[p].api = "push" \/ (magic /\ sound)
       IN  /\ mem' = [mem EXCEPT ![hdr].ready = @ \/ commits]
           /\ magic' = (magic /\ (push[p].api = "push" \/ sound))
           /\ Goto(p, IF commits THEN "ok" ELSE "EINVAL")
    /\ push' = [push EXCEPT ![p] = NoPush]
    /\ UNCHANGED <<closed, wr_ptr, wr_lock, lost, rd_ptr, rd_lock,
                   prodOpen, consOpen, pop, live>>

\* octf_trace_add_lost: events the producer dropped without pushing them.
AddLost(p, n) ==
    /\ prodOpen /\ ProducerIdle(p) /\ magic
    /\ lost + n + Cardinality({q \in Producers : ~ProducerIdle(q)}) <= MaxLost
    /\ lost' = lost + n
    /\ UNCHANGED <<magic, closed, wr_ptr, wr_lock, rd_ptr, rd_lock, mem,
                   prodOpen, consOpen, pc, push, pop, live>>

\* octf_trace_get_free_space reads wr_ptr and then rd_ptr.
FreeSpaceReadWr(p) ==
    /\ prodOpen /\ ProducerIdle(p)
    /\ "free_space" \in ProducerApis
    /\ Goto(p, IF magic THEN "free_rd" ELSE "EINVAL")
    /\ push' = [push EXCEPT ![p] =
                  IF magic THEN [NoPush EXCEPT !.slot.next = wr_ptr]
                           ELSE NoPush]
    /\ UNCHANGED <<hdrVars, mem, prodOpen, consOpen, pop, live>>

\* Mutant: the two pointers are swapped.
Mut_FreeSpaceReadRd(p) ==
    /\ pc[p] = "free_rd"
    /\ push' = [push EXCEPT ![p] =
                  [NoPush EXCEPT !.free =
                      get_free_space(push[p].slot.next, rd_ptr)]]
    /\ Goto(p, "free")
    /\ UNCHANGED <<hdrVars, mem, prodOpen, consOpen, pop, live>>

FreeSpaceReadRd(p) ==
    /\ pc[p] = "free_rd"
    /\ push' = [push EXCEPT ![p] =
                  [NoPush EXCEPT !.free =
                      get_free_space(rd_ptr, push[p].slot.next)]]
    /\ Goto(p, "free")
    /\ UNCHANGED <<hdrVars, mem, prodOpen, consOpen, pop, live>>

-----------------------------------------------------------------------------
(* octf_trace_pop, octf_trace_get_rd_buffer + octf_trace_release_rd_buffer *)

PopCall(c, api, cap) ==
    /\ consOpen /\ ConsumerIdle(c)
    /\ api \in ConsumerApis \cap {"pop", "rdbuf"}
    /\ IF magic
       THEN /\ Goto(c, "lock")
            /\ pop' = [pop EXCEPT ![c] =
                         [NoPop EXCEPT
                            !.api = api,
                            !.cap = IF api = "pop" THEN cap ELSE 0]]
       ELSE /\ Goto(c, "EINVAL")
            /\ pop' = [pop EXCEPT ![c] = NoPop]
    /\ UNCHANGED <<hdrVars, mem, prodOpen, consOpen, push, live>>

TryLockRd(c) ==
    /\ pc[c] = "lock"
    /\ rd_lock' = TRUE
    /\ Goto(c, IF rd_lock THEN "EBUSY" ELSE "read")
    /\ pop' = IF rd_lock THEN [pop EXCEPT ![c] = NoPop] ELSE pop
    /\ UNCHANGED <<magic, closed, wr_ptr, wr_lock, lost, rd_ptr, mem,
                   prodOpen, consOpen, push, live>>

\* Mutant: an event that is not ready is taken.
Mut_GetRdHdr(c) ==
    /\ pc[c] = "read"
    /\ Goto(c, IF /\ rd_ptr # wr_ptr
                  /\ integrity_check(rd_ptr, TRACE_ALIGNMENT)
               THEN "take" ELSE "none")
    /\ UNCHANGED <<hdrVars, mem, prodOpen, consOpen, push, pop, live>>

\* _get_rd_hdr: rd_ptr is stable under rd_lock; wr_ptr is read once, then the
\* ready bit of the header.
GetRdHdr(c) ==
    /\ pc[c] = "read"
    /\ Goto(c, IF /\ rd_ptr # wr_ptr
                  /\ integrity_check(rd_ptr, TRACE_ALIGNMENT)
                  /\ mem[rd_ptr].ready
               THEN "take" ELSE "none")
    /\ UNCHANGED <<hdrVars, mem, prodOpen, consOpen, push, pop, live>>

\* Mutant: this return path forgets to release rd_lock.
Mut_NoEvent(c) ==
    /\ pc[c] = "none"
    /\ pop' = [pop EXCEPT ![c] = NoPop]
    /\ Goto(c, IF closed THEN "EBADF" ELSE "EAGAIN")
    /\ UNCHANGED <<hdrVars, mem, prodOpen, consOpen, push, live>>

\* No event to be read: only now phdr->closed is looked at.
NoEvent(c) ==
    /\ pc[c] = "none"
    /\ pop' = [pop EXCEPT ![c].res = IF closed THEN "EBADF" ELSE "EAGAIN"]
    /\ Goto(c, "unlock")
    /\ UNCHANGED <<hdrVars, mem, prodOpen, consOpen, push, live>>

\* The size and integrity checks, then the copy (pop) or the hand-over of a
\* pointer into the ring (get_rd_buffer, which keeps rd_lock).
TakeEvent(c) ==
    /\ pc[c] = "take"
    /\ LET h == mem[rd_ptr]
           res == IF pop[c].api = "pop" /\ pop[c].cap < h.data_size
                  THEN "ENOSPC"
                  ELSE IF integrity_check(h.data_ptr, h.data_size)
                       THEN "ok" ELSE "EINVAL"
       IN  IF res = "ok"
           THEN /\ Goto(c, IF pop[c].api = "pop" THEN "move" ELSE "hold")
                /\ pop' = [pop EXCEPT ![c].out =
                                           Bytes(h.data_ptr, h.data_size)]
           ELSE /\ Goto(c, "unlock")
                /\ pop' = [pop EXCEPT ![c].res = res]
    /\ UNCHANGED <<hdrVars, mem, prodOpen, consOpen, push, live>>

\* octf_trace_release_rd_buffer up to _move_rd_ptr.  Its error returns leave
\* rd_lock taken.
ReleaseCall(c) ==
    /\ pc[c] = "hold"
    /\ LET h == mem[rd_ptr]
           sound == integrity_check(h.data_ptr, h.data_size)
       IN  /\ magic' = (magic /\ sound)
           /\ Goto(c, IF magic /\ sound THEN "move" ELSE "EINVAL")
           /\ pop' = IF magic /\ sound THEN pop ELSE [pop EXCEPT ![c] = NoPop]
    /\ UNCHANGED <<closed, wr_ptr, wr_lock, lost, rd_ptr, rd_lock, mem,
                   prodOpen, consOpen, push, live>>

MoveRdPtr(c) ==
    /\ pc[c] = "move"
    /\ rd_ptr' = move_ptr(mem[rd_ptr].data_ptr,
                          TRACE_ALIGN(mem[rd_ptr].data_size))
    /\ live' = SubSeq(live, 2, Len(live))
    /\ Goto(c, "unlock")
    /\ UNCHANGED <<magic, closed, wr_ptr, wr_lock, lost, rd_lock, mem,
                   prodOpen, consOpen, push, pop>>

UnlockRd(c) ==
    /\ pc[c] = "unlock"
    /\ rd_lock' = FALSE
    /\ Goto(c, pop[c].res)
    /\ pop' = [pop EXCEPT ![c] = NoPop]
    /\ UNCHANGED <<magic, closed, wr_ptr, wr_lock, lost, rd_ptr, mem,
                   prodOpen, consOpen, push, live>>

\* octf_trace_is_empty reads rd_ptr and then wr_ptr, without a lock.
IsEmptyReadRd(c) ==
    /\ consOpen /\ ConsumerIdle(c)
    /\ "is_empty" \in ConsumerApis
    /\ Goto(c, IF magic THEN "empty_wr" ELSE "EINVAL")
    /\ pop' = [pop EXCEPT ![c] = IF magic THEN [NoPop EXCEPT !.rdp = rd_ptr]
                                          ELSE NoPop]
    /\ UNCHANGED <<hdrVars, mem, prodOpen, consOpen, push, live>>

IsEmptyReadWr(c) ==
    /\ pc[c] = "empty_wr"
    /\ Goto(c, IF pop[c].rdp = wr_ptr THEN "empty" ELSE "nonempty")
    /\ pop' = [pop EXCEPT ![c] = NoPop]
    /\ UNCHANGED <<hdrVars, mem, prodOpen, consOpen, push, live>>

-----------------------------------------------------------------------------
PushStep(p) ==
    \/ TryLockWr(p) \/ TryLockWrGiveUp(p) \/ AllocateEvent(p) \/ PrepareHdr(p)
    \/ PublishWrPtr(p) \/ UnlockWr(p) \/ CountLost(p)
    \/ CopyData(p) \/ CommitEvent(p) \/ FreeSpaceReadRd(p)

PopStep(c) ==
    \/ TryLockRd(c) \/ GetRdHdr(c) \/ NoEvent(c) \/ TakeEvent(c)
    \/ ReleaseCall(c) \/ MoveRdPtr(c) \/ UnlockRd(c) \/ IsEmptyReadWr(c)

Next ==
    \/ OpenProducer
    \/ \E ext \in BOOLEAN : OpenConsumer(ext)
    \/ CloseProducer
    \/ CloseConsumer
    \/ \E p \in Producers :
         \/ \E api \in ProducerApis, s \in Sizes, v \in Payloads :
                PushCall(p, api, s, v)
         \/ \E n \in 1..MaxLost : AddLost(p, n)
         \/ FreeSpaceReadWr(p)
         \/ PushStep(p)
    \/ \E c \in Consumers :
         \/ \E api \in ConsumerApis, cap \in BufSizes : PopCall(c, api, cap)
         \/ IsEmptyReadRd(c)
         \/ PopStep(c)

Spec == Init /\ [][Next]_vars

\* The code runs on: a thread inside a call takes its next step.
ThreadFairness ==
    /\ \A p \in Producers : WF_vars(PushStep(p))
    /\ \A c \in Consumers : WF_vars(PopStep(c))

\* A consumer process exists whenever the ring can be opened, and polls with
\* a buffer that is large enough for every event.
PollingFairness ==
    /\ WF_vars(\E ext \in BOOLEAN : OpenConsumer(ext) /\ ext = HasChdr)
    /\ \A c \in Consumers :
         SF_vars(\E api \in ConsumerApis, cap \in BufSizes :
                    /\ \A s \in Sizes : cap >= s
                    /\ PopCall(c, api, cap))

FairSpec == Spec /\ ThreadFairness /\ PollingFairness

-----------------------------------------------------------------------------
(* Properties.                                                             *)

\* Every variable has its type; in particular both pointers stay inside the
\* ring, whatever event sizes were pushed.
PushRecord == [api : {"push", "wrbuf"}, size : Nat,
               payload : Payloads \cup {NoPayload},
               retry : 0..(WR_LOCK_RETRY + 1), slot : Handles, free : Int]

PopRecord == [api : {"pop", "rdbuf"}, cap : Nat, res : ConsumerResults,
              out : SUBSET (Payloads \cup {NoPayload}), rdp : Addr]

EventRecord == [hdr : Addr, data : Addr, next : Addr, size : Nat,
                payload : Payloads \cup {NoPayload}, by : Producers]

PcType ==
    /\ pc \in [Producers \cup Consumers -> ProducerLabels \cup ConsumerLabels]
    /\ \A p \in Producers : pc[p] \in ProducerLabels
    /\ \A c \in Consumers : pc[c] \in ConsumerLabels

TypeOK ==
    /\ magic \in BOOLEAN /\ closed \in BOOLEAN
    /\ wr_ptr \in Addr /\ rd_ptr \in Addr
    /\ wr_lock \in BOOLEAN /\ rd_lock \in BOOLEAN
    /\ lost \in Nat
    /\ mem \in [Addr -> Cell]
    /\ prodOpen \in BOOLEAN /\ consOpen \in BOOLEAN
    /\ PcType
    /\ push \in [Producers -> PushRecord]
    /\ pop \in [Consumers -> PopRecord]
    /\ live \in Seq(EventRecord)

\* Sizes for which the 32-bit _size of _allocate_event is exact.
NoSizeWrap == \A s \in Sizes : TRACE_ALIGN(s) < SIZE_MOD

Disjoint(a, m, b, n) == a + m <= b \/ b + n <= a

InRing(e) ==
    /\ e.hdr + TRACE_ALIGNMENT <= ring_size
    /\ e.data + TRACE_ALIGN(e.size) <= ring_size
    /\ Disjoint(e.hdr, TRACE_ALIGNMENT, e.data, TRACE_ALIGN(e.size))

Separate(e, f) ==
    /\ Disjoint(e.hdr, TRACE_ALIGNMENT, f.hdr, TRACE_ALIGNMENT)
    /\ Disjoint(e.hdr, TRACE_ALIGNMENT, f.data, TRACE_ALIGN(f.size))
    /\ Disjoint(e.data, TRACE_ALIGN(e.size), f.hdr, TRACE_ALIGNMENT)
    /\ Disjoint(e.data, TRACE_ALIGN(e.size), f.data, TRACE_ALIGN(f.size))

\* The header and the data of every event lie inside the ring, each in one
\* piece, and share no byte with another event that is still in the ring, nor
\* with the place _allocate_event has chosen and not published yet, although
\* consumers move rd_ptr while _allocate_event computes with a stale copy.
NoOverlap ==
    /\ \A i \in DOMAIN live : InRing(live[i])
    /\ \A i, j \in DOMAIN live : i # j => Separate(live[i], live[j])
    /\ \A p \in Producers : pc[p] \in {"prepare", "publish"} =>
         /\ InRing(Event(p))
         /\ \A i \in DOMAIN live : Separate(Event(p), live[i])

\* rd_ptr = wr_ptr exactly when no event is in the ring (a full ring is never
\* mistaken for an empty one), and from rd_ptr the stored events chain up to
\* wr_ptr: what _move_rd_ptr computes is where the next header is.
PointersChain ==
    /\ (live = <<>>) <=> (rd_ptr = wr_ptr)
    /\ live # <<>> => /\ live[1].hdr = rd_ptr
                      /\ live[Len(live)].next = wr_ptr
    /\ \A i \in 1..(Len(live) - 1) : live[i].next = live[i + 1].hdr
    /\ \A i \in DOMAIN live :
         move_ptr(live[i].data, TRACE_ALIGN(live[i].size)) = live[i].next

\* The header of every event in the ring still says what _allocate_event put
\* there, and an event marked ready has all of its bytes as pushed.
EventsIntact ==
    \A i \in DOMAIN live :
        LET e == live[i] IN
        /\ mem[e.hdr].data_ptr = e.data
        /\ mem[e.hdr].data_size = e.size
        /\ mem[e.hdr].ready => Bytes(e.data, e.size) = Content(e)

\* What octf_trace_pop copied, or what the pointer returned by
\* octf_trace_get_rd_buffer refers to, is the oldest event, complete and
\* unchanged until the consumer releases it.
DeliveredIsHead ==
    \A c \in Consumers : pc[c] \in {"hold", "move"} =>
        /\ live # <<>>
        /\ live[1].hdr = rd_ptr
        /\ pop[c].out = Content(live[1])
        /\ Bytes(live[1].data, live[1].size) = Content(live[1])

\* An event that is not ready has a producer thread that is still going to
\* commit it: no event is left behind that would block the consumer for ever.
PendingIsOwned ==
    \A i \in DOMAIN live : ~mem[live[i].hdr].ready =>
        /\ pc[live[i].by] \in {"unlock", "copy", "commit"}
        /\ push[live[i].by].slot.hdr = live[i].hdr

HoldsWr(p) == pc[p] \in {"alloc", "prepare", "publish", "unlock", "fail"}
HoldsRd(c) == pc[c] \in {"read", "none", "take", "hold", "move", "unlock"}

\* Each spin lock is held by at most one thread, and is taken only while some
\* thread is going to release it: no return path leaks a lock.
LocksExact ==
    /\ \A p, q \in Producers : HoldsWr(p) /\ HoldsWr(q) => p = q
    /\ \A c, d \in Consumers : HoldsRd(c) /\ HoldsRd(d) => c = d
    /\ wr_lock <=> \E p \in Producers : HoldsWr(p)
    /\ rd_lock <=> \E c \in Consumers : HoldsRd(c)

\* No consistency check of trace.c ever fires: a ring that was opened by a
\* producer stays valid.
NeverInvalidated == prodOpen \/ closed => magic

\* The result of octf_trace_get_free_space never promises more bytes than are
\* really free outside the stored events (and the gaps at the ring's end).
FreeSpaceSafe ==
    \A p \in Producers : pc[p] = "free" =>
        /\ push[p].free >= 0
        /\ push[p].free <= get_free_space(rd_ptr, wr_ptr)

\* When octf_trace_is_empty returns 1, the ring was empty when it looked at
\* wr_ptr ("@retval 1 trace empty", trace.h).  For a single consumer: another
\* one could move rd_ptr between the two reads while the producer goes round.
EmptyIsEmpty ==
    [][\A c \in Consumers : IsEmptyReadWr(c) /\ pc'[c] = "empty"
            => live = <<>>]_vars

\* octf_trace_pop and octf_trace_get_rd_buffer return -EBADF only when the
\* trace is closed and drained ("Trace empty and already closed", trace.h).
BadfMeansDrained ==
    [][\A c \in Consumers : UnlockRd(c) /\ pc'[c] = "EBADF"
            => closed /\ live = <<>>]_vars

\* A push fails with -EINVAL only when the ring is invalid already ("-EINVAL
\* Trace is invalid", trace.h); an event for which there is no room is -ENOSPC
\* ("Event lost because no space") and leaves the ring valid.
EinvalMeansInvalid ==
    [][\A p \in Producers : CopyData(p) /\ pc'[p] = "EINVAL" => ~magic]_vars

\* A call of a producer always returns: the write lock is tried a bounded
\* number of times.
PushReturns ==
    \A p \in Producers : pc[p] \in ProducerSteps ~> pc[p] \in ProducerResults

\* While consumers poll, the oldest event is consumed: rd_ptr moves on from
\* every position at which an event is stored (or the ring is formatted anew).
HeadConsumed ==
    \A a \in Addr : (live # <<>> /\ rd_ptr = a) ~> (live = <<>> \/ rd_ptr # a)

-----------------------------------------------------------------------------
(* The queue the ring implements.                                          *)

Queue == INSTANCE TraceQueue WITH
    Contents <- {{v : a \in 1..s} : v \in Payloads, s \in Sizes},
    queue <- [i \in DOMAIN live |-> [by |-> live[i].by,
                                     content |-> Content(live[i]),
                                     done |-> mem[live[i].hdr].ready]],
    held <- [c \in Consumers |-> IF pc[c] \in {"hold", "move"}
                                 THEN <<pop[c].out>> ELSE <<>>]

\* The ring implements the queue: every step of every thread is a step of
\* TraceQueue or changes nothing a client of the queue can see.
ImplementsQueue == Queue!QSpec
=============================================================================
