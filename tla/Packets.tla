------------------------------- MODULE Packets -------------------------------
(* Packets over a stream socket: ConnectionTransceiver::sendDataPacket and    *)
(* its receiving thread, Packetizer, and unixsocket::Connection.  A packet is *)
(* a header of HEADER_SIZE bytes and data.  send() and recv() move any number *)
(* of bytes that fits, so the bytes of a packet may come in several pieces.   *)
(* A byte is [of, pos]: of which packet, and where in it.                     *)
EXTENDS Integers, Sequences, SequencesExt

CONSTANTS
    Senders,          \* threads that send, one packet each
    Sizes,            \* of the data of a packet
    HEADER_SIZE,
    MAX_PACKET_SIZE   \* 32 MB in the code

ASSUME PacketsAssumption == HEADER_SIZE \in Nat \ {0} /\ Sizes \subseteq Nat

VARIABLES
    size,       \* of the packet of each sender
    tx,         \* per sender: "idle", "header", "data", "sent" or "failed"
    left,       \* bytes of the current send() still to go
    m_txLock,   \* its holder, if any
    stream,     \* bytes in the socket
    alive,      \* the connection
    reading,    \* "header", "data", or "ended"
    expected,   \* m_expectedDataSize
    received,   \* bytes of the packet being received
    packets,    \* handed to onDataPacket
    order       \* history: the senders in the order in which they had the lock

packetVars == <<size, tx, left, m_txLock, stream, alive, reading, expected,
                received, packets, order>>

PacketsInit ==
    /\ size \in [Senders -> Sizes]
    /\ tx = [s \in Senders |-> "idle"] /\ left = [s \in Senders |-> 0]
    /\ m_txLock = {} /\ order = <<>>
    /\ stream = <<>> /\ alive = TRUE
    /\ reading = "header" /\ expected = 0 /\ received = <<>> /\ packets = <<>>
-----------------------------------------------------------------------------
\* createHeader: what a byte says is known by its position in the packet
Bytes(s, from, to) == [k \in 1 .. to - from |-> [of |-> s, pos |-> from + k]]
Whole(s) == Bytes(s, 0, HEADER_SIZE + size[s])

\* Mutant: the lock is not waited for
Mut_lockTx(s) ==
    /\ tx[s] = "idle"
    /\ m_txLock' = {s}
    /\ tx' = [tx EXCEPT ![s] = "header"]
    /\ order' = Append(order, s)
    /\ left' = [left EXCEPT ![s] = HEADER_SIZE]
    /\ UNCHANGED <<size, stream, alive, reading, expected, received, packets>>

lockTx(s) ==
    /\ tx[s] = "idle" /\ m_txLock = {}
    /\ m_txLock' = {s}
    /\ tx' = [tx EXCEPT ![s] = "header"]
    /\ order' = Append(order, s)
    /\ left' = [left EXCEPT ![s] = HEADER_SIZE]
    /\ UNCHANGED <<size, stream, alive, reading, expected, received, packets>>

\* One ::send of at most MAX_PACKET_SIZE bytes
send(s) ==
    /\ tx[s] \in {"header", "data"} /\ left[s] > 0 /\ alive
    /\ \E n \in 1 .. left[s] :
        /\ n <= MAX_PACKET_SIZE
        /\ LET end == IF tx[s] = "header" THEN HEADER_SIZE ELSE HEADER_SIZE + size[s]
           IN stream' = stream \o Bytes(s, end - left[s], end - left[s] + n)
        /\ left' = [left EXCEPT ![s] = @ - n]
    /\ UNCHANGED <<size, tx, m_txLock, alive, reading, expected, received, packets, order>>

\* The connection is closed when it fails; nothing can be sent after that
sendFails(s) ==
    /\ tx[s] \in {"header", "data"} /\ ~alive
    /\ tx' = [tx EXCEPT ![s] = "failed"]
    /\ m_txLock' = {}
    /\ UNCHANGED <<size, left, stream, alive, reading, expected, received, packets, order>>

sent(s) ==
    /\ tx[s] \in {"header", "data"} /\ left[s] = 0 /\ alive
    /\ IF tx[s] = "header"
       THEN /\ tx' = [tx EXCEPT ![s] = "data"]
            /\ left' = [left EXCEPT ![s] = size[s]]
            /\ UNCHANGED m_txLock
       ELSE /\ tx' = [tx EXCEPT ![s] = "sent"]
            /\ m_txLock' = {}
            /\ UNCHANGED left
    /\ UNCHANGED <<size, stream, alive, reading, expected, received, packets, order>>
-----------------------------------------------------------------------------
\* receivePacket fails, the connection is closed and the loop left
Error ==
    /\ alive' = FALSE /\ reading' = "ended" /\ expected' = 0
    /\ UNCHANGED <<received, packets>>

\* The header is read by one recv(); a short one is an error, as is one
\* without signature and one with too large a size
processHeader(bytes) ==
    IF \/ Len(bytes) < HEADER_SIZE
       \/ bytes[1].pos # 1
       \/ size[bytes[1].of] > MAX_PACKET_SIZE
    THEN Error
    ELSE /\ expected' = size[bytes[1].of]
         /\ IF expected' = 0 THEN packets' = Append(packets, <<>>) /\ reading' = "header"
                             ELSE reading' = "data" /\ UNCHANGED packets
         /\ UNCHANGED <<alive, received>>

recv(n) ==
    /\ reading \in {"header", "data"} /\ alive
    /\ n <= Len(stream)
    /\ LET bytes == SubSeq(stream, 1, n)
           more == received \o bytes
       IN \/ reading = "header" /\ n <= HEADER_SIZE /\ processHeader(bytes)
          \/ /\ reading = "data" /\ n <= expected - Len(received)
             /\ IF Len(more) = expected
                THEN packets' = Append(packets, more) /\ reading' = "header" /\ received' = <<>>
                ELSE received' = more /\ UNCHANGED <<packets, reading>>
             /\ UNCHANGED <<alive, expected>>
    /\ stream' = SubSeq(stream, n + 1, Len(stream))
    /\ UNCHANGED <<size, tx, left, m_txLock, order>>

\* The peer closes its end
Hangup ==
    /\ alive
    /\ Error
    /\ UNCHANGED <<size, tx, left, m_txLock, stream, order>>

PacketsNext ==
    \/ \E s \in Senders : lockTx(s) \/ send(s) \/ sendFails(s) \/ sent(s)
    \/ \E n \in 1 .. Len(stream) : recv(n)
    \/ Hangup

PacketsSpec == PacketsInit /\ [][PacketsNext]_packetVars
-----------------------------------------------------------------------------
(* What is handed on is the data of packets that were sent, whole, each once  *)
(* and in the order in which the senders had the lock, however the bytes were *)
(* split on the way and whenever the connection ended.                        *)
Data(s) == SubSeq(Whole(s), HEADER_SIZE + 1, HEADER_SIZE + size[s])

PacketsIntact ==
    /\ Len(packets) <= Len(order) /\ IsInjective(order)
    /\ \A i \in DOMAIN packets : packets[i] = Data(order[i])
=============================================================================
