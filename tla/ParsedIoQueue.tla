---------------------------- MODULE ParsedIoQueue ----------------------------
(* ParsedIoTraceEventQueue: a thread parses a trace into a bounded queue and  *)
(* the owner of the object reads it with empty(), front() and pop(), and may  *)
(* destroy it at any time.  The conditions of the two waits are evaluated     *)
(* under the mutex that the notifying thread takes after it changed them, so  *)
(* a wait is an action that is enabled when its condition holds.  What has    *)
(* no notification is therefore what has no step here.                        *)
EXTENDS Integers, Sequences

CONSTANTS
    QUEUE_LIMIT,
    Produced        \* parsed IOs of the trace

VARIABLES
    parser,     \* "check", "limit", "push", "finish", "ended" or "failed"
    handled,    \* IOs the parser has handled
    m_queue,
    m_count,    \* of the semaphore m_queueLimit
    m_finished,
    exception,  \* m_exception is set
    cancelled,
    owner,      \* "idle", a call it waits in, "join", "gone" or "threw"
    got         \* IOs popped by the owner

qvars == <<parser, handled, m_queue, m_count, m_finished, exception,
           cancelled, owner, got>>

QueueInit ==
    /\ parser = "check" /\ handled = 0
    /\ m_queue = <<>> /\ m_count = QUEUE_LIMIT /\ m_finished = FALSE
    /\ exception = FALSE /\ cancelled = FALSE
    /\ owner = "idle" /\ got = <<>>
-----------------------------------------------------------------------------
(* The parser thread                                                          *)

Skip == parser' = IF handled' = Produced THEN "finish" ELSE "check"

\* handleIO: cancellation is looked at before the semaphore, without a lock
HandleIO ==
    /\ parser = "check" /\ handled < Produced
    /\ IF cancelled THEN handled' = handled + 1 /\ Skip
                    ELSE parser' = "limit" /\ UNCHANGED handled
    /\ UNCHANGED <<m_queue, m_count, m_finished, exception, cancelled, owner, got>>

\* Semaphore::wait
WaitLimit ==
    /\ parser = "limit" /\ m_count > 0
    /\ m_count' = m_count - 1
    /\ parser' = "push"
    /\ UNCHANGED <<handled, m_queue, m_finished, exception, cancelled, owner, got>>

Push ==
    /\ parser = "push"
    /\ m_queue' = Append(m_queue, handled + 1)
    /\ handled' = handled + 1 /\ Skip
    /\ UNCHANGED <<m_count, m_finished, exception, cancelled, owner, got>>

Finished ==
    /\ parser = "finish"
    /\ m_finished' = TRUE
    /\ parser' = "ended"
    /\ UNCHANGED <<handled, m_queue, m_count, exception, cancelled, owner, got>>

\* The trace cannot be parsed: the thread stores the exception and ends
Fail ==
    /\ parser \in {"check", "finish"}
    /\ exception' = TRUE
    /\ parser' = "failed"
    /\ UNCHANGED <<handled, m_queue, m_count, m_finished, cancelled, owner, got>>
-----------------------------------------------------------------------------
(* The owner                                                                  *)

\* isException() is looked at when a call is made, not while it waits
Call(op) ==
    /\ owner = "idle"
    /\ owner' = IF exception THEN "threw" ELSE op
    /\ UNCHANGED <<parser, handled, m_queue, m_count, m_finished, exception,
                   cancelled, got>>

Ready == m_queue # <<>> \/ m_finished

\* An event is there, or the end of the trace was reached
empty ==
    /\ owner = "empty" /\ Ready
    /\ owner' = "idle"
    /\ UNCHANGED <<parser, handled, m_queue, m_count, m_finished, exception,
                   cancelled, got>>

front ==
    /\ owner = "front" /\ Ready
    /\ owner' = IF m_queue = <<>> THEN "threw" ELSE "idle"
    /\ UNCHANGED <<parser, handled, m_queue, m_count, m_finished, exception,
                   cancelled, got>>

\* Mutant: a pop that does not post the limit
Mut_pop ==
    /\ owner = "pop" /\ Ready
    /\ IF m_queue = <<>>
       THEN owner' = "threw" /\ UNCHANGED <<m_queue, got>>
       ELSE /\ m_queue' = Tail(m_queue) /\ got' = Append(got, Head(m_queue))
            /\ owner' = "idle"
    /\ UNCHANGED <<parser, handled, m_count, m_finished, exception, cancelled>>

pop ==
    /\ owner = "pop" /\ Ready
    /\ IF m_queue = <<>>
       THEN owner' = "threw" /\ UNCHANGED <<m_count, m_queue, got>>
       ELSE /\ m_count' = m_count + 1
            /\ m_queue' = Tail(m_queue)
            /\ got' = Append(got, Head(m_queue))
            /\ owner' = "idle"
    /\ UNCHANGED <<parser, handled, m_finished, exception, cancelled>>

\* The destructor cancels, which posts the semaphore once, and joins
Destroy ==
    /\ owner \in {"idle", "threw"}
    /\ cancelled' = TRUE
    /\ m_count' = m_count + 1
    /\ owner' = "join"
    /\ UNCHANGED <<parser, handled, m_queue, m_finished, exception, got>>

Join ==
    /\ owner = "join" /\ parser \in {"ended", "failed"}
    /\ owner' = "gone"
    /\ UNCHANGED <<parser, handled, m_queue, m_count, m_finished, exception,
                   cancelled, got>>
-----------------------------------------------------------------------------
Parse == HandleIO \/ WaitLimit \/ Push \/ Finished
Return == empty \/ front \/ pop \/ Join
QueueNext == \/ Parse \/ Fail \/ Return \/ Destroy
        \/ \E op \in {"empty", "front", "pop"} : Call(op)

\* Threads that can run do; nobody has to call, to destroy or to fail
QueueSpec == QueueInit /\ [][QueueNext]_qvars /\ WF_qvars(Parse) /\ WF_qvars(Return)
-----------------------------------------------------------------------------
(* The permits of the semaphore and the places of the queue that are free     *)
(* stay equal through every interleaving of handleIO, pop and cancel; the one *)
(* permit more of a cancellation is what lets a blocked parser end.           *)
Waiting == owner \in {"empty", "front", "pop"}

LimitBalance ==
    /\ m_count + Len(m_queue) + (IF parser = "push" THEN 1 ELSE 0)
         = QUEUE_LIMIT + (IF cancelled THEN 1 ELSE 0)
    /\ \A i \in DOMAIN got : got[i] = i
    /\ m_queue # <<>> => Head(m_queue) = Len(got) + 1

(* The destructor returns, whether the parser is blocked on the limit, at     *)
(* work, done or failed.                                                      *)
DestructorReturns == owner = "join" ~> owner = "gone"

(* A reader waits only for a parser that is at work.                          *)
ReaderReturns == Waiting ~> (~Waiting \/ parser = "failed")
=============================================================================
