------------------------------ MODULE TraceQueue ------------------------------
(***************************************************************************)
(* What the trace ring promises its clients: a FIFO queue of events.  A    *)
(* producer first reserves the next place, later completes the event; only *)
(* the oldest event, once complete, is visible, to one consumer at a time, *)
(* who sees exactly what was pushed and then removes exactly that event.   *)
(* An event that finds no place is counted as lost, never silently dropped *)
(* and never stored twice.                                                 *)
(***************************************************************************)
EXTENDS Naturals, Sequences

CONSTANTS Producers, Consumers, Contents

VARIABLES
    queue,      \* reserved events, oldest first
    held,       \* what each consumer is looking at: <<>> or <<content>>
    lost,       \* number of lost events
    closed      \* the producer has closed the trace

qvars == <<queue, held, lost, closed>>

Nobody == [c \in Consumers |-> <<>>]

QInit ==
    /\ queue = <<>>
    /\ held = Nobody
    /\ lost = 0
    /\ closed = FALSE

Reserve(p, x) ==
    /\ ~closed
    /\ queue' = Append(queue, [by |-> p, content |-> x, done |-> FALSE])
    /\ UNCHANGED <<held, lost, closed>>

Complete(i) ==
    /\ ~closed
    /\ ~queue[i].done
    /\ queue' = [queue EXCEPT ![i].done = TRUE]
    /\ UNCHANGED <<held, lost, closed>>

Lose(n) ==
    /\ ~closed
    /\ lost' = lost + n
    /\ UNCHANGED <<queue, held, closed>>

View(c) ==
    /\ held = Nobody
    /\ queue # <<>> /\ queue[1].done
    /\ held' = [held EXCEPT ![c] = <<queue[1].content>>]
    /\ UNCHANGED <<queue, lost, closed>>

Remove(c) ==
    /\ held[c] # <<>>
    /\ queue' = Tail(queue)
    /\ held' = Nobody
    /\ UNCHANGED <<lost, closed>>

\* No event may still be incomplete when the producer closes.
Close ==
    /\ \A i \in DOMAIN queue : queue[i].done
    /\ closed' = TRUE
    /\ UNCHANGED <<queue, held, lost>>

Format ==
    /\ held = Nobody
    /\ QInit'

QNext ==
    \/ \E p \in Producers, x \in Contents : Reserve(p, x)
    \/ \E i \in DOMAIN queue : Complete(i)
    \/ lost' > lost /\ Lose(lost' - lost)
    \/ \E c \in Consumers : View(c) \/ Remove(c)
    \/ Close
    \/ Format

QSpec == QInit /\ [][QNext]_qvars
===============================================================================
