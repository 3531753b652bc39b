------------------------------ MODULE LruExtension ------------------------------
(* LRUExtensionBuilder: the simulation of an LRU cache along a parsed trace.  *)
(* m_lookup and the list of its nodes are one sequence, least recently used   *)
(* first.                                                                     *)
EXTENDS Integers, Sequences, SequencesExt

CONSTANTS
    CacheLineSectors,  \* sectors of a cache line
    Percentages        \* of the working set, one builder each

sectorToCacheLine(sector) == sector \div CacheLineSectors

NewLru(worksetSize, percentage) ==
    [m_cacheLines |-> (sectorToCacheLine(worksetSize) * percentage) \div 100,
     m_lru |-> <<>>, m_noRq |-> 0, m_noHit |-> 0, hit |-> FALSE,
     crashed |-> FALSE]    \* the head of an empty list was read

get(l, line) == Contains(l.m_lru, line)

evict(l) == IF l.m_lru = <<>> THEN [l EXCEPT !.crashed = TRUE]
            ELSE [l EXCEPT !.m_lru = Tail(@)]

\* Mutant: one line too many is kept
Mut_push(l, line) ==
    IF get(l, line) THEN [l EXCEPT !.m_lru = Append(Remove(@, line), line)]
    ELSE LET room == IF Len(l.m_lru) > l.m_cacheLines THEN evict(l) ELSE l
         IN [room EXCEPT !.m_lru = Append(@, line)]

\* A line that is there becomes the most recent, a new one may evict another
push(l, line) ==
    IF get(l, line) THEN [l EXCEPT !.m_lru = Append(Remove(@, line), line)]
    ELSE LET room == IF Len(l.m_lru) >= l.m_cacheLines THEN evict(l) ELSE l
         IN [room EXCEPT !.m_lru = Append(@, line)]

isEventValid(io) == io.operation \in {"Read", "Write"} /\ io.len # 0

\* The step of the builder: a request hits if each of its lines does when its
\* turn comes
BuildStep(l, io) ==
    LET first == sectorToCacheLine(io.lba)
        last == sectorToCacheLine(io.lba + io.len - 1)
        touch(s, line) == [push(s, line) EXCEPT !.hit = s.hit /\ get(s, line)]
        done == FoldLeft(touch, [l EXCEPT !.hit = TRUE],
                         [k \in 1 .. last - first + 1 |-> first + k - 1])
    IN IF l.crashed \/ ~isEventValid(io) THEN l
       ELSE [done EXCEPT !.m_noRq = @ + 1,
                         !.m_noHit = IF done.hit THEN @ + 1 ELSE @]

hitRatio(l) == (l.m_noHit * 100) \div l.m_noRq
=============================================================================
