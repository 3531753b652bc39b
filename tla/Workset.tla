-------------------------------- MODULE Workset --------------------------------
(* WorksetCalculator: a set of ranges of sectors, which are equal for that    *)
(* set when they overlap or touch, and the largest size they had together.    *)
EXTENDS Integers, FiniteSetsExt

NewRange(begin, end) == [begin |-> begin, end |-> end]

\* "Continuous ranges are also treated as overlapping"
doRangesOverlap(r1, r2) == r1.begin <= r2.end /\ r1.end >= r2.begin

EmptyWorkset == [hitRanges |-> {}, max |-> 0, isMaxFresh |-> TRUE]

Overlapping(ranges, r) == {x \in ranges : doRangesOverlap(x, r)}
LengthSum(ranges) == MapThenSumSet(LAMBDA x : x.end - x.begin, ranges)

getWorkset(wc) == IF wc.isMaxFresh THEN wc.max ELSE Max({wc.max, LengthSum(wc.hitRanges)})

\* find() returns the first range that overlaps; only that one is asked
\* whether it holds the new range already
mergeRanges(ranges, new) ==
    LET found == Overlapping(ranges, new)
        first == CHOOSE x \in found : \A y \in found : x.begin <= y.begin
    IN IF first.begin <= new.begin /\ new.end <= first.end THEN ranges
       ELSE (ranges \ found) \cup
              {NewRange(Min({new.begin, first.begin}), Max({new.end} \cup {x.end : x \in found}))}

insertRange(wc, begin, len) ==
    LET new == NewRange(begin, begin + len)
    IN IF len = 0 THEN wc
       ELSE [wc EXCEPT !.isMaxFresh = FALSE,
                       !.hitRanges = IF Overlapping(@, new) = {} THEN @ \cup {new}
                                     ELSE mergeRanges(@, new)]

\* Mutant: the length of the second part is forgotten
Mut_Remains(x, r) ==
    IF x.begin < r.begin \/ x.end > r.end \/ x = r
    THEN IF x.begin < r.begin THEN {NewRange(x.begin, r.begin)} ELSE {}
    ELSE {x}

\* What is left of a range; one that ends inside, or lies inside but is not
\* equal, is left as it is
Remains(x, r) ==
    IF x.begin < r.begin \/ x.end > r.end \/ x = r
    THEN (IF x.begin < r.begin THEN {NewRange(x.begin, r.begin)} ELSE {}) \cup
         (IF x.end > r.end THEN {NewRange(r.end, x.end)} ELSE {})
    ELSE {x}

\* The new calculator and the length that is returned (for a length above 0)
removeRange(wc, begin, len) ==
    LET r == NewRange(begin, begin + len)
        found == Overlapping(wc.hitRanges, r)
        parts == UNION {Remains(x, r) : x \in found}
    IN IF found = {} THEN [wc |-> wc, removed |-> 0]
       ELSE [wc |-> [hitRanges |-> (wc.hitRanges \ found) \cup parts,
                     max |-> Max({getWorkset(wc), wc.max}), isMaxFresh |-> TRUE],
             removed |-> LengthSum(found) - LengthSum(parts)]
=============================================================================
