------------------------------ MODULE Distribution ------------------------------
(* Distribution: totals and a histogram of values.  Bucket 0 has one range    *)
(* for each value below `ranges`; bucket l > 0 spans base^(l-1)*ranges up to  *)
(* base^l*ranges - 1, cut into that number of ranges of equal size.           *)
EXTENDS Integers, Sequences, SequencesExt

NewDistribution(ranges, base) ==
    [ranges |-> ranges, base |-> base, total |-> 0, count |-> 0, min |-> -1,
     max |-> 0, histogram |-> <<>>]     \* min -1: no value yet

\* The constructor of a bucket of a level
Bucket(level, ranges, base) ==
    LET begin == IF level = 0 THEN 0 ELSE base ^ (level - 1) * ranges
        end == base ^ level * ranges - 1
        zero == [k \in 0 .. ranges - 1 |-> 0]
    IN [Begin |-> begin, End |-> end, RangeSize |-> (end - begin + 1) \div ranges,
        Sum |-> zero, Count |-> zero]

\* The lowest level whose end is not below the value
Level(d, value) ==
    CHOOSE l \in 0 .. value : /\ d.base ^ l * d.ranges - 1 >= value
                              /\ \A k \in 0 .. l - 1 : d.base ^ k * d.ranges - 1 < value

\* getBucket makes the buckets that are missing up to that level
getBucket(d, value) ==
    d.histogram \o [k \in 1 .. Level(d, value) + 1 - Len(d.histogram) |->
                       Bucket(Len(d.histogram) + k - 1, d.ranges, d.base)]

BucketAdd(b, value) ==
    LET id == (value - b.Begin) \div b.RangeSize
    IN [b EXCEPT !.Sum[id] = @ + value, !.Count[id] = @ + 1]

\* Mutant: the bucket of the value starts anew
Mut_AddValue(d, value) ==
    [d EXCEPT !.total = @ + value, !.count = @ + 1,
              !.min = IF d.count = 0 \/ value < @ THEN value ELSE @,
              !.max = IF value > @ THEN value ELSE @,
              !.histogram = [getBucket(d, value) EXCEPT
                                ![Level(d, value) + 1] =
                                    Bucket(Level(d, value), d.ranges, d.base)]]

\* operator+=
AddValue(d, value) ==
    [d EXCEPT !.total = @ + value, !.count = @ + 1,
              !.min = IF d.count = 0 \/ value < @ THEN value ELSE @,
              !.max = IF value > @ THEN value ELSE @,
              !.histogram = [getBucket(d, value) EXCEPT
                                ![Level(d, value) + 1] = BucketAdd(@, value)]]

\* The ranges of getHistogram in their order, with what they sum up
Ranges(d) ==
    FlattenSeq([l \in DOMAIN d.histogram |->
        LET b == d.histogram[l]
        IN [k \in 1 .. d.ranges |->
             [begin |-> b.Begin + (k - 1) * b.RangeSize,
              end |-> b.Begin + k * b.RangeSize - 1,
              count |-> b.Count[k - 1], sum |-> b.Sum[k - 1]]]])

getHistogram(d) == IF d.count = 0 THEN <<>> ELSE Ranges(d)

\* The first range at which the sums of the values, not their number, exceed a
\* percentage; getStatistics reports the middle of that range
Percentile(d, percent) ==
    LET cumulated(i) == FoldLeft(LAMBDA s, r : s + r.sum, 0, SubSeq(Ranges(d), 1, i))
        at == CHOOSE i \in DOMAIN Ranges(d) :
                 /\ 100 * cumulated(i) > percent * d.total
                 /\ \A j \in 1 .. i - 1 : 100 * cumulated(j) <= percent * d.total
    IN Ranges(d)[at]

getStatistics(d) ==
    [average |-> IF d.count = 0 THEN 0 ELSE d.total \div d.count,
     min |-> IF d.count = 0 THEN 0 ELSE d.min, max |-> d.max, total |-> d.total,
     percentiles |-> IF d.total = 0 THEN {} ELSE {Percentile(d, p) : p \in {90, 99}}]
=============================================================================
