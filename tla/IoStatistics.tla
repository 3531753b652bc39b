------------------------------ MODULE IoStatistics ------------------------------
(* What consumes the parsed IOs of a trace: the statistics of each device     *)
(* (IoStatisticsSet, IoStatistics) and the builders of the LRU extensions.    *)
(* The parser hands device descriptions and IOs over one at a time.           *)
EXTENDS Workset, Distribution, LruExtension

CONSTANTS
    Ios,            \* IOs a trace may contain
    Devices, MaxIos,
    SizeRanges, QdRanges,   \* 256 and 128 in the code
    LbaRange,               \* m_lbaHistRangeSize
    WorksetSize             \* handed to the LRU builders

VARIABLES
    m_map,             \* statistics of each device that has any
    m_lbaHistEnabled,
    builders,          \* LRU builder of each percentage
    ios                \* IOs handled

ivars == <<m_map, m_lbaHistEnabled, builders, ios>>

Types == {"Read", "Write", "Discard"}
Groups == Types \cup {"flush", "total"}

Stats == [size |-> NewDistribution(SizeRanges, 2), count |-> 0,
          latency |-> NewDistribution(1, 2), qd |-> NewDistribution(QdRanges, 2),
          errors |-> 0, wc |-> EmptyWorkset, lbaHitMap |-> <<>>]

NewIoStatistics == [groups |-> [g \in Groups |-> Stats], startTime |-> 0,
                    endTime |-> 0, lbaHistEnabled |-> FALSE]

Init ==
    /\ m_map = <<>> /\ m_lbaHistEnabled = FALSE /\ ios = <<>>
    /\ builders = [p \in Percentages |-> NewLru(WorksetSize, p)]

getIoStatistics(d) == IF d \in DOMAIN m_map THEN m_map[d] ELSE NewIoStatistics

SetStatistics(d, s) == [x \in DOMAIN m_map \cup {d} |-> IF x = d THEN s ELSE m_map[x]]
-----------------------------------------------------------------------------
enableLbaHistogram ==
    /\ ios = <<>> /\ ~m_lbaHistEnabled
    /\ m_lbaHistEnabled' = TRUE
    /\ UNCHANGED <<m_map, builders, ios>>

\* addDevice: only statistics that are there already learn of the histogram
addDevice(d) ==
    /\ m_map' = SetStatistics(d,
         [getIoStatistics(d) EXCEPT !.lbaHistEnabled = @ \/ (d \in DOMAIN m_map /\ m_lbaHistEnabled)])
    /\ UNCHANGED <<m_lbaHistEnabled, builders, ios>>

\* A flush without data is in a group of its own
GroupOf(io) == IF io.flush /\ io.len = 0 THEN "flush" ELSE io.operation

\* The ranges of the LBA histogram an IO spans, counted up
LbaHits(map, io) ==
    LET spanned == {(s \div LbaRange) * LbaRange : s \in io.lba .. io.lba + io.len - 1}
    IN [b \in DOMAIN map \cup spanned |->
          (IF b \in DOMAIN map THEN map[b] ELSE 0) + (IF b \in spanned THEN 1 ELSE 0)]

AddIf(dist, value) == IF value = 0 THEN dist ELSE AddValue(dist, value)

\* What an IO adds to its group and to the total
CountIn(s, io, lbaHist) ==
    [s EXCEPT !.count = @ + 1,
              !.errors = IF io.error THEN @ + 1 ELSE @,
              !.size = AddIf(@, io.len),
              !.latency = AddIf(@, io.latency),
              !.qd = AddIf(@, io.qd),
              !.lbaHitMap = IF lbaHist /\ io.len # 0 THEN LbaHits(@, io) ELSE @]

\* A discard is taken out of all working sets but its own
WorksetOf(g, wc, io) ==
    CASE io.len = 0 -> wc
      [] io.operation = "Discard" /\ g # "Discard" /\ g # "flush" ->
             removeRange(wc, io.lba, io.len).wc
      [] g = io.operation \/ (io.operation # "Discard" /\ g = "total") ->
             insertRange(wc, io.lba, io.len)
      [] OTHER -> wc

count(s, io) ==
    LET counted == {GroupOf(io), "total"}
        with(g) == IF g \in counted THEN CountIn(s.groups[g], io, s.lbaHistEnabled)
                                    ELSE s.groups[g]
    IN [s EXCEPT !.groups = [g \in Groups |->
                               [with(g) EXCEPT !.wc = WorksetOf(g, @, io)]],
                 !.startTime = IF @ = 0 THEN io.timestamp ELSE @,
                 !.endTime = io.timestamp]

handleIO(io) ==
    /\ Len(ios) < MaxIos
    /\ LET timed == [io EXCEPT !.timestamp = Len(ios) + 1]
       IN m_map' = SetStatistics(io.device, count(getIoStatistics(io.device), timed))
    /\ builders' = [p \in Percentages |-> BuildStep(builders[p], io)]
    /\ ios' = Append(ios, io)
    /\ UNCHANGED m_lbaHistEnabled

Next == \/ enableLbaHistogram
        \/ \E d \in Devices : addDevice(d)
        \/ \E io \in Ios : handleIO(io)

Spec == Init /\ [][Next]_ivars
-----------------------------------------------------------------------------
(* The working sets.                                                          *)

SectorsOf(io) == io.lba .. io.lba + io.len - 1
Own(d) == SelectSeq(ios, LAMBDA io : io.device = d)
Feeds(g, io) == g = io.operation \/ (g = "total" /\ io.operation # "Discard")

\* Sectors used by group g and not discarded since, as a fold over the trace
InUse(g, s) ==
    FoldLeft(LAMBDA acc, io : CASE Feeds(g, io) -> acc \cup SectorsOf(io)
                                [] io.operation = "Discard" -> acc \ SectorsOf(io)
                                [] OTHER -> acc, {}, s)
EverUsed(g, s) == UNION {SectorsOf(s[i]) : i \in {j \in DOMAIN s : Feeds(g, s[j])}}
Covered(wc) == UNION {r.begin .. r.end - 1 : r \in wc.hitRanges}

(* However ranges were inserted, merged, split and removed before: they never *)
(* overlap or touch, so that no sector is counted twice, no sector in use is  *)
(* lost, none appears that was not used, and the working set is at least what *)
(* was ever in use at one time and at most what was ever used.                *)
WorksetSound ==
    \A d \in DOMAIN m_map, g \in Groups \ {"flush"} :
        LET wc == m_map[d].groups[g].wc
            own == Own(d)
        IN /\ \A r1, r2 \in wc.hitRanges : r1 # r2 => ~doRangesOverlap(r1, r2)
           /\ InUse(g, own) \subseteq Covered(wc)
           /\ Covered(wc) \subseteq EverUsed(g, own)
           /\ \A n \in 0 .. Len(own) :
                Cardinality(InUse(g, SubSeq(own, 1, n))) <= getWorkset(wc)
           /\ getWorkset(wc) <= Cardinality(EverUsed(g, own))
-----------------------------------------------------------------------------
(* Histograms, whatever order values of different levels come in: the ranges  *)
(* follow one another without gap, hold every value once and only values that *)
(* belong there.                                                              *)
HistogramSound(dist) ==
    LET h == Ranges(dist)
    IN /\ FoldLeft(LAMBDA s, r : s + r.count, 0, h) = dist.count
       /\ FoldLeft(LAMBDA s, r : s + r.sum, 0, h) = dist.total
       /\ \A i \in DOMAIN h : /\ h[i].begin = (IF i = 1 THEN 0 ELSE h[i - 1].end + 1)
                              /\ h[i].sum >= h[i].count * h[i].begin
                              /\ h[i].sum <= h[i].count * h[i].end
       /\ \A p \in getStatistics(dist).percentiles : p.end >= dist.min /\ p.begin <= dist.max

(* The total of a device is what its groups add up to, for every quantity,    *)
(* and what the trace holds of that device.                                   *)
StatisticsAgree ==
    \A d \in DOMAIN m_map :
        LET s == m_map[d].groups
            SumOver(Q(_)) == MapThenSumSet(LAMBDA g : Q(s[g]), Groups \ {"total"})
        IN /\ s["total"].count = Len(Own(d))
           /\ s["total"].count = SumOver(LAMBDA x : x.count)
           /\ s["total"].errors = SumOver(LAMBDA x : x.errors)
           /\ s["total"].size.total = SumOver(LAMBDA x : x.size.total)
           /\ s["total"].latency.total = SumOver(LAMBDA x : x.latency.total)
           /\ \A b \in DOMAIN s["total"].lbaHitMap :
                s["total"].lbaHitMap[b] =
                  SumOver(LAMBDA x : IF b \in DOMAIN x.lbaHitMap THEN x.lbaHitMap[b] ELSE 0)
           /\ \A g \in Groups : /\ HistogramSound(s[g].size) /\ HistogramSound(s[g].qd)
                                /\ HistogramSound(s[g].latency)
-----------------------------------------------------------------------------
(* The LRU simulation.                                                        *)

LinesOf(io) ==
    LET first == sectorToCacheLine(io.lba)
    IN [k \in 1 .. sectorToCacheLine(io.lba + io.len - 1) - first + 1 |-> first + k - 1]
Lines(s) == FlattenSeq([i \in DOMAIN s |-> LinesOf(s[i])])

\* Line number k hits if fewer than n other lines were used since its last use
HitsAt(lines, k, n) ==
    \E j \in 1 .. k - 1 :
        /\ lines[j] = lines[k]
        /\ \A i \in j + 1 .. k - 1 : lines[i] # lines[k]
        /\ Cardinality({lines[i] : i \in j + 1 .. k - 1}) < n

(* The simulation agrees with the definition of LRU by reuse distances: it    *)
(* counts as hits exactly the requests all of whose lines were among the last *)
(* m_cacheLines ones used.  (With no cache line at all it reads the head of   *)
(* an empty list.)                                                            *)
LruExact ==
    \A p \in Percentages :
        LET l == builders[p]
            valid == SelectSeq(ios, isEventValid)
            before(i) == Len(Lines(SubSeq(valid, 1, i - 1)))
            all == Lines(valid)
        IN /\ l.crashed => l.m_cacheLines = 0
           /\ ~l.crashed =>
                /\ l.m_noRq = Len(valid)
                /\ l.m_noHit = Cardinality({i \in DOMAIN valid :
                     \A k \in before(i) + 1 .. before(i + 1) : HitsAt(all, k, l.m_cacheLines)})
=============================================================================
