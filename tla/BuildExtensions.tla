--------------------------- MODULE BuildExtensions ---------------------------
(* InterfaceTraceParsingImpl::BuildExtensions: after the handlers of all      *)
(* builders have run (HandlerRunner, TraceExtensions), what they built is     *)
(* joined: TraceExtensionSet gives the entries of all extensions by the sid   *)
(* of the IO, and the entries of one IO are printed as one row.               *)
EXTENDS Integers, Sequences, FiniteSets

CONSTANTS
    Builders,            \* 1 .. n, in the order of their names
    Contents,            \* what an extension may hold: <<[sid, set], ...>>
    MayBeBusy,           \* the builders whose extension another may be writing
    NoFeature

\* A builder is given the IOs in their order and writes at most one entry of each.
ASSUME BuildersAssumption == Builders \subseteq Nat
ASSUME ContentsAssumption ==
    \A c \in Contents :
      /\ c \in Seq([sid : Nat, set : BOOLEAN])
      /\ \A n, k \in DOMAIN c : n < k => c[n].sid < c[k].sid

VARIABLES
    format,              \* that is asked for
    built,               \* of each builder
    busy,                \* the builders whose extension another writes
    supplied,            \* the type of the extension is registered
    failed,              \* a handler has ended with an error
    m_set,               \* the next entry of each extension that has one
    at,                  \* entries read from each extension
    msg,                 \* [sid, feature] that is filled
    rows,                \* what was printed
    call                 \* "begun", "reading", "done", "thrown"

bvars == <<format, built, busy, supplied, failed, m_set, at, msg, rows, call>>

Cleared == [sid |-> 0, feature |-> [b \in Builders |-> NoFeature]]
Prototype(b) == <<b, 0>>
Feature(b, sid) == <<b, sid>>

BuildInit ==
    /\ format \in {"CSV", "JSON", "other"}
    /\ built \in [Builders -> Contents]
    /\ busy \in SUBSET MayBeBusy
    /\ supplied \in BOOLEAN /\ failed \in BOOLEAN
    /\ m_set = {} /\ at = [b \in Builders |-> 0]
    /\ msg = Cleared /\ rows = <<>> /\ call = "begun"
-----------------------------------------------------------------------------
\* The smallest by its sid, and then by its name
operatorLess(e1, e2) == e1.sid < e2.sid \/ (e1.sid = e2.sid /\ e1.ext < e2.ext)
Smallest(set) == CHOOSE e \in set : \A x \in set \ {e} : operatorLess(e, x)

hasNext(b, n) == n < Len(built[b])
TraceExtensionEntry(b, n) == [ext |-> b, sid |-> built[b][n + 1].sid]

addTraceExtension == {TraceExtensionEntry(b, 0) : b \in {x \in Builders : hasNext(x, 0)}}

\* Nobody catches what is thrown here: done is not run
Throw ==
    /\ call' = "thrown"
    /\ UNCHANGED <<m_set, at, msg, rows>>

\* The handlers have run. For the header of a CSV the message holds what an
\* extension looks like, and is not cleared afterwards
Begin ==
    /\ call = "begun"
    /\ IF ~supplied \/ failed \/ busy # {} THEN Throw
       ELSE /\ m_set' = addTraceExtension
            /\ msg' = IF format = "CSV"
                      THEN [Cleared EXCEPT !.feature = [b \in Builders |-> Prototype(b)]]
                      ELSE Cleared
            /\ call' = "reading"
            /\ UNCHANGED <<at, rows>>
    /\ UNCHANGED <<format, built, busy, supplied, failed>>

Mut_EventEnds(set, sid) == TRUE
EventEnds(set, sid) == set = {} \/ Smallest(set).sid # sid

\* TraceExtensionSet::read: the entry is taken out, and the next one of its
\* extension goes in
readEntry ==
    LET e == Smallest(m_set)
        n == at[e.ext] + 1
    IN  /\ at' = [at EXCEPT ![e.ext] = n]
        /\ m_set' = (m_set \ {e}) \cup (IF hasNext(e.ext, n) THEN {TraceExtensionEntry(e.ext, n)} ELSE {})

\* An entry that holds no result leaves the message as it is
Filled(e) ==
    [sid |-> e.sid,
     feature |-> IF built[e.ext][at[e.ext] + 1].set
                 THEN [msg.feature EXCEPT ![e.ext] = Feature(e.ext, e.sid)] ELSE msg.feature]

\* One turn of the loop
Turn ==
    LET e == Smallest(m_set) IN
    /\ call = "reading" /\ m_set # {}
    /\ readEntry
    /\ IF ~EventEnds(m_set', e.sid) THEN msg' = Filled(e) /\ UNCHANGED <<rows, call>>
       ELSE IF format = "other" THEN call' = "thrown" /\ msg' = Filled(e) /\ UNCHANGED rows
       ELSE rows' = Append(rows, Filled(e)) /\ msg' = Cleared /\ UNCHANGED call
    /\ UNCHANGED <<format, built, busy, supplied, failed>>

Done ==
    /\ call = "reading" /\ m_set = {}
    /\ call' = "done"
    /\ UNCHANGED <<format, built, busy, supplied, failed, m_set, at, msg, rows>>

BuildNext == Begin \/ Turn \/ Done

BuildSpec == BuildInit /\ [][BuildNext]_bvars
-----------------------------------------------------------------------------
Sids(b) == {built[b][n].sid : n \in DOMAIN built[b]}
Found(b, sid) == \E n \in DOMAIN built[b] : built[b][n] = [sid |-> sid, set |-> TRUE]

\* The feature of an extension without a result for the IO: none, but for the
\* first row of a CSV, where the prototype stands for it
Missing(n, b) == IF n = 1 /\ format = "CSV" THEN Prototype(b) ELSE NoFeature

(* However the extensions differ in the IOs they have entries for: the rows   *)
(* come in the order of the IOs, one for each IO, with the feature of every   *)
(* extension that has one for this IO and of no other IO; when the call is    *)
(* done, each IO of each extension was printed.                               *)
RowsJoin ==
    /\ \A n \in DOMAIN rows :
         /\ n > 1 => rows[n - 1].sid < rows[n].sid
         /\ \A b \in Builders :
              rows[n].feature[b] = IF Found(b, rows[n].sid) THEN Feature(b, rows[n].sid)
                                   ELSE Missing(n, b)
    /\ call = "done" =>
         {rows[n].sid : n \in DOMAIN rows} = UNION {Sids(b) : b \in Builders}
=============================================================================
