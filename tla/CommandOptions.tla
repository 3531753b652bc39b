----------------------------- MODULE CommandOptions -----------------------------
(* One command of the command line and its options: the parameters are made    *)
(* from the fields of the input message, the elements of the line set them one *)
(* by one, and the message that is sent is filled from them.                   *)
EXTENDS Integers, Sequences, FiniteSets

CONSTANTS
    Fields,     \* the messages: sets of [type, long, short, required, options,
                \*   default, min, max, enum], options says whether default, min
                \*   and max are given, enum is the sequence of the switches
    Elements,   \* [dashes, name, number, double, items], the words of a line
    MaxElements,
    NaN,        \* the number of a word that is none
    Unset,      \* a field that is not set in the message
    Limits,     \* the values of each numeric type
    Letters,    \* the names that isShortKeyValid() accepts
    Words,      \* the names that isLongKeyValid() accepts
    TooLong,    \* the names longer than a string may be
    HelpKeys    \* the two keys of ParamHelp

VARIABLES command, line, list, param, outcome, message

optvars == <<command, line, list, param, outcome, message>>

Numeric == {"int32", "uint32", "int64"}
-----------------------------------------------------------------------------
\* The prefix decides how a key is validated, not what it may name
isValidKey(e) ==
    \/ e.dashes = 2 /\ e.name \in Words
    \/ e.dashes = 1 /\ e.name \in Letters

Matches(field, key) == field.short = key \/ field.long = key
Known(key) == \E f \in command : Matches(f, key)
getParam(key) == CHOOSE f \in command : Matches(f, key)

\* setOptions() of each kind of parameter; that of an enumeration never sets
\* m_required
Parameter(field, value) == [set |-> FALSE, required |-> field.required, value |-> value]

NumberRange(field) == IF field.options THEN field.min .. field.max ELSE Limits[field.type]
ParamNumber(field) == Parameter(field, IF field.options THEN field.default ELSE 0)
DoubleRange(field) == IF field.options THEN field.min .. field.max ELSE Limits["double"]
ParamDouble(field) == Parameter(field, IF field.options THEN field.default ELSE 0)
ParamEnum(field) ==
    [Parameter(field, IF field.required THEN 0 ELSE field.default) EXCEPT !.required = FALSE]
ParamString(field) ==
    Parameter(field, IF field.type = "string" THEN Unset
                     ELSE IF field.options THEN <<field.default>> ELSE <<>>)

createParameters(field) ==
    CASE field.type \in Numeric -> ParamNumber(field)
      [] field.type = "double" -> ParamDouble(field)
      [] field.type = "enum" -> ParamEnum(field)
      [] field.type \in {"string", "strings"} -> ParamString(field)
      [] field.type = "bool" -> Parameter(field, FALSE)

\* setValue() of each kind of parameter: the value that an element sets, none if
\* it is refused; is tells whether the parameter was set before
\* Mutant: a number may be given twice
Mut_NumberValue(field, e, is) == {e.number} \cap NumberRange(field)
NumberValue(field, e, is) == IF is THEN {} ELSE {e.number} \cap NumberRange(field)
DoubleValue(field, e, is) == IF is THEN {} ELSE {e.double} \cap DoubleRange(field)
EnumValue(field, e) ==
    {i - 1 : i \in {k \in DOMAIN field.enum : /\ field.enum[k] = e.name
                       /\ \A j \in k + 1 .. Len(field.enum) : field.enum[j] # e.name}}
StringValue(field, e, is) ==
    IF is \/ e.name \in TooLong THEN {}
    ELSE {IF field.type = "strings" THEN e.items ELSE <<e.name>>}

TakesValue(field) == field.type # "bool"
setValue(field, e, is) ==
    CASE field.type \in Numeric -> NumberValue(field, e, is)
      [] field.type = "double" -> DoubleValue(field, e, is)
      [] field.type = "enum" -> EnumValue(field, e)
      [] field.type \in {"string", "strings"} -> StringValue(field, e, is)
      [] field.type = "bool" -> {TRUE}

\* parseToProtobuf() of each kind of parameter: a number is checked against the
\* width of the field, and a single string is sent only if it was set, so its
\* default is not
Sendable(field, value) == field.type \in DOMAIN Limits => value \in Limits[field.type]
-----------------------------------------------------------------------------
Init ==
    /\ command \in Fields
    /\ line \in UNION {[1 .. n -> Elements] : n \in 0 .. MaxElements}
    /\ list = line
    /\ param = [f \in command |-> createParameters(f)]
    /\ outcome = "parsing"
    /\ message = <<>>

End(how) == outcome' = how /\ UNCHANGED <<command, line, list, param, message>>

hasHelp ==
    list = line /\ line # <<>> /\ isValidKey(line[1]) /\ line[1].name \in HelpKeys

\* One turn of the loop of parseParamValues()
parseParamValues ==
    /\ list # <<>>
    /\ LET key == Head(list)
           field == getParam(key.name)
           takes == TakesValue(field)
           values == setValue(field, IF takes THEN list[2] ELSE key, param[field].set)
       IN  IF \/ ~isValidKey(key) \/ ~Known(key.name)
              \/ takes /\ Len(list) = 1
              \/ values = {}
           THEN End("refused")
           ELSE /\ \E v \in values :
                     param' = [param EXCEPT ![field].set = TRUE, ![field].value = v]
                /\ list' = SubSeq(list, IF takes THEN 3 ELSE 2, Len(list))
                /\ UNCHANGED <<command, line, outcome, message>>

checkParamMissing == \E f \in command : param[f].required /\ ~param[f].set

\* parseToProtobuf() of each parameter
parseToProtobuf ==
    /\ list = <<>>
    /\ IF checkParamMissing THEN End("refused")
       ELSE IF \E f \in command : ~Sendable(f, param[f].value) THEN End("failed")
       ELSE /\ outcome' = "sent"
            /\ message' = [f \in command |-> param[f].value]
            /\ UNCHANGED <<command, line, list, param>>

Next ==
    /\ outcome = "parsing"
    /\ IF hasHelp THEN End("help") ELSE parseParamValues \/ parseToProtobuf
-----------------------------------------------------------------------------
\* K holds the positions of the keys of the line
IsCut(K) ==
    /\ \A i \in K : isValidKey(line[i]) /\ Known(line[i].name)
    /\ \A i \in DOMAIN line :
         (i \in K) <=> ~(i - 1 \in K /\ TakesValue(getParam(line[i - 1].name)))

Setting(K, f) == {i \in K : getParam(line[i].name) = f}

IsLegal(K) ==
    \A f \in command :
        /\ f.required /\ f.type # "enum" => Setting(K, f) # {}
        /\ f.type \notin {"bool", "enum"} => Cardinality(Setting(K, f)) <= 1
        /\ TakesValue(f) => \A i \in Setting(K, f) :
             i < Len(line) /\ setValue(f, line[i + 1], FALSE) # {}

Meaning(K, f) ==
    LET last == CHOOSE i \in Setting(K, f) : \A j \in Setting(K, f) : j <= i
    IN  IF Setting(K, f) = {} THEN createParameters(f).value
        ELSE IF ~TakesValue(f) THEN TRUE
        ELSE CHOOSE v \in setValue(f, line[last + 1], FALSE) : TRUE

\* A command is called only with a message that says what its line says: the
\* line is a sequence of known keys and admissible values, an option that keeps
\* one value is given once, a required one that is no enumeration always, the
\* last value of a switch counts, and an option that is not given has its
\* default; any other line calls nothing (parseParamValues(), setValue(),
\* checkParamMissing(), parseToProtobuf()).
OptionsSound ==
    LET Cut(P(_)) == \E K \in SUBSET DOMAIN line : IsCut(K) /\ IsLegal(K) /\ P(K)
    IN  /\ outcome = "sent" =>
             Cut(LAMBDA K : message = [f \in command |-> Meaning(K, f)])
        /\ outcome = "refused" => ~Cut(LAMBDA K : TRUE)
        /\ outcome = "failed" =>
             Cut(LAMBDA K : \E f \in command : ~Sendable(f, Meaning(K, f)))
=============================================================================
