-------------------------- MODULE MonitoringReadings --------------------------
(***************************************************************************)
(* The monitoring readings of a SUN2000: the two profiles, the observer    *)
(* that reads a plan group by group under a context that may end, how the  *)
(* readings of a cycle become typed facts, and what a caller that keeps    *)
(* the last complete reading of each group still holds cycles later.       *)
(*                                                                         *)
(* A register word is a number below WordSize; an exact decimal text is    *)
(* its sign and its two sequences of digits.                               *)
(***************************************************************************)
EXTENDS Integers, SequencesExt

CONSTANTS
    WordSize, StateCode, StringCount, MaxUnit, MaxReadWords,
    UnitsOf(_),         \* the units a profile is selected at
    Replies(_, _),      \* what a group's read may bring in a cycle
    Handed(_, _),       \* the group readings a caller may hand to Decode itself
    MaxCycles,
    MaxUnusual,         \* cycles of a behaviour that a caller decoded or cancelled
    None

VARIABLES
    observed,   \* the Observe that is running, or None
    kept,       \* the caller's state of the unit: a reading, or None
    cycles      \* what every cycle read and how it ended

-----------------------------------------------------------------------------
(* The profiles *)

Status == [offset |-> 32000, quantity |-> 16]
Strings == [offset |-> 32016, quantity |-> 24]
Power == [offset |-> 32064, quantity |-> 32]
Energy == [offset |-> 32106, quantity |-> 10]

Field(name, index, group, offset, words, signed, exponent, kind, grade) ==
    [name |-> name, index |-> index, group |-> group, offset |-> offset, words |-> words,
     signed |-> signed, exponent |-> exponent, kind |-> kind, grade |-> grade]

StringFields(voltage, current) ==
    [k \in 1 .. 2 * StringCount |->
        LET n == (k + 1) \div 2 IN
        IF k % 2 = 1
        THEN Field("pv_string_voltage", n, Strings, 32016 + k - 1, 1, TRUE, -1, "measurement", voltage)
        ELSE Field("pv_string_current", n, Strings, 32016 + k - 1, 1, TRUE, -2, "measurement", current)]

Counter(name, offset, grade) == Field(name, 0, Energy, offset, 2, FALSE, -2, "measurement", grade)

EnergyFields(accumulated, counters) ==
    <<Counter("energy_accumulated", 32106, accumulated), Counter("energy_current_hour", 32112, counters),
      Counter("energy_current_day", 32114, counters)>>

M3 == [id |-> "m3", groups |-> <<Status, Strings, Energy>>, units |-> {1, 2},
       refused |-> {Power, [offset |-> 37100, quantity |-> 38]},
       fields |-> StringFields("PROVEN", "HYPOTHESIS") \o EnergyFields("PROVEN", "HYPOTHESIS")]

M1 == [id |-> "m1", groups |-> <<Status, Strings, Power, Energy>>, units |-> {1}, refused |-> {},
       fields |-> StringFields("PROVEN", "PROVEN")
           \o <<Field("input_power", 0, Power, 32064, 2, TRUE, -3, "measurement", "PROVEN"),
                Field("active_power", 0, Power, 32080, 2, TRUE, -3, "positive", "PROVEN"),
                Field("device_status", 0, Power, 32089, 1, FALSE, 0, "state", "HYPOTHESIS")>>
           \o EnergyFields("HYPOTHESIS", "HYPOTHESIS")]

-----------------------------------------------------------------------------
(* One cycle's reading *)

(* validHuaweiSUN2000GroupReading *)
ValidReading(r) ==
    \/ r.outcome = "ANSWERED" /\ Len(r.words) = r.quantity /\ r.code = 0
    \/ r.outcome = "EXCEPTION" /\ r.words = <<>> /\ r.code # 0 /\ ~r.retained
    \/ r.outcome \in {"FAILED", "NOT_READ"} /\ r.words = <<>> /\ r.code = 0 /\ ~r.retained

GroupOf(r) == [offset |-> r.offset, quantity |-> r.quantity]

Decodes(p, unit, readings) ==
    /\ unit \in 1 .. MaxUnit
    /\ \A i \in DOMAIN readings :
          /\ GroupOf(readings[i]) \in Range(p.groups)
          /\ \A j \in DOMAIN readings : GroupOf(readings[i]) = GroupOf(readings[j]) => i = j
          /\ ValidReading(readings[i])

NotRead(g) ==
    [offset |-> g.offset, quantity |-> g.quantity, outcome |-> "NOT_READ", code |-> 0, words |-> <<>>,
     cycle |-> 0, retained |-> FALSE]

Planned(p, readings) ==
    [k \in DOMAIN p.groups |->
        IF \E r \in Range(readings) : GroupOf(r) = p.groups[k]
        THEN CHOOSE r \in Range(readings) : GroupOf(r) = p.groups[k]
        ELSE NotRead(p.groups[k])]

(* The words of a field as a number, which a signed type reads in two's    *)
(* complement.                                                             *)
RawValue(f, words) ==
    LET at == f.offset - f.group.offset + 1
        unsigned == IF f.words = 1 THEN words[at] ELSE words[at] * WordSize + words[at + 1]
        size == WordSize ^ f.words
    IN IF f.signed /\ unsigned >= size \div 2 THEN unsigned - size ELSE unsigned

Publishes(f, raw) ==
    \/ f.kind = "measurement"
    \/ f.kind = "positive" /\ raw >= 0
    \/ f.kind = "state" /\ raw = StateCode

Unknown(f) ==
    [name |-> f.name, index |-> f.index, availability |-> "UNKNOWN", coefficient |-> 0, exponent |-> 0,
     state |-> None, grade |-> "UNKNOWN", cycle |-> 0, retained |-> FALSE]

(* Outside the units that the contract checked, nothing is proven.         *)
GradeAt(p, unit, grade) == IF unit \notin p.units /\ grade = "PROVEN" THEN "HYPOTHESIS" ELSE grade

Fact(p, unit, f, g) ==
    IF g.outcome = "ANSWERED" /\ Publishes(f, RawValue(f, g.words))
    THEN [Unknown(f) EXCEPT !.availability = "VALUE", !.coefficient = RawValue(f, g.words),
             !.exponent = f.exponent, !.state = IF f.kind = "state" THEN "grid_connected" ELSE None,
             !.grade = GradeAt(p, unit, f.grade), !.cycle = g.cycle, !.retained = g.retained]
    ELSE Unknown(f)

DecodeFacts(p, unit, groups) ==
    [k \in DOMAIN p.fields |->
        LET f == p.fields[k] IN
        Fact(p, unit, f, CHOOSE g \in Range(groups) : g.offset = f.group.offset)]

ReadingOf(p, unit, groups) ==
    [profile |-> p, unit |-> unit, groups |-> groups, facts |-> DecodeFacts(p, unit, groups)]

-----------------------------------------------------------------------------
(* What a caller keeps *)

(* Faulty variant: the unit is not compared.                               *)
SameProfile(previous, current) == previous.profile = current.profile

SameSource(previous, current) == previous.profile = current.profile /\ previous.unit = current.unit

(* RetainHuaweiSUN2000Monitoring *)
Retained(previous, current) ==
    LET Kept(k) ==
            LET before == previous.groups[k] IN
            IF current.groups[k].outcome # "ANSWERED" /\ before.outcome = "ANSWERED"
            THEN [before EXCEPT !.retained = TRUE]
            ELSE current.groups[k]
    IN IF previous # None /\ SameSource(previous, current)
       THEN ReadingOf(current.profile, current.unit, [k \in DOMAIN current.groups |-> Kept(k)])
       ELSE current

MonitoringInit == observed = None /\ kept = None /\ cycles = <<>>

(* Decode refuses a cycle whole, and then nothing changes.                 *)
Ended(p, unit, readings, observer, error) ==
    /\ cycles' = Append(cycles, [profile |-> p, unit |-> unit, readings |-> readings,
                                 observer |-> observer, error |-> error])
    /\ kept' = IF Decodes(p, unit, readings)
               THEN Retained(kept, ReadingOf(p, unit, Planned(p, readings)))
               ELSE kept

MayDiffer == Len(SelectSeq(cycles, LAMBDA c : c.error \/ ~c.observer)) < MaxUnusual

Hand ==
    /\ observed = None /\ Len(cycles) < MaxCycles /\ MayDiffer
    /\ \E p \in {M3, M1} : \E unit \in UnitsOf(p), readings \in Handed(p, Len(cycles) + 1) :
          Ended(p, unit, readings, FALSE, FALSE)
    /\ UNCHANGED observed

-----------------------------------------------------------------------------
(* HuaweiSUN2000MonitoringObserver.Observe *)

Observe ==
    /\ observed = None /\ Len(cycles) < MaxCycles
    /\ \E p \in {M3, M1} : \E unit \in UnitsOf(p) :
          observed' = [profile |-> p, unit |-> unit, readings |-> <<>>, cancelled |-> FALSE]
    /\ UNCHANGED <<kept, cycles>>

CancelContext ==
    /\ observed # None /\ ~observed.cancelled /\ MayDiffer
    /\ observed' = [observed EXCEPT !.cancelled = TRUE]
    /\ UNCHANGED <<kept, cycles>>

(* A reply that does not answer the request fails the group.               *)
ReadingFrom(g, reply, cycle) ==
    IF reply.answers /\ Len(reply.words) = g.quantity
    THEN [NotRead(g) EXCEPT !.outcome = "ANSWERED", !.words = reply.words, !.cycle = cycle]
    ELSE IF reply.code # 0
    THEN [NotRead(g) EXCEPT !.outcome = "EXCEPTION", !.code = reply.code]
    ELSE [NotRead(g) EXCEPT !.outcome = "FAILED"]

HasFailed(readings) == readings # <<>> /\ Last(readings).outcome = "FAILED"
PlanIsOver == Len(observed.readings) = Len(observed.profile.groups) \/ HasFailed(observed.readings)

ReadGroup ==
    /\ observed # None /\ ~PlanIsOver /\ ~observed.cancelled
    /\ LET g == observed.profile.groups[Len(observed.readings) + 1]
           cycle == Len(cycles) + 1
       IN \E reply \in Replies(g, cycle) :
             observed' = [observed EXCEPT !.readings = Append(@, ReadingFrom(g, reply, cycle))]
    /\ UNCHANGED <<kept, cycles>>

(* The context's error comes back with what was read.                      *)
ObserveReturns ==
    /\ observed # None /\ (PlanIsOver \/ observed.cancelled)
    /\ Ended(observed.profile, observed.unit, observed.readings, TRUE,
             observed.cancelled /\ (~PlanIsOver \/ HasFailed(observed.readings)))
    /\ observed' = None

MonitoringNext == Hand \/ Observe \/ CancelContext \/ ReadGroup \/ ObserveReturns

-----------------------------------------------------------------------------
(* HuaweiDecimal.String *)

Magnitude(n) == IF n < 0 THEN -n ELSE n

DigitsOf(n) ==
    LET digits[m \in Nat] == IF m < 10 THEN <<m>> ELSE Append(digits[m \div 10], m % 10)
    IN digits[n]

Zeros(n) == [k \in 1 .. n |-> 0]

DecimalText(coefficient, exponent) ==
    LET digits == DigitsOf(Magnitude(coefficient))
        places == -exponent
        padded == IF Len(digits) <= places THEN Zeros(places - Len(digits) + 1) \o digits ELSE digits
        whole == Len(padded) - places
    IN IF exponent >= 0
       THEN [negative |-> coefficient < 0, whole |-> digits \o Zeros(exponent), fraction |-> <<>>]
       ELSE [negative |-> coefficient < 0, whole |-> SubSeq(padded, 1, whole),
             fraction |-> SubSeq(padded, whole + 1, Len(padded))]

-----------------------------------------------------------------------------
(* What a reader of the kept facts relies on *)

Accepted(k) == Decodes(cycles[k].profile, cycles[k].unit, cycles[k].readings)

(* The cycles since the unit was last changed that answered a group.       *)
Answering(group) ==
    {k \in DOMAIN cycles :
        /\ Accepted(k)
        /\ \E r \in Range(cycles[k].readings) : GroupOf(r) = group /\ r.outcome = "ANSWERED"
        /\ \A j \in k .. Len(cycles) :
              Accepted(j) => cycles[j].profile = kept.profile /\ cycles[j].unit = kept.unit}

LastAccepted == CHOOSE k \in DOMAIN cycles : Accepted(k) /\ \A j \in k + 1 .. Len(cycles) : ~Accepted(j)

(* A number that a field's words stand for.                                *)
StandsFor(f, words, value) ==
    LET at == f.offset - f.group.offset
        size == WordSize ^ f.words
        lowest == IF f.signed THEN -(size \div 2) ELSE 0
    IN /\ value \in lowest .. lowest + size - 1
       /\ \A w \in 1 .. f.words : (value \div WordSize ^ (f.words - w)) % WordSize = words[at + w]

(* A fact says what the last answer for its group from this profile and    *)
(* this unit says, with that cycle's number; it is marked retained exactly *)
(* when a later cycle failed to renew it, is unknown when there was no     *)
(* such answer or its value is outside what was observed, and is proven    *)
(* only at a unit that the contract checked.                               *)
FactsAreLastAnswers ==
    observed = None /\ kept # None =>
        \A k \in DOMAIN kept.facts :
            LET fact == kept.facts[k]
                f == kept.profile.fields[k]
                answering == Answering(f.group)
                last == CHOOSE c \in answering : \A d \in answering : d <= c
                answer == CHOOSE r \in Range(cycles[last].readings) : GroupOf(r) = f.group
            IN IF fact.availability = "VALUE"
               THEN /\ answering # {} /\ fact.cycle = answer.cycle
                    /\ StandsFor(f, answer.words, fact.coefficient)
                    /\ fact.retained <=> last # LastAccepted \/ answer.retained
                    /\ fact.grade = "PROVEN" => f.grade = "PROVEN" /\ kept.unit \in kept.profile.units
                    /\ f.kind = "state" => fact.coefficient = StateCode
                    /\ f.kind = "positive" => fact.coefficient >= 0
               ELSE \/ answering = {}
                    \/ f.kind = "positive" /\ answer.words[f.offset - f.group.offset + 1] >= WordSize \div 2
                    \/ f.kind = "state" /\ ~StandsFor(f, answer.words, StateCode)

(* The text of a fact says its value: the digits stand for the coefficient *)
(* and there are as many after the point as the exponent states.           *)
TextIsExact ==
    observed = None /\ kept # None =>
        \A fact \in Range(kept.facts) :
            LET text == DecimalText(fact.coefficient, fact.exponent)
                number == FoldLeft(LAMBDA n, d : 10 * n + d, 0, text.whole \o text.fraction)
            IN /\ number = Magnitude(fact.coefficient)
               /\ text.negative <=> fact.coefficient < 0
               /\ Len(text.fraction) = -fact.exponent
               /\ Len(text.whole) >= 1 /\ (Len(text.whole) > 1 => text.whole[1] # 0)

Span(g) == g.offset .. g.offset + g.quantity - 1
Words(f) == f.offset .. f.offset + f.words - 1

(* What an observer read always decodes, with nothing after a failed       *)
(* group.  A plan left early without one comes back with the context's     *)
(* error, and that error never comes with a whole reading.                 *)
ObservationIsTold ==
    \A k \in DOMAIN cycles :
        LET c == cycles[k]
            answered == {i \in DOMAIN c.readings : c.readings[i].outcome = "ANSWERED"}
        IN c.observer =>
            /\ Accepted(k)
            /\ \A i \in DOMAIN c.readings : c.readings[i].outcome = "FAILED" => i = Len(c.readings)
            /\ Len(c.readings) < Len(c.profile.groups) /\ ~HasFailed(c.readings) => c.error
            /\ c.error => Cardinality(answered) < Len(c.profile.groups)

(* A plan reads every word that a field needs, no word of two groups,      *)
(* nothing that the family refused, and every word for one field at most.  *)
PlanServesFields ==
    cycles = <<>> =>
        \A p \in {M3, M1} :
        /\ \A f \in Range(p.fields) : f.group \in Range(p.groups) /\ Words(f) \subseteq Span(f.group)
        /\ \A f, g \in Range(p.fields) : f # g => Words(f) \cap Words(g) = {}
        /\ \A g \in Range(p.groups) : g.quantity <= MaxReadWords
        /\ \A g, h \in Range(p.groups) \cup p.refused : g # h => Span(g) \cap Span(h) = {}

MonitoringIsLastAnswer == FactsAreLastAnswers /\ TextIsExact /\ ObservationIsTold /\ PlanServesFields

=============================================================================
