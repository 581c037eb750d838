------------------------------- MODULE MCInputs -------------------------------
(***************************************************************************)
(* The inputs of MCEvidence: small profiles and the detectors that claim a *)
(* device; samples, SunSpec occurrences, LUNA evaluations and SUN2000      *)
(* reads; and small Huawei catalogues with the gateways they describe.     *)
(***************************************************************************)
EXTENDS Integers, Sequences

CONSTANT None

-----------------------------------------------------------------------------
(* Small profile declarations: 12 addresses, reads of at most 4 registers. *)

NoScale == [source |-> "not_applicable", ordered |-> FALSE, numerator |-> 0, denominator |-> 0, dependency |-> None]
ScaledBy(id) == [NoScale EXCEPT !.source = "dependency", !.ordered = TRUE, !.dependency = id]

Codec(id, version, words, scale) ==
    [id |-> id, version |-> version, words |-> words, permutation |-> [i \in 1 .. words |-> words - i],
     representation |-> "unsigned_integer", scale |-> scale, sentinels |-> <<>>, string |-> None,
     output |-> "number"]

Dependency(id, version, table, offset, codec, codecVersion, words, evidence) ==
    [id |-> id, version |-> version, table |-> table, words |-> words, codec |-> codec,
     codecVersion |-> codecVersion, group |-> "g", evidence |-> <<evidence>>,
     applicability |-> <<"all">>,
     normalization |->
        [version |-> 1, locator |-> "urn", notation |-> "decimal", space |-> table,
         base |-> IF table = "holding" THEN "holding_reference" ELSE "one_based",
         transform |-> IF table = "holding" THEN "subtract_40001" ELSE "subtract_one",
         address |-> offset + (IF table = "holding" THEN 401 ELSE 1), offset |-> offset]]

OneResponse(version) ==
    [version |-> version, mode |-> "single_wire_response", sourceSkew |-> 0, receiptSkew |-> 0,
     sameGeneration |-> FALSE, order |-> "not_applicable", retry |-> "not_applicable", marker |-> None]
BoundedPolicy(version) ==
    [OneResponse(version) EXCEPT !.mode = "bounded_multi_response", !.sourceSkew = 2, !.receiptSkew = 2,
        !.sameGeneration = TRUE, !.order = "source_time_ascending", !.retry = "whole_set"]
NoCoherence ==
    [OneResponse(0) EXCEPT !.mode = None, !.order = None, !.retry = None]

NoReference == [id |-> None, version |-> 0]

Standard(id, codecs, items) ==
    [id |-> id, version |-> 1, schema |-> 1, runtime |-> 1, codecContract |-> 1, detector |-> 1,
     normalizationVersion |-> 1, coherenceVersion |-> 1, qualification |-> 1,
     kind |-> "standard_family", standards |-> <<"std">>, models |-> <<"m1">>, vendors |-> <<>>,
     exclusions |-> <<>>, codecs |-> codecs, dependencies |-> [version |-> 1, items |-> items],
     coherence |-> OneResponse(1), evidence |-> <<"e1">>, maturity |-> "qualified", enabled |-> FALSE,
     state |-> "active", refines |-> NoReference, successor |-> NoReference, deltas |-> <<>>]

Overlay(id, coherenceVersion) ==
    [Standard(id, <<>>, <<>>) EXCEPT !.kind = "vendor_overlay", !.standards = <<>>, !.models = <<>>,
        !.vendors = <<"v">>, !.coherenceVersion = coherenceVersion,
        !.dependencies = [version |-> 0, items |-> <<>>], !.coherence = NoCoherence,
        !.evidence = <<"e2">>, !.refines = [id |-> "base", version |-> 1]]

(* Two registers each, one scaled by the other. *)
Base == Standard("base",
    <<Codec("value", 1, 2, ScaledBy("factor")), Codec("scale", 1, 1, NoScale)>>,
    <<Dependency("power", 1, "holding", 4, "value", 1, 2, "e1"),
      Dependency("factor", 1, "holding", 5, "scale", 1, 1, "e1")>>)

Declarations ==
    {Base, [Base EXCEPT !.maturity = "experimental"], [Base EXCEPT !.coherence = BoundedPolicy(1)],
     [Base EXCEPT !.id = "old", !.state = "superseded", !.successor = [id |-> "base", version |-> 1]],
     Overlay("ov", 1), Overlay("ov", 2),
     [Overlay("ov2", 1) EXCEPT !.state = "superseded", !.successor = [id |-> "ov", version |-> 1]]}

Delta(id, kind, operation) ==
    [id |-> id, version |-> 1, kind |-> kind, operation |-> operation, target |-> None, value |-> None,
     codec |-> None, dependency |-> None, coherence |-> None, evidence |-> <<"e2">>]

CodecDelta(id, operation, codec) ==
    [Delta(id, "codec", operation) EXCEPT !.target = codec.id, !.codec = codec]
DependencyDelta(id, operation, dependency) ==
    [Delta(id, "dependency", operation) EXCEPT !.target = dependency.id, !.dependency = dependency]

Deltas ==
    {[Delta("m+", "model_applicability", "add") EXCEPT !.value = "m2"],
     [Delta("m-", "model_applicability", "remove") EXCEPT !.value = "m2"],
     CodecDelta("c2", "replace", Codec("value", 2, 2, NoScale)),
     CodecDelta("c3", "replace", Codec("value", 3, 2, ScaledBy("factor"))),
     CodecDelta("s2", "replace", Codec("scale", 2, 1, ScaledBy("power"))),
     CodecDelta("n1", "add", Codec("extra", 1, 1, ScaledBy("power"))),
     DependencyDelta("p2", "replace", Dependency("power", 2, "holding", 2, "value", 2, 2, "e2")),
     DependencyDelta("p3", "replace", Dependency("power", 2, "holding", 3, "value", 2, 2, "e2")),
     DependencyDelta("p4", "replace", Dependency("power", 3, "holding", 4, "value", 3, 2, "e2")),
     DependencyDelta("f2", "replace", Dependency("factor", 2, "holding", 4, "scale", 2, 1, "e2")),
     DependencyDelta("f3", "replace", Dependency("factor", 2, "input", 5, "scale", 1, 1, "e2")),
     [Delta("f-", "dependency", "remove") EXCEPT !.target = "factor"],
     DependencyDelta("x1", "add", Dependency("other", 1, "holding", 5, "extra", 1, 1, "e2")),
     [Delta("b", "coherence", "replace") EXCEPT !.target = "coherence-policy", !.coherence = BoundedPolicy(2)]}

-----------------------------------------------------------------------------
(* A device that says who it is in five words, and who may claim it.       *)

Limits == [declarations |-> 3, reads |-> 3, words |-> 2, total |-> 5, identity |-> 3]

Read(id, field, address, words) == [id |-> id, field |-> field, address |-> address, words |-> words]

Plan == [version |-> 1,
         declarations |-> <<Read("f", "firmware", 0, 1), Read("a", "manufacturer", 6, 2), Read("m", "model", 4, 1)>>]

(* Bytes: 0 NUL, 31 a control, the rest printable; 49.. are digits.        *)
DetectionReplies == {<< <<65, 66>>, <<65, 0>> >>, << <<65, 0>>, <<0, 0>> >>, << <<65, 66>>, <<66, 65>> >>,
          << <<77, 0>> >>, << <<0, 77>> >>, << <<77, 31>> >>, << <<0, 0>> >>,
          << <<49, 0>> >>, << <<50, 0>> >>, << <<51, 0>> >>, <<>>}

Printable == {49, 50, 51, 65, 66, 77}

VersionTexts == [t \in {<<49>>, <<50>>, <<51>>} |-> t[1] - 48]

CatalogProfile(id, state) ==
    [id |-> id, version |-> 1, detector |-> 1, qualification |-> 1, state |-> state,
     maturity |-> "qualified", enabled |-> TRUE]

Catalog == {CatalogProfile(1, "active"), CatalogProfile(2, "active"), CatalogProfile(3, "superseded"), CatalogProfile(4, "revoked"),
            [CatalogProfile(5, "active") EXCEPT !.maturity = "experimental"], [CatalogProfile(6, "active") EXCEPT !.enabled = FALSE],
            [CatalogProfile(7, "active") EXCEPT !.detector = 2]}

Candidate(profile, score, minimum, maximum) ==
    [profile |-> profile, version |-> 1, score |-> score, manufacturer |-> <<65, 66, 65>>, model |-> <<77>>,
     minimum |-> minimum, maximum |-> maximum, enabled |-> TRUE, fixture |-> FALSE]

Spec(candidates) ==
    [version |-> 1, plan |-> Plan, catalog |-> Catalog, candidates |-> candidates, limits |-> Limits]

FineSpec == Spec(<<Candidate(2, 1, 1, 3)>>)

DetectorSpecs ==
    {Spec(<<Candidate(2, 1, 2, 3), Candidate(1, 2, 1, 3)>>),
     Spec(<<Candidate(3, 1, 1, 2), Candidate(1, 1, 2, 3)>>),
     Spec(<<Candidate(4, 1, 1, 3), Candidate(5, 1, 1, 3), Candidate(6, 1, 1, 3)>>),
     Spec(<<Candidate(1, 1, 1, 2), [Candidate(2, 1, 1, 3) EXCEPT !.fixture = TRUE]>>),
     Spec(<<[Candidate(1, 1, 1, 3) EXCEPT !.enabled = FALSE], [Candidate(2, 1, 1, 3) EXCEPT !.model = <<65>>]>>),
     Spec(<<Candidate(7, 1, 1, 3)>>), Spec(<<Candidate(1, 1, 1, 3), Candidate(1, 2, 1, 2)>>), Spec(<<>>),
     Spec(<<Candidate(2, 0, 1, 3)>>), Spec(<<Candidate(2, 1, 2, 2)>>),
     [FineSpec EXCEPT !.plan.declarations[2].address = 7], [FineSpec EXCEPT !.plan.declarations[3].words = 3],
     [FineSpec EXCEPT !.plan.declarations[3].words = 2], [FineSpec EXCEPT !.plan.declarations[3].field = "firmware"],
     [FineSpec EXCEPT !.plan.declarations[3].id = "f"], [FineSpec EXCEPT !.plan.version = 2],
     [FineSpec EXCEPT !.limits.total = 7]}

EvidenceIDs == {"r1", "r2", "r3", None}

-----------------------------------------------------------------------------
(* Samples of two or three dependencies over five holding registers; a     *)
(* second has four nanoseconds.                                            *)

Declared(id, start, words) ==
    [identity |-> id, normalization |-> 1, table |-> "holding", offset |-> start, words |-> words,
     evidence |-> "urn", notation |-> "4x", base |-> "reference", address |-> 401 + start]

NoPolicy == [mode |-> "single_wire_response", order |-> None, sameGeneration |-> FALSE, marker |-> None,
             receiptSkew |-> 0, sourceSkew |-> 0]

Profile(policy, declarations) ==
    [versions |-> 1, set |-> "set", declarations |-> declarations, policy |-> policy]

Within(order, receiptSkew, sourceSkew) ==
    [NoPolicy EXCEPT !.mode = "bounded_multi_response", !.order = order,
        !.receiptSkew = receiptSkew, !.sourceSkew = sourceSkew]

Two == <<Declared("a", 2, 2), Declared("b", 3, 2)>>

SampleProfiles ==
    {Profile(NoPolicy, Two), Profile(NoPolicy, <<Two[1]>>),
     Profile([Within("source_time_ascending", 9, 4) EXCEPT !.marker = "m", !.sameGeneration = TRUE], Two),
     Profile(Within("receipt_time_ascending", 5, 9), Two),
     Profile(Within("dependency_declaration", 9, 9), <<Two[1], Two[2], Declared("c", 2, 1)>>)}

Bounded(profile) == profile.policy.mode = "bounded_multi_response"

(* The view of a dependency in one response of three registers at 2. *)
View(d, i) ==
    [id |-> i, wire |-> 1, request |-> 1, endpoint |-> "e", connection |-> 1, transport |-> "tcp", generation |-> 1,
     unit |-> 1, requested |-> 3, received |-> 3, table |-> "holding", offset |-> 2, count |-> 3, scope |-> "s",
     poll |-> 1, deadline |-> 1, start |-> d.offset, words |-> d.words, slice |-> d.offset - 2, sliceWords |-> d.words,
     raw |-> [k \in 1 .. d.words |-> 10 + d.offset + k], bytes |-> "b1"]

Second(v) == [v EXCEPT !.wire = 2, !.request = 2, !.deadline = 2, !.bytes = "b2"]

OnRTU(v) ==
    [Second(v) EXCEPT !.transport = "rtu", !.connection = 0, !.offset = v.start, !.count = v.words, !.slice = 0]

Fine(d, i, bounded) ==
    [identity |-> d.identity, normalization |-> 1, status |-> "successful", view |-> View(d, i),
     source |-> [state |-> IF bounded THEN "observed" ELSE "unavailable", time |-> IF bounded THEN 3 ELSE 0],
     receipt |-> [time |-> IF bounded THEN 4 ELSE 0, present |-> bounded],
     marker |-> "m", ordinal |-> IF bounded THEN 1 ELSE 0, retry |-> IF bounded THEN 1 ELSE 0]

Flawed(r) ==
    {[r EXCEPT !.identity = "x"], [r EXCEPT !.normalization = 2], [r EXCEPT !.status = "torn"],
     [r EXCEPT !.marker = "n"], [r EXCEPT !.retry = 2], [r EXCEPT !.view = OnRTU(@)],
     [r EXCEPT !.view = Second(@), !.view.request = 1], [r EXCEPT !.view.deadline = 3], [r EXCEPT !.view.unit = 2],
     [r EXCEPT !.view.id = 1], [r EXCEPT !.view.raw[1] = 99], [r EXCEPT !.view.bytes = "b2"],
     [r EXCEPT !.view.poll = 2], [r EXCEPT !.view.wire = 3], [r EXCEPT !.view.table = "input"],
     [r EXCEPT !.view.slice = 2], [r EXCEPT !.view.offset = 3, !.view.slice = 0],
     [r EXCEPT !.view = [Second(@) EXCEPT !.generation = 2], !.ordinal = @ * 2],
     [r EXCEPT !.receipt = [time |-> 9, present |-> FALSE]]}

Observed(time) == [state |-> "observed", time |-> time]
Unknown == [state |-> "unavailable", time |-> 0]
At(time) == [time |-> time, present |-> TRUE]

Times(profile) ==
    IF Len(profile.declarations) = 3 THEN {<<Observed(3), At(4)>>, <<Unknown, At(9)>>}
    ELSE {<<s, t>> : s \in {Observed(3), Observed(8), Unknown}, t \in {At(0), At(4), At(9)}}

Received(profile, i) ==
    LET d == profile.declarations[i]  bounded == Bounded(profile)  r == Fine(d, i, bounded) IN
    (IF i = 3 THEN {} ELSE Flawed(r)) \cup
    (IF ~bounded THEN {r}
     ELSE {[r EXCEPT !.view = IF w = 1 THEN @ ELSE Second(@), !.ordinal = o, !.source = t[1], !.receipt = t[2]] :
              w \in {1, 2}, o \in {1, 2}, t \in Times(profile)})

Envelopes(profile, results) ==
    LET bounded == Bounded(profile)
        Around(source, receipt) ==
            [versions |-> 1, sample |-> None, poll |-> 1, retry |-> IF bounded THEN 1 ELSE 0, set |-> "set",
             validity |-> "valid", source |-> source, receipt |-> receipt, endpoint |-> "e", unit |-> 1,
             results |-> results]
        fine == Around(Unknown, At(4))
    IN {Around(s, t) : s \in {Unknown} \cup {results[i].source : i \in DOMAIN results},
                       t \in {At(4)} \cup {results[i].receipt : i \in DOMAIN results}} \cup
       IF bounded /\ \E i \in DOMAIN results : results[i].receipt # At(9) THEN {} ELSE
       {[fine EXCEPT !.versions = 2], [fine EXCEPT !.poll = 2], [fine EXCEPT !.unit = 2], [fine EXCEPT !.retry = 2],
        [fine EXCEPT !.sample = "s0"], [fine EXCEPT !.receipt.present = FALSE], [fine EXCEPT !.receipt.time = 11]}

-----------------------------------------------------------------------------
(* SunSpec occurrences: words below 64, bytes below 8, one model per type  *)
(* of point, one of each kind that repeats, and a nested one.              *)

Point(name, type, size) ==
    [name |-> name, type |-> type, size |-> size, scale |-> None, fixed |-> None, offset |-> 0, index |-> 0,
     known |-> {0, 2}, symbols |-> [n \in {0, 2} |-> IF n = 0 THEN "zero" ELSE "two"], mandatory |-> FALSE]

ScaledPoint(name, type, size, scale) == [Point(name, type, size) EXCEPT !.scale = scale]

Header == <<Point("ID", "uint16", 1), Point("L", "uint16", 1)>>

Sizes ==
    [int16 |-> 1, int32 |-> 2, uint16 |-> 1, uint32 |-> 2, uint64 |-> 4, acc32 |-> 2, acc64 |-> 4, count |-> 1,
     enum16 |-> 1, bitfield16 |-> 1, bitfield32 |-> 2, string |-> 2, float32 |-> 2, sunssf |-> 1, pad |-> 1]

Types ==
    <<"int16", "int32", "uint16", "uint32", "uint64", "acc32", "acc64", "count", "enum16", "bitfield16",
      "bitfield32", "string", "float32", "sunssf", "pad">>

(* Models 21, 22, ...: one scale factor and one scaled point of each type;  *)
(* models 41, 42, ...: the point is not scaled, and mandatory.              *)
OfType(type, id, scale) ==
    [id |-> id, length |-> 1 + Sizes[type],
     points |-> Header \o <<Point("SF", "sunssf", 1),
        [ScaledPoint("X", type, Sizes[type], scale) EXCEPT !.mandatory = scale = None]>>]

FixedModels ==
    [v1 |-> [i \in DOMAIN Types |-> OfType(Types[i], 20 + i, "SF")],
     v2 |-> [i \in DOMAIN Types |-> OfType(Types[i], 40 + i, None)]]

CountedModels ==
    [v1 |-> {[id |-> 17, at |-> 3, head |-> Header \o <<Point("SF", "sunssf", 1), Point("N", "count", 1)>>,
              group |-> <<ScaledPoint("A", "int16", 1, "SF"), Point("B", "uint32", 2)>>]},
     v2 |-> {}]

OpenModels ==
    [v1 |-> {[id |-> 18, head |-> Header, group |-> <<[Point("T", "int16", 1) EXCEPT !.fixed = -1], Point("U", "acc32", 2)>>]},
     v2 |-> {}]

Field(name, type, size, scale) ==
    [name |-> name, words |-> size, emit |-> TRUE, point |-> ScaledPoint(name, type, size, scale)]

Group(name, repeat, fields, children) ==
    [name |-> name, repeat |-> repeat, base |-> IF repeat = None THEN 0 ELSE 1, fields |-> fields, children |-> children]

Curve(name) ==
    Group(name, None, <<Field("ActPt", "uint16", 1, None)>>,
        <<Group("Pt", "points", <<Field("V", "uint16", 1, "V_SF"), Field("Tms", "uint32", 2, "V_SF")>>, <<>>)>>)

Count(name, offset) == [name |-> name, offset |-> offset, unavailable |-> 63, min |-> 0, max |-> 62]

ProjectedTemplate ==
    [revision |-> "v2", id |-> 7, counts |-> <<Count("points", 2), Count("curves", 3)>>,
     root |-> Group(None, None,
        <<Field("ID", "uint16", 1, None), Field("L", "uint16", 1, None), Field("NPt", "uint16", 1, None),
          Field("NCrv", "uint16", 1, None), Field("V_SF", "sunssf", 1, None)>>,
        <<Group("Crv", "curves", <<Field("ReadOnly", "enum16", 1, None)>>, <<Curve("MustTrip"), Curve("MayTrip")>>)>>)]

Quiet(f) == [f EXCEPT !.emit = FALSE, !.point = None]

Templates ==
    LET t == ProjectedTemplate IN
    {[t EXCEPT !.root.fields = [i \in DOMAIN @ |-> Quiet(@[i])]],
     [t EXCEPT !.root.fields = [i \in DOMAIN @ |-> Quiet(@[i])], !.root.children[1].base = 3,
        !.counts = <<[@[1] EXCEPT !.min = 1, !.max = 1], [@[2] EXCEPT !.min = 1, !.max = 2]>>],
     [t EXCEPT !.root.children[1].repeat = "turns"], [t EXCEPT !.root.base = 1],
     [t EXCEPT !.counts[2].offset = 2], [t EXCEPT !.counts[2].max = 63], [t EXCEPT !.root.fields[1].words = 0],
     [t EXCEPT !.root.children[1].children[1].fields[1].emit = FALSE],
     [t EXCEPT !.root.children[1].children[1].children[1].children = <<Group("Deep", None, <<>>, <<>>)>>]}

---------------------------------------------------------------------------
(* The words of an occurrence and how the views cut them. *)

Span(view, at, words) == [view |-> view, at |-> at, words |-> words]

Whole(n) == <<Span(1, 40, n)>>

Cuts(n) ==
    {Whole(n)} \cup {<<Span(1, 40, k), Span(2, 3, n - k)>> : k \in 1 .. n - 1}
    \cup {<<Span(1, 40, 6), Span(1, 10, 1), Span(2, 3, n - 7)>>} \cup {<<Span(1, 40, n - 1)>>, <<Span(0, 40, n)>>}

With(id, payload) == <<id, Len(payload)>> \o payload

Bent(words) == {words, [words EXCEPT ![2] = @ + 1], [words EXCEPT ![3] = 63], [words EXCEPT ![4] = (@ + 1) % 64]}

Trip(points, curves, sf, v) ==
    LET point == <<v, 0, v>>
        three == <<1>> \o (IF points = 0 THEN <<>> ELSE IF points = 1 THEN point ELSE point \o <<63, 63, 63>>)
        curve == <<v % 8>> \o three \o three
    IN With(7, <<points, curves, sf>> \o (IF curves = 0 THEN <<>> ELSE IF curves = 1 THEN curve ELSE curve \o curve))

Pieces(w, cuts) == {[words |-> w, spans |-> s] : s \in cuts}

TripWires ==
    LET sizes == {<<0, 1>>, <<1, 1>>, <<2, 1>>, <<1, 2>>}  Of(z) == Trip(z[1], z[2], 60, 5) IN
    UNION {Pieces(Of(z), Cuts(Len(Of(z)))) : z \in sizes}
    \cup UNION {Pieces(w, {Whole(Len(w))}) : w \in UNION {Bent(Trip(p, c, 60, 5)) : p \in 0 .. 2, c \in 0 .. 2}}
    \cup {[words |-> w, spans |-> Whole(Len(w))] : w \in {Trip(1, 1, sf, v) : sf \in {0, 11, 32, 54, 63}, v \in {0, 1, 63}}}

Tuples(n) ==
    IF n = 1 THEN {<<a>> : a \in 0 .. 63}
    ELSE IF n = 2 THEN {<<a, b>> : a \in {0, 1, 3, 8, 9, 12, 31, 32, 33, 48, 56, 60, 63}, b \in {0, 1, 4, 8, 9, 32, 33, 49, 56, 63}}
    ELSE {<<a, b, c, d>> : a \in {0, 31, 32, 63}, b \in {0, 63}, c \in {0, 63}, d \in {0, 1, 63}}

TypeWires ==
    UNION {{[words |-> With(base + i, <<sf>> \o x), spans |-> Whole(3 + Len(x))] :
        sf \in IF base = 20 THEN {0, 11, 32, 54} ELSE {0}, x \in Tuples(Sizes[Types[i]])} :
            i \in DOMAIN Types, base \in {20, 40}}

GroupWires ==
    {[words |-> w, spans |-> Whole(Len(w))] :
        w \in UNION {Bent(With(17, <<60, n>> \o SubSeq(<<5, 0, 9, 32, 63, 63>>, 1, 3 * k))) : n \in {0, 1, 2, 63}, k \in 0 .. 2}
            \cup UNION {Bent(With(18, SubSeq(<<32, 0, 1, 7, 0, 0>>, 1, k))) : k \in 2 .. 6}}

Wires == TripWires \cup TypeWires \cup GroupWires

(* UTF-8 in small: below 4 a character, 4 and 5 only after a 6, 7 nowhere. *)
ValidText(bytes) ==
    \A i \in DOMAIN bytes :
        /\ bytes[i] # 7
        /\ bytes[i] \in {4, 5} <=> i > 1 /\ bytes[i - 1] = 6
        /\ bytes[i] = 6 => i < Len(bytes)

-----------------------------------------------------------------------------
(* Evaluations of the LUNA group: a presence of one record, and what       *)
(* differs from it in one thing.                                           *)

Party(tokens, epochs) == [tokens |-> tokens, epochs |-> epochs, parent |-> TRUE, whole |-> TRUE, bytes |-> 2]

Rule == [maxRecords |-> 2, maxBytes |-> 8, deadline |-> 6, freshness |-> 1, retention |-> 3,
         historyRecords |-> 3, historyBytes |-> 9]

Seen(at) == [text |-> TRUE, at |-> at, bytes |-> 1]

Presence(now) ==
    [binding |-> Party("a", "e1"), parentIdentified |-> TRUE, epochsAssociated |-> TRUE, epochs |-> "e1",
     event |-> "documentary presence", evidence |-> <<Seen(now)>>, started |-> 0, now |-> now, policy |-> Rule]

Evaluations(clock) ==
    LET in == Presence(clock)
        later == Presence(clock + 2)
    IN {in, later,
        [in EXCEPT !.evidence = <<Seen(clock), Seen(IF clock > 2 THEN clock - 2 ELSE 0)>>],
        [in EXCEPT !.event = "optional failure", !.evidence = <<>>],
        [in EXCEPT !.event = "malformed evidence"],
        [later EXCEPT !.event = "inventory only"],
        [in EXCEPT !.event = "absence"],
        [in EXCEPT !.evidence = <<>>],
        [in EXCEPT !.now = clock - 1],
        [in EXCEPT !.binding.epochs = "e2", !.epochs = "e2"],
        [in EXCEPT !.epochs = "e2", !.now = clock + 2],
        [in EXCEPT !.binding.bytes = 9],
        [in EXCEPT !.epochsAssociated = FALSE, !.binding.parent = FALSE, !.binding.whole = FALSE],
        [in EXCEPT !.policy.deadline = 0],
        [in EXCEPT !.policy.maxBytes = 1],
        [in EXCEPT !.policy.retention = 1, !.policy.historyRecords = 1],
        [in EXCEPT !.evidence = <<Seen(clock), [Seen(clock + 1) EXCEPT !.text = FALSE]>>],
        [in EXCEPT !.evidence = <<[Seen(clock) EXCEPT !.bytes = 7]>>]}

-----------------------------------------------------------------------------
(* Reads of a SUN2000, in words of 6 bits.  One answer alternates a word   *)
(* and its complement, but for the state code, so that the two words of a  *)
(* number differ and each cycle has its own numbers.                       *)

UnitsOf(p) == IF p.id = "m3" THEN {1, 3} ELSE {1}

WordsOf(g, word, state) ==
    [k \in 1 .. g.quantity |-> IF k = 26 THEN state ELSE IF k % 2 = 1 THEN word ELSE 63 - word]

Reply(words, code) == [answers |-> words # <<>>, words |-> words, code |-> code]

Lost == Reply(<<>>, 0)

(* What every cycle reads: its number, or its number below zero.           *)
WordIn(cycle) == IF cycle = 2 THEN 64 - cycle ELSE cycle

Replies(g, cycle) ==
    {Reply(WordsOf(g, WordIn(cycle), IF cycle = 1 THEN 32 ELSE 7), 0)}
    \cup (IF g.offset = 32016 THEN {Reply(<<>>, 2)} ELSE {})
    \cup (IF g.offset = 32064 THEN {Lost} ELSE {})
    \cup (IF g.offset = 32106 THEN {Reply(WordsOf([g EXCEPT !.quantity = @ - 1], cycle, 7), 0)} ELSE {})

Reading(g, outcome, words, code) ==
    [offset |-> g.offset, quantity |-> g.quantity, outcome |-> outcome, code |-> code,
     words |-> words, cycle |-> 7, retained |-> FALSE]

Handed(p, cycle) ==
    LET g == p.groups[2]
        good == Reading(g, "ANSWERED", WordsOf(g, WordIn(cycle), 7), 0)
    IN {<<[good EXCEPT !.retained = TRUE]>>, <<good, good>>, <<[good EXCEPT !.words = Tail(@)]>>,
        <<[good EXCEPT !.offset = 32064, !.quantity = 24]>>,
        <<[Reading(g, "FAILED", <<>>, 0) EXCEPT !.retained = TRUE]>>}

-----------------------------------------------------------------------------
(* Small catalogues: two inverter cards whose rows share tokens, aliases   *)
(* and floors, and three gateway families, one with an ordered line, one   *)
(* with a floor in each of two branches and one whose text is labelled.    *)

Missing == -1
NoText == [form |-> "absent"]
Garbled == [form |-> "other"]

Version(line, release, branch, build) ==
    [form |-> "version", label |-> "", product |-> "", line |-> line, release |-> release,
     branch |-> branch, build |-> build]

Labelled(label, text) == [text EXCEPT !.label = label]

Product(product, text) == [text EXCEPT !.product = product]

---------------------------------------------------------------------------
Register(offset, quantity, modelID) ==
    [endpoint |-> "inverter", offset |-> offset, quantity |-> quantity, modelID |-> modelID]

MapA == [card |-> "A", edition |-> "e1", rows |-> <<Register(0, 15, FALSE), Register(70, 1, TRUE)>>]
MapB == [card |-> "B", edition |-> "e2", rows |-> <<Register(80, 1, TRUE), [Register(0, 15, FALSE) EXCEPT !.endpoint = "battery"]>>]
MapC == [card |-> "C", edition |-> "e3", rows |-> <<Register(Missing, 1, TRUE), Register(70, 1, TRUE), Register(0, 15, FALSE)>>]

ModelRow(edition, token, identifier, floor) ==
    [edition |-> edition, token |-> token, identifier |-> identifier, floor |-> floor,
     basis |-> "row", requirement |-> "", aliases |-> {}]

Alias(token, identifier, atInverter) == [token |-> token, identifier |-> identifier, atInverter |-> atInverter]

Rows ==
    <<ModelRow("e1", "m1", 1, Version(1, 1, 0, 2)),
      [ModelRow("e1", "m2", 2, Version(1, 1, 1, Missing)) EXCEPT
          !.aliases = {Alias("m1", 2, TRUE), Alias("m3", 1, TRUE), Alias("m4", 2, FALSE)}],
      ModelRow("e9", "m1", 1, NoText),
      [ModelRow("e3", "m1", 1, Version(1, 1, 0, 1)) EXCEPT !.basis = "document", !.requirement = "r"],
      ModelRow("e3", "m3", Missing, Version(1, 2, Missing, Missing)),
      ModelRow("e2", "m1", 1, Garbled),
      [ModelRow("e2", "m2", 1, Product("S", Version(1, 1, 0, 1))) EXCEPT !.aliases = {Alias("m4", 1, TRUE)}]>>

Inverters ==
    [editions |-> <<[id |-> "e1", card |-> "A"], [id |-> "e9", card |-> ""], [id |-> "e2", card |-> "B"],
                    [id |-> "e3", card |-> "C"]>>,
     registers |-> <<MapA, MapB, MapC>>, rows |-> Rows]

InverterFiles ==
    {Inverters, [Inverters EXCEPT !.rows = SubSeq(Rows, 1, 3)],
     [Inverters EXCEPT !.rows = Append(Rows, ModelRow("e1", "m1", 1, Version(1, 1, 0, 3)))],
     [Inverters EXCEPT !.rows[1].floor = NoText], [Inverters EXCEPT !.rows[2].identifier = 9],
     [Inverters EXCEPT !.rows[4].requirement = ""], [Inverters EXCEPT !.editions[3].card = "A"],
     [Inverters EXCEPT !.registers = <<MapA, MapB>>], [Inverters EXCEPT !.registers = <<MapA, MapB, MapC, MapA>>],
     [Inverters EXCEPT !.registers[1].rows = <<Register(0, 15, FALSE)>>],
     [Inverters EXCEPT !.registers[2].edition = "e1"]}

Builds == {NoText, Garbled, Version(1, 1, 0, 1), Version(1, 1, 0, 2), Version(1, 1, 0, 3), Version(1, 1, 0, Missing),
           Version(1, 1, Missing, Missing), Version(1, 1, 1, 0), Version(1, 2, 0, 1), Version(2, 1, 0, 0),
           Product("S", Version(1, 1, 0, 0)), Product("T", Version(1, 1, 0, 0))}

InverterInputs ==
    [scope : {"INVERTER_MAP", "C81_MAP", "GATEWAY_NAMESPACE", "ELSEWHERE"}, model : {"m1", "m2", "m3", "m4", "bad"},
     identifier : {Missing, 0, 1, 2}, software : Builds, firmware : {NoText, Version(1, 1, 0, 1)}]

---------------------------------------------------------------------------
FamilyRules == [SmartLogger |-> [component |-> "Logger", labelled |-> FALSE],
                SDongle |-> [component |-> "not stated", labelled |-> FALSE],
                EMMA |-> [component |-> "HEMS", labelled |-> TRUE]]

Floor(component, minimum) == [component |-> component, minimum |-> minimum, inclusive |-> TRUE]

Edition(id, family, branch, models, floors, unit) ==
    [id |-> id, family |-> family, branch |-> branch, models |-> models,
     exhaustive |-> family = "SDongle", floors |-> floors, selfUnit |-> unit]

Service(edition, unit, descriptor) ==
    [edition |-> edition, selfUnit |-> unit, descriptor |-> descriptor, attributeSix |-> "plain"]

Gateways ==
    [editions |->
        <<Edition("l1", "SmartLogger", Version(3, 1, 0, Missing), {<<"L">>},
                  <<Floor("Logger", Version(3, 1, 0, Missing)), Floor("Inverter", Garbled)>>, 0),
          Edition("l2", "SmartLogger", Version(3, 2, 1, 2), {<<"L">>},
                  <<Floor("Logger", Version(3, 1, 0, Missing)), Floor("Logger", Version(3, 2, 1, 2))>>, 0),
          Edition("x1", "PowerBox", Garbled, {}, <<>>, Missing),
          Edition("d1", "SDongle", Version(1, 1, 0, 1), {<<"D", "05">>}, <<Floor("not stated", Version(1, 1, 0, 1))>>, 9),
          Edition("d2", "SDongle", Garbled, {<<"D", "05">>, <<"D", "06">>}, <<Floor("not stated", Version(2, 1, 1, Missing))>>, 9),
          Edition("d3", "SDongle", Version(2, 2, 0, Missing), {<<"D", "06">>}, <<Floor("not stated", Version(2, 1, 1, Missing))>>, 9),
          Edition("h1", "EMMA", Version(1, 2, 0, Missing), {<<"EMMA">>}, <<Floor("HEMS", Version(1, 2, 0, 1))>>, 0),
          Edition("h2", "EMMA", Version(1, 3, 0, 2), {<<"EMMA">>}, <<Floor("HEMS", Version(1, 3, 0, 2))>>, 0)>>,
     services |->
        <<Service("l1", 0, {<<1, 3>>}), Service("l2", 0, {<<1, 2>>, <<5, 5>>}), Service("d1", 9, {<<1, 1>>}),
          Service("d2", 9, {<<2, 3>>}), Service("d3", 9, {<<2, 4>>}), Service("h1", 0, {<<1, 4>>}),
          Service("h2", 0, {<<1, 6>>}), Service("zz", 3, {<<1, 1>>})>>]

GatewayFiles ==
    {Gateways, [Gateways EXCEPT !.editions[4].floors[1].inclusive = FALSE],
     [Gateways EXCEPT !.editions[7].selfUnit = 1], [Gateways EXCEPT !.services[2].edition = "l1"],
     [Gateways EXCEPT !.services[8].descriptor = {<<3, 2>>}], [Gateways EXCEPT !.editions[8].floors = <<Floor("Logger", Version(1, 3, 0, 2))>>],
     [Gateways EXCEPT !.editions[5].floors[1].minimum = Version(2, 1, Missing, Missing)],
     [Gateways EXCEPT !.editions[6].family = "PowerBox"], [Gateways EXCEPT !.editions[7].family = "PowerBox", !.editions[8].family = "PowerBox"],
     [Gateways EXCEPT !.editions[2].floors = <<Floor("Logger", Version(3, 2, 1, 2))>>],
     [Gateways EXCEPT !.editions[8].floors[1].minimum = Version(1, 2, 0, 3)]}

ModelParts == {"EMMA", "A02", "D", "05", "06", "L"}

GatewayBuilds ==
    {Version(1, 1, 0, 0), Version(1, 1, 0, 2), Version(1, 2, 0, 1), Version(1, 2, 0, Missing), Version(1, 2, 0, 3),
     Version(1, 3, 0, 1), Version(1, 4, 0, 0), Version(2, 1, 0, 9), Version(2, 1, 1, Missing), Version(2, 2, 0, 0),
     Version(3, 0, 3, 3), Version(3, 1, 0, 0), Version(3, 2, 1, 1), Version(3, 2, 1, 2), Version(3, 3, 0, 0)}

GatewayInputs ==
    {[family |-> f, endpoint |-> "gateway-self", unit |-> u, model |-> m, software |-> s] :
        f \in {"SmartLogger", "SDongle", "EMMA", "PowerBox"}, u \in {0, 9}, m \in {<<>>, <<"EMMA", "A02">>, <<"EMMA">>, <<"D", "06">>, <<"L", "free text">>},
        s \in {NoText, Garbled, Version(1, 2, Missing, Missing), Labelled("Other", Version(1, 2, 0, 1))} \union
              {Labelled(l, b) : l \in {"", "HEMS", "Logger"}, b \in GatewayBuilds}} \union
    {[family |-> "EMMA", endpoint |-> "inverter", unit |-> 0, model |-> <<>>, software |-> NoText]}

-----------------------------------------------------------------------------
(* Small gateways: a SmartLogger whose list is swapped, shortened or given *)
(* an older build; an S-Dongle whose inverter is replaced; an EMMA whose   *)
(* two inverters are swapped.  Object numbers wrap at the third object.    *)

M1 == <<"SUN2000", "M1">>
M3 == <<"SUN2000", "M3">>
M9 == <<"SUN2000", "M9">>
Logger == <<"Smart", "Logger">>
Emma == <<"EMMA", "A02">>

LoggerBuild == Version(3, 2, 1, 2)
EmmaBuild == Version(1, 2, 0, 1)

Entry(model, unit, keys) ==
    [keys |-> keys, model |-> model, unit |-> unit, software |-> NoText, product |-> ""]

Listed(model, unit) == [length |-> 2, entry |-> Entry(model, unit, <<1, 5>>)]

Self(model, software, product) ==
    [length |-> 2, entry |-> [Entry(model, 0, <<1, 2, 5, 7>>) EXCEPT !.software = software, !.product = product]]

LoggerLists ==
    {<<Self(Logger, LoggerBuild, ""), Listed(M1, 1), Listed(M3, 2)>>,
     <<Self(Logger, LoggerBuild, ""), Listed(M3, 1), Listed(M1, 2)>>,
     <<Self(Logger, Version(3, 1, 0, 0), ""), Listed(M1, 1)>>}

Sub(model, unit) == [length |-> 2, entry |-> Entry(model, unit, <<1, 5, 2, 3, 4, 6>>)]

DongleLists == {<<Sub(M1, 1)>>, <<Sub(M3, 1)>>, <<Sub(M3, 2), Sub(M1, 1)>>}

Member(model, unit, product) == [length |-> 2, entry |-> [Entry(model, unit, <<1, 5, 8>>) EXCEPT !.product = product]]

EmmaList(first, second) ==
    <<Self(Emma, EmmaBuild, "HEMS"), Member(<<"Box">>, 2, "BackupBox"), Member(first, 3, "SUN2000"), Member(second, 4, "SUN2000")>>

EmmaLists == {EmmaList(M1, M3), EmmaList(M3, M1)}

Lists == [SmartLogger |-> LoggerLists, SDongle |-> DongleLists, EMMA |-> EmmaLists]

---------------------------------------------------------------------------
Object(id, text) == [id |-> id, text |-> text, printable |-> TRUE]

LoggerReply(software) == <<Object(0, "Huawei"), Object(1, Logger), Object(2, software), Object(7, "opaque")>>

LoggerBench(basic, dongleToo) == [unit |-> 0, basic |-> basic, dongleToo |-> dongleToo]

LoggerBenches ==
    {LoggerBench(None, TRUE), LoggerBench(LoggerReply(LoggerBuild), FALSE)}

Block(text, rest) == [text |-> text, rest |-> rest]

DongleBench ==
    [unit |-> 9, basicReply |-> None, basicException |-> 3, status |-> <<0>>, protocol |-> <<7, 2>>, capacity |-> <<1>>,
     software |-> Block(Version(2, 2, 0, 0), "nuls"), typeWord |-> 5, state |-> 0,
     childBasic |-> <<Object(0, "Huawei"), Object(1, <<"SUN2000">>), Object(2, "v")>>, readCodes |-> TRUE]

DongleBenches ==
    {DongleBench, [DongleBench EXCEPT !.software = None], [DongleBench EXCEPT !.software.rest = "run"],
     [DongleBench EXCEPT !.state = 2], [DongleBench EXCEPT !.capacity = <<0>>],
     [DongleBench EXCEPT !.basicException = 2], [DongleBench EXCEPT !.readCodes = FALSE]}

EmmaReply(vendor) == <<Object(0, vendor), Object(1, "HEMS"), Object(2, EmmaBuild)>>

EmmaBench ==
    [unit |-> 0, offering |-> Block("SmartHEMS", "nuls"), model |-> Block(Emma, "nuls"),
     software |-> Block(Labelled("HEMS", EmmaBuild), "nuls"), basic |-> EmmaReply("Huawei"), readCodes |-> TRUE]

EmmaBenches ==
    {EmmaBench, [EmmaBench EXCEPT !.basic = EmmaReply("other")]}

EmmaMembers ==
    <<[unit |-> 2, product |-> "BackupBox", family |-> ""], [unit |-> 3, product |-> "SUN2000", family |-> "SUN2000"],
      [unit |-> 4, product |-> "SUN2000", family |-> "SUN2000"]>>

BlockRests == [SmartLogger |-> {"nuls", "run"}, SDongle |-> {"run", "scattered"}, EMMA |-> {"scattered"}]

---------------------------------------------------------------------------
RowOf(token, identifier, scope, floor, aliases) ==
    [card |-> "A", scope |-> scope, edition |-> "e1", token |-> token, identifier |-> identifier,
     floor |-> floor, aliases |-> aliases]

InverterRows ==
    <<RowOf(M1, 1, "INVERTER_MAP", Version(1, 1, 0, 2), {}), RowOf(M3, 1, "INVERTER_MAP", Version(1, 1, 1, Missing), {}),
      RowOf(M3, 2, "INVERTER_MAP", Version(1, 1, 0, 1), {M1}), RowOf(M3, 2, "INVERTER_MAP", Version(1, 2, 0, 1), {}),
      RowOf(M3, 3, "C81_MAP", Garbled, {})>>

Profiles == <<[gateway |-> "SmartLogger", model |-> M3], [gateway |-> "SDongle", model |-> M1]>>

WordSets ==
    [whole : {TRUE}, identifier : {Missing, 1, 2, 3}, software : {NoText, Version(1, 1, 0, 1), Version(1, 2, 0, 2)},
     firmware : {NoText}] \union
    {[whole |-> FALSE, identifier |-> 1, software |-> NoText, firmware |-> NoText]}
===============================================================================
