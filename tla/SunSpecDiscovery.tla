--------------------------- MODULE SunSpecDiscovery ---------------------------
(***************************************************************************)
(* One chain walked over any device, by callers that answer its reads in   *)
(* any order, with any view, late, twice, or with the request of another   *)
(* chain; and what the rest of the package makes of a complete chain: the  *)
(* phase-one parser and capture check, the decoder registry, the           *)
(* three-phase monitoring capability, the observed Fronius flavors and     *)
(* the Fronius qualification card.                                         *)
(*                                                                         *)
(* A decoded field is cut down to what the decisions ask of it: the words  *)
(* of a model qualify unless one of them is Unreadable (a sentinel, a bad  *)
(* encoding, an unknown symbol; SunSpecLayout has the decoding itself),    *)
(* and the first payload word of the Common model names manufacturer,      *)
(* model and firmware together.  A registry is [revision, keys].           *)
(***************************************************************************)
EXTENDS SunSpecChain

CONSTANTS
    CommonModel, CommonLengths,         \* 1; {65, 66}
    InverterModels, InverterLength,     \* {101, 102, 103}; 50
    ScaleWords,                         \* payload words holding their scale factors
    DeferredModels,                     \* deferredSunSpecModel
    MaxPhaseOneWords, PhaseOneBase,     \* 512; 40000
    RepeatedModel, RepeatHead, RepeatWords, CountWord,  \* 160; 8; 20; word 8
    ThreePhaseKeys,                     \* {[103, 50], [113, 60]}
    Unreadable,                         \* a word no field can be read from
    Flavors,                            \* sunSpecFroniusFlavorDefinition, in order
    FroniusFirmware,                    \* Common words that say Fronius GEN24 -> firmware
    CardRevision, CardPlan, CardFlavor, \* SunSpecFroniusQualificationCard
    CardProvenances,                    \* provenances of the card's unit
    PlanSpecs,          \* SunSpecChainPlanSpec values tried
    Headers,            \* model headers a device may answer: <<id, length>>
    Contents,           \* payload words a device may answer
    SourcesOfViews,     \* by purpose: [physical, wire, place, bytes, provenance, slice, holding]
    Plain,              \* one of them, for the views with another fault
    Registries          \* decoder registries

VARIABLE chain          \* None before a plan is accepted

(* ASSUME's counterpart of the qualification card: its plan is accepted.   *)
ASSUME CardAssumption == ValidPlan(CardPlan)

---------------------------------------------------------------------------
(* What a chain is made of. *)

(* What the sources of the views say in a field of theirs.                 *)
Stated(field) ==
    LET described == {Plain} \cup UNION {SourcesOfViews[p] : p \in {"signature", "header", "payload"}}
    IN {s[field] : s \in described}

Table(names, facts) == UNION {[S -> facts] : S \in SUBSET names}

RequestType == [instance : Nat, sequence : Nat, address : Nat, words : Nat,
                purpose : {"signature", "header", "payload"}]

ViewType == [id : Nat, address : Nat, words : Seq(Nat), slice : Stated("slice"),
             holding : Stated("holding"), provenance : Stated("provenance"),
             physical : Stated("physical"), wire : Stated("wire"), place : Stated("place"),
             bytes : Stated("bytes")]

SpanType == [view : Nat, offset : Stated("slice"), words : Nat]

OccurrenceType == [ordinal : Nat, id : Nat, length : Nat, revision : Revisions, header : Nat,
                   payload : Nat, disposition : {"admitted", "unsupported_length", "unknown_model"},
                   structural : BOOLEAN, words : Seq(Nat), spans : Seq(SpanType)]

CurrentType == [id : Nat, length : Nat, header : Nat, words : Seq(Nat), spans : Seq(SpanType)]

(* What is remembered of the physical requests and of the wire responses.  *)
PhysicalTable == Table(Stated("physical"), [wire : Stated("wire"), place : Stated("place")])
WireTable == Table(Stated("wire"), [physical : Stated("physical"), bytes : Stated("bytes")])

ChainType == [plan : PlanSpecs, instance : Nat, pending : SUBSET RequestType, next : Nat,
              selected : Nat \cup {None}, raw : Seq(Nat), occ : Seq(OccurrenceType),
              sources : Seq(ViewType),
              physical : PhysicalTable, wire : WireTable,
              current : CurrentType \cup {None}, complete : BOOLEAN, failed : BOOLEAN]

(* Registers and addresses are numbers, and None is none of the records.   *)
ASSUME SunSpecDiscoveryAssumption ==
    /\ \A s \in PlanSpecs : s.bases \in Seq(Nat)
    /\ Headers \subseteq Nat \X Nat /\ Contents \subseteq Nat
    /\ None \notin ChainType /\ None \notin CurrentType /\ None \notin [words : Nat, models : Nat]

---------------------------------------------------------------------------
Key(o) == [id |-> o.id, length |-> o.length]

---------------------------------------------------------------------------
(* Phase one. *)

(* The switch of Parse over one model at `at' in the chain.                *)
PhaseOneModel(raw, at) ==
    LET id == raw[at]  n == raw[at + 1] IN
    /\ n # 0 /\ at + 1 + n <= Len(raw)
    /\ (at = 3) <=> (id = CommonModel)
    /\ id = CommonModel => n \in CommonLengths
    /\ id \in InverterModels => n = InverterLength /\ \A k \in ScaleWords : raw[at + 1 + k] # Unreadable
    /\ id \notin DeferredModels

(* SunSpecPhaseOneDecoder.Parse: the extents of the models, or None.       *)
Parse(raw) ==
    LET from[at \in 1 .. Len(raw) + 1] ==
            IF at + 1 > Len(raw) THEN None
            ELSE IF raw[at] = EndModel
                 THEN IF raw[at + 1] = 0 /\ at + 1 = Len(raw) /\ at # 3 THEN <<>> ELSE None
            ELSE IF ~PhaseOneModel(raw, at) THEN None
            ELSE LET rest == from[at + 2 + raw[at + 1]] IN
                 IF rest = None THEN None
                 ELSE <<[id |-> raw[at], length |-> raw[at + 1], offset |-> at - 1]>> \o rest
    IN IF Len(raw) \in 4 .. MaxPhaseOneWords /\ SubSeq(raw, 1, 2) = Signature THEN from[3] ELSE None

Words(views) == FlattenSeq([i \in DOMAIN views |-> views[i].words])

(* No two of the views contradict each other's physical or wire identity.  *)
Coherent(views) ==
    \A v, w \in Range(views) :
        /\ v.physical = w.physical => PhysicalSource(v) = PhysicalSource(w)
        /\ v.wire = w.wire => WireSource(v) = WireSource(w)

(* validateSunSpecCapture accepts the views; its raw words are Words(views).*)
ValidCapture(views) ==
    /\ Len(views) \in 1 .. MaxPhaseOneWords /\ Len(Words(views)) <= MaxPhaseOneWords
    /\ \A i \in DOMAIN views :
          /\ views[i].holding /\ views[i].provenance = views[1].provenance
          /\ views[i].address = PhaseOneBase + Len(Words(SubSeq(views, 1, i - 1)))
    /\ \A i, j \in DOMAIN views : views[i].id = views[j].id => i = j
    /\ Coherent(views)

---------------------------------------------------------------------------
(* sunSpecSnapshotWireChain. *)

(* Where each occurrence starts in the raw words, and where they end.      *)
Starts(s) ==
    LET start[i \in 1 .. Len(s.occ) + 1] ==
            IF i = 1 THEN 2 ELSE start[i - 1] + 2 + s.occ[i - 1].length
    IN start

(* The spans of an occurrence are its words, view by view.                 *)
SpansCover(s, o) ==
    LET view(id) == CHOOSE v \in Range(s.sources) : v.id = id IN
    /\ \A x \in Range(o.spans) :
          /\ \E v \in Range(s.sources) : v.id = x.view
          /\ x.words # 0 /\ x.words = Len(view(x.view).words) /\ x.offset = view(x.view).slice
    /\ FlattenSeq([k \in DOMAIN o.spans |-> view(o.spans[k].view).words]) = o.words

WireChainValid(s) ==
    LET start == Starts(s)  end == start[Len(s.occ) + 1] IN
    /\ Len(s.raw) = end + 2 /\ SubSeq(s.raw, 1, 2) = Signature
    /\ SubSeq(s.raw, end + 1, end + 2) = <<EndModel, 0>>
    /\ \A i, j \in DOMAIN s.sources : s.sources[i].id # 0 /\ (s.sources[i].id = s.sources[j].id => i = j)
    /\ s.occ # <<>> => s.occ[1].header >= 2
    /\ \A i \in DOMAIN s.occ : LET o == s.occ[i] IN
          /\ o.ordinal = i /\ o.id # EndModel /\ o.length # 0
          /\ SubSeq(s.raw, start[i] + 1, start[i + 1]) = o.words
          /\ SubSeq(o.words, 1, 2) = <<o.id, o.length>>
          /\ o.header = s.occ[1].header + start[i] - 2 /\ o.payload = o.header + 2
          /\ SpansCover(s, o)
          /\ o.header + Len(o.words) < AddressSpace

WireChain(s) == Append([i \in DOMAIN s.occ |-> Key(s.occ[i])], [id |-> EndModel, length |-> 0])

---------------------------------------------------------------------------
(* SunSpecDecoderRegistry. *)

(* validRetainedSunSpecGeometry, which is also model 160's geometry check. *)
GeometryValid(o) ==
    o.id = RepeatedModel =>
        /\ Len(o.words) = o.length + 2 /\ Len(o.words) > CountWord
        /\ o.words[CountWord + 1] # Unreadable
        /\ o.length = RepeatHead + RepeatWords * o.words[CountWord + 1]

(* DecodeOccurrence finds an admitted key of its own revision.             *)
Decodes(reg, o) ==
    /\ o.disposition = "admitted" /\ o.revision = reg.revision /\ Key(o) \in reg.keys
    /\ Len(o.words) = o.length + 2 /\ SubSeq(o.words, 1, 2) = <<o.id, o.length>>

Qualifies(o) == GeometryValid(o) /\ \A i \in 3 .. Len(o.words) : o.words[i] # Unreadable

(* DecodeChain succeeds: one Common model, first, and nothing admitted     *)
(* that the registry cannot decode.                                        *)
DecodesChain(reg, s) ==
    /\ s.occ # <<>> /\ \A i \in DOMAIN s.occ : s.occ[i].id = CommonModel <=> i = 1
    /\ s.occ[1].disposition = "admitted"
    /\ \A o \in Range(s.occ) : o.disposition = "admitted" => Decodes(reg, o)

---------------------------------------------------------------------------
(* EvaluateThreePhaseMonitoring and the observed Fronius flavors. *)

ExactSources(s) == {o \in Range(s.occ) : Key(o) \in ThreePhaseKeys}

Capability(reg, s) ==
    LET source == CHOOSE o \in ExactSources(s) : TRUE IN
    IF \/ ~WireChainValid(s)
       \/ \E o \in Range(s.occ) : ~GeometryValid(o)
       \/ ~DecodesChain(reg, s)
       \/ ~Qualifies(s.occ[1]) THEN "INVALID_CHAIN"
    ELSE IF Cardinality(ExactSources(s)) > 1 THEN "AMBIGUOUS_SOURCE"
    ELSE IF ExactSources(s) = {} THEN "SOURCE_ABSENT"
    ELSE IF ~Decodes(reg, source) THEN "SOURCE_UNSUPPORTED"
    ELSE IF ~Qualifies(source) THEN "INVALID_REQUIRED_FACT"
    ELSE "ADMITTED"

(* Faulty variant: the firmware is not compared.                           *)
FlavorOfAnyFirmware(reg, s, f) ==
    LET capability == Capability(reg, s) IN
    IF capability = "AMBIGUOUS_SOURCE" THEN "AMBIGUOUS_SOURCE"
    ELSE IF capability # "ADMITTED" THEN "CAPABILITY_NOT_ADMITTED"
    ELSE IF s.occ[1].words[3] \notin DOMAIN FroniusFirmware THEN "COMMON_IDENTITY_MISMATCH"
    ELSE IF WireChain(s) # f.chain THEN "CHAIN_MISMATCH"
    ELSE "MATCHED"

(* evaluateFroniusObservedFlavor.                                          *)
Flavor(reg, s, f) ==
    LET capability == Capability(reg, s)  common == s.occ[1].words[3] IN
    IF capability = "AMBIGUOUS_SOURCE" THEN "AMBIGUOUS_SOURCE"
    ELSE IF capability # "ADMITTED" THEN "CAPABILITY_NOT_ADMITTED"
    ELSE IF common \notin DOMAIN FroniusFirmware THEN "COMMON_IDENTITY_MISMATCH"
    ELSE IF FroniusFirmware[common] # f.firmware THEN "FIRMWARE_MISMATCH"
    ELSE IF WireChain(s) # f.chain THEN "CHAIN_MISMATCH"
    ELSE "MATCHED"

Matching(reg, s) == {i \in DOMAIN Flavors : Flavor(reg, s, Flavors[i]) = "MATCHED"}

(* SelectFroniusObservedFlavor.                                            *)
FlavorSelection(reg, s) ==
    CASE Matching(reg, s) = {} -> "NO_MATCH"
      [] Cardinality(Matching(reg, s)) = 1 -> "MATCHED"
      [] OTHER -> "AMBIGUOUS_MATCH"

---------------------------------------------------------------------------
(* SunSpecFroniusQualificationCard. *)

(* NewSunSpecQualificationObservation derives an observation.              *)
Observes(reg, s) ==
    /\ Len(s.raw) \in 4 .. MaxPhaseOneWords /\ Len(s.occ) \in 1 .. MaxPhaseOneWords \div 2
    /\ Len(s.sources) \in 1 .. MaxPhaseOneWords
    /\ \A v \in Range(s.sources) : v.provenance = s.sources[1].provenance
    /\ WireChainValid(s)
    /\ Capability(reg, s) = "ADMITTED"
    /\ FlavorSelection(reg, s) = "MATCHED"

(* replayExactAcquisition: the chain a fresh walk reaches when the views   *)
(* answer, one by one, the only read it asks for; None where it asks for   *)
(* none or for several, refuses a view, or ends before the last one.       *)
Replay(plan, instance, views) ==
    LET after[i \in 0 .. Len(views)] ==
            IF i = 0 THEN NewSunSpecChain(plan, instance)
            ELSE LET c == after[i - 1] IN
                 IF c = None THEN None
                 ELSE IF Cardinality(c.pending) # 1 THEN None
                 ELSE LET r == CHOOSE q \in c.pending : TRUE
                          d == AdmitReplay(c, r, views[i]) IN
                      IF d = c \/ d.failed \/ (d.complete /\ i # Len(views)) THEN None ELSE d
        last == after[Len(views)]
    IN IF last = None THEN None ELSE IF last.complete /\ last.pending = {} THEN last ELSE None

(* Qualify accepts the snapshot.                                           *)
CardQualifies(reg, instance, s) ==
    LET c == Replay(CardPlan, instance, s.sources) IN
    /\ reg.revision = CardRevision
    /\ c # None
    /\ Snapshot(c) = s
    /\ s.sources # <<>> /\ \A v \in Range(s.sources) : v.holding /\ v.provenance \in CardProvenances
    /\ Observes(reg, s)
    /\ Matching(reg, s) = {CardFlavor}

---------------------------------------------------------------------------
(* The machine. *)

Init == chain = None

(* NewSunSpecChainPlan and NewSunSpecChain; another plan is refused.       *)
NewPlan(s) ==
    /\ chain = None
    /\ ValidPlan(s)
    /\ chain' = NewSunSpecChain(s, 1)

(* Requests a caller may hold: those the chain wants, the first one of its *)
(* plan, which may be answered by now, and the same one of another chain.  *)
Requests(c) ==
    c.pending \cup {Request(i, 1, c.plan.bases[1], 2, "signature") : i \in {1, 2}}

(* What the device may answer to a request.                                *)
Answers(r) ==
    CASE r.purpose = "signature" -> {Signature, <<0, 0>>}
      [] r.purpose = "header" -> Headers
      [] r.purpose = "payload" -> {[i \in 1 .. r.words |-> x] : x \in Contents}

View(id, address, words, s) ==
    [id |-> id, address |-> address, words |-> words, slice |-> s.slice, holding |-> s.holding,
     provenance |-> s.provenance, physical |-> s.physical, wire |-> s.wire,
     place |-> s.place, bytes |-> s.bytes]

(* Fresh views of the range asked for, and views that should be refused:   *)
(* of the next address, or with the name of the first view taken.          *)
Views(c, r) ==
    {View(Len(c.sources) + 1, r.address, words, s) : words \in Answers(r),
        s \in SourcesOfViews[r.purpose]}
    \cup {View(Len(c.sources) + 1, r.address + 1, words, s) : words \in Answers(r), s \in {Plain}}
    \cup {View(1, r.address, words, s) : words \in Answers(r), s \in {Plain}}

Admit(r, v) ==
    /\ chain # None
    /\ chain' = AdmitReplay(chain, r, v)

Next ==
    \/ \E s \in PlanSpecs : NewPlan(s)
    \/ chain # None /\ \E r \in Requests(chain) : \E v \in Views(chain, r) : Admit(r, v)

Spec == Init /\ [][Next]_chain

(* The loop of the qualification card: it asks what the chain wants and    *)
(* answers it until there is nothing to answer.                            *)
Answered == chain # None /\ \E r \in chain.pending : \E v \in Views(chain, r) :
    Admissible(chain, r, v) /\ Admit(r, v)

FairSpec == Spec /\ WF_chain(Answered)

---------------------------------------------------------------------------

Live == chain # None /\ ~chain.complete /\ ~chain.failed
Complete == chain # None /\ chain.complete

(* A chain that can still be walked wants at least one read; once every    *)
(* candidate is answered it wants exactly one, of the word just after the  *)
(* raw words it has, and never beyond the address space.  A walk that      *)
(* wanted nothing would hang its caller, a second pending read or one off  *)
(* the cursor would read a register twice or skip one.                     *)
AsksTheNextWord ==
    Live => /\ chain.pending # {}
            /\ chain.raw # <<>> =>
                 \E r \in chain.pending :
                    /\ chain.pending = {r} /\ r.sequence = chain.next
                    /\ r.address = chain.selected + Len(chain.raw)
                    /\ Addressable(r.address, r.words) /\ r.words <= MaxReadWords

(* The snapshot of a complete chain is one the flavors accept as a wire    *)
(* chain, extent by extent and span by span, and the raw words are within  *)
(* the plan's bound, end marker included.  Its views, handed one by one to *)
(* a fresh chain of the same plan, rebuild it exactly if the plan has a    *)
(* single candidate, and are refused if it has several (the replay asks    *)
(* one read at a time).                                                    *)
SnapshotReadsBack ==
    Complete =>
        LET s == Snapshot(chain)  again == Replay(chain.plan, 1, s.sources) IN
        /\ WireChainValid(s)
        /\ Len(s.raw) <= chain.plan.maxWords
        /\ IF Len(chain.plan.bases) = 1 THEN again = chain ELSE again = None

(* Phase one and discovery agree.  The parser finds the models discovery   *)
(* found, at the same places, or refuses the chain for a reason of its own *)
(* (the Common model is not first, a length or scale factor it does not    *)
(* know, a deferred model, its word bound); and the views make a phase-one *)
(* capture of exactly the raw words iff the chain has one candidate, at    *)
(* the phase-one base.                                                     *)
PhaseOneAgrees ==
    Complete =>
        LET found == Parse(chain.raw) IN
        /\ found # None =>
             found = [i \in DOMAIN chain.occ |->
                        [id |-> chain.occ[i].id, length |-> chain.occ[i].length,
                         offset |-> chain.occ[i].header - chain.selected]]
        /\ found = None =>
             \/ Len(chain.raw) > MaxPhaseOneWords \/ chain.occ = <<>>
             \/ \E i \in DOMAIN chain.occ : LET o == chain.occ[i] IN
                   \/ ~(o.id = CommonModel <=> i = 1) \/ o.id \in DeferredModels
                   \/ o.id = CommonModel /\ o.length \notin CommonLengths
                   \/ o.id \in InverterModels
                        /\ (o.length # InverterLength \/ \E k \in DOMAIN o.words : o.words[k] = Unreadable)
        /\ ValidCapture(chain.sources) <=>
             (chain.plan.bases = <<PhaseOneBase>> /\ Len(chain.raw) <= MaxPhaseOneWords)
        /\ ValidCapture(chain.sources) => Words(chain.sources) = chain.raw

(* What is read off a complete chain, whoever reads it.                    *)
SnapshotAgrees == SnapshotReadsBack /\ PhaseOneAgrees

(* No two observed flavors match one snapshot, whatever the registry, and  *)
(* what the qualification card accepts is exactly what it names: one       *)
(* three-phase source, decoded by the plan's own registry, in the chain    *)
(* and with the firmware of the card's flavor, every word of that source   *)
(* and of the Common model readable, and read at the card's base alone.    *)
QualifiedIsExact ==
    Complete => \A reg \in Registries : LET s == Snapshot(chain) IN
        /\ FlavorSelection(reg, s) # "AMBIGUOUS_MATCH"
        /\ CardQualifies(reg, chain.instance, s) =>
             /\ WireChain(s) = Flavors[CardFlavor].chain
             /\ chain.plan.bases = CardPlan.bases
             /\ Cardinality(ExactSources(s)) = 1
             /\ \A o \in ExactSources(s) \cup {s.occ[1]} :
                   /\ o.revision = CardRevision /\ o.disposition = "admitted"
                   /\ \A k \in 3 .. Len(o.words) : o.words[k] # Unreadable
             /\ FroniusFirmware[s.occ[1].words[3]] = Flavors[CardFlavor].firmware

Walking == IF chain = None THEN FALSE ELSE chain.raw # <<>>

(* What SunSpecWalk sees of a chain.                                       *)
Walk == INSTANCE SunSpecWalk WITH
    Bases <- UNION {Range(s.bases) : s \in PlanSpecs},
    LastAddress <- AddressSpace - 1,
    Nowhere <- None,
    base <- IF Walking THEN chain.selected ELSE None,
    limits <- IF Walking
              THEN [words |-> chain.plan.maxWords, models |-> chain.plan.maxOccurrences]
              ELSE None,
    models <- IF chain = None THEN <<>>
              ELSE [i \in DOMAIN chain.occ |->
                      [id |-> chain.occ[i].id, header |-> chain.occ[i].header,
                       length |-> chain.occ[i].length]],
    verdict <- IF chain = None THEN "walking"
               ELSE IF chain.failed THEN "failed"
               ELSE IF chain.complete THEN "complete" ELSE "walking"

(* Discovery implements SunSpecWalk.                                       *)
WalkSpec == Walk!Spec

(* A walk whose reads keep being answered ends: every read is finite, the  *)
(* payload shrinks and the word bound stops a device that never sends the  *)
(* end marker.                                                             *)
WalkEnds == (chain # None) ~> (Complete \/ (chain # None /\ chain.failed))

=============================================================================
