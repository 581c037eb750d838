------------------------------ MODULE MCEvidence ------------------------------
(***************************************************************************)
(* What a caller hands to the package and what it answers: restart states, *)
(* SunSpec chains, profiles, detection, samples, occurrences of a model,   *)
(* the Huawei catalogues, the identification of a Huawei gateway, the      *)
(* documentary LUNA state and SUN2000 monitoring.  The machines share no   *)
(* state, so one run checks them side by side: a behaviour starts one of   *)
(* them, its subject, and only that one moves.                             *)
(***************************************************************************)
EXTENDS SunSpecDiscovery

CONSTANT Subjects       \* the machines of this run

VARIABLES
    subject,        \* the machine this behaviour runs
    candidate,      \* RestartHistory
    prior,
    draft,          \* Profiles
    detection,
    sample,         \* Observations
    reading,        \* SunSpecLayout
    choice,         \* CatalogueSelection
    identity,       \* ObservedIdentity
    luna,           \* LunaReducer
    past,
    observed,       \* MonitoringReadings
    kept,
    cycles

standing == <<chain, candidate, prior, draft, detection, sample, reading, choice, identity>>
huawei == <<luna, past, observed, kept, cycles>>
machines == <<standing, huawei>>

History == INSTANCE RestartHistory WITH
    MaxUint64 <- 4, MaxClaimEntries <- 2, TombstoneLimit <- 3,
    AttemptOutcomes <- {"published", "cancelled"},
    OutcomesOfClaims <- {"claim_succeeded", "capability_failed"}

Data == INSTANCE MCInputs

Catalog == INSTANCE Profiles WITH
    AddressSpace <- 12, MaxReadRegisters <- 4, HoldingReference <- 401, InputReference <- 301,
    ReferenceSpan <- 11, MaxSkew <- 3,
    Declarations <- Data!Declarations, Deltas <- Data!Deltas,
    MaxProfiles <- 3, MaxDeltas <- 3

Detect == INSTANCE Detection WITH
    AddressSpace <- 8, MaxContractWords <- 4, MaxContractItems <- 4,
    Printable <- Data!Printable, VersionTexts <- Data!VersionTexts,
    DetectorSpecs <- Data!DetectorSpecs, Replies <- Data!DetectionReplies,
    EvidenceIDs <- Data!EvidenceIDs

Sampling == INSTANCE Observations WITH
    AddressSpace <- 8, MaxReadRegisters <- 3, MaxUnit <- 2, Second <- 4, MaxTime <- 10,
    SampleProfiles <- Data!SampleProfiles, Received <- Data!Received,
    Envelopes <- Data!Envelopes

Reader == INSTANCE SunSpecLayout WITH
    WordSize <- 64, ByteSize <- 8, WordBits <- 6, LargestScale <- 10, LargestSigned <- 64 ^ 4 \div 2 - 1,
    CanonicalNaN <- 1984, Infinity <- 1920, ValidText <- Data!ValidText,
    MaxWords <- 64, MaxDepth <- 3, Revisions <- {"v1", "v2"},
    FixedModels <- Data!FixedModels, CountedModels <- Data!CountedModels,
    OpenModels <- Data!OpenModels, MaxOpenLength <- 61,
    ProjectedRevision <- "v2", ProjectedTemplate <- Data!ProjectedTemplate,
    PointsAt <- 2, CurvesAt <- 3, FixedWords <- 3, CurveWords <- 3, PointWords <- 6,
    Templates <- Data!Templates, Wires <- Data!Wires

Selecting == INSTANCE CatalogueSelection WITH
    ModelOffset <- 0, ModelQuantity <- 15, IdentifierOffset <- 70, MaxIdentifier <- 8,
    ReadableModels <- {"m1", "m2", "m3", "m4"},
    ReadScopes <- {"INVERTER_MAP", "C81_MAP", "GATEWAY_NAMESPACE"},
    FamilyRules <- Data!FamilyRules, MaxSelfUnit <- 10, LargestKey <- 8,
    ModelParts <- Data!ModelParts, Offerings <- {"HEMS"},
    InverterFiles <- Data!InverterFiles, InverterInputs <- Data!InverterInputs,
    GatewayFiles <- Data!GatewayFiles, GatewayInputs <- Data!GatewayInputs

Identifying == INSTANCE ObservedIdentity WITH
    ModelOffset <- 0, ModelQuantity <- 15, IdentifierOffset <- 70, MaxIdentifier <- 8,
    ReadableModels <- {Data!M1, Data!M3, Data!M9},
    ReadScopes <- {"INVERTER_MAP", "C81_MAP", "GATEWAY_NAMESPACE"},
    FamilyRules <- Data!FamilyRules, MaxSelfUnit <- 10, LargestKey <- 8,
    ModelParts <- {"EMMA", "A02", "SUN2000", "M1", "M3", "M9"}, Offerings <- {"SmartHEMS"},
    StartObject <- 4, IdSpace <- 6, MaxEntries <- 5, MaxPages <- 5,
    MaxEntryBytes <- 2, MaxResponseBytes <- 23, MaxListingBytes <- 40, ClassicBytes <- 12,
    HeaderBytes <- 7, MaxDeclared <- 9, MaxListedUnit <- 4,
    LoggerVendor <- "Huawei", LoggerModel <- Data!Logger, LoggerBuild <- Data!LoggerBuild,
    DongleUnit <- 9, DongleRefusal <- 3, DongleLeadWord <- 7, DongleSecondWord <- 2,
    DongleChildUnit <- 1, DongleChildModel <- Data!M1, DongleChildVendor <- "Huawei",
    DongleChildMaxObjects <- 3,
    EmmaLabel <- "SmartHEMS", EmmaModel <- Data!Emma, EmmaVendor <- "Huawei", EmmaProduct <- "HEMS",
    EmmaBuild <- Data!EmmaBuild, EmmaMembers <- Data!EmmaMembers,
    EmmaChildUnits <- {3, 4}, ChildFamily <- "SUN2000",
    MonitoringProfiles <- Data!Profiles, MaxRoutedUnit <- 3,
    GatewayCatalogue <- Selecting!LoadGatewayCatalogue(Data!Gateways),
    InverterRows <- Data!InverterRows,
    LoggerBenches <- Data!LoggerBenches, DongleBenches <- Data!DongleBenches,
    EmmaBenches <- Data!EmmaBenches, DeviceLists <- Data!Lists,
    BlockRests <- Data!BlockRests, WordSets <- Data!WordSets, CounterModulus <- 2, MaxChanges <- 2

Reducing == INSTANCE LunaReducer WITH Occasions <- Data!Evaluations, MaxEvaluations <- 4

Monitoring == INSTANCE MonitoringReadings WITH
    WordSize <- 64, StateCode <- 32, StringCount <- 2, MaxUnit <- 247, MaxReadWords <- 125,
    UnitsOf <- Data!UnitsOf, Replies <- Data!Replies, Handed <- Data!Handed,
    MaxCycles <- 3, MaxUnusual <- 1

Start ==
    /\ subject \in Subjects
    /\ Init
    /\ IF subject = "history" THEN History!Init ELSE candidate = None /\ prior = None
    /\ draft = <<>>
    /\ IF subject = "sample" THEN Sampling!Init ELSE sample = None
    /\ reading = None /\ choice = None /\ identity = None
    /\ IF subject = "detection" THEN Detect!Init ELSE detection = None
    /\ IF subject = "luna" THEN Reducing!ReducerInit ELSE luna = None /\ past = None
    /\ IF subject = "monitoring" THEN Monitoring!MonitoringInit ELSE observed = None /\ kept = None /\ cycles = None

Moves ==
    \/ subject = "chain" /\ Next /\ UNCHANGED <<candidate, prior, draft, detection, sample, reading, choice, identity, huawei>>
    \/ subject = "history" /\ History!Next /\ UNCHANGED <<chain, draft, detection, sample, reading, choice, identity, huawei>>
    \/ subject = "profile" /\ Catalog!Next /\ UNCHANGED <<chain, candidate, prior, detection, sample, reading, choice, identity, huawei>>
    \/ subject = "detection" /\ Detect!Next /\ UNCHANGED <<chain, candidate, prior, draft, sample, reading, choice, identity, huawei>>
    \/ subject = "sample" /\ Sampling!Next /\ UNCHANGED <<chain, candidate, prior, draft, detection, reading, choice, identity, huawei>>
    \/ subject = "layout" /\ Reader!Next /\ UNCHANGED <<chain, candidate, prior, draft, detection, sample, choice, identity, huawei>>
    \/ subject = "selection" /\ Selecting!SelectionNext /\ UNCHANGED <<chain, candidate, prior, draft, detection, sample, reading, identity, huawei>>
    \/ subject = "identity" /\ Identifying!IdentityNext /\ UNCHANGED <<chain, candidate, prior, draft, detection, sample, reading, choice, huawei>>
    \/ subject = "luna" /\ Reducing!ReducerNext /\ UNCHANGED <<standing, observed, kept, cycles>>
    \/ subject = "monitoring" /\ Monitoring!MonitoringNext /\ UNCHANGED <<standing, luna, past>>

Step == Moves /\ UNCHANGED subject

Evidence ==
    Start /\ [][Step]_<<subject, machines>> /\ WF_chain(subject = "chain" /\ Answered)

(* What a chain asks for, what it leaves and which flavor it is found to   *)
(* be; SunSpecDiscovery states it.                                         *)
ChainIsExact == AsksTheNextWord /\ SnapshotAgrees /\ QualifiedIsExact

(* What the ledger restarts from; RestartHistory states it.                *)
RestartIsHistory == subject = "history" => History!ValidIsHistory /\ History!CoversIsSafeSuccessor

(* What a catalog admits and what a detector decides; Profiles and         *)
(* Detection state it.                                                     *)
ProfileIsSound ==
    /\ Catalog!EffectiveIsExact /\ Catalog!Acquirable
    /\ Detect!DecisionIsDurable /\ Detect!DetectionIsExact

(* What a sample is; Observations states it.                               *)
SampleIsFaithful ==
    Sampling!SampleHasOneStory /\ Sampling!ReplayReadsBack /\ Sampling!ReasonIsADefect

(* How an occurrence is read; SunSpecLayout states it.                     *)
ReadingIsExact == subject = "layout" => Reader!ReadingIsExact

(* What the Huawei catalogues decide; CatalogueSelection states it.        *)
SelectionIsJustified == subject = "selection" => Selecting!SelectionIsJustified

(* Whom an identification finds; ObservedIdentity states it.               *)
IdentityIsJustified == subject = "identity" => Identifying!IdentityIsJustified

(* What the LUNA state says and keeps; LunaReducer states it.              *)
LunaIsFenced == subject = "luna" => Reducing!LunaIsFenced

(* What the kept monitoring facts say; MonitoringReadings states it.       *)
MonitoringIsLastAnswer == subject = "monitoring" => Monitoring!MonitoringIsLastAnswer

---------------------------------------------------------------------------
(* Small SunSpec devices.  Words are small numbers: 90, 91 the signature,  *)
(* 99 the end marker, 9 the word no field can be read from.                *)

K(id, length) == [id |-> id, length |-> length]

Keys == {K(1, 1), K(103, 2), K(160, 2), K(113, 3)}

KeySeq(revision) ==
    <<[id |-> 1, length |-> 1, revision |-> revision], [id |-> 103, length |-> 2, revision |-> revision],
      [id |-> 160, length |-> 2, revision |-> revision], [id |-> 113, length |-> 3, revision |-> revision]>>

PlanOf(bases, words, models, keys) ==
    [revision |-> "v1", bases |-> bases, maxWords |-> words, maxOccurrences |-> models,
     keys |-> keys, structural |-> <<160>>]

MCCardPlan == [PlanOf(<<2>>, 17, 3, KeySeq("v1")) EXCEPT !.structural = <<>>]

MCPlanSpecs ==
    {MCCardPlan, PlanOf(<<2>>, 14, 2, <<KeySeq("v1")[1]>>), PlanOf(<<2, 16>>, 17, 2, KeySeq("v1")),
     PlanOf(<<16, 18>>, 17, 2, KeySeq("v1")),
     PlanOf(<<2, 2>>, 17, 2, <<>>), PlanOf(<<19>>, 17, 2, <<>>), PlanOf(<<2>>, 17, 9, <<>>),
     PlanOf(<<2>>, 17, 2, KeySeq("v2")), PlanOf(<<2>>, 3, 1, <<>>)}

MCHeaders == {<<1, 1>>, <<103, 2>>, <<160, 2>>, <<7, 6>>, <<113, 3>>, <<103, 0>>, <<99, 0>>, <<99, 1>>}

Source(physical, wire, bytes) ==
    [physical |-> physical, wire |-> wire, place |-> physical, bytes |-> bytes,
     provenance |-> "unit1", slice |-> 0, holding |-> TRUE]

MCPlain == Source(1, 1, 1)

(* A capture of two physical requests: the signatures are slices of the    *)
(* first, the headers of the second, a payload of either.  The others       *)
(* contradict what the first, the second or both have said.                *)
MCSources ==
    [signature |-> {MCPlain, [MCPlain EXCEPT !.holding = FALSE]},
     header |-> {Source(2, 2, 2), [Source(2, 2, 2) EXCEPT !.provenance = "unit2"],
                 Source(1, 2, 2), Source(1, 1, 2)},
     payload |-> {MCPlain, Source(2, 2, 2), [Source(2, 2, 2) EXCEPT !.provenance = "unit2"],
                  Source(2, 1, 1), Source(2, 2, 1), Source(1, 1, 2)}]

MCFlavors ==
    <<[firmware |-> "1.41", chain |-> <<K(1, 1), K(113, 3), K(99, 0)>>],
      [firmware |-> "1.41", chain |-> <<K(1, 1), K(113, 3), K(160, 2), K(99, 0)>>],
      [firmware |-> "1.42", chain |-> <<K(1, 1), K(113, 3), K(160, 2), K(99, 0)>>]>>

MCFirmware == [x \in {1, 2} |-> IF x = 1 THEN "1.41" ELSE "1.42"]

MCRegistries == {[revision |-> "v1", keys |-> Keys], [revision |-> "v1", keys |-> {K(1, 1)}]}

MCStructural(revision, words, spans) == revision = "v1" /\ Len(words) = 4 /\ Len(spans) = 2

MCThreePhase == {K(103, 2), K(113, 3)}

=============================================================================
