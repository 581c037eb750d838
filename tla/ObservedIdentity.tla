--------------------------- MODULE ObservedIdentity ---------------------------
(***************************************************************************)
(* How a Huawei gateway is identified.  The three observed gateway cards   *)
(* (huawei_smartlogger_observed, huawei_sdongle_observed,                  *)
(* huawei_emma_observed.go) say what one capture of identification reads   *)
(* must hold before the gateway counts as identified.                      *)
(*                                                                         *)
(* The device list comes in pages of numbered objects, the first of which  *)
(* counts the entries that follow, the gateway's own entry first.  An      *)
(* entry holds numbered attributes: 1 the model, 2 the software, 5 the     *)
(* unit, 8 the product.                                                    *)
(*                                                                         *)
(* The reads happen one by one (huawei_smartlogger_readonly_provider.go,   *)
(* huawei_sdongle_readonly_provider.go): the list may change between two   *)
(* reads, a page may be the late answer to an earlier request, and the     *)
(* card judges what was gathered.  A unit of the list is then asked for    *)
(* its own model and words.  The EMMA is read by whoever supplies its      *)
(* evidence, by the card's steps.                                          *)
(***************************************************************************)
EXTENDS GatewaySelection

CONSTANTS
    StartObject, IdSpace,           \* the first object number, and how many there are
    MaxEntries, MaxPages,
    MaxEntryBytes, MaxResponseBytes, MaxListingBytes, ClassicBytes,
    HeaderBytes, MaxDeclared, MaxListedUnit,
    None,
    LoggerVendor, LoggerModel, LoggerBuild,
    DongleUnit, DongleRefusal, DongleLeadWord, DongleSecondWord,
    DongleChildUnit, DongleChildModel, DongleChildVendor, DongleChildMaxObjects,
    EmmaLabel, EmmaModel, EmmaVendor, EmmaProduct, EmmaBuild,
    EmmaMembers,                    \* [unit, product, family] of each, in order
    EmmaChildUnits, ChildFamily,
    MonitoringProfiles,     \* [gateway, model] of each, in order
    MaxRoutedUnit,
    GatewayCatalogue, InverterRows,
    LoggerBenches, DongleBenches, EmmaBenches,  \* what each gateway answers whatever its list
    DeviceLists,                                \* the lists that a gateway may hold
    BlockRests,                                 \* what may follow the model text of a unit
    WordSets,                                   \* identity words of an inverter
    CounterModulus, MaxChanges

VARIABLE identity

-----------------------------------------------------------------------------
(* The device list. *)

NamedKeys == {1, 2, 3, 4, 5, 6, 8}

NoEntry == [keys |-> <<>>, model |-> <<>>, unit |-> Missing, software |-> NoText, product |-> ""]

CountObject(id, count) == [id |-> id, length |-> 1, count |-> count, entry |-> NoEntry]

EntryObject(id, length, entry) == [id |-> id, length |-> length, count |-> 0, entry |-> entry]

Page(objects, bytes, declared, more, next) ==
    [objects |-> objects, bytes |-> bytes, declared |-> declared, more |-> more, next |-> next]

(* Object numbers run on past the last one.                                *)
IdAt(k) == (StartObject + k - 1) % IdSpace

Bytes(objects) == FoldSeq(LAMBDA o, n : n + 2 + o.length, 0, objects)

ObjectsOf(pages) == FlattenSeq([k \in DOMAIN pages |-> pages[k].objects])

EntryIsValid(object) ==
    LET keys == object.entry.keys IN
    /\ object.length <= MaxEntryBytes
    /\ IsInjective(keys) /\ ToSet(keys) \subseteq 1 .. LargestKey
    /\ {1, 5} \subseteq ToSet(keys) /\ object.entry.unit \in 0 .. MaxListedUnit

(* What is kept of an entry: attribute 4 never, an unnamed one opaque.     *)
Retained(entry) ==
    [model |-> entry.model, unit |-> entry.unit, software |-> entry.software, product |-> entry.product,
     opaque |-> ToSet(entry.keys) \ NamedKeys]

PageIsWhole(page) ==
    /\ page.objects # <<>> /\ page.declared \in 0 .. MaxDeclared
    /\ page.bytes = HeaderBytes + Bytes(page.objects) /\ page.bytes <= MaxResponseBytes

(* Every page but the last names the object that follows it.               *)
PageContinues(pages, k) ==
    IF pages[k].more
    THEN k < Len(pages) /\ pages[k].next = IdAt(Len(ObjectsOf(SubSeq(pages, 1, k))) + 1)
    ELSE k = Len(pages) /\ pages[k].next = 0

NumbersAscend(objects) == \A k \in DOMAIN objects : objects[k].id = IdAt(k)

CountIsKept(objects) ==
    /\ objects[1].length = 1 /\ objects[1].count \in 1 .. MaxEntries
    /\ Len(objects) - 1 = objects[1].count

(* The gateway's own entry comes first and no unit is listed twice.        *)
UnitsAreTold(entries, gatewayUnit) ==
    /\ entries[1].entry.unit = gatewayUnit
    /\ \A k \in 2 .. Len(entries) : entries[k].entry.unit \notin {0, gatewayUnit}
    /\ \A j, k \in DOMAIN entries : entries[j].entry.unit = entries[k].entry.unit => j = k

Anomalies(pages) ==
    [oversize |-> Cardinality({k \in DOMAIN pages : pages[k].bytes > ClassicBytes}),
     declaredDiffers |-> Cardinality({k \in DOMAIN pages : pages[k].declared # Len(pages[k].objects)}),
     nextWithoutMore |-> Cardinality({k \in DOMAIN pages : ~pages[k].more /\ pages[k].next # 0})]

NoListing == [valid |-> FALSE]

ListingIsValid(gatewayUnit, pages, objects) ==
    /\ Len(pages) \in 1 .. MaxPages
    /\ \A k \in DOMAIN pages : PageIsWhole(pages[k]) /\ PageContinues(pages, k)
    /\ Bytes(objects) <= MaxListingBytes
    /\ NumbersAscend(objects) /\ CountIsKept(objects)
    /\ \A k \in 2 .. Len(objects) : EntryIsValid(objects[k])
    /\ UnitsAreTold(Tail(objects), gatewayUnit)

(* There is no partial list of children: one fault and nothing is kept.    *)
ListingOf(gatewayUnit, pages) ==
    LET objects == ObjectsOf(pages) IN
    IF ListingIsValid(gatewayUnit, pages, objects)
    THEN [valid |-> TRUE, self |-> objects[2].entry,
          children |-> [k \in 1 .. Len(objects) - 2 |-> Retained(objects[k + 2].entry)],
          anomalies |-> Anomalies(pages)]
    ELSE NoListing

(* The one page of an inverter behind an S-Dongle.  It says which of its   *)
(* entries is its own by the unit, and lists every one with keys 1 to 6.   *)
ChildEntries(page, unit) == {k \in 2 .. Len(page.objects) : page.objects[k].entry.unit = unit}

ChildPageIsValid(unit, page, maxObjects) ==
    /\ ~page.more /\ Len(page.objects) \in 2 .. maxObjects /\ PageIsWhole(page)
    /\ NumbersAscend(page.objects)
    /\ page.objects[1].length = 1 /\ page.objects[1].count = Len(page.objects) - 1
    /\ \A k \in 2 .. Len(page.objects) :
           /\ EntryIsValid(page.objects[k])
           /\ 1 .. 6 \subseteq ToSet(page.objects[k].entry.keys)
           /\ Cardinality(ChildEntries(page, page.objects[k].entry.unit)) = 1
    /\ Cardinality(ChildEntries(page, unit)) = 1

ChildEntryOf(unit, page, maxObjects) ==
    IF ChildPageIsValid(unit, page, maxObjects)
    THEN [valid |-> TRUE, entry |-> Retained(page.objects[CHOOSE k \in ChildEntries(page, unit) : TRUE].entry),
          anomalies |-> Anomalies(<<page>>)]
    ELSE NoListing

---------------------------------------------------------------------------
(* A text read from registers ends at its first NUL.  What follows may be  *)
(* NULs, one run of printable bytes or such bytes anywhere; a block of     *)
(* another extent, without a NUL or with other bytes tells nothing.        *)
Block(text, rest) == [text |-> text, rest |-> rest]

IsPaddedText(block) == block.rest = "nuls"

IsTextWithResidue(block) == block.rest \in {"nuls", "run"}

IsTextAmongResidue(block) == block.rest \in {"nuls", "run", "scattered"}

-----------------------------------------------------------------------------
(* The cards.                                                              *)

CardResult(reason, children, selection) ==
    [matched |-> reason = "MATCHED_IDENTITY_INVENTORY", reason |-> reason, children |-> children,
     selection |-> selection, anomalies |-> None, relation |-> "NOT_EVALUATED"]

Insufficient(reason) == CardResult(reason, <<>>, None)

MatchedWith(children, selection) == CardResult("MATCHED_IDENTITY_INVENTORY", children, selection)

(* A basic identification reply: no object twice, and what one of them says. *)
Unrepeated(reply) == \A j, k \in DOMAIN reply : reply[j].id = reply[k].id => j = k

Printed(reply) == \A k \in DOMAIN reply : reply[k].id <= 2 => reply[k].printable

Says(reply, id, text) == \E k \in DOMAIN reply : reply[k].id = id /\ reply[k].text = text

SelfInput(family, unit, software) ==
    [family |-> family, endpoint |-> "gateway-self", unit |-> unit, model |-> <<>>, software |-> software]

---------------------------------------------------------------------------
(* The SmartLogger.                                                        *)

(* Faulty variant: the counter is read twice and not compared.             *)
CounterRead(before, after) == TRUE

CounterHeld(before, after) == before = after

LoggerAgrees(reply, software) ==
    /\ Unrepeated(reply)
    /\ Says(reply, 0, LoggerVendor) /\ Says(reply, 1, LoggerModel) /\ Says(reply, 2, software)

LoggerCard(catalogue, input) ==
    LET listing == ListingOf(0, input.pages)
        software == listing.self.software
        selection == DecideGateway(catalogue, SelfInput("SmartLogger", input.unit, software))
        relation == RelationOfFloor(catalogue, "SmartLogger", software, LoggerBuild)
    IN IF input.unit # 0 THEN Insufficient("IDENTITY_INVALID")
       ELSE IF ~(CounterHeld(input.before, input.after) /\ listing.valid) THEN Insufficient("INVENTORY_INVALID")
       ELSE IF listing.self.model # LoggerModel THEN Insufficient("IDENTITY_INVALID")
       ELSE IF ~Admitted(selection) \/ selection.build = NoText
       THEN CardResult("IDENTITY_INVALID", <<>>, selection)
       ELSE IF relation \in {"BELOW", "NOT_EVALUATED"}
       THEN [CardResult("IDENTITY_INVALID", <<>>, selection) EXCEPT !.relation = relation]
       ELSE IF input.basic # None /\ ~LoggerAgrees(input.basic, software)
       THEN [CardResult("BASIC_IDENTITY_CONFLICT", <<>>, selection) EXCEPT !.relation = relation]
       ELSE [MatchedWith(listing.children, WithObservedBuild(selection, LoggerBuild)) EXCEPT
                !.anomalies = listing.anomalies, !.relation = relation]

---------------------------------------------------------------------------
(* The S-Dongle with its one inverter.                                     *)

SearchHeld(before, after) ==
    Len(before) = 3 /\ Len(after) = 3 /\ before[2] = 0 /\ after[2] = 0 /\ before[3] = after[3]

GatewayBehaves(g) ==
    /\ g.unit = DongleUnit /\ g.basicReply = None /\ g.basicException = DongleRefusal
    /\ g.status = <<0>>
    /\ Len(g.protocol) = 2 /\ g.protocol[1] = DongleLeadWord /\ g.protocol[2] >= DongleSecondWord
    /\ SearchHeld(g.before, g.after)
    /\ Len(g.capacity) = 1 /\ g.capacity[1] >= 1

DongleChildAgrees(reply) ==
    /\ Unrepeated(reply) /\ Printed(reply)
    /\ Says(reply, 0, DongleChildVendor) /\ Says(reply, 1, <<ChildFamily>>) /\ \E k \in DOMAIN reply : reply[k].id = 2

DongleCard(catalogue, g, child) ==
    LET software == IF g.software = None THEN NoText ELSE g.software.text
        selection == DecideGateway(catalogue, SelfInput("SDongle", g.unit, software))
        entry == ChildEntryOf(child.unit, child.page, DongleChildMaxObjects)
    IN IF ~GatewayBehaves(g) \/ (g.software # None /\ ~IsPaddedText(g.software))
       THEN Insufficient("GATEWAY_BEHAVIOUR_MISMATCH")
       ELSE IF \/ ~Admitted(selection) \/ child.unit # DongleChildUnit
               \/ ~(IsTextWithResidue(child.block) /\ child.block.text = DongleChildModel) \/ child.basic = None
       THEN CardResult("IDENTITY_INVALID", <<>>, selection)
       ELSE IF ~DongleChildAgrees(child.basic) THEN CardResult("BASIC_IDENTITY_CONFLICT", <<>>, selection)
       ELSE IF ~child.readCodes \/ ~entry.valid THEN CardResult("INVENTORY_INVALID", <<>>, selection)
       ELSE IF entry.entry.model # child.block.text THEN CardResult("IDENTITY_INVALID", <<>>, selection)
       ELSE [MatchedWith(<<entry.entry>>, selection) EXCEPT !.anomalies = entry.anomalies]

---------------------------------------------------------------------------
(* The EMMA, which has no change counter.                                  *)

FamilyOfModel(model) == IF Len(model) > 1 THEN model[1] ELSE ""

EmmaAgrees(reply, version) ==
    /\ Unrepeated(reply) /\ Printed(reply)
    /\ Says(reply, 0, EmmaVendor) /\ Says(reply, 1, EmmaProduct) /\ Says(reply, 2, version)

(* The observed members, in order; other units may stand anywhere.         *)
MembersListed(children) ==
    LET observed == SelectSeq(children, LAMBDA c : \E k \in DOMAIN EmmaMembers : EmmaMembers[k].unit = c.unit) IN
    /\ Len(observed) = Len(EmmaMembers)
    /\ \A k \in DOMAIN observed :
           /\ observed[k].unit = EmmaMembers[k].unit /\ observed[k].product = EmmaMembers[k].product
           /\ EmmaMembers[k].family \in {"", FamilyOfModel(observed[k].model)}

(* Each inverter answers with the model that its own entry lists; of two   *)
(* reads of one unit the later one counts.                                 *)
ChildReadsMatch(reads, children) ==
    /\ Len(reads) = Cardinality(EmmaChildUnits)
    /\ \A u \in EmmaChildUnits :
           LET last == SelectLastInSeq(reads, LAMBDA r : r.unit = u) IN
           /\ last # 0 /\ IsTextAmongResidue(reads[last].block)
           /\ FamilyOfModel(reads[last].block.text) = ChildFamily
           /\ \A k \in DOMAIN reads[last].block.text : reads[last].block.text[k] \in ModelParts
           /\ \E c \in ToSet(children) : c.unit = u /\ c.model = reads[last].block.text

EmmaCard(catalogue, g, reads) ==
    LET software == g.software.text
        documentary == EmmaIdentity(catalogue, g.offering.text, g.model.text, software)
        token == [software EXCEPT !.label = ""]
        listing == ListingOf(g.unit, g.pages)
        selection == WithObservedBuild(documentary.selection, EmmaBuild)
    IN IF \/ g.unit # 0 \/ ~IsPaddedText(g.offering) \/ g.offering.text # EmmaLabel
          \/ ~IsPaddedText(g.model) \/ ~IsPaddedText(g.software)
       THEN Insufficient("IDENTITY_INVALID")
       ELSE IF ~documentary.matched \/ g.model.text # EmmaModel
       THEN CardResult("IDENTITY_INVALID", <<>>,
                       IF documentary.reason = "firmware_mismatch" THEN documentary.selection ELSE None)
       ELSE IF g.basic = None THEN CardResult("IDENTITY_INVALID", <<>>, selection)
       ELSE IF ~EmmaAgrees(g.basic, token) THEN CardResult("BASIC_IDENTITY_CONFLICT", <<>>, selection)
       ELSE IF ~g.readCodes \/ ~listing.valid THEN CardResult("INVENTORY_INVALID", <<>>, selection)
       ELSE IF ~(/\ listing.self.model = EmmaModel /\ listing.self.product = EmmaProduct
                 /\ listing.self.software = token)
       THEN CardResult("IDENTITY_INVALID", <<>>, selection)
       ELSE IF ~MembersListed(listing.children) THEN CardResult("INVENTORY_INVALID", <<>>, selection)
       ELSE IF ~ChildReadsMatch(reads, listing.children) THEN CardResult("IDENTITY_INVALID", <<>>, selection)
       ELSE [MatchedWith(listing.children, selection) EXCEPT !.anomalies = listing.anomalies]

-----------------------------------------------------------------------------
(* Which monitoring profile serves a routed unit                           *)
(* (huawei_sun2000_capability.go): each profile asks for its own gateway,  *)
(* a unit that the gateway routes, the model that the unit answers itself  *)
(* and a catalogue row of the profile's model.                             *)

(* The identity words of a unit: whole when each part that was read has    *)
(* the shape of its read.                                                  *)
NoWords == [whole |-> TRUE, identifier |-> Missing, software |-> NoText, firmware |-> NoText]

Evaluation(outcome, reason, decision) == [outcome |-> outcome, reason |-> reason, catalogue |-> decision]

NotEnough(reason) == Evaluation("INSUFFICIENT_EVIDENCE", reason, None)

ListedAt(children, unit) ==
    {c \in ToSet(children) : c.unit = unit /\ unit \in 1 .. MaxRoutedUnit}

(* Faulty variant: models are compared by their family.                    *)
ContradictsFamily(children, unit, text) ==
    \E c \in ListedAt(children, unit) : FamilyOfModel(c.model) # FamilyOfModel(text)

Contradicts(children, unit, text) == \E c \in ListedAt(children, unit) : c.model # text

(* The model of the unit, or why there is none.                            *)
RoutedModel(profile, evidence) ==
    LET card == evidence.cards[profile.gateway]
        wrong(reason) == [model |-> <<>>, reason |-> reason]
    IN IF card = None THEN wrong("NO_GATEWAY_IDENTITY")
       ELSE IF ~card.matched THEN wrong("GATEWAY_IDENTITY_NOT_MATCHED")
       ELSE IF profile.gateway = "SDongle"
       THEN IF evidence.unit # DongleChildUnit THEN wrong("UNIT_NOT_ROUTED")
            ELSE [model |-> DongleChildModel, reason |-> ""]
       ELSE IF ListedAt(card.children, evidence.unit) = {} THEN wrong("UNIT_NOT_ROUTED")
       ELSE IF ~IsPaddedText(evidence.block) THEN wrong("MODEL_BLOCK_INVALID")
       ELSE IF Contradicts(card.children, evidence.unit, evidence.block.text)
       THEN wrong("LISTING_MODEL_CONFLICT")
       ELSE [model |-> evidence.block.text, reason |-> ""]

QuestionOf(model, words) ==
    [scope |-> "INVERTER_MAP", model |-> model, identifier |-> words.identifier,
     software |-> words.software, firmware |-> words.firmware]

(* What a catalogue decision means for a profile.                          *)
Served(profile, decision) ==
    IF decision.outcome = "SELECTED"
    THEN IF decision.candidates[1].row.token = profile.model
         THEN Evaluation("PROFILE_SELECTED", "MATCHED", decision)
         ELSE Evaluation("NO_ADMISSIBLE_PROFILE", "CATALOGUE_ROW_WITHOUT_PROFILE", decision)
    ELSE IF decision.outcome = "AMBIGUOUS" THEN Evaluation("AMBIGUOUS", "CATALOGUE_AMBIGUOUS", decision)
    ELSE Evaluation("NO_ADMISSIBLE_PROFILE", "CATALOGUE_NOT_SELECTED", decision)

EvaluateProfile(entries, profile, evidence) ==
    LET routed == RoutedModel(profile, evidence) IN
    IF routed.reason # "" THEN NotEnough(routed.reason)
    ELSE IF ~evidence.words.whole THEN NotEnough("IDENTITY_WORDS_INVALID")
    ELSE Served(profile, DecideInverter(entries, QuestionOf(routed.model, evidence.words)))

Capability(outcome, evaluation, profile) ==
    [outcome |-> outcome, reason |-> evaluation.reason, profile |-> profile, catalogue |-> evaluation.catalogue]

(* Of several profiles that match none is chosen.                          *)
SelectFrom(profiles, evaluations) ==
    LET which(outcome) == SelectInSeq(evaluations, LAMBDA e : e.outcome = outcome)
        selected == which("PROFILE_SELECTED")
        told == SelectInSeq(evaluations, LAMBDA e :
                    e.outcome = "INSUFFICIENT_EVIDENCE" /\ e.reason # "NO_GATEWAY_IDENTITY")
        of(k, outcome) == Capability(outcome, evaluations[k], None)
    IN IF Cardinality({k \in DOMAIN evaluations : evaluations[k].outcome = "PROFILE_SELECTED"}) > 1
       THEN Capability("AMBIGUOUS", NotEnough("MULTIPLE_PROFILES_SELECTED"), None)
       ELSE IF selected # 0
       THEN Capability("PROFILE_SELECTED", evaluations[selected], profiles[selected])
       ELSE IF which("AMBIGUOUS") # 0 THEN of(which("AMBIGUOUS"), "AMBIGUOUS")
       ELSE IF which("NO_ADMISSIBLE_PROFILE") # 0 THEN of(which("NO_ADMISSIBLE_PROFILE"), "NO_ADMISSIBLE_PROFILE")
       ELSE IF told # 0 THEN of(told, "INSUFFICIENT_EVIDENCE")
       ELSE Capability("INSUFFICIENT_EVIDENCE", NotEnough("NO_GATEWAY_IDENTITY"), None)

SelectProfile(entries, profiles, evidence) ==
    SelectFrom(profiles, [k \in DOMAIN profiles |-> EvaluateProfile(entries, profiles[k], evidence)])

-----------------------------------------------------------------------------
(* The identification.                                                     *)

Fresh(family, bench, list, step) ==
    [family |-> family, bench |-> bench, list |-> list, counter |-> 0, changes |-> 0, step |-> step,
     before |-> Missing, opened |-> 0, request |-> StartObject, wrapped |-> FALSE, pages |-> <<>>,
     honest |-> TRUE, blocks |-> <<>>, card |-> None, closed |-> <<>>, drift |-> 0,
     unit |-> 0, early |-> None, choice |-> None]

IdentityInit == identity = None

MeetLogger ==
    /\ identity = None
    /\ \E bench \in LoggerBenches, list \in DeviceLists["SmartLogger"] :
           identity' = Fresh("SmartLogger", bench, list, "before")

MeetDongle ==
    /\ identity = None
    /\ \E bench \in DongleBenches, list \in DeviceLists["SDongle"] :
           identity' = Fresh("SDongle", bench, list, "before")

MeetEmma ==
    /\ identity = None
    /\ \E bench \in EmmaBenches, list \in DeviceLists["EMMA"] :
           identity' = Fresh("EMMA", bench, list, "pages")

At(step) == identity # None /\ identity.step = step

(* The gateway's own doing, as long as its list is still to be asked.      *)
ListChanges ==
    /\ identity # None /\ identity.step \notin {"judge", "words", "done"} /\ identity.changes < MaxChanges
    /\ \E list \in DeviceLists[identity.family] \ {identity.list} :
           identity' = [identity EXCEPT !.list = list, !.changes = @ + 1,
                                        !.counter = (@ + 1) % CounterModulus]

ObjectsHeld(list) ==
    <<CountObject(StartObject, Len(list))>> \o
    [k \in DOMAIN list |-> EntryObject(IdAt(k + 1), list[k].length, list[k].entry)]

(* A page declares the objects of the whole list, whatever it holds.       *)
PageOf(list, first, n) ==
    LET objects == SubSeq(ObjectsHeld(list), first, first + n - 1)
        more == first + n - 1 <= Len(list)
    IN Page(objects, HeaderBytes + Bytes(objects), Len(list) + 1, more, IF more THEN IdAt(first + n) ELSE 0)

Place(id) == 1 + ((id - StartObject) % IdSpace)

ModelAt(list, unit) == {list[k].entry.model : k \in {j \in DOMAIN list : list[j].entry.unit = unit}}

---------------------------------------------------------------------------
(* The bracket around the list.                                            *)

OpenBracket ==
    /\ At("before")
    /\ identity' = [identity EXCEPT !.before = identity.counter, !.opened = identity.changes,
                        !.step = IF identity.family = "SDongle" THEN "model" ELSE "pages"]

(* Ascending, with one bounded wrap past the last object identifier.       *)
MayContinue(x, page, pages) ==
    /\ page.next <= x.request => ~x.wrapped /\ page.next # x.request
    /\ Len(pages) < MaxPages

AfterPage(x, page) ==
    LET pages == Append(x.pages, page) IN
    IF ~page.more
    THEN [x EXCEPT !.pages = pages, !.step = IF x.family = "SmartLogger" THEN "after" ELSE "model",
                   !.closed = x.list, !.drift = x.changes - x.opened]
    ELSE IF MayContinue(x, page, pages)
    THEN [x EXCEPT !.pages = pages, !.request = page.next, !.wrapped = @ \/ page.next <= x.request]
    ELSE [x EXCEPT !.pages = pages, !.step = "done"]

(* One page of an identification may be the answer to its first request.   *)
ReadPage ==
    /\ At("pages")
    /\ \E first \in (IF identity.honest THEN {1, Place(identity.request)} ELSE {Place(identity.request)})
                       \intersect 1 .. Len(identity.list) + 1 :
       \E n \in 1 .. Len(identity.list) + 2 - first :
           identity' = AfterPage([identity EXCEPT !.honest = @ /\ first = Place(identity.request)],
                                 PageOf(identity.list, first, n))

(* The provider gives up on a counter that has moved.                      *)
ProviderStops ==
    /\ At("after") /\ identity.family = "SmartLogger" /\ identity.before # identity.counter
    /\ identity' = [identity EXCEPT !.step = "done"]

Judged(x, card, next) ==
    [x EXCEPT !.card = card, !.closed = x.list, !.drift = x.changes - x.opened,
              !.step = IF card.matched THEN next ELSE "done"]

JudgeLogger ==
    /\ At("after") /\ identity.family = "SmartLogger"
    /\ identity' = Judged(identity,
           LoggerCard(GatewayCatalogue, [unit |-> identity.bench.unit, before |-> identity.before,
               after |-> identity.counter, pages |-> identity.pages, basic |-> identity.bench.basic]), "model")

SearchWords(bench, sequence) == <<bench.typeWord, bench.state, sequence>>

(* The one page of the child, and then the words that close the bracket.   *)
ReadChildPage ==
    /\ At("page")
    /\ \E n \in 1 .. Len(identity.list) + 1 :
           identity' = [identity EXCEPT !.pages = <<PageOf(identity.list, 1, n)>>, !.step = "after"]

JudgeDongle ==
    /\ At("after") /\ identity.family = "SDongle"
    /\ LET b == identity.bench IN
       identity' = Judged([identity EXCEPT !.unit = DongleChildUnit],
           DongleCard(GatewayCatalogue,
               [unit |-> b.unit, basicReply |-> b.basicReply, basicException |-> b.basicException,
                status |-> b.status, protocol |-> b.protocol, capacity |-> b.capacity, software |-> b.software,
                before |-> SearchWords(b, identity.before), after |-> SearchWords(b, identity.counter)],
               [unit |-> DongleChildUnit, block |-> identity.blocks[1].block, basic |-> b.childBasic,
                readCodes |-> b.readCodes, page |-> identity.pages[1]]), "words")

---------------------------------------------------------------------------
(* The units behind the gateway.                                           *)

EvidenceOf(x, words) ==
    [unit |-> x.unit, block |-> IF x.blocks = <<>> THEN None ELSE x.blocks[1].block, words |-> words,
     cards |-> [SmartLogger |-> IF x.family = "SmartLogger" THEN x.card ELSE None,
                SDongle |-> IF x.family = "SDongle" THEN x.card
                            ELSE IF x.bench.dongleToo THEN MatchedWith(<<>>, None) ELSE None]]

Select(x, words) == SelectProfile(InverterRows, MonitoringProfiles, EvidenceOf(x, words))

(* A routed model that is no text or contradicts the list ends the child's *)
(* admission before its identity words are read.                           *)
RefusedEarly(selection) == selection.reason \in {"LISTING_MODEL_CONFLICT", "MODEL_BLOCK_INVALID"}

AfterModel(x) ==
    LET early == Select(x, NoWords) IN
    [x EXCEPT !.early = early,
              !.choice = IF RefusedEarly(early) THEN early ELSE None,
              !.step = IF RefusedEarly(early) THEN "done" ELSE "words"]

ReadModel ==
    /\ At("model")
    /\ \E unit \in IF identity.family = "SmartLogger" THEN 1 .. MaxRoutedUnit
                   ELSE IF identity.family = "SDongle" THEN {DongleChildUnit} ELSE EmmaChildUnits :
       \E text \in ModelAt(identity.list, unit), rest \in BlockRests[identity.family] :
           LET read == [identity EXCEPT !.unit = unit,
                            !.blocks = Append(@, [unit |-> unit, block |-> Block(text, rest)])]
           IN identity' = IF identity.family = "SmartLogger" THEN AfterModel(read)
                          ELSE IF identity.family = "SDongle" THEN [read EXCEPT !.step = "page"]
                          ELSE [read EXCEPT !.step = IF Len(read.blocks) = Cardinality(EmmaChildUnits) THEN "judge" ELSE "model"]

JudgeEmma ==
    /\ At("judge")
    /\ LET b == identity.bench
           card == EmmaCard(GatewayCatalogue,
               [unit |-> b.unit, offering |-> b.offering, model |-> b.model, software |-> b.software,
                basic |-> b.basic, readCodes |-> b.readCodes, pages |-> identity.pages], identity.blocks)
       IN identity' = [identity EXCEPT !.card = card, !.step = "done"]

ReadWords ==
    /\ At("words")
    /\ \E words \in WordSets :
           identity' = [identity EXCEPT !.choice = Select(identity, words), !.step = "done"]

IdentityNext ==
    \/ MeetLogger \/ MeetDongle \/ MeetEmma \/ ListChanges
    \/ OpenBracket \/ ReadPage \/ ProviderStops \/ JudgeLogger \/ ReadChildPage \/ JudgeDongle
    \/ ReadModel \/ JudgeEmma \/ ReadWords

---------------------------------------------------------------------------
Kept(list) == [k \in DOMAIN list |-> Retained(list[k].entry)]

(* What a card keeps was the gateway's list at one moment, although it was *)
(* read in pages while the list could change, and no late answer is in it: *)
(* the counter that was read before and after tells, as long as it cannot  *)
(* have run round in between.  The EMMA has no counter, and a list that    *)
(* changed may be accepted there; but each inverter then answered with the *)
(* model that it is listed with.                                           *)
ListIsOneMoment ==
    identity # None /\ identity.card # None /\ identity.card.matched =>
        LET kept == identity.card.children
            told == IF identity.family = "EMMA" THEN identity.drift = 0 ELSE identity.drift < CounterModulus
        IN /\ identity.honest
           /\ told /\ identity.family # "SDongle" => kept = Tail(Kept(identity.closed))
           /\ told /\ identity.family = "SDongle" =>
                  kept[1] \in ToSet(Kept(identity.closed)) /\ {kept[1].model} = ModelAt(identity.closed, kept[1].unit)
           /\ identity.family = "EMMA" =>
                  \A k \in DOMAIN identity.blocks :
                      \E c \in ToSet(kept) : c.unit = identity.blocks[k].unit /\ c.model = identity.blocks[k].block.text

(* How a gateway cuts a list that does not change into pages is no matter, *)
(* as long as no page exceeds the largest response: the reader follows it  *)
(* to its end, and the list reads as if every object had come alone.       *)
PagingIsTransparent ==
    LET x == identity
        single == [k \in 1 .. Len(x.list) + 1 |-> PageOf(x.list, k, 1)]
        whole(listing) == IF listing.valid THEN [listing EXCEPT !.anomalies = None] ELSE listing
    IN x # None /\ x.pages # <<>> /\ x.changes = 0 /\ x.honest /\ x.family # "SDongle" =>
        /\ x.pages[Len(x.pages)].more => x.step = "pages"
        /\ ~x.pages[Len(x.pages)].more /\ (\A k \in DOMAIN x.pages : x.pages[k].bytes <= MaxResponseBytes) =>
               whole(ListingOf(0, x.pages)) = whole(ListingOf(0, single))

(* A profile is selected only for a unit that its gateway lists with the   *)
(* model the unit itself answered, from the one catalogue row that its     *)
(* words leave, and only once the model identifier was read.  The order of *)
(* the profiles chooses no winner, and nothing that could have been read   *)
(* after an early refusal would have lifted it.                            *)
ProfileIsJustified ==
    identity # None /\ identity.choice # None =>
        LET x == identity
            choice == x.choice
            backwards(words) == SelectProfile(InverterRows, Reverse(MonitoringProfiles), EvidenceOf(x, words))
            onModel(text) == {w \in WordSets : /\ w.whole
                                              /\ \E k \in Admissible(InverterRows, QuestionOf(text, w)) :
                                                     /\ InverterRows[k].token = choice.profile.model
                                                     /\ Cardinality(Admissible(InverterRows, QuestionOf(text, w))) = 1
                                              /\ Select(x, w) = choice}
        IN /\ choice.outcome = "PROFILE_SELECTED" =>
                  /\ x.early # None => x.early.outcome # "PROFILE_SELECTED"
                  /\ choice.profile.gateway = "SmartLogger" =>
                         /\ {x.blocks[1].block.text} = {c.model : c \in {d \in ToSet(x.card.children) : d.unit = x.unit}}
                         /\ onModel(x.blocks[1].block.text) # {}
                  /\ choice.profile.gateway = "SDongle" => x.unit = DongleChildUnit /\ onModel(DongleChildModel) # {}
           /\ x.early # None /\ RefusedEarly(x.early) => \A w \in WordSets : Select(x, w) = x.early
           /\ \A w \in WordSets : <<backwards(w).outcome, backwards(w).profile>> = <<Select(x, w).outcome, Select(x, w).profile>>

IdentityIsJustified == ListIsOneMoment /\ PagingIsTransparent /\ ProfileIsJustified

===============================================================================
