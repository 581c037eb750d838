---------------------------- MODULE GatewaySelection ----------------------------
(***************************************************************************)
(* Which documented software floor a SmartLogger, an S-Dongle or an EMMA   *)
(* falls under (huawei_smartlogger_sdongle_emma_selection.go), and the     *)
(* documentary identity gate of the EMMA (huawei_emma.go).                 *)
(***************************************************************************)
EXTENDS InverterSelection

CONSTANTS
    FamilyRules,        \* [component, labelled] of each family
    MaxSelfUnit,
    LargestKey,         \* the largest attribute number
    ModelParts,         \* the parts a model token is made of
    Offerings           \* printable offering texts

Families == DOMAIN FamilyRules

---------------------------------------------------------------------------
(* Reading the catalogue.                                                  *)

(* A descriptor lists attribute numbers and ranges of them.                *)
DescriptorIsValid(ranges) ==
    ranges # {} /\ \A r \in ranges : 1 <= r[1] /\ r[1] <= r[2] /\ r[2] <= LargestKey

DescriptorKeys(ranges) == UNION {r[1] .. r[2] : r \in ranges}

(* The form of a floor and of a gateway's own text: the branch is stated.  *)
IsGatewayVersion(text) == IsVersion(text) /\ text.product = "" /\ text.branch # Missing

OwnFloors(edition) ==
    {f.minimum : f \in {g \in ToSet(edition.floors) : g.component = FamilyRules[edition.family].component}}

ServicesAreValid(services) ==
    /\ \A j, k \in DOMAIN services : services[j].edition = services[k].edition => j = k
    /\ \A k \in DOMAIN services :
           /\ DescriptorIsValid(services[k].descriptor)
           /\ services[k].selfUnit # Missing /\ services[k].attributeSix # ""

ServiceOf(services, id) == CHOOSE s \in ToSet(services) : s.edition = id

EditionIsValid(edition, services) ==
    /\ \E k \in DOMAIN services :
           services[k].edition = edition.id /\ services[k].selfUnit = edition.selfUnit
    /\ edition.selfUnit \in 0 .. MaxSelfUnit /\ edition.models # {}
    /\ \A f \in ToSet(edition.floors) : f.inclusive
    /\ OwnFloors(edition) # {} /\ \A m \in OwnFloors(edition) : IsGatewayVersion(m)

(* An edition issued for a release of a line that states a floor in another *)
(* release or branch of it documents that its own release follows.         *)
OrdersLine(edition) ==
    /\ IsGatewayVersion(edition.branch)
    /\ \E m \in OwnFloors(edition) :
           /\ m.line = edition.branch.line
           /\ <<m.release, m.branch>> # <<edition.branch.release, edition.branch.branch>>

FamilyOf(editions, services) ==
    [selfUnit |-> editions[1].selfUnit,
     editions |-> {[id |-> e.id, models |-> e.models, exhaustive |-> e.exhaustive, minima |-> OwnFloors(e),
                    keys |-> DescriptorKeys(ServiceOf(services, e.id).descriptor),
                    grammar |-> ServiceOf(services, e.id).attributeSix] : e \in ToSet(editions)},
     ordered |-> {e.branch.line : e \in {d \in ToSet(editions) : OrdersLine(d)}},
     buildRequired |-> \A k \in DOMAIN editions : \A m \in OwnFloors(editions[k]) : m.build # Missing]

(* The families of a catalogue; none when it is refused.                   *)
LoadGatewayCatalogue(files) ==
    LET of(family) == SelectSeq(files.editions, LAMBDA e : e.family = family)
    IN IF /\ ServicesAreValid(files.services)
          /\ \A f \in Families :
                 /\ of(f) # <<>>
                 /\ \A k \in DOMAIN of(f) :
                        /\ EditionIsValid(of(f)[k], files.services)
                        /\ of(f)[k].selfUnit = of(f)[1].selfUnit
       THEN [f \in Families |-> FamilyOf(of(f), files.services)]
       ELSE <<>>

---------------------------------------------------------------------------
(* The decision.                                                           *)

(* An exhaustive list holds its rows; another holds the tokens of a family. *)
HoldsModel(edition, model) ==
    IF edition.exhaustive THEN model \in edition.models
    ELSE /\ \A k \in DOMAIN model : model[k] \in ModelParts
         /\ Len(model) > 1 /\ <<model[1]>> \in edition.models

FamilyHoldsModel(catalogue, family, model) ==
    family \in DOMAIN catalogue /\ \E e \in catalogue[family].editions : HoldsModel(e, model)

Applicable(family, model) == {e \in family.editions : model = <<>> \/ HoldsModel(e, model)}

(* Editions that state one floor document one applicability.               *)
FloorsOf(family, editions) ==
    {[minimum |-> m, domain |-> IF m.line \in family.ordered THEN "LINE" ELSE "BRANCH",
      relation |-> "NOT_EVALUATED", editions |-> {e \in editions : m \in e.minima}] :
        m \in UNION {e.minima : e \in editions}}

(* Why a software text cannot be compared, or nothing.                     *)
SoftwareFault(catalogue, name, text) ==
    LET rule == FamilyRules[name] IN
    IF ~IsGatewayVersion(text) THEN "software_malformed"
    ELSE IF text.label \notin {"", rule.component}
    THEN IF \E f \in DOMAIN catalogue \ {name} : FamilyRules[f].component = text.label
         THEN "family_mismatch" ELSE "software_malformed"
    ELSE IF (rule.labelled /\ text.label = "") \/ (catalogue[name].buildRequired /\ text.build = Missing)
    THEN "software_malformed" ELSE ""

(* Faulty variant: every part must reach its floor.                        *)
AtOrAboveInParts(build, floor) ==
    build.release >= floor.release /\ build.branch >= floor.branch /\ build.build >= floor.build

(* A text without a build number is the base of its branch.                *)
AtOrAbove(build, floor) ==
    \/ build.release > floor.release
    \/ build.release = floor.release /\ build.branch > floor.branch
    \/ build.release = floor.release /\ build.branch = floor.branch /\ build.build >= floor.build

Related(family, build, floor) ==
    /\ floor.line = build.line
    /\ floor.line \in family.ordered \/ <<floor.release, floor.branch>> = <<build.release, build.branch>>

RelationOf(family, build, floor) ==
    IF ~Related(family, build, floor) THEN "NO_DOCUMENTED_RELATION"
    ELSE IF AtOrAbove(build, floor) THEN "AT_OR_ABOVE" ELSE "BELOW"

(* A floor that a card states on its own, under the rules of its family.   *)
RelationOfFloor(catalogue, name, software, minimum) ==
    IF name \notin DOMAIN catalogue THEN "NOT_EVALUATED"
    ELSE IF SoftwareFault(catalogue, name, software) # "" THEN "NOT_EVALUATED"
    ELSE RelationOf(catalogue[name], software, minimum)

FloorDecision(outcome, reason, build, floors) ==
    [outcome |-> outcome, reason |-> reason, build |-> build, candidates |-> floors,
     grade |-> IF build = NoText \/ outcome = "NOT_SELECTED" THEN "UNKNOWN" ELSE "HYPOTHESIS"]

Refusal(reason, floors) == FloorDecision("NOT_SELECTED", reason, NoText, floors)

CompareFloors(family, software, floors) ==
    LET build == [software EXCEPT !.label = ""]
        related == {[f EXCEPT !.relation = RelationOf(family, build, f.minimum)] : f \in floors}
        admitted == {f \in related : f.relation = "AT_OR_ABOVE"}
        below == {f \in related : f.relation = "BELOW"}
        other == related \ (admitted \union below)
    IN FirstOf(<<
        Stage(Cardinality(admitted) = 1, FloorDecision("SELECTED", "at_or_above_floor", build, admitted)),
        Stage(admitted # {}, FloorDecision("AMBIGUOUS", "multiple_floors", build, admitted)),
        Stage(below # {}, [Refusal("below_floor", below) EXCEPT !.build = build]),
        Stage(Cardinality(other) = 1, FloorDecision("SELECTED", "no_documented_branch_relation", build, other)),
        Stage(TRUE, FloorDecision("AMBIGUOUS", "no_documented_branch_relation", build, other)) >>)

DecideGateway(catalogue, input) ==
    IF catalogue = <<>> THEN Refusal("catalogue_invalid", {})
    ELSE IF ~(/\ input.family \in DOMAIN catalogue /\ input.endpoint = "gateway-self"
              /\ input.unit = catalogue[input.family].selfUnit)
    THEN Refusal("family_mismatch", {})
    ELSE LET family == catalogue[input.family]
             floors == FloorsOf(family, Applicable(family, input.model))
             fault == SoftwareFault(catalogue, input.family, input.software)
         IN IF floors = {} THEN Refusal("family_mismatch", {})
            ELSE IF input.software = NoText
            THEN FloorDecision("AMBIGUOUS", "software_not_read", NoText, floors)
            ELSE IF fault # "" THEN Refusal(fault, {})
            ELSE CompareFloors(family, input.software, floors)

Admitted(decision) == decision.outcome \in {"SELECTED", "AMBIGUOUS"}

(* The build that a card observed is graded by the observation.            *)
WithObservedBuild(decision, observed) ==
    IF Admitted(decision) /\ decision.build = observed THEN [decision EXCEPT !.grade = "PROVEN"] ELSE decision

(* The attributes that the admitted editions define.                       *)
DefinedKeys(decision) ==
    IF Admitted(decision) THEN UNION {e.keys : e \in UNION {f.editions : f \in decision.candidates}} ELSE {}

(* The documentary gate over the three identity blocks of an EMMA.         *)
EmmaIdentity(catalogue, offering, model, software) ==
    LET selection == DecideGateway(catalogue,
            [family |-> "EMMA", endpoint |-> "gateway-self", unit |-> 0, model |-> model, software |-> software])
    IN IF offering \notin Offerings THEN [matched |-> FALSE, reason |-> "offering_mismatch", selection |-> Refusal("", {})]
       ELSE IF ~FamilyHoldsModel(catalogue, "EMMA", model)
       THEN [matched |-> FALSE, reason |-> "model_mismatch", selection |-> Refusal("", {})]
       ELSE IF ~Admitted(selection) \/ selection.build = NoText
       THEN [matched |-> FALSE, reason |-> "firmware_mismatch", selection |-> selection]
       ELSE [matched |-> TRUE, reason |-> "matched", selection |-> selection]

---------------------------------------------------------------------------

(* The editions may be read in any order.  A readable text is refused as   *)
(* too low exactly when some floor of its domain is stated and every one   *)
(* lies above it; a later build of a branch, and a later branch or release *)
(* of an ordered line, stays admitted.  A text of no floor's domain, or no *)
(* text, is admitted without a grade that a comparison would earn.  An     *)
(* attribute counts as defined only by an edition whose floor was not      *)
(* refused.                                                                *)
GatewayJustified(files, input, decision) ==
    LET catalogue == LoadGatewayCatalogue(files)
        reversed == LoadGatewayCatalogue([editions |-> Reverse(files.editions), services |-> Reverse(files.services)])
        text == input.software
        readable == /\ catalogue # <<>> /\ IsGatewayVersion(text) /\ input.family \in DOMAIN catalogue
                    /\ input.model = <<>> /\ decision.reason \notin {"family_mismatch", "software_malformed"}
        family == catalogue[input.family]
        inDomain == {m \in UNION {e.minima : e \in family.editions} : Related(family, text, m)}
        parts(t) == <<t.release, t.branch, t.build>>
        notBefore(a, b) == \A i \in 1 .. 3 : parts(a)[i] < parts(b)[i] => \E j \in 1 .. i : parts(a)[j] > parts(b)[j]
        atLeast(a, b) == a.line = b.line /\ notBefore(a, b)
    IN /\ reversed = catalogue /\ DecideGateway(reversed, input) = decision
       /\ readable => (decision.reason = "below_floor"
              <=> inDomain # {} /\ \A m \in inDomain : ~atLeast(text, m))
       /\ readable /\ Admitted(decision) =>
              \A release \in 1 .. 3, branch, build \in 0 .. 3 :
                  LET later == [text EXCEPT !.release = release, !.branch = branch, !.build = build] IN
                  /\ notBefore(later, text)
                  /\ text.line \in family.ordered \/ <<release, branch>> = <<text.release, text.branch>>
                  => Admitted(DecideGateway(catalogue, [input EXCEPT !.software = later]))
       /\ decision.grade # "UNKNOWN" => readable \/ input.model # <<>>
       /\ readable => DefinedKeys(decision) =
              IF decision.reason = "below_floor" THEN {}
              ELSE UNION {e.keys : e \in {d \in family.editions :
                      inDomain = {} \/ \E m \in d.minima \intersect inDomain : atLeast(text, m)}}

=================================================================================
