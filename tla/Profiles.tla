------------------------------- MODULE Profiles -------------------------------
(***************************************************************************)
(* Profile declarations: codecs, register dependencies, coherence policies,*)
(* standard families and the vendor overlays that refine them, and the     *)
(* catalog that admits them together.                                      *)
(*                                                                         *)
(* A declaration is a record of the fields that decide anything.  Versions *)
(* are numbers in their order (compareVersion), 0 being the zero Version;  *)
(* None is an empty string, a nil collection or an absent payload.  Byte   *)
(* bounds on strings and documents are left out.                           *)
(***************************************************************************)
EXTENDS Naturals, SequencesExt

CONSTANTS
    AddressSpace,       \* PDU addresses (65536)
    MaxReadRegisters,   \* modbus.MaxReadRegisters
    HoldingReference,   \* documentary address of holding register 0 (40001)
    InputReference,     \* documentary address of input register 0 (30001)
    ReferenceSpan,      \* registers a 3xxxx or 4xxxx reference names (9999)
    MaxSkew,            \* MaxDeclaredCoherenceSkew
    None,
    Declarations,       \* profiles declared, overlays without their deltas
    Deltas,             \* VendorOverlayDeltaSpec values
    MaxProfiles,        \* profiles in one catalog
    MaxDeltas           \* deltas of all its overlays

VARIABLE draft          \* the profiles declared so far

Tables == {"holding", "input"}

(* stringsDeclared, stringsComplete *)
Declared(strings) == strings # None /\ IsInjective(strings) /\ None \notin Range(strings)
Complete(strings) == Declared(strings) /\ strings # <<>>

-----------------------------------------------------------------------------
(* Codecs *)

Numeric == {"unsigned_integer", "signed_integer", "ieee754"}

ValidScale(s) ==
    CASE s.source = "constant" -> s.ordered /\ s.denominator # 0 /\ s.dependency = None
      [] s.source = "dependency" ->
            s.ordered /\ s.dependency # None /\ s.numerator = 0 /\ s.denominator = 0
      [] s.source = "not_applicable" ->
            ~s.ordered /\ s.numerator = 0 /\ s.denominator = 0 /\ s.dependency = None
      [] OTHER -> FALSE

ValidString(s, words) ==
    s # None /\ s.padding # None /\ s.repertoire # None /\ s.rawLength = 2 * words

(* NewCodec *)
ValidCodec(c) ==
    /\ c.id # None /\ c.version # 0 /\ c.output # None
    /\ c.words \in 1 .. MaxReadRegisters
    /\ Len(c.permutation) = c.words
    /\ IsInjective(c.permutation) /\ Range(c.permutation) \subseteq 0 .. c.words - 1
    /\ c.representation \in Numeric \cup {"string"}
    /\ c.representation = "ieee754" => c.words \in {2, 4}
    /\ ValidScale(c.scale)
    /\ IF c.representation = "string"
       THEN c.scale.source = "not_applicable" /\ ValidString(c.string, c.words)
       ELSE c.string = None
    /\ \A i \in DOMAIN c.sentinels : Len(c.sentinels[i].words) = c.words
    /\ \A i, j \in DOMAIN c.sentinels : c.sentinels[i].words = c.sentinels[j].words => i = j

-----------------------------------------------------------------------------
(* Dependencies *)

(* The documentary arithmetic; None when basis and transformation disagree *)
(* or the documentary address is out of its space.                         *)
Resolved(n) ==
    CASE n.base = "zero_based" /\ n.transform = "identity" -> n.address
      [] n.base = "one_based" /\ n.transform = "subtract_one" /\ n.address # 0 -> n.address - 1
      [] /\ n.base = "holding_reference" /\ n.transform = "subtract_40001"
         /\ n.address \in HoldingReference .. HoldingReference + ReferenceSpan - 1
            -> n.address - HoldingReference
      [] /\ n.base = "input_reference" /\ n.transform = "subtract_30001"
         /\ n.address \in InputReference .. InputReference + ReferenceSpan - 1
            -> n.address - InputReference
      [] OTHER -> None

(* NewAddressNormalization; a locator is stable or None. *)
ValidNormalization(n) ==
    /\ n.version # 0 /\ n.locator # None /\ n.notation # None /\ n.space # None
    /\ Resolved(n) \in 0 .. AddressSpace - 1
    /\ Resolved(n) = n.offset

Start(d) == d.normalization.offset
End(d) == d.normalization.offset + d.words

(* NewDependency *)
ValidDependency(d) ==
    /\ ValidNormalization(d.normalization)
    /\ d.id # None /\ d.version # 0 /\ d.table \in Tables
    /\ d.words \in 1 .. MaxReadRegisters
    /\ d.codec # None /\ d.codecVersion # 0 /\ d.group # None
    /\ Complete(d.evidence) /\ Complete(d.applicability)
    /\ d.normalization.space = d.table
    /\ d.table = "holding" => d.normalization.base # "input_reference"
    /\ d.table = "input" => d.normalization.base # "holding_reference"
    /\ End(d) <= AddressSpace

Ids(items) == {items[i].id : i \in DOMAIN items}

ById(items, id) == items[CHOOSE i \in DOMAIN items : items[i].id = id]

(* NewDependencySet; a profile without one has the set of version 0. *)
NoSet == [version |-> 0, items |-> <<>>]

ValidSet(set) ==
    /\ set.version # 0 /\ set.items # <<>>
    /\ \A i \in DOMAIN set.items : ValidDependency(set.items[i])
    /\ \A i, j \in DOMAIN set.items : set.items[i].id = set.items[j].id => i = j

(* Faulty variant: ranges that only touch are taken to intersect. *)
SingleWireTouching(ds) ==
    LET starts == {Start(d) : d \in Range(ds)}  ends == {End(d) : d \in Range(ds)} IN
    /\ ds # <<>>
    /\ \A d \in Range(ds) : d.table = ds[1].table
    /\ Max(ends) - Min(starts) <= MaxReadRegisters
    /\ Len(ds) > 1 => Max(starts) <= Min(ends)

(* validateSingleWireDependencies: one response can hold every dependency, *)
(* and some register is in all of them.                                    *)
SingleWire(ds) ==
    LET starts == {Start(d) : d \in Range(ds)}  ends == {End(d) : d \in Range(ds)} IN
    /\ ds # <<>>
    /\ \A d \in Range(ds) : d.table = ds[1].table
    /\ Max(ends) - Min(starts) <= MaxReadRegisters
    /\ Len(ds) > 1 => Max(starts) < Min(ends)

(* hasDependencyCycle: an edge for each dependency scaled by another one.  *)
(* A chain that can be followed longer than there are edges has a cycle.   *)
HasCycle(edges) ==
    LET After[n \in Nat] ==
            IF n = 0 THEN DOMAIN edges
            ELSE {d \in DOMAIN edges : edges[d] \in After[n - 1]}
    IN After[Cardinality(DOMAIN edges)] # {}

-----------------------------------------------------------------------------
(* Profiles *)

NoCoherence ==
    [version |-> 0, mode |-> None, sourceSkew |-> 0, receiptSkew |-> 0, sameGeneration |-> FALSE,
     order |-> None, retry |-> None, marker |-> None]

(* validateCoherence *)
ValidCoherence(c) ==
    /\ c.version # 0
    /\ \/ /\ c.mode = "single_wire_response"
          /\ [c EXCEPT !.version = 0] =
                [NoCoherence EXCEPT !.mode = "single_wire_response",
                    !.order = "not_applicable", !.retry = "not_applicable"]
       \/ /\ c.mode = "bounded_multi_response"
          /\ {c.sourceSkew, c.receiptSkew} \subseteq 1 .. MaxSkew
          /\ c.sameGeneration
          /\ c.order \in {"dependency_declaration", "source_time_ascending", "receipt_time_ascending"}
          /\ c.retry = "whole_set"

NoReference == [id |-> None, version |-> 0]

(* The contents of a standard family. *)
StandardFamily(p) ==
    /\ p.kind = "standard_family"
    /\ p.vendors = <<>> /\ p.refines = NoReference /\ p.deltas = <<>>
    /\ Complete(p.standards) /\ Declared(p.models) /\ Declared(p.exclusions)
    /\ ValidSet(p.dependencies) /\ p.codecs # <<>>
    /\ ValidCoherence(p.coherence) /\ p.coherence.version = p.coherenceVersion

(* A vendor overlay has nothing of its own but its deviations.             *)
VendorOverlay(p) ==
    /\ p.kind = "vendor_overlay"
    /\ Complete(p.vendors) /\ p.refines.id # None /\ p.refines.version # 0
    /\ p.standards = <<>> /\ p.models = <<>> /\ p.exclusions = <<>>
    /\ p.codecs = <<>> /\ p.dependencies = NoSet /\ p.coherence = NoCoherence
    /\ p.deltas # <<>>

(* Every dependency has its codec, of its width, and its evidence.         *)
Bound(p) ==
    \A d \in Range(p.dependencies.items) :
        /\ d.codec \in Ids(p.codecs)
        /\ LET c == ById(p.codecs, d.codec) IN c.version = d.codecVersion /\ c.words = d.words
        /\ d.normalization.version = p.normalizationVersion
        /\ Range(d.evidence) \subseteq Range(p.evidence)

(* Scales come from dependencies of the profile, without a cycle.          *)
Scaled(p) ==
    LET ds == p.dependencies.items
        ScaleOf(d) == ById(p.codecs, d.codec).scale
        scaled == {d \in Range(ds) : ScaleOf(d).source = "dependency"}
    IN
    /\ \A c \in Range(p.codecs) : c.scale.source = "dependency" => c.scale.dependency \in Ids(ds)
    /\ ~HasCycle([id \in {d.id : d \in scaled} |-> ScaleOf(ById(ds, id)).dependency])

(* Support maturity and revocation. *)
ValidState(p) ==
    /\ p.maturity \in {"experimental", "qualified"}
    /\ p.enabled => p.maturity = "qualified" /\ p.state = "active"
    /\ p.state \in {"active", "revoked", "superseded"}
    /\ IF p.state = "superseded"
       THEN p.successor.id # None /\ p.successor.version # 0
       ELSE p.successor = NoReference

-----------------------------------------------------------------------------
(* Overlays *)

Applicability == {"model_applicability", "known_exclusion"}

NoPayload(d) == d.codec = None /\ d.dependency = None /\ d.coherence = None

Target(d) == <<d.kind, IF d.kind \in Applicability THEN d.value ELSE d.target>>

(* The form of one delta: exactly one payload, for its own target.         *)
DeltaForm(d) ==
    CASE d.kind \in Applicability ->
            /\ d.operation \in {"add", "remove"}
            /\ d.value # None /\ d.target = None /\ NoPayload(d)
      [] d.kind = "codec" ->
            /\ d.operation \in {"add", "replace"} /\ d.target # None /\ d.value = None
            /\ d.codec # None /\ NoPayload([d EXCEPT !.codec = None])
            /\ ValidCodec(d.codec) /\ d.codec.id = d.target
      [] d.kind = "dependency" ->
            /\ d.target # None /\ d.value = None /\ NoPayload([d EXCEPT !.dependency = None])
            /\ \/ d.operation = "remove" /\ d.dependency = None
               \/ /\ d.operation \in {"add", "replace"} /\ d.dependency # None
                  /\ ValidDependency(d.dependency) /\ d.dependency.id = d.target
                  /\ Range(d.dependency.evidence) \subseteq Range(d.evidence)
      [] d.kind = "coherence" ->
            /\ d.operation = "replace" /\ d.target = "coherence-policy" /\ d.value = None
            /\ d.coherence # None /\ NoPayload([d EXCEPT !.coherence = None])
            /\ ValidCoherence(d.coherence)
      [] OTHER -> FALSE

(* Faulty variant: two deltas may have the same target. *)
ValidDeltasUntargeted(deltas, evidence) ==
    /\ \A i \in DOMAIN deltas : LET d == deltas[i] IN
          /\ d.id # None /\ d.version # 0
          /\ Complete(d.evidence) /\ Range(d.evidence) \subseteq evidence
          /\ DeltaForm(d)
    /\ \A i, j \in DOMAIN deltas : deltas[i].id = deltas[j].id => i = j

(* validateOverlayDeltas *)
ValidDeltas(deltas, evidence) ==
    /\ \A i \in DOMAIN deltas : LET d == deltas[i] IN
          /\ d.id # None /\ d.version # 0
          /\ Complete(d.evidence) /\ Range(d.evidence) \subseteq evidence
          /\ DeltaForm(d)
    /\ \A i, j \in DOMAIN deltas :
          deltas[i].id = deltas[j].id \/ Target(deltas[i]) = Target(deltas[j]) => i = j

(* NewProfileDescriptor *)
ValidProfile(p) ==
    /\ p.id # None /\ p.version # 0 /\ p.schema = 1 /\ p.runtime = 1 /\ p.codecContract = 1
    /\ 0 \notin {p.detector, p.normalizationVersion, p.coherenceVersion, p.qualification}
    /\ p.evidence # <<>> /\ Declared(p.evidence)
    /\ StandardFamily(p) \/ VendorOverlay(p)
    /\ \A i \in DOMAIN p.codecs : ValidCodec(p.codecs[i])
    /\ \A i, j \in DOMAIN p.codecs : p.codecs[i].id = p.codecs[j].id => i = j
    /\ p.kind = "vendor_overlay" => ValidDeltas(p.deltas, Range(p.evidence))
    /\ Bound(p)
    /\ p.coherence.mode = "single_wire_response" => SingleWire(p.dependencies.items)
    /\ Scaled(p)
    /\ ValidState(p)

(* A replacement changes something but its version, and advances that.     *)
Advanced(current, payload) ==
    /\ [current EXCEPT !.version = 0] # [payload EXCEPT !.version = 0]
    /\ payload.version > current.version

(* What one delta does to a list of codecs or dependencies. *)
Amended(items, operation, target, payload) ==
    LET present == target \in Ids(items) IN
    CASE operation = "add" /\ ~present -> Append(items, payload)
      [] operation = "remove" /\ present -> SelectSeq(items, LAMBDA x : x.id # target)
      [] operation = "replace" /\ present /\ Advanced(ById(items, target), payload) ->
            [i \in DOMAIN items |-> IF items[i].id = target THEN payload ELSE items[i]]
      [] OTHER -> None

AmendedValues(values, operation, value) ==
    CASE operation = "add" /\ value \notin Range(values) -> Append(values, value)
      [] operation = "remove" /\ value \in Range(values) -> SelectSeq(values, LAMBDA x : x # value)
      [] OTHER -> None

(* One delta of validateOverlayAgainstBase, on the graph so far; None when *)
(* it is refused, as everything after it.                                  *)
Deviate(graph, d) ==
    IF graph = None THEN None ELSE
    LET Or(field, value) == IF value = None THEN None ELSE [graph EXCEPT ![field] = value] IN
    CASE d.kind = "model_applicability" ->
            Or("models", AmendedValues(graph.models, d.operation, d.value))
      [] d.kind = "known_exclusion" ->
            Or("exclusions", AmendedValues(graph.exclusions, d.operation, d.value))
      [] d.kind = "codec" ->
            Or("codecs", Amended(graph.codecs, d.operation, d.target, d.codec))
      [] d.kind = "dependency" ->
            LET items == Amended(graph.dependencies.items, d.operation, d.target, d.dependency) IN
            IF items = None THEN None ELSE [graph EXCEPT !.dependencies.items = items]
      [] d.kind = "coherence" ->
            IF Advanced(graph.coherence, d.coherence)
            THEN [graph EXCEPT !.coherence = d.coherence, !.coherenceVersion = d.coherence.version]
            ELSE None

(* The graph the deltas leave: the base's contents under the overlay's     *)
(* name and contract versions, with both evidences.                        *)
Deviated(overlay, base) ==
    FoldLeft(Deviate,
             [base EXCEPT !.id = overlay.id, !.version = overlay.version, !.schema = overlay.schema,
                          !.runtime = overlay.runtime, !.detector = overlay.detector,
                          !.codecContract = overlay.codecContract,
                          !.normalizationVersion = overlay.normalizationVersion,
                          !.qualification = overlay.qualification,
                          !.evidence = @ \o overlay.evidence,
                          !.enabled = FALSE, !.state = "active", !.successor = NoReference],
             overlay.deltas)

(* validateOverlayAgainstBase: the effective profile, or None.             *)
Effective(overlay, base) ==
    LET graph == Deviated(overlay, base) IN
    IF graph = None THEN None
    ELSE IF /\ overlay.coherenceVersion = graph.coherenceVersion
            /\ ValidProfile(graph)
         THEN graph ELSE None

-----------------------------------------------------------------------------
(* Catalogs *)

Refined(profiles, p) ==
    p.refines.id \in Ids(profiles) /\
    LET base == ById(profiles, p.refines.id) IN
    /\ base.version = p.refines.version /\ base.kind = "standard_family"
    /\ base.state = "active" /\ base.maturity = "qualified"
    /\ p.runtime = base.runtime /\ p.detector = base.detector
    /\ p.codecContract = base.codecContract
    /\ p.normalizationVersion = base.normalizationVersion
    /\ p.qualification = base.qualification
    /\ Effective(p, base) # None
    /\ Range(p.evidence) \cap Range(base.evidence) = {}

Replaced(profiles, p) ==
    p.successor.id \in Ids(profiles) \ {p.id} /\
    LET target == ById(profiles, p.successor.id) IN
    /\ target.version = p.successor.version /\ target.state = "active" /\ target.kind = p.kind
    /\ p.kind = "vendor_overlay" => target.refines = p.refines /\ target.vendors = p.vendors

(* NewCatalog.  Its order is that of the identities, so a catalog is the   *)
(* set of its profiles and Lookup is ById.                                 *)
ValidCatalog(profiles) ==
    /\ profiles # <<>>
    /\ \A i, j \in DOMAIN profiles : profiles[i].id = profiles[j].id => i = j
    /\ \A p \in Range(profiles) :
          /\ ValidProfile(p)
          /\ p.kind = "vendor_overlay" => Refined(profiles, p)
          /\ p.state = "superseded" => Replaced(profiles, p)

-----------------------------------------------------------------------------
(* An author puts a catalog together: declares profiles, adds deviations   *)
(* to the last overlay one at a time, and asks NewCatalog after each.      *)

(* A profile is added to what is admitted so far. *)
Declare(p) ==
    /\ Len(draft) < MaxProfiles
    /\ draft = <<>> \/ ValidCatalog(draft)
    /\ draft' = Append(draft, p)

(* The last overlay declared deviates once more from its base; an author   *)
(* goes on only from deltas that are not refused as they are.              *)
Amend(d) ==
    /\ draft # <<>>
    /\ LET p == Last(draft) IN
          /\ p.kind = "vendor_overlay"
          /\ FoldLeft(LAMBDA n, q : n + Len(q.deltas), 0, draft) < MaxDeltas
          /\ p.refines.id \in Ids(draft)
          /\ ValidDeltas(p.deltas, Range(p.evidence))
          /\ Deviated(p, ById(draft, p.refines.id)) # None
          /\ draft' = Append(Front(draft), [p EXCEPT !.deltas = Append(@, d)])

Next == \/ \E p \in Declarations : Declare(p)
        \/ \E d \in Deltas : Amend(d)

-----------------------------------------------------------------------------
Admitted == draft # <<>> /\ ValidCatalog(draft)

Overlays == {p \in Range(draft) : p.kind = "vendor_overlay"}
BaseOf(p) == ById(draft, p.refines.id)

(* The contents a profile is used with. *)
InForce(p) == IF p.kind = "vendor_overlay" THEN Effective(p, BaseOf(p)) ELSE p

PayloadOf(deltas, kind, id) ==
    {deltas[i] : i \in {j \in DOMAIN deltas : deltas[j].kind = kind /\ deltas[j].target = id}}

(* items is base with every payload of that kind put in its place.         *)
Overrides(items, base, deltas, kind, Payload(_)) ==
    LET Changed(id) == PayloadOf(deltas, kind, id) IN
    /\ \A i, j \in DOMAIN items : items[i].id = items[j].id => i = j
    /\ \A id \in Ids(items) \cup Ids(base) \cup {deltas[i].target : i \in DOMAIN deltas} :
          IF Changed(id) = {}
          THEN /\ id \in Ids(items) <=> id \in Ids(base)
               /\ id \in Ids(base) => ById(items, id) = ById(base, id)
          ELSE \E d \in Changed(id) :
                  IF d.operation = "remove" THEN id \notin Ids(items)
                  ELSE id \in Ids(items) /\ ById(items, id) = Payload(d)

SameGraph(e, f) ==
    /\ Range(e.codecs) = Range(f.codecs)
    /\ Range(e.dependencies.items) = Range(f.dependencies.items)
    /\ Range(e.models) = Range(f.models) /\ Range(e.exclusions) = Range(f.exclusions)
    /\ e.coherence = f.coherence

(* An admitted overlay means one thing: its effective profile is the base  *)
(* with each target replaced, added or removed, and it is the same, and    *)
(* admitted, in whatever order the deltas are declared.                    *)
EffectiveIsExact ==
    Admitted => \A p \in Overlays :
        LET e == Effective(p, BaseOf(p)) IN
        /\ Overrides(e.codecs, BaseOf(p).codecs, p.deltas, "codec", LAMBDA d : d.codec)
        /\ Overrides(e.dependencies.items, BaseOf(p).dependencies.items, p.deltas, "dependency",
                     LAMBDA d : d.dependency)
        /\ \A q \in Permutations(DOMAIN p.deltas) :
              LET again == Effective([p EXCEPT !.deltas = [i \in DOMAIN q |-> p.deltas[q[i]]]], BaseOf(p))
              IN again # None /\ SameGraph(again, e)

(* What is admitted can be acquired.  A single-wire profile has one read   *)
(* of one table that returns every dependency, all of them over a common   *)
(* register; and every scale is found by going down a finite order of the  *)
(* profile's own dependencies.  So also after any deviation.               *)
Acquirable ==
    Admitted => \A p \in Range(draft) :
        LET c == InForce(p)  ds == Range(c.dependencies.items) IN
        /\ c.coherence.mode = "single_wire_response" =>
              \E a \in 0 .. AddressSpace - 1, n \in 1 .. MaxReadRegisters, table \in Tables :
                  /\ \A d \in ds : d.table = table /\ Start(d) >= a /\ End(d) <= a + n
                  /\ Cardinality(ds) > 1 =>
                        \E r \in a .. a + n - 1 : \A d \in ds : r \in Start(d) .. End(d) - 1
        /\ \E rank \in [Ids(c.dependencies.items) -> 1 .. Cardinality(ds)] :
              \A d \in ds : LET s == ById(c.codecs, d.codec).scale IN
                  s.source = "dependency" =>
                      s.dependency \in DOMAIN rank /\ rank[s.dependency] < rank[d.id]

===============================================================================
