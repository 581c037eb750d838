--------------------------- MODULE InverterSelection ---------------------------
(***************************************************************************)
(* Which documented model row an inverter belongs to                       *)
(* (huawei_sun2000_catalogue_selection.go): how the generated catalogue is *)
(* read, and the decision over the identity words of one endpoint.         *)
(***************************************************************************)
EXTENDS Integers, Sequences, SequencesExt

CONSTANTS
    ModelOffset, ModelQuantity,     \* the register of the model text
    IdentifierOffset,               \* the register of the model identifier
    MaxIdentifier,
    ReadableModels,                 \* model texts of printable bytes within the extent
    ReadScopes                      \* the address spaces an identity can be read in

---------------------------------------------------------------------------
(* Texts and decisions, as every selection reads them.  A text is absent,  *)
(* in the vendor's branch form or something else.  The branch form names a *)
(* line (V), a release (R), a branch (C) and a build (SPC); the last two   *)
(* may be missing, and a product or a component may stand before it.       *)

Missing == -1

NoText == [form |-> "absent"]
Garbled == [form |-> "other"]

(* What stands first among the stages of a decision that apply.            *)
FirstOf(stages) ==
    stages[CHOOSE k \in DOMAIN stages : stages[k].when /\ \A j \in 1 .. k - 1 : ~stages[j].when].then

Stage(when, then) == [when |-> when, then |-> then]

IsVersion(text) == text.form = "version"

SameMembers(s, t) == ToSet(s) = ToSet(t) /\ Len(s) = Len(t)

---------------------------------------------------------------------------
(* Reading the catalogue.                                                  *)

CardEditions(files) == SelectSeq(files.editions, LAMBDA e : e.card # "")

CardsAreUnique(files) ==
    LET cards == CardEditions(files) IN
    /\ \A k \in DOMAIN cards : cards[k].id # ""
    /\ \A j, k \in DOMAIN cards : cards[j].card = cards[k].card => j = k

(* The address map of a card, by the identity rows it documents.           *)
MapScope(rows) ==
    LET own == {r \in ToSet(rows) : r.endpoint = "inverter" /\ r.offset # Missing}
        text == {r \in own : r.offset = ModelOffset /\ r.quantity = ModelQuantity}
        identifier == {r \in own : r.offset = IdentifierOffset /\ r.quantity = 1}
        other == {r \in own \ (text \union identifier) : r.modelID /\ r.quantity = 1}
    IN IF text # {} /\ identifier # {} THEN "INVERTER_MAP"
       ELSE IF text = {} /\ identifier = {} /\ other # {} THEN "C81_MAP"
       ELSE ""

RegistersBind(files) ==
    LET cards == ToSet(CardEditions(files))
        maps == files.registers
    IN /\ \A k \in DOMAIN maps :
           /\ [id |-> maps[k].edition, card |-> maps[k].card] \in cards
           /\ MapScope(maps[k].rows) # ""
       /\ \A j, k \in DOMAIN maps : maps[j].card = maps[k].card => j = k
       /\ \A c \in cards : \E k \in DOMAIN maps : maps[k].card = c.card

ScopeOfCard(files, card) ==
    MapScope((CHOOSE m \in ToSet(files.registers) : m.card = card).rows)

(* The card of an edition: of two cards that name it, the last one read.   *)
CardOf(files, edition) == SelectLastInSeq(CardEditions(files), LAMBDA e : e.id = edition)

ValidRow(row) ==
    /\ row.token # "" /\ row.floor # NoText
    /\ row.basis = "document" <=> row.requirement # ""
    /\ row.identifier \in {Missing} \union 0 .. MaxIdentifier

(* An alias holds only for the identifier of its row at an inverter unit.  *)
AliasApplies(row, scope, alias) ==
    /\ alias.token # ""
    /\ row.identifier # Missing /\ alias.identifier = row.identifier
    /\ alias.atInverter /\ scope = "INVERTER_MAP"

Entry(files, row) ==
    LET card == CardEditions(files)[CardOf(files, row.edition)].card
        scope == ScopeOfCard(files, card)
    IN [card |-> card, scope |-> scope, edition |-> row.edition, token |-> row.token,
        identifier |-> row.identifier, floor |-> row.floor,
        aliases |-> {a.token : a \in {b \in row.aliases : AliasApplies(row, scope, b)}}]

(* The rows of the card editions; nothing when the catalogue is refused.   *)
LoadInverterCatalogue(files) ==
    LET rows == SelectSeq(files.rows, LAMBDA r : CardOf(files, r.edition) # 0)
    IN IF CardsAreUnique(files) /\ RegistersBind(files) /\ \A k \in DOMAIN rows : ValidRow(rows[k])
       THEN [k \in DOMAIN rows |-> Entry(files, rows[k])]
       ELSE <<>>

---------------------------------------------------------------------------
(* The decision.                                                           *)

(* Two texts are compared only within one branch, on the parts both carry. *)
Apart(build, floor) ==
    \/ floor.product # "" /\ build.product # "" /\ floor.product # build.product
    \/ floor.line # build.line \/ floor.release # build.release
    \/ floor.branch # Missing /\ build.branch # Missing /\ floor.branch # build.branch

(* Faulty variant: any two builds of one line are compared.                *)
FloorRelationAcross(build, floor) ==
    IF ~IsVersion(floor) THEN "FLOOR_OUTSIDE_BRANCH_FORM"
    ELSE IF floor.line # build.line THEN "NO_DOCUMENTED_RELATION"
    ELSE IF floor.branch = Missing \/ (build.branch # Missing /\ floor.build = Missing) THEN "AT_OR_ABOVE"
    ELSE IF build.branch = Missing \/ build.build = Missing THEN "EQUAL_ON_CARRIED_PARTS"
    ELSE IF build.build >= floor.build THEN "AT_OR_ABOVE" ELSE "BELOW"

FloorRelation(build, floor) ==
    IF ~IsVersion(floor) THEN "FLOOR_OUTSIDE_BRANCH_FORM"
    ELSE IF Apart(build, floor) THEN "NO_DOCUMENTED_RELATION"
    ELSE IF floor.branch = Missing \/ (build.branch # Missing /\ floor.build = Missing) THEN "AT_OR_ABOVE"
    ELSE IF build.branch = Missing \/ build.build = Missing THEN "EQUAL_ON_CARRIED_PARTS"
    ELSE IF build.build >= floor.build THEN "AT_OR_ABOVE" ELSE "BELOW"

(* The software text, or the firmware text when no software text was read. *)
ComparedBuild(input) == IF input.software # NoText THEN input.software ELSE input.firmware

MatchedBy(entry, text) ==
    IF entry.token = text THEN "TOKEN" ELSE IF text \in entry.aliases THEN "WIRE_ALIAS" ELSE ""

MatchedRows(entries, text) ==
    SelectSeq([k \in DOMAIN entries |->
                  [row |-> entries[k], matchedBy |-> MatchedBy(entries[k], text), relation |-> "NOT_EVALUATED"]],
              LAMBDA r : r.matchedBy # "")

SelectionOf(outcome, reason, rows) == [outcome |-> outcome, reason |-> reason, candidates |-> rows]

NotSelected(reason, rows) == SelectionOf("NOT_SELECTED", reason, rows)

SelectedReason(relation) ==
    CASE relation = "AT_OR_ABOVE" -> "at_or_above_floor"
      [] relation = "EQUAL_ON_CARRIED_PARTS" -> "equal_on_carried_parts"
      [] relation = "NO_DOCUMENTED_RELATION" -> "no_documented_branch_relation"
      [] OTHER -> "floor_outside_branch_form"

DecideInverter(entries, input) ==
    LET build == ComparedBuild(input)
        named == input.identifier # Missing
        matched == MatchedRows(entries, input.model)
        identified == SelectSeq(matched, LAMBDA r : named => r.row.identifier = input.identifier)
        inScope == SelectSeq(identified, LAMBDA r : r.row.scope = input.scope)
        related == IF IsVersion(build)
                   THEN [k \in DOMAIN inScope |->
                            [inScope[k] EXCEPT !.relation = FloorRelation(build, inScope[k].row.floor)]]
                   ELSE inScope
        below == SelectSeq(related, LAMBDA r : r.relation = "BELOW")
        admitted == SelectSeq(related, LAMBDA r : r.relation # "BELOW")
        several == SelectionOf("AMBIGUOUS", "multiple_candidate_rows", admitted)
    IN FirstOf(<<
        Stage(input.model \notin ReadableModels, NotSelected("model_text_invalid", <<>>)),
        Stage(input.scope \notin ReadScopes, NotSelected("scope_invalid", <<>>)),
        Stage(build = Garbled, NotSelected("software_malformed", <<>>)),
        Stage(entries = <<>>, NotSelected("catalogue_invalid", <<>>)),
        Stage(matched = <<>>, NotSelected("no_catalogue_row", <<>>)),
        Stage(identified = <<>>, NotSelected("identifier_mismatch", matched)),
        Stage(inScope = <<>>, NotSelected("scope_mismatch", identified)),
        Stage(build = NoText /\ named, NotSelected("software_absent", inScope)),
        Stage(admitted = <<>>, NotSelected("below_floor", below)),
        Stage(Len(admitted) > 1, several),
        Stage(~named, NotSelected("identifier_absent", admitted)),
        Stage(TRUE, SelectionOf("SELECTED", IF admitted = <<>> THEN "" ELSE SelectedReason(admitted[1].relation),
                                admitted)) >>)

---------------------------------------------------------------------------

(* The rows that a selection may not pass over: those that name the model  *)
(* and its identifier in the address space that was read, less those whose *)
(* floor lies above the build in its own branch.                           *)
Admissible(entries, input) ==
    {k \in DOMAIN entries :
        LET e == entries[k]
            f == e.floor
            b == ComparedBuild(input)
        IN /\ input.model = e.token \/ input.model \in e.aliases
           /\ e.identifier = input.identifier /\ e.scope = input.scope
           /\ ~(/\ IsVersion(f) /\ IsVersion(b) /\ <<f.line, f.release, f.branch>> = <<b.line, b.release, b.branch>>
                /\ f.product \in {"", b.product} \/ b.product = ""
                /\ 0 <= b.build /\ b.build < f.build)}

(* A row is selected exactly when it is the only one left, with an         *)
(* identifier and a build to tell it by.  Nothing about the order of the   *)
(* rows, and no row of another model or address space, changes a decision; *)
(* an identifier can only narrow what the other words left open; a later   *)
(* build of a branch is never refused where an earlier one was admitted.   *)
InverterJustified(entries, input, decision) ==
    LET open == DecideInverter(entries, [input EXCEPT !.identifier = Missing])
        backwards == DecideInverter(Reverse(entries), input)
    IN /\ decision.outcome = "SELECTED" <=>
           /\ input.model \in ReadableModels /\ input.scope \in ReadScopes
           /\ input.identifier # Missing /\ IsVersion(ComparedBuild(input))
           /\ Cardinality(Admissible(entries, input)) = 1
       /\ decision.outcome = "SELECTED" =>
           /\ entries[CHOOSE k \in Admissible(entries, input) : TRUE] = decision.candidates[1].row
           /\ open.outcome # "SELECTED" /\ decision.candidates[1] \in ToSet(open.candidates)
       /\ <<backwards.outcome, backwards.reason>> = <<decision.outcome, decision.reason>>
       /\ SameMembers(backwards.candidates, decision.candidates)
       /\ \A n \in 0 .. 3 :
           LET later == [input EXCEPT !.software.build = n] IN
           IsVersion(input.software) /\ input.software.build \in 0 .. n /\ decision.outcome # "NOT_SELECTED"
               => DecideInverter(entries, later).outcome # "NOT_SELECTED"

================================================================================
