------------------------------- MODULE Detection -------------------------------
(***************************************************************************)
(* Detect: a plan of identity reads is executed one read after another, a  *)
(* caller's reader answers each, and the candidates of the catalog are     *)
(* judged by what was read.  Every outcome leaves as a decision that is    *)
(* validated in its durable form before the caller gets it.                *)
(*                                                                         *)
(* A word is a pair of bytes; a text is a sequence of bytes.  Versions are *)
(* numbers in their order, 0 the zero Version.                             *)
(***************************************************************************)
EXTENDS Naturals, SequencesExt

CONSTANTS
    AddressSpace,       \* PDU addresses (65536)
    MaxContractWords,   \* MaxRawWords
    MaxContractItems,   \* MaxProfileDependencies
    Printable,          \* the bytes 0x20..0x7e in use
    VersionTexts,       \* the texts ParseVersion accepts, with their version
    DetectorSpecs,      \* ProfileDetectorSpec values
    Replies,              \* word sequences a reader returns
    EvidenceIDs,        \* evidence identities a reader returns, None among them
    None

VARIABLE detection      \* one call of Detect

Fields == <<"manufacturer", "model", "firmware">>

-----------------------------------------------------------------------------
(* Declarations *)

(* validateDetectionLimits *)
ValidLimits(l) ==
    /\ l.declarations \in 1 .. MaxContractItems /\ l.reads \in 1 .. MaxContractItems
    /\ l.words \in 1 .. MaxContractWords /\ l.identity > 0
    /\ l.total \in 1 .. l.declarations * l.words

TotalWords(declarations) == FoldLeft(LAMBDA n, d : n + d.words, 0, declarations)

(* NewProbePlan *)
ValidPlan(plan, l) ==
    LET ds == plan.declarations IN
    /\ plan.version # 0
    /\ Len(ds) \in 1 .. l.declarations /\ Len(ds) <= l.reads
    /\ \A i \in DOMAIN ds :
          /\ ds[i].field \in Range(Fields)
          /\ ds[i].words \in 1 .. l.words
          /\ ds[i].address + ds[i].words - 1 < AddressSpace
    /\ \A i, j \in DOMAIN ds : ds[i].id = ds[j].id \/ ds[i].field = ds[j].field => i = j
    /\ TotalWords(ds) <= l.total

(* NewDetectionCandidate *)
ValidCandidate(c) ==
    /\ c.profile # None /\ c.version # 0 /\ c.score # 0
    /\ c.minimum # 0 /\ c.minimum < c.maximum

(* The profile of the catalog that a candidate names. *)
ProfileOf(spec, c) == CHOOSE p \in spec.catalog : p.id = c.profile

(* NewProfileDetector *)
ValidDetector(spec) ==
    LET cs == spec.candidates IN
    /\ ValidLimits(spec.limits)
    /\ spec.version # 0 /\ Len(cs) \in 1 .. MaxContractItems
    /\ ValidPlan(spec.plan, spec.limits)
    /\ spec.plan.version = spec.version
    /\ Range(Fields) = {spec.plan.declarations[i].field : i \in DOMAIN spec.plan.declarations}
    /\ \A i \in DOMAIN cs :
          /\ ValidCandidate(cs[i])
          /\ \E p \in spec.catalog :
                /\ p.id = cs[i].profile /\ p.version = cs[i].version
                /\ p.detector = spec.version /\ p.qualification # 0
    /\ \A i, j \in DOMAIN cs : cs[i].profile = cs[j].profile => i = j

(* The candidates in the order of their profiles. *)
Bound(spec) == SortSeq(spec.candidates, LAMBDA c, d : c.profile < d.profile)

-----------------------------------------------------------------------------
(* Reading *)

(* ProbeReadResult.validWithin *)
ValidResult(r, l) ==
    /\ r.id # None
    /\ \/ r.status = "succeeded" /\ Len(r.words) \in 1 .. l.words
       \/ r.status = "exception" /\ r.words = <<>>

Trimmed(text) ==
    LET ends == {0} \cup {i \in DOMAIN text : text[i] # 0}
    IN SubSeq(text, 1, CHOOSE i \in ends : \A j \in ends : j <= i)

(* decodeProbeASCII: None when the words name no identity. *)
Decode(words, l) ==
    LET text == Trimmed(FlattenSeq(words)) IN
    IF text # <<>> /\ Len(text) <= l.identity /\ Range(text) \subseteq Printable
    THEN text ELSE None

-----------------------------------------------------------------------------
(* Judging *)

(* Faulty variant: a replaced profile is selected again.                   *)
EligibilityOfReplaced(p, c, allowFixture) ==
    CASE p.state = "revoked" -> "profile_revoked"
      [] p.maturity # "qualified" -> "profile_unqualified"
      [] ~p.enabled -> "profile_default_off"
      [] ~c.enabled -> "candidate_disabled"
      [] c.fixture /\ ~allowFixture -> "fixture_opt_in_required"
      [] OTHER -> None

(* candidateEligibilityReason                                              *)
Eligibility(p, c, allowFixture) ==
    CASE p.state = "revoked" -> "profile_revoked"
      [] p.state = "superseded" -> "profile_superseded"
      [] p.maturity # "qualified" -> "profile_unqualified"
      [] ~p.enabled -> "profile_default_off"
      [] ~c.enabled -> "candidate_disabled"
      [] c.fixture /\ ~allowFixture -> "fixture_opt_in_required"
      [] OTHER -> None

(* evaluateCandidate: how many gates a candidate passes, and how it ends.  *)
Evaluate(spec, c, identities, allowFixture) ==
    LET p == ProfileOf(spec, c)
        refused == Eligibility(p, c, allowFixture)
        firmware == VersionTexts[identities["firmware"].value]
        End(gates, reason) ==
            [profile |-> p.id, version |-> p.version, score |-> c.score, detector |-> p.detector,
             reason |-> reason, gates |-> SubSeq(Fields, 1, gates),
             ids |-> [i \in 1 .. gates |-> identities[Fields[i]].id]]
    IN CASE refused # None -> End(0, refused)
         [] identities["manufacturer"].value # c.manufacturer -> End(0, "identity_mismatch")
         [] identities["model"].value # c.model -> End(1, "identity_mismatch")
         [] identities["firmware"].value \notin DOMAIN VersionTexts -> End(2, "invalid_identity")
         [] firmware < c.minimum \/ firmware >= c.maximum -> End(2, "firmware_mismatch")
         [] OTHER -> End(3, "selected")

Priorities ==
    <<"invalid_identity", "identity_mismatch", "firmware_mismatch", "fixture_opt_in_required",
      "profile_revoked", "profile_superseded", "profile_unqualified", "profile_default_off",
      "candidate_disabled">>

NoMatchReason(evidence) ==
    LET present == SelectSeq(Priorities, LAMBDA r : \E i \in DOMAIN evidence : evidence[i].reason = r)
    IN IF present = <<>> THEN "invalid_identity" ELSE Head(present)

Decision(outcome, reason, selected, evidence) ==
    [outcome |-> outcome, reason |-> reason, selected |-> selected, evidence |-> evidence]

NoSelection == [profile |-> None, version |-> 0]

Failure(spec, reason) ==
    Decision("no_match", reason, NoSelection,
        [i \in DOMAIN Bound(spec) |->
            LET c == Bound(spec)[i]  p == ProfileOf(spec, c) IN
            [profile |-> p.id, version |-> p.version, score |-> c.score, detector |-> p.detector,
             reason |-> reason, gates |-> <<>>, ids |-> <<>>]])

(* Whether one candidate passes every gate, none or several; the score is  *)
(* not asked.                                                              *)
Outcome(evidence) ==
    LET matched == {i \in DOMAIN evidence : evidence[i].reason = "selected"}
        one == CHOOSE i \in matched : TRUE
    IN CASE matched = {} -> Decision("no_match", NoMatchReason(evidence), NoSelection, evidence)
         [] Cardinality(matched) > 1 ->
                Decision("ambiguous", "multiple_matches", NoSelection,
                    [i \in DOMAIN evidence |->
                        IF i \in matched THEN [evidence[i] EXCEPT !.reason = "multiple_matches"]
                        ELSE evidence[i]])
         [] OTHER ->
                Decision("matched", "selected",
                    [profile |-> evidence[one].profile, version |-> evidence[one].version], evidence)

(* Faulty variant: the firmware is not parsed before the candidates.       *)
JudgeUnparsed(spec, identities, allowFixture) ==
    Outcome([i \in DOMAIN Bound(spec) |-> Evaluate(spec, Bound(spec)[i], identities, allowFixture)])

(* A firmware that is no version ends the call before any candidate does.  *)
Judge(spec, identities, allowFixture) ==
    IF identities["firmware"].value \notin DOMAIN VersionTexts THEN Failure(spec, "invalid_identity")
    ELSE Outcome([i \in DOMAIN Bound(spec) |-> Evaluate(spec, Bound(spec)[i], identities, allowFixture)])

-----------------------------------------------------------------------------
(* The durable form: what a decision must look like to be written, and to  *)
(* be read back.                                                           *)

Ranked == {"selected", "equal_best", "multiple_matches", "lower_score"}

(* validateDetectionEvidence *)
ValidEvidence(e) ==
    /\ e.profile # None /\ e.version # 0 /\ e.score # 0 /\ e.detector # 0
    /\ Len(e.ids) = Len(e.gates)
    /\ \A i, j \in DOMAIN e.gates :
          i < j => \E m, n \in DOMAIN Fields : m < n /\ Fields[m] = e.gates[i] /\ Fields[n] = e.gates[j]
    /\ IsInjective(e.ids) /\ None \notin Range(e.ids)
    /\ CASE e.reason \in Ranked -> Len(e.gates) = 3
         [] e.reason = "identity_mismatch" -> Len(e.gates) <= 1
         [] e.reason = "firmware_mismatch" -> Len(e.gates) = 2
         [] OTHER -> e.gates = <<>>

(* validateDetectionDecision *)
ValidDecision(d) ==
    LET ev == d.evidence
        Having(reason) == {i \in DOMAIN ev : ev[i].reason = reason}
    IN /\ Len(ev) \in 1 .. MaxContractItems
       /\ \A i \in DOMAIN ev : ValidEvidence(ev[i]) /\ ev[i].detector = ev[1].detector
       /\ \A i \in 2 .. Len(ev) : ev[i - 1].profile < ev[i].profile
       /\ \A i, j \in Having("equal_best") : ev[i].score = ev[j].score
       /\ CASE d.outcome = "matched" ->
                  /\ d.reason = "selected" /\ Having("equal_best") = {} /\ Having("multiple_matches") = {}
                  /\ \E i \in DOMAIN ev :
                        /\ Having("selected") = {i}
                        /\ d.selected = [profile |-> ev[i].profile, version |-> ev[i].version]
                        /\ \A j \in Having("lower_score") : ev[j].score < ev[i].score
            [] d.outcome = "ambiguous" ->
                  /\ d.selected = NoSelection /\ Having("selected") = {}
                  /\ \/ /\ d.reason = "equal_best" /\ Cardinality(Having("equal_best")) >= 2
                        /\ Having("multiple_matches") = {}
                        /\ \A i \in Having("equal_best"), j \in Having("lower_score") : ev[j].score < ev[i].score
                     \/ /\ d.reason = "multiple_matches" /\ Cardinality(Having("multiple_matches")) >= 2
                        /\ Having("equal_best") = {} /\ Having("lower_score") = {}
            [] d.outcome = "no_match" ->
                  /\ d.reason \notin Ranked /\ d.selected = NoSelection
                  /\ \A r \in Ranked : Having(r) = {}
                  /\ Having(d.reason) # {}

(* finalizeDecision: the decision, or the error that it cannot be written. *)
Finalized(d) == IF ValidDecision(d) THEN d ELSE [d EXCEPT !.outcome = "refused"]

-----------------------------------------------------------------------------
Declarations == detection.spec.plan.declarations

(* The prefix of the plan that was answered, as identities by field.       *)
Init ==
    \E spec \in DetectorSpecs, allowed \in BOOLEAN :
        /\ ValidDetector(spec)
        /\ detection = [spec |-> spec, allowFixture |-> allowed, cancelled |-> FALSE, asking |-> FALSE,
                        answers |-> <<>>, identities |-> [f \in {} |-> None], decision |-> None]

Running == detection.decision = None

Ends(d) == detection' = [detection EXCEPT !.asking = FALSE, !.decision = Finalized(d)]
Fails(reason) == Ends(Failure(detection.spec, reason))

(* The caller's context ends. *)
Cancel ==
    /\ Running /\ ~detection.cancelled
    /\ detection' = [detection EXCEPT !.cancelled = TRUE]

(* The next declaration is read, unless the context has ended. *)
ReadProbe ==
    /\ Running /\ ~detection.asking /\ Len(detection.answers) < Len(Declarations)
    /\ IF detection.cancelled THEN Fails("context_cancelled")
       ELSE detection' = [detection EXCEPT !.asking = TRUE]

(* The reader returns; an ended context goes before what it returned.      *)
ReadFails ==
    /\ Running /\ detection.asking
    /\ Fails(IF detection.cancelled THEN "context_cancelled" ELSE "read_error")

Refusal(r, d) ==
    LET l == detection.spec.limits
        prior == {detection.answers[i].id : i \in DOMAIN detection.answers}
        read == FoldLeft(LAMBDA n, a : n + Len(a.words), 0, detection.answers)
    IN CASE ~ValidResult(r, l) -> "invalid_probe_result"
         [] r.status = "exception" -> "probe_exception"
         [] Len(r.words) # d.words -> "incomplete_probe"
         [] read + Len(r.words) > l.total -> "invalid_probe_result"
         [] r.id \in prior -> "invalid_probe_result"
         [] Decode(r.words, l) = None -> "invalid_identity"
         [] OTHER -> None

ReadReturns(r) ==
    /\ Running /\ detection.asking
    /\ LET d == Declarations[Len(detection.answers) + 1]
           refusal == Refusal(r, d)
       IN IF detection.cancelled THEN Fails("context_cancelled")
          ELSE IF refusal # None THEN Fails(refusal)
          ELSE detection' =
                 [detection EXCEPT
                    !.asking = FALSE, !.answers = Append(@, r),
                    !.identities = [f \in DOMAIN @ \cup {d.field} |->
                        IF f = d.field THEN [value |-> Decode(r.words, detection.spec.limits), id |-> r.id]
                        ELSE @[f]]]

Conclude ==
    /\ Running /\ Len(detection.answers) = Len(Declarations)
    /\ Ends(Judge(detection.spec, detection.identities, detection.allowFixture))

Results ==
    [status : {"succeeded"}, words : Replies, id : EvidenceIDs]
        \cup {[status |-> "exception", words |-> <<>>, id |-> CHOOSE i \in EvidenceIDs : i # None]}

Next == Cancel \/ ReadProbe \/ ReadFails \/ Conclude \/ \E r \in Results : ReadReturns(r)

-----------------------------------------------------------------------------
(* What the device said a field holds, when it was asked and answered.     *)
Said(field) ==
    LET at == {i \in DOMAIN detection.answers : Declarations[i].field = field}
    IN IF at = {} THEN None ELSE Trimmed(FlattenSeq(detection.answers[CHOOSE i \in at : TRUE].words))

(* A candidate the answers speak for, and whose profile may be used.       *)
Speaks(c) ==
    LET p == ProfileOf(detection.spec, c) IN
    /\ Said("manufacturer") = c.manufacturer /\ Said("model") = c.model
    /\ \E v \in c.minimum .. c.maximum - 1 :
          Said("firmware") \in DOMAIN VersionTexts /\ VersionTexts[Said("firmware")] = v
    /\ p.state = "active" /\ p.maturity = "qualified" /\ p.enabled /\ c.enabled
    /\ c.fixture => detection.allowFixture

(* Whatever the reader returned and whenever the caller cancelled, Detect  *)
(* ends in a decision that its own durable form accepts, and so never in   *)
(* the error of a decision it cannot write.                                *)
DecisionIsDurable ==
    detection # None /\ detection.decision # None => detection.decision.outcome # "refused"

(* A profile is selected only for the device that answered: every read of  *)
(* the plan was answered in full and the answers speak for that candidate  *)
(* alone.  A second one makes it ambiguous, whatever the scores; and the   *)
(* candidates a decision reports as passing every gate are exactly those.  *)
DetectionIsExact ==
    detection # None /\ detection.decision # None =>
        LET d == detection.decision
            speakers == {c \in Range(detection.spec.candidates) : Speaks(c)}
            all == Len(detection.answers) = Len(Declarations)
        IN /\ d.outcome = "matched" <=> all /\ Cardinality(speakers) = 1
           /\ d.outcome = "ambiguous" <=> all /\ Cardinality(speakers) > 1
           /\ all => {e \in Range(d.evidence) : Len(e.gates) = 3 } =
                     {e \in Range(d.evidence) : \E c \in speakers : c.profile = e.profile}
           /\ d.outcome = "matched" => \E c \in speakers : d.selected = [profile |-> c.profile, version |-> c.version]

=============================================================================
