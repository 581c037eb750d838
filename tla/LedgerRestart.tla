---------------------------- MODULE LedgerRestart ----------------------------
(***************************************************************************)
(* The bounded restart history of the runtime ledger (runtime_ledger.go):  *)
(* audit tombstones, what makes a restart state acceptable, when one       *)
(* restart state covers another, and the history a terminal decision asks  *)
(* the committer to store.  The module has operators only; RuntimeLedger   *)
(* and RestartHistory build their state machines from them.                *)
(*                                                                         *)
(* A restart state is a record                                             *)
(*   next      : next terminal sequence, 0 once the width is used up       *)
(*   exhausted : no sequence is left                                       *)
(*   truncated : every sequence up to it has no retained record            *)
(*   audit     : the retained tombstones                                   *)
(* The code keeps audit sorted by sequence; here it is a set, and validity *)
(* asks for exactly one tombstone per sequence.                            *)
(***************************************************************************)
EXTENDS Integers, FiniteSets

CONSTANTS
    MaxUint64,          \* largest terminal sequence (math.MaxUint64)
    MaxClaimEntries     \* LedgerLimits.MaxClaimEntriesPerAttempt

ASSUME LedgerRestartAssumption ==
    /\ MaxUint64 \in Nat \ {0}
    /\ MaxClaimEntries \in Nat \ {0}

ClaimSucceeded == "claim_succeeded"
ClaimOutcomes ==
    {ClaimSucceeded, "capability_cancelled", "capability_failed",
     "capability_expired", "claim_rejected_terminal", "attempt_cancelled"}

TerminalPhases == {"published", "publish_failed", "cancel_failed", "cancelled"}

-----------------------------------------------------------------------------
(* Tombstones *)

AttemptTombstone(seq, count, outcome) ==
    [kind |-> "attempt", seq |-> seq, count |-> count, att |-> 0, ord |-> 0,
     outcome |-> outcome]

ClaimTombstone(attSeq, ord, outcome) ==
    [kind |-> "claim", seq |-> attSeq + ord + 1, count |-> 0, att |-> attSeq,
     ord |-> ord, outcome |-> outcome]

ValidTombstone(x) ==
    \/ /\ x.kind = "attempt"
       /\ x.outcome \in TerminalPhases
       /\ x.seq # 0 /\ x.count # 0
       /\ x.att = 0 /\ x.ord = 0
    \/ /\ x.kind = "claim"
       /\ x.outcome \in ClaimOutcomes
       /\ x.seq # 0 /\ x.count = 0
       /\ x.att # 0

Sequences(audit) == {x.seq : x \in audit}

-----------------------------------------------------------------------------
(* validateLedgerRestartState *)

EndSequence(r) == IF r.exhausted THEN MaxUint64 ELSE r.next - 1

ClaimsOf(r) == {x \in r.audit : x.kind = "claim"}
AttemptsOf(r) == {x \in r.audit : x.kind = "attempt"}

(* One tombstone for every sequence after the truncation watermark. *)
ContiguousHistory(r) ==
    /\ \A x \in r.audit : ValidTombstone(x)
    /\ Sequences(r.audit) = (r.truncated + 1) .. EndSequence(r)
    /\ \A x, y \in r.audit : x.seq = y.seq => x = y

(* Claims whose attempt record was truncated: one ordinal suffix of one    *)
(* attempt, ahead of every retained attempt.                               *)
LeadingClaims(r) == {x \in ClaimsOf(r) : x.att <= r.truncated}

LeadingSuffix(r) ==
    /\ \A x \in LeadingClaims(r), y \in AttemptsOf(r) : x.seq < y.seq
    /\ \A x, y \in LeadingClaims(r) :
          /\ x.att = y.att
          /\ x.seq < y.seq =>
                \E z \in LeadingClaims(r) : z.seq <= y.seq /\ z.ord = x.ord + 1

(* Every retained claim sits at its own place of its attempt's interval,   *)
(* and follows its predecessor unless the predecessor was truncated.       *)
ClaimLinks(r) ==
    \A x \in ClaimsOf(r) :
        /\ x.ord < MaxClaimEntries
        /\ x.seq = x.att + x.ord + 1
        /\ x.att > r.truncated =>
              /\ \E y \in AttemptsOf(r) : y.seq = x.att
              /\ x.ord # 0 =>
                    \E z \in ClaimsOf(r) : z.att = x.att /\ z.ord = x.ord - 1
        /\ \A y \in AttemptsOf(r) : y.seq = x.att => x.ord < y.count

(* Faulty variant: an attempt's interval may reach past the newest record. *)
AttemptIntervalsOpen(r) ==
    \A y \in AttemptsOf(r) :
        /\ y.count <= MaxClaimEntries
        /\ \A ord \in 0 .. y.count - 1 :
              y.seq + ord < EndSequence(r) => \E x \in ClaimsOf(r) : x.att = y.seq /\ x.ord = ord

(* Every retained attempt has its whole claim interval, and a publication  *)
(* was only ever decided over successful claims.                           *)
AttemptIntervals(r) ==
    \A y \in AttemptsOf(r) :
        /\ y.count <= MaxClaimEntries
        /\ y.seq + y.count <= EndSequence(r)
        /\ \A ord \in 0 .. y.count - 1 :
              \E x \in ClaimsOf(r) :
                  /\ x.att = y.seq /\ x.ord = ord /\ x.seq = y.seq + ord + 1
                  /\ y.outcome \in {"published", "publish_failed"} =>
                        x.outcome = ClaimSucceeded

ValidRestart(r, tombstoneLimit) ==
    /\ Cardinality(r.audit) <= tombstoneLimit
    /\ r.exhausted <=> r.next = 0
    /\ r.truncated <= EndSequence(r)
    /\ IF r.audit = {} THEN r.truncated = EndSequence(r)
       ELSE /\ ContiguousHistory(r)
            /\ LeadingSuffix(r)
            /\ ClaimLinks(r)
            /\ AttemptIntervals(r)

InitialRestart == [next |-> 1, exhausted |-> FALSE, truncated |-> 0, audit |-> {}]

(* validateSampleRestartRelationship *)
RelatedToSample(r, revision) ==
    LET published == Cardinality({x \in AttemptsOf(r) : x.outcome = "published"})
    IN  /\ IF r.truncated = 0 THEN published = revision ELSE published <= revision
        /\ revision # 0 =>
              /\ revision <= MaxUint64 \div 2
              /\ r.exhausted \/ r.next - 1 >= 2 * revision

-----------------------------------------------------------------------------
(* LedgerRestartState.CoversTerminalWatermark.  The receiver is validated  *)
(* against the largest configuration the contract accepts, so the          *)
(* tombstone limit never binds.                                            *)
Covers(r, prior) ==
    /\ ValidRestart(r, MaxUint64 + 1) /\ ValidRestart(prior, MaxUint64 + 1)
    /\ prior.exhausted => r.exhausted
    /\ (~r.exhausted /\ ~prior.exhausted) => r.next >= prior.next
    /\ \A x \in prior.audit : x.seq <= r.truncated \/ x \in r.audit

-----------------------------------------------------------------------------
(* SampleLedger.reserveTerminalBatchLocked and terminalBatchAvailableLocked *)

BatchAvailable(next, exhausted, claims) ==
    /\ ~exhausted /\ next # 0 /\ claims > 0
    /\ claims <= MaxUint64 - next

(* Faulty variant: the next sequence runs past the width. *)
NextAfterBatchNoWrap(next, claims) == next + claims + 1

NextAfterBatch(next, claims) ==
    IF next + claims = MaxUint64 THEN 0 ELSE next + claims + 1

ExhaustedAfterBatch(next, claims) == next + claims = MaxUint64

-----------------------------------------------------------------------------
(* SampleLedger.terminalRestartStateLocked: the history with the tombstones *)
(* of one more attempt.  The sequences it ends at are those allocated, live *)
(* attempts included; a gap a live attempt leaves in the history truncates *)
(* all of it.                                                              *)

Conflicting(audit) == \E x, y \in audit : x.seq = y.seq /\ x # y

(* First sequence of the run of consecutive sequences of S that ends at    *)
(* end.                                                                    *)
RunStart(S, end) ==
    CHOOSE s \in S : /\ s <= end /\ s .. end \subseteq S
                     /\ s - 1 \notin S

(* Faulty variant: one tombstone more than the limit. *)
TrimmedOneMore(start, end, limit) == IF end - start + 1 > limit THEN end - limit ELSE start

(* The newest limit sequences of start .. end. *)
Trimmed(start, end, limit) == IF end - start + 1 > limit THEN end - limit + 1 ELSE start

TerminalRestart(durable, next, exhausted, records, tombstoneLimit) ==
    LET combined == durable.audit \cup records
        S == Sequences(combined)
        end == IF exhausted THEN MaxUint64 ELSE next - 1
        keeps == /\ end \in S
                 /\ durable.truncated # MaxUint64
                 /\ RunStart(S, end) = durable.truncated + 1
        first == Trimmed(durable.truncated + 1, end, tombstoneLimit)
    IN  [next |-> next,
         exhausted |-> exhausted,
         truncated |-> IF keeps THEN first - 1 ELSE end,
         audit |-> IF keeps THEN {x \in combined : x.seq \in first .. end} ELSE {}]
=============================================================================
