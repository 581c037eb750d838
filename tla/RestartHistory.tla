---------------------------- MODULE RestartHistory ----------------------------
(***************************************************************************)
(* validateLedgerRestartState and CoversTerminalWatermark against          *)
(* reference definitions, on restart states as a caller could hand them to *)
(* NewSampleLedgerFromRestart.                                             *)
(*                                                                         *)
(* A candidate is read one tombstone at a time, its sequences without a    *)
(* gap; kind, count, links and outcome of a tombstone take every value of  *)
(* TombstonesAt, well linked or not.  Once it is a history it can be       *)
(* remembered as the prior state and then changed: truncated, rewritten,   *)
(* rewound or extended.                                                    *)
(***************************************************************************)
EXTENDS LedgerRestart

CONSTANTS
    TombstoneLimit,     \* LedgerLimits.AuditTombstoneLimit
    AttemptOutcomes,    \* attempt outcomes tried
    OutcomesOfClaims    \* claim outcomes tried

VARIABLES
    candidate,  \* the restart state being read
    prior       \* a history remembered from before

vars == <<candidate, prior>>

EmptyAt(truncated) ==
    [next |-> IF truncated = MaxUint64 THEN 0 ELSE truncated + 1,
     exhausted |-> truncated = MaxUint64, truncated |-> truncated, audit |-> {}]

(* Any tombstone at a sequence, well linked or not. *)
TombstonesAt(seq) ==
    [kind : {"attempt"}, seq : {seq}, count : 0 .. MaxClaimEntries + 1, att : {0}, ord : {0},
     outcome : AttemptOutcomes]
    \cup
    [kind : {"claim"}, seq : {seq}, count : {0}, att : 0 .. seq, ord : 0 .. MaxClaimEntries,
     outcome : OutcomesOfClaims]

(* What may come after a full record; it makes it too long, whatever the   *)
(* rest is, so that fewer will do.                                         *)
OneTooMany(seq) ==
    {x \in TombstonesAt(seq) : x.ord = 0 /\ (x.kind = "claim" => x.outcome = ClaimSucceeded)}

Extended(r, x) ==
    LET end == EndSequence(r) + 1 IN
    [r EXCEPT !.next = IF end = MaxUint64 THEN 0 ELSE end + 1,
              !.exhausted = end = MaxUint64,
              !.audit = @ \cup {x}]

Valid(r) == ValidRestart(r, TombstoneLimit)

Init ==
    /\ candidate \in {EmptyAt(t) : t \in 0 .. MaxUint64}
    /\ prior = InitialRestart

Read ==
    /\ prior = InitialRestart
    /\ ~candidate.exhausted
    /\ \E x \in IF Cardinality(candidate.audit) < TombstoneLimit
               THEN TombstonesAt(candidate.next) ELSE OneTooMany(candidate.next) :
          candidate' = Extended(candidate, x)
    /\ UNCHANGED prior

Remember ==
    /\ prior = InitialRestart /\ candidate # InitialRestart
    /\ Valid(candidate)
    /\ prior' = candidate
    /\ UNCHANGED candidate

(* The oldest tombstone is given up. *)
Truncate ==
    /\ prior # InitialRestart /\ candidate.audit # {}
    /\ candidate' = [candidate EXCEPT
          !.truncated = @ + 1, !.audit = {x \in @ : x.seq # candidate.truncated + 1}]
    /\ UNCHANGED prior

(* An outcome is rewritten. *)
Rewrite ==
    /\ prior # InitialRestart
    /\ \E x \in candidate.audit :
          \E outcome \in IF x.kind = "attempt" THEN AttemptOutcomes ELSE OutcomesOfClaims :
              candidate' = [candidate EXCEPT !.audit = (@ \ {x}) \cup {[x EXCEPT !.outcome = outcome]}]
    /\ UNCHANGED prior

(* The newest tombstone is lost. *)
Rewind ==
    /\ prior # InitialRestart /\ candidate.audit # {}
    /\ LET end == EndSequence(candidate) IN
          candidate' = [candidate EXCEPT !.next = end, !.exhausted = FALSE,
                                         !.audit = {x \in @ : x.seq # end}]
    /\ UNCHANGED prior

(* One more attempt is recorded. *)
Record ==
    /\ prior # InitialRestart
    /\ \E claims \in 1 .. MaxClaimEntries, outcome \in AttemptOutcomes :
          /\ BatchAvailable(candidate.next, candidate.exhausted, claims)
          /\ candidate' =
                [candidate EXCEPT
                   !.next = NextAfterBatch(@, claims),
                   !.exhausted = ExhaustedAfterBatch(candidate.next, claims),
                   !.audit = @ \cup {AttemptTombstone(candidate.next, claims, outcome)} \cup
                       {ClaimTombstone(candidate.next, o, ClaimSucceeded) : o \in 0 .. claims - 1}]
    /\ UNCHANGED prior

Next == Read \/ Remember \/ Truncate \/ Rewrite \/ Rewind \/ Record

Spec == Init /\ [][Next]_vars

-----------------------------------------------------------------------------
(* Reference: the sequences 1 .. end were handed out in batches, an attempt *)
(* and then its claims, and audit is what the newest of them recorded.      *)
IsHistory(r) ==
    LET end == EndSequence(r)
        retained == r.truncated + 1 .. end
        newest == r.audit
        BatchOf(starts, q) == CHOOSE s \in starts : s <= q /\ \A u \in starts : u <= q => u <= s
        Size(starts, s) ==
            LET later == {u \in starts : u > s} IN
            IF later = {} THEN end - s ELSE (CHOOSE u \in later : \A v \in later : u <= v) - s - 1
        Recorded(starts, q, x) ==
            LET s == BatchOf(starts, q) IN
            IF s = q
            THEN /\ x.kind = "attempt" /\ x.count = Size(starts, s)
                 /\ x.count \in 1 .. MaxClaimEntries /\ x.att = 0 /\ x.ord = 0
            ELSE /\ x.kind = "claim" /\ x.count = 0 /\ x.att = s /\ x.ord = q - s - 1
                 /\ x.ord < MaxClaimEntries
    IN
    /\ r.truncated \in 0 .. end
    /\ r.exhausted <=> r.next = 0
    /\ Cardinality(newest) <= TombstoneLimit
    /\ \/ newest = {} /\ retained = {}
       \/ \E older \in 1 .. r.truncated + 1, newer \in SUBSET (r.truncated + 2 .. end) :
             LET starts == {older} \cup newer IN
             /\ \A x \in newest : x.seq \in retained
             /\ \A q \in retained :
                   /\ Cardinality({x \in newest : x.seq = q}) = 1
                   /\ \A x \in newest : x.seq = q =>
                         /\ Recorded(starts, q, x)
                         /\ \A y \in newest :
                               (y.kind = "attempt" /\ x.kind = "claim" /\ x.att = y.seq
                                  /\ y.outcome \in {"published", "publish_failed"})
                               => x.outcome = ClaimSucceeded

(* validateLedgerRestartState accepts exactly the suffixes of histories:   *)
(* it refuses every damaged record and no record the ledger could write.   *)
ValidIsHistory == Valid(candidate) <=> IsHistory(candidate)

(* CoversTerminalWatermark holds exactly when the candidate issues no      *)
(* sequence the prior had used and both agree on what both retain.         *)
CoversIsSafeSuccessor ==
    (Valid(candidate) /\ Valid(prior)) =>
        (Covers(candidate, prior) <=>
            /\ EndSequence(candidate) >= EndSequence(prior)
            /\ \A x \in candidate.audit, y \in prior.audit : x.seq = y.seq => x = y)
=============================================================================
