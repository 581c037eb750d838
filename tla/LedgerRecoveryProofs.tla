------------------------ MODULE LedgerRecoveryProofs ------------------------
(***************************************************************************)
(* Theorems about crashes and the audit history of the runtime ledger, for *)
(* every number of attempts, keys, goroutines, claims and crashes, every   *)
(* limit and every integer width: whatever the committer holds, a new      *)
(* process can start from it; nothing the ledger takes for durable is      *)
(* missing from it; and the ledger never refuses its own audit record.     *)
(*                                                                         *)
(* The first part is about restart histories alone: a valid history stays  *)
(* one when its oldest records are given up and when the batch of one more *)
(* attempt is recorded, so the history that terminalRestartStateLocked     *)
(* builds is valid, covers the one it was built from and lies strictly     *)
(* after it.  The second part is the inductive invariant over the ledger.  *)
(***************************************************************************)
EXTENDS LedgerStoreProofs

USE RuntimeLedgerAssumption, LedgerRestartAssumption

-----------------------------------------------------------------------------
(* Valid restart states                                                    *)

(* The watermarks of a restart state fit each other.                       *)
WellEnded(r) ==
    /\ r \in RestartType
    /\ r.exhausted <=> r.next = 0
    /\ r.truncated <= EndSequence(r)

(* What validateLedgerRestartState asks of the tombstones.                 *)
Shaped(r) == ContiguousHistory(r) /\ LeadingSuffix(r) /\ ClaimLinks(r) /\ AttemptIntervals(r)

LEMMA Ends ==
    ASSUME NEW r \in RestartType, r.exhausted <=> r.next = 0
    PROVE  /\ EndSequence(r) \in 0 .. MaxUint64
           /\ r.truncated \in 0 .. MaxUint64
           /\ r.audit \in SUBSET TombstoneType
           /\ IsFiniteSet({}) /\ Cardinality({}) = 0
  BY FS_EmptySet DEF EndSequence, RestartType

(* A history retains one tombstone for each sequence since its truncation. *)
LEMMA RetainedCount ==
    ASSUME NEW r, WellEnded(r), ContiguousHistory(r)
    PROVE  /\ IsFiniteSet(r.audit)
           /\ Cardinality(r.audit) = EndSequence(r) - r.truncated
<1> DEFINE window == r.truncated + 1 .. EndSequence(r)
           f == [x \in r.audit |-> x.seq]
<1>1. EndSequence(r) \in Nat /\ r.truncated \in Nat /\ r.truncated <= EndSequence(r)
  BY Ends DEF WellEnded
<1>2. /\ \A x \in r.audit : x.seq \in window
      /\ \A n \in window : \E x \in r.audit : x.seq = n
      /\ \A x, y \in r.audit : x.seq = y.seq => x = y
  BY DEF ContiguousHistory, Sequences
<1>3. f \in Injection(r.audit, window) /\ f \in Surjection(r.audit, window)
  <2>1. f \in [r.audit -> window]
    BY <1>2
  <2> QED
    BY <1>2, <2>1 DEF Injection, Surjection, IsInjective
<1>4. IsFiniteSet(window) /\ Cardinality(window) = EndSequence(r) - r.truncated
  <2>1. PICK lo, hi \in Int : lo = r.truncated + 1 /\ hi = EndSequence(r)
    BY <1>1
  <2>2. IsFiniteSet(lo .. hi) /\ Cardinality(lo .. hi) = IF lo > hi THEN 0 ELSE hi - lo + 1
    BY FS_Interval
  <2> QED
    BY <1>1, <2>1, <2>2
<1> HIDE DEF window, f
<1> QED
  BY <1>3, <1>4, FS_Injection

(* Validity, with the limit as a bound on what is retained.                *)
LEMMA ValidIs ==
    ASSUME NEW r \in RestartType, NEW limit \in Nat
    PROVE  ValidRestart(r, limit)
             <=> WellEnded(r) /\ Shaped(r) /\ EndSequence(r) - r.truncated <= limit
<1>1. ASSUME WellEnded(r), r.audit = {}
      PROVE  /\ Shaped(r) <=> r.truncated = EndSequence(r)
             /\ Cardinality(r.audit) = 0
  <2>1. ContiguousHistory(r) <=> r.truncated + 1 .. EndSequence(r) = {}
    BY <1>1 DEF ContiguousHistory, Sequences
  <2>2. /\ EndSequence(r) \in Nat /\ r.truncated \in Nat /\ r.truncated <= EndSequence(r)
        /\ Cardinality({}) = 0
    BY <1>1, Ends DEF WellEnded
  <2>3. r.truncated + 1 .. EndSequence(r) = {} <=> r.truncated = EndSequence(r)
    BY <2>2
  <2>4. LeadingSuffix(r) /\ ClaimLinks(r) /\ AttemptIntervals(r)
    BY <1>1 DEF LeadingSuffix, LeadingClaims, ClaimLinks, AttemptIntervals, ClaimsOf, AttemptsOf
  <2> QED
    BY <1>1, <2>1, <2>2, <2>3, <2>4 DEF Shaped
<1>2. CASE ~WellEnded(r)
  BY <1>2 DEF ValidRestart, WellEnded
<1>3. CASE WellEnded(r) /\ r.audit = {}
  <2>1. EndSequence(r) \in Nat /\ r.truncated \in Nat
    BY <1>3, Ends DEF WellEnded
  <2> QED
    BY <1>1, <1>3, <2>1 DEF ValidRestart, WellEnded
<1>4. CASE WellEnded(r) /\ r.audit # {}
  BY <1>4, RetainedCount DEF ValidRestart, WellEnded, Shaped
<1> QED
  BY <1>2, <1>3, <1>4

(* A larger limit accepts as much, and the largest never binds.            *)
LEMMA ValidAtAnyLimit ==
    ASSUME NEW r \in RestartType, NEW limit \in Nat, ValidRestart(r, limit)
    PROVE  ValidRestart(r, MaxUint64 + 1)
<1>1. WellEnded(r) /\ Shaped(r)
  BY ValidIs
<1>2. EndSequence(r) - r.truncated <= MaxUint64 + 1
  BY <1>1, Ends DEF WellEnded
<1> QED
  BY <1>1, <1>2, ValidIs

-----------------------------------------------------------------------------
(* How claims and attempts lie in a history                                *)

LEMMA TombstoneFacts ==
    ASSUME NEW r, WellEnded(r), Shaped(r)
    PROVE  /\ EndSequence(r) \in Nat /\ r.truncated \in Nat /\ MaxClaimEntries \in Nat
           /\ \A x \in r.audit :
                 /\ x.seq \in r.truncated + 1 .. EndSequence(r)
                 /\ x.seq \in Nat /\ x.att \in Nat /\ x.ord \in Nat /\ x.count \in Nat
                 /\ ValidTombstone(x)
                 /\ x.kind = "claim" <=> x \in ClaimsOf(r)
                 /\ x.kind = "attempt" <=> x \in AttemptsOf(r)
                 /\ x \in ClaimsOf(r) \/ x \in AttemptsOf(r)
           /\ \A x, y \in r.audit : x.seq = y.seq => x = y
           /\ \A n \in r.truncated + 1 .. EndSequence(r) : \E x \in r.audit : x.seq = n
           /\ ClaimsOf(r) \subseteq r.audit /\ AttemptsOf(r) \subseteq r.audit
           /\ ClaimsOf(r) \cap AttemptsOf(r) = {}
<1>1. /\ EndSequence(r) \in Nat /\ r.truncated \in Nat /\ MaxClaimEntries \in Nat
      /\ r.audit \in SUBSET TombstoneType
  BY Ends DEF WellEnded
<1>2. /\ \A x \in r.audit : x.seq \in r.truncated + 1 .. EndSequence(r)
      /\ \A x, y \in r.audit : x.seq = y.seq => x = y
      /\ \A n \in r.truncated + 1 .. EndSequence(r) : \E x \in r.audit : x.seq = n
      /\ \A x \in r.audit : ValidTombstone(x)
  BY DEF Shaped, ContiguousHistory, Sequences
<1>3. \A x \in r.audit : /\ x.seq \in Nat /\ x.att \in Nat /\ x.ord \in Nat /\ x.count \in Nat
                         /\ x.kind \in {"attempt", "claim"}
  BY <1>1 DEF TombstoneType
<1> QED
  BY <1>1, <1>2, <1>3 DEF ClaimsOf, AttemptsOf

(* No attempt begins within the interval of another one.                   *)
LEMMA NoAttemptInside ==
    ASSUME NEW r, WellEnded(r), Shaped(r),
           NEW x \in ClaimsOf(r), NEW y \in AttemptsOf(r), x.att < y.seq
    PROVE  x.seq < y.seq
<1>0. /\ x \in r.audit /\ y \in r.audit /\ x.seq \in Nat /\ x.att \in Nat /\ x.ord \in Nat
      /\ y.seq \in Nat /\ y \notin ClaimsOf(r)
      /\ x.seq = x.att + x.ord + 1 /\ r.truncated \in Nat
  BY TombstoneFacts DEF Shaped, ClaimLinks
<1>1. CASE x.att <= r.truncated
  BY <1>1 DEF Shaped, LeadingSuffix, LeadingClaims
<1>2. CASE x.att > r.truncated
  <2>1. PICK own \in AttemptsOf(r) : own.seq = x.att /\ x.ord < own.count
    BY <1>2 DEF Shaped, ClaimLinks
  <2>2. SUFFICES ASSUME y.seq <= x.seq PROVE FALSE
    BY <1>0
  <2>3. PICK o \in Nat : o = y.seq - x.att - 1
    BY <1>0
  <2>4. own.count \in Nat
    BY <2>1, TombstoneFacts
  <2>5. o \in 0 .. own.count - 1 /\ own.seq + o + 1 = y.seq
    BY <1>0, <2>1, <2>2, <2>3, <2>4
  <2>6. PICK z \in ClaimsOf(r) : z.seq = own.seq + o + 1
    BY <2>5 DEF Shaped, AttemptIntervals
  <2>7. z = y
    BY <1>0, <2>5, <2>6, TombstoneFacts
  <2> QED
    BY <1>0, <2>6, <2>7
<1> QED
  BY <1>0, <1>1, <1>2

(* The claims of one attempt end before the next attempt begins, whether   *)
(* the attempts themselves are retained or not.                            *)
LEMMA ClaimsNest ==
    ASSUME NEW r, WellEnded(r), Shaped(r),
           NEW x \in ClaimsOf(r), NEW y \in ClaimsOf(r), x.att < y.att
    PROVE  x.seq < y.att
<1>0. x.att \in Nat /\ y.att \in Nat /\ r.truncated \in Nat
  BY TombstoneFacts
<1>1. CASE y.att <= r.truncated
  <2>1. x \in LeadingClaims(r) /\ y \in LeadingClaims(r)
    BY <1>0, <1>1 DEF LeadingClaims
  <2> QED
    BY <1>0, <2>1 DEF Shaped, LeadingSuffix
<1>2. CASE y.att > r.truncated
  <2>1. PICK z \in AttemptsOf(r) : z.seq = y.att
    BY <1>2 DEF Shaped, ClaimLinks
  <2> QED
    BY <2>1, NoAttemptInside
<1> QED
  BY <1>0, <1>1, <1>2

-----------------------------------------------------------------------------
(* Giving up the oldest records                                            *)

(* s retains the records of r from sequence first on.                      *)
Trims(s, r, first) ==
    /\ s.truncated = first - 1 /\ EndSequence(s) = EndSequence(r)
    /\ s.audit = {x \in r.audit : x.seq \in first .. EndSequence(r)}

LEMMA TrimmedFacts ==
    ASSUME NEW r, WellEnded(r), Shaped(r), NEW first \in Nat,
           first > r.truncated, NEW s, Trims(s, r, first)
    PROVE  /\ \A x \in r.audit : x \in s.audit <=> x.seq >= first
           /\ s.audit \subseteq r.audit
           /\ \A x \in ClaimsOf(r) : x \in ClaimsOf(s) <=> x.seq >= first
           /\ \A x \in AttemptsOf(r) : x \in AttemptsOf(s) <=> x.seq >= first
           /\ ClaimsOf(s) \subseteq ClaimsOf(r) /\ AttemptsOf(s) \subseteq AttemptsOf(r)
           /\ \A x \in s.audit : x.seq >= first
           /\ \A x : x \in LeadingClaims(s) <=> x \in ClaimsOf(s) /\ x.att < first
<1>1. \A x \in r.audit : x \in s.audit <=> x.seq >= first
  BY TombstoneFacts DEF Trims
<1>2. s.audit \subseteq r.audit
  BY DEF Trims
<1>3. \A x \in ClaimsOf(r) : x.att \in Nat
  BY TombstoneFacts
<1> QED
  BY <1>1, <1>2, <1>3 DEF ClaimsOf, AttemptsOf, LeadingClaims, Trims

LEMMA TrimmedShaped ==
    ASSUME NEW r, WellEnded(r), Shaped(r), NEW first \in Nat,
           first > r.truncated, first <= EndSequence(r) + 1, NEW s, Trims(s, r, first)
    PROVE  Shaped(s)
<1>0. /\ EndSequence(r) \in Nat /\ r.truncated \in Nat
      /\ s.truncated = first - 1 /\ EndSequence(s) = EndSequence(r)
      /\ \A x \in ClaimsOf(r) : x.seq = x.att + x.ord + 1 /\ x.ord < MaxClaimEntries
  BY TombstoneFacts DEF Trims, Shaped, ClaimLinks
<1>1. ContiguousHistory(s)
  <2>1. /\ \A x \in s.audit : ValidTombstone(x)
        /\ \A x, y \in s.audit : x.seq = y.seq => x = y
    BY TrimmedFacts, TombstoneFacts
  <2>2. \A x \in s.audit : x.seq \in first .. EndSequence(r)
    BY DEF Trims
  <2>3. ASSUME NEW n \in first .. EndSequence(r) PROVE n \in Sequences(s.audit)
    <3>1. PICK x \in r.audit : x.seq = n
      BY <1>0, TombstoneFacts
    <3> QED
      BY <3>1 DEF Trims, Sequences
  <2>4. Sequences(s.audit) = first .. EndSequence(r)
    BY <2>2, <2>3 DEF Sequences
  <2> QED
    BY <1>0, <2>1, <2>4 DEF ContiguousHistory
(* Two leading claims of s are claims of one attempt.                      *)
<1>2. ASSUME NEW x \in LeadingClaims(s), NEW y \in LeadingClaims(s) PROVE x.att = y.att
  <2>1. /\ x \in ClaimsOf(r) /\ y \in ClaimsOf(r) /\ x.att < first /\ y.att < first
        /\ x.seq >= first /\ y.seq >= first
        /\ x.att \in Nat /\ y.att \in Nat /\ x.seq \in Nat /\ y.seq \in Nat
    BY TrimmedFacts, TombstoneFacts
  <2>2. x.att < y.att => x.seq < y.att
    BY <2>1, ClaimsNest
  <2>3. y.att < x.att => y.seq < x.att
    BY <2>1, ClaimsNest
  <2> QED
    BY <2>1, <2>2, <2>3
<1>3. LeadingSuffix(s)
  <2>1. ASSUME NEW x \in LeadingClaims(s), NEW y \in AttemptsOf(s) PROVE x.seq < y.seq
    <3>1. /\ x \in ClaimsOf(r) /\ y \in AttemptsOf(r) /\ x.att < first /\ y.seq >= first
          /\ x.att \in Nat /\ y.seq \in Nat
      BY TrimmedFacts, TombstoneFacts
    <3> QED
      BY <3>1, NoAttemptInside
  <2>2. ASSUME NEW x \in LeadingClaims(s), NEW y \in LeadingClaims(s), x.seq < y.seq
        PROVE  \E z \in LeadingClaims(s) : z.seq <= y.seq /\ z.ord = x.ord + 1
    <3>1. /\ x \in ClaimsOf(r) /\ y \in ClaimsOf(r) /\ x.att = y.att /\ x.att < first
          /\ x.seq >= first /\ y.seq <= EndSequence(r)
          /\ x.att \in Nat /\ x.ord \in Nat /\ y.ord \in Nat /\ x.seq \in Nat /\ y.seq \in Nat
      BY <1>2, TrimmedFacts, TombstoneFacts
    <3>2. PICK z \in r.audit : z.seq = x.seq + 1
      <4>1. x.seq + 1 \in r.truncated + 1 .. EndSequence(r)
        BY <1>0, <2>2, <3>1
      <4> QED
        BY <4>1, TombstoneFacts
    <3>3. z \in ClaimsOf(r)
      <4>1. SUFFICES ASSUME z \in AttemptsOf(r) PROVE FALSE
        BY TombstoneFacts
      <4>2. x.att < z.seq /\ y.att < z.seq
        BY <1>0, <3>1, <3>2
      <4>3. y.seq < z.seq
        BY <3>1, <4>1, <4>2, NoAttemptInside
      <4> QED
        BY <2>2, <3>1, <3>2, <4>3
    <3>4. z.att \in Nat /\ z.ord \in Nat /\ z.seq = z.att + z.ord + 1
      BY <1>0, <3>3, TombstoneFacts
    <3>5. z.att = x.att
      <4>1. x.att < z.att => x.seq < z.att
        BY <3>1, <3>3, ClaimsNest
      <4>2. z.att < x.att => z.seq < x.att
        BY <3>1, <3>3, ClaimsNest
      <4> QED
        BY <1>0, <3>1, <3>2, <3>4, <4>1, <4>2
    <3>6. z \in LeadingClaims(s)
      BY <3>1, <3>2, <3>3, <3>5, TrimmedFacts
    <3>7. z.ord = x.ord + 1 /\ z.seq <= y.seq
      BY <1>0, <2>2, <3>1, <3>2, <3>4, <3>5
    <3> QED
      BY <3>6, <3>7
  <2> QED
    BY <1>2, <2>1, <2>2 DEF LeadingSuffix
<1>4. ClaimLinks(s)
  <2> SUFFICES ASSUME NEW x \in ClaimsOf(s)
               PROVE  /\ x.att > s.truncated =>
                            /\ \E y \in AttemptsOf(s) : y.seq = x.att
                            /\ x.ord # 0 =>
                                  \E z \in ClaimsOf(s) : z.att = x.att /\ z.ord = x.ord - 1
                      /\ \A y \in AttemptsOf(s) : y.seq = x.att => x.ord < y.count
    BY <1>0, TrimmedFacts DEF ClaimLinks
  <2>1. x \in ClaimsOf(r) /\ x.att \in Nat /\ x.ord \in Nat
    BY TrimmedFacts, TombstoneFacts
  <2>2. \A y \in AttemptsOf(s) : y.seq = x.att => x.ord < y.count
    BY <2>1, TrimmedFacts DEF Shaped, ClaimLinks
  <2>3. ASSUME x.att > s.truncated
        PROVE  \E y \in AttemptsOf(s) : y.seq = x.att
    <3>1. x.att >= first
      BY <1>0, <2>1, <2>3
    <3>2. PICK y \in AttemptsOf(r) : y.seq = x.att
      BY <1>0, <2>1, <3>1 DEF Shaped, ClaimLinks
    <3> QED
      BY <3>1, <3>2, TrimmedFacts
  <2>4. ASSUME x.att > s.truncated, x.ord # 0
        PROVE  \E z \in ClaimsOf(s) : z.att = x.att /\ z.ord = x.ord - 1
    <3>1. x.att >= first
      BY <1>0, <2>1, <2>4
    <3>2. PICK z \in ClaimsOf(r) : z.att = x.att /\ z.ord = x.ord - 1
      BY <1>0, <2>1, <2>4, <3>1 DEF Shaped, ClaimLinks
    <3>3. z.seq >= first
      BY <1>0, <2>1, <2>4, <3>1, <3>2
    <3> QED
      BY <3>2, <3>3, TrimmedFacts
  <2> QED
    BY <2>2, <2>3, <2>4
<1>5. AttemptIntervals(s)
  <2> SUFFICES ASSUME NEW y \in AttemptsOf(s)
               PROVE  /\ y.count <= MaxClaimEntries
                      /\ y.seq + y.count <= EndSequence(s)
                      /\ \A o \in 0 .. y.count - 1 :
                            \E x \in ClaimsOf(s) :
                                /\ x.att = y.seq /\ x.ord = o /\ x.seq = y.seq + o + 1
                                /\ y.outcome \in {"published", "publish_failed"} =>
                                      x.outcome = ClaimSucceeded
    BY DEF AttemptIntervals
  <2>1. y \in AttemptsOf(r) /\ y.seq >= first /\ y.seq \in Nat /\ y.count \in Nat
    BY TrimmedFacts, TombstoneFacts
  <2>2. y.count <= MaxClaimEntries /\ y.seq + y.count <= EndSequence(s)
    BY <1>0, <2>1 DEF Shaped, AttemptIntervals
  <2>3. ASSUME NEW o \in 0 .. y.count - 1
        PROVE  \E x \in ClaimsOf(s) :
                  /\ x.att = y.seq /\ x.ord = o /\ x.seq = y.seq + o + 1
                  /\ y.outcome \in {"published", "publish_failed"} => x.outcome = ClaimSucceeded
    <3>1. PICK x \in ClaimsOf(r) :
            /\ x.att = y.seq /\ x.ord = o /\ x.seq = y.seq + o + 1
            /\ y.outcome \in {"published", "publish_failed"} => x.outcome = ClaimSucceeded
      BY <2>1 DEF Shaped, AttemptIntervals
    <3>2. x.seq >= first
      BY <2>1, <3>1
    <3> QED
      BY <3>1, <3>2, TrimmedFacts
  <2> QED
    BY <2>2, <2>3
<1> QED
  BY <1>1, <1>3, <1>4, <1>5 DEF Shaped

-----------------------------------------------------------------------------
(* Recording the batch of one more attempt                                 *)

PublicationOutcomes == {"published", "publish_failed"}

(* The tombstones of an attempt that took the sequences from q on.         *)
BatchAt(q) == q .. q + ClaimCount

Batch(q, out, claim) ==
    {AttemptTombstone(q, ClaimCount, out)} \cup {ClaimTombstone(q, o, claim[o]) : o \in Ordinals}

(* What can be recorded: every claim has its outcome, and a publication    *)
(* was decided over successful claims.                                     *)
Recordable(q, out, claim) ==
    /\ q \in Nat \ {0} /\ out \in TerminalPhases /\ claim \in [Ordinals -> ClaimOutcomes]
    /\ out \in PublicationOutcomes => \A o \in Ordinals : claim[o] = ClaimSucceeded

LEMMA BatchFacts ==
    ASSUME NEW q, NEW out, NEW claim, Recordable(q, out, claim)
    PROVE  /\ Batch(q, out, claim) \in SUBSET TombstoneType
           /\ Sequences(Batch(q, out, claim)) = BatchAt(q)
           /\ \A x, y \in Batch(q, out, claim) : x.seq = y.seq => x = y
           /\ \A x \in Batch(q, out, claim) :
                 /\ ValidTombstone(x)
                 /\ x.kind = "attempt" => x = AttemptTombstone(q, ClaimCount, out)
                 /\ x.kind = "claim" =>
                       \E o \in Ordinals : x = ClaimTombstone(q, o, claim[o])
           /\ AttemptTombstone(q, ClaimCount, out) \in Batch(q, out, claim)
           /\ \A o \in Ordinals : ClaimTombstone(q, o, claim[o]) \in Batch(q, out, claim)
<1> DEFINE y == AttemptTombstone(q, ClaimCount, out)
           x(o) == ClaimTombstone(q, o, claim[o])
<1>0. /\ q \in Nat \ {0} /\ ClaimCount \in Nat \ {0} /\ out \in TerminalPhases
      /\ \A o \in Ordinals : o \in Nat /\ o < ClaimCount /\ claim[o] \in ClaimOutcomes
  BY DEF Recordable, Ordinals
<1>1. y.kind = "attempt" /\ y.seq = q /\ y \in TombstoneType /\ ValidTombstone(y)
  BY <1>0 DEF AttemptTombstone, TombstoneType, ValidTombstone
<1>2. \A o \in Ordinals : /\ x(o).kind = "claim" /\ x(o).seq = q + o + 1
                          /\ x(o) \in TombstoneType /\ ValidTombstone(x(o))
  BY <1>0 DEF ClaimTombstone, TombstoneType, ValidTombstone
<1>3. Batch(q, out, claim) = {y} \cup {x(o) : o \in Ordinals}
  BY DEF Batch
<1> HIDE DEF x, y
<1>4. Sequences(Batch(q, out, claim)) = BatchAt(q)
  <2>1. \A z \in Batch(q, out, claim) : z.seq \in BatchAt(q)
    BY <1>0, <1>1, <1>2, <1>3 DEF BatchAt
  <2>2. ASSUME NEW n \in BatchAt(q) PROVE \E z \in Batch(q, out, claim) : z.seq = n
    <3>1. CASE n = q
      BY <1>1, <1>3, <3>1
    <3>2. CASE n # q
      <4>1. n - q - 1 \in Ordinals
        BY <1>0, <3>2 DEF BatchAt, Ordinals
      <4>2. q + (n - q - 1) + 1 = n
        BY <1>0 DEF BatchAt
      <4> QED
        BY <1>2, <1>3, <4>1, <4>2
    <3> QED
      BY <3>1, <3>2
  <2> QED
    BY <2>1, <2>2 DEF Sequences
<1>5. \A z, w \in Batch(q, out, claim) : z.seq = w.seq => z = w
  BY <1>0, <1>1, <1>2, <1>3
<1>6. \A z \in Batch(q, out, claim) :
        /\ z.kind = "attempt" => z = y
        /\ z.kind = "claim" => \E o \in Ordinals : z = x(o)
  BY <1>1, <1>2, <1>3
<1> QED
  BY <1>1, <1>2, <1>3, <1>4, <1>5, <1>6 DEF x, y

(* s retains what r does, and the batch of the next attempt.               *)
Extends(s, r, out, claim) ==
    /\ s.truncated = r.truncated
    /\ EndSequence(s) = EndSequence(r) + 1 + ClaimCount
    /\ s.audit = r.audit \cup Batch(EndSequence(r) + 1, out, claim)

LEMMA ExtendedFacts ==
    ASSUME NEW r, WellEnded(r), Shaped(r), NEW out, NEW claim,
           Recordable(EndSequence(r) + 1, out, claim), NEW s, Extends(s, r, out, claim),
           NEW q, q = EndSequence(r) + 1, NEW y, y = AttemptTombstone(q, ClaimCount, out)
    PROVE  /\ q \in Nat /\ q > r.truncated /\ EndSequence(s) = q + ClaimCount
           /\ s.truncated = r.truncated
           /\ s.audit = r.audit \cup Batch(q, out, claim)
           /\ AttemptsOf(s) = AttemptsOf(r) \cup {y}
           /\ y.seq = q /\ y.count = ClaimCount /\ y.outcome = out
           /\ ClaimsOf(s) = ClaimsOf(r) \cup {ClaimTombstone(q, o, claim[o]) : o \in Ordinals}
           /\ \A o \in Ordinals :
                 LET x == ClaimTombstone(q, o, claim[o]) IN
                 /\ x.att = q /\ x.ord = o /\ x.seq = q + o + 1 /\ x.outcome = claim[o]
                 /\ x \in ClaimsOf(s) /\ o \in Nat /\ o < ClaimCount
           /\ \A x \in r.audit : x.seq < q
           /\ \A x \in ClaimsOf(r) : x.att < q
<1>1. /\ q \in Nat /\ q > r.truncated /\ s.truncated = r.truncated
      /\ EndSequence(s) = q + ClaimCount
      /\ s.audit = r.audit \cup Batch(q, out, claim)
      /\ ClaimCount \in Nat
      /\ Recordable(q, out, claim)
      /\ \A x \in r.audit : x.seq < q /\ x.seq \in Nat
  BY Ends, TombstoneFacts DEF Extends, WellEnded
<1>2. y.seq = q /\ y.count = ClaimCount /\ y.outcome = out /\ y.kind = "attempt"
  BY DEF AttemptTombstone
<1>3. \A o \in Ordinals :
        LET x == ClaimTombstone(q, o, claim[o]) IN
        /\ x.att = q /\ x.ord = o /\ x.seq = q + o + 1 /\ x.outcome = claim[o]
        /\ x.kind = "claim" /\ o \in Nat /\ o < ClaimCount
  BY <1>1 DEF ClaimTombstone, Ordinals
<1>4. /\ AttemptsOf(s) = AttemptsOf(r) \cup {y}
      /\ ClaimsOf(s) = ClaimsOf(r) \cup {ClaimTombstone(q, o, claim[o]) : o \in Ordinals}
  <2>1. \A x \in Batch(q, out, claim) :
          /\ x.kind = "attempt" => x = y
          /\ x.kind = "claim" => \E o \in Ordinals : x = ClaimTombstone(q, o, claim[o])
    BY <1>1, BatchFacts
  <2>2. y \in Batch(q, out, claim)
        /\ \A o \in Ordinals : ClaimTombstone(q, o, claim[o]) \in Batch(q, out, claim)
    BY <1>1, BatchFacts
  <2> QED
    BY <1>1, <1>2, <1>3, <2>1, <2>2 DEF AttemptsOf, ClaimsOf
<1>5. \A x \in ClaimsOf(r) : x.att < q
  <2>1. \A x \in ClaimsOf(r) : /\ x \in r.audit /\ x.att \in Nat /\ x.ord \in Nat
                               /\ x.seq = x.att + x.ord + 1
    BY TombstoneFacts DEF Shaped, ClaimLinks
  <2> QED
    BY <1>1, <2>1
<1> QED
  BY <1>1, <1>2, <1>3, <1>4, <1>5

LEMMA ExtendedShaped ==
    ASSUME NEW r, WellEnded(r), Shaped(r), NEW out, NEW claim,
           Recordable(EndSequence(r) + 1, out, claim), NEW s, Extends(s, r, out, claim)
    PROVE  Shaped(s)
<1> DEFINE mine(q) == {ClaimTombstone(q, o, claim[o]) : o \in Ordinals}
<1>0. PICK q, y : q = EndSequence(r) + 1 /\ y = AttemptTombstone(q, ClaimCount, out)
  OBVIOUS
<1>1. /\ q \in Nat /\ q > r.truncated /\ EndSequence(s) = q + ClaimCount
      /\ EndSequence(r) = q - 1 /\ r.truncated \in Nat
      /\ ClaimCount \in Nat \ {0} /\ ClaimCount <= MaxClaimEntries
      /\ s.truncated = r.truncated /\ s.audit = r.audit \cup Batch(q, out, claim)
      /\ AttemptsOf(s) = AttemptsOf(r) \cup {y}
      /\ y.seq = q /\ y.count = ClaimCount /\ y.outcome = out
      /\ Recordable(q, out, claim)
  BY <1>0, ExtendedFacts, TombstoneFacts
<1>2. /\ ClaimsOf(s) = ClaimsOf(r) \cup mine(q)
      /\ \A x \in mine(q) : /\ x.att = q /\ x.ord \in Ordinals /\ x.seq = q + x.ord + 1
                            /\ x.outcome = claim[x.ord] /\ x.ord \in Nat /\ x.ord < ClaimCount
      /\ \A o \in Ordinals :
            \E x \in mine(q) : x.ord = o
      /\ \A x \in r.audit : x.seq < q /\ x.seq \in Nat
      /\ \A x \in ClaimsOf(r) : x.att < q /\ x.att \in Nat /\ x.ord \in Nat
      /\ AttemptsOf(r) \subseteq r.audit /\ ClaimsOf(r) \subseteq r.audit
  BY <1>0, ExtendedFacts, TombstoneFacts
<1> HIDE DEF mine
<1>3. ContiguousHistory(s)
  <2>1. \A x \in s.audit : ValidTombstone(x)
    BY <1>1, BatchFacts, TombstoneFacts
  <2>2. Sequences(s.audit) = Sequences(r.audit) \cup BatchAt(q)
    BY <1>1, BatchFacts DEF Sequences
  <2>3. Sequences(r.audit) = r.truncated + 1 .. q - 1
    BY <1>1 DEF Shaped, ContiguousHistory
  <2>4. Sequences(s.audit) = s.truncated + 1 .. EndSequence(s)
    <3>1. r.truncated + 1 .. q + ClaimCount = (r.truncated + 1 .. q - 1) \cup (q .. q + ClaimCount)
      BY <1>1
    <3> QED
      BY <1>1, <2>2, <2>3, <3>1 DEF BatchAt
  <2>5. \A x \in Batch(q, out, claim) : x.seq >= q
    <3>1. \A x \in Batch(q, out, claim) : x.seq \in BatchAt(q)
      BY <1>1, BatchFacts DEF Sequences
    <3> QED
      BY <1>1, <3>1 DEF BatchAt
  <2>6. \A x, z \in s.audit : x.seq = z.seq => x = z
    <3>1. \A x, z \in Batch(q, out, claim) : x.seq = z.seq => x = z
      BY <1>1, BatchFacts
    <3>2. \A x, z \in r.audit : x.seq = z.seq => x = z
      BY TombstoneFacts
    <3> QED
      BY <1>1, <1>2, <2>5, <3>1, <3>2
  <2> QED
    BY <2>1, <2>4, <2>6 DEF ContiguousHistory
<1>4. LeadingClaims(s) = LeadingClaims(r)
  BY <1>1, <1>2 DEF LeadingClaims
<1>5. LeadingSuffix(s)
  <2>1. \A x \in LeadingClaims(r) : x.seq < q
    BY <1>2 DEF LeadingClaims
  <2> QED
    BY <1>1, <1>4, <2>1 DEF LeadingSuffix, Shaped
<1>6. ClaimLinks(s)
  <2> SUFFICES ASSUME NEW x \in ClaimsOf(s)
               PROVE  /\ x.ord < MaxClaimEntries
                      /\ x.seq = x.att + x.ord + 1
                      /\ x.att > s.truncated =>
                            /\ \E w \in AttemptsOf(s) : w.seq = x.att
                            /\ x.ord # 0 =>
                                  \E z \in ClaimsOf(s) : z.att = x.att /\ z.ord = x.ord - 1
                      /\ \A w \in AttemptsOf(s) : w.seq = x.att => x.ord < w.count
    BY DEF ClaimLinks
  <2>1. CASE x \in ClaimsOf(r)
    <3>1. /\ x.ord < MaxClaimEntries
          /\ x.seq = x.att + x.ord + 1
          /\ x.att > r.truncated =>
                /\ \E w \in AttemptsOf(r) : w.seq = x.att
                /\ x.ord # 0 => \E z \in ClaimsOf(r) : z.att = x.att /\ z.ord = x.ord - 1
          /\ \A w \in AttemptsOf(r) : w.seq = x.att => x.ord < w.count
      BY <2>1 DEF Shaped, ClaimLinks
    <3>2. x.att # y.seq
      BY <1>1, <1>2, <2>1
    <3> QED
      BY <1>1, <1>2, <3>1, <3>2
  <2>2. CASE x \in mine(q)
    <3>1. x.att = q /\ x.ord \in Nat /\ x.ord < ClaimCount /\ x.seq = q + x.ord + 1
      BY <1>2, <2>2
    <3>2. \A w \in AttemptsOf(s) : w.seq = q => w = y
      BY <1>1, <1>2
    <3>3. ASSUME x.ord # 0
          PROVE  \E z \in ClaimsOf(s) : z.att = x.att /\ z.ord = x.ord - 1
      <4>1. x.ord - 1 \in Ordinals
        BY <1>1, <3>1, <3>3 DEF Ordinals
      <4> QED
        BY <1>2, <3>1, <4>1
    <3> QED
      BY <1>1, <3>1, <3>2, <3>3
  <2> QED
    BY <1>2, <2>1, <2>2
<1>7. AttemptIntervals(s)
  <2> SUFFICES ASSUME NEW w \in AttemptsOf(s)
               PROVE  /\ w.count <= MaxClaimEntries
                      /\ w.seq + w.count <= EndSequence(s)
                      /\ \A o \in 0 .. w.count - 1 :
                            \E x \in ClaimsOf(s) :
                                /\ x.att = w.seq /\ x.ord = o /\ x.seq = w.seq + o + 1
                                /\ w.outcome \in {"published", "publish_failed"} =>
                                      x.outcome = ClaimSucceeded
    BY DEF AttemptIntervals
  <2>1. CASE w \in AttemptsOf(r)
    <3>1. /\ w.count <= MaxClaimEntries
          /\ w.seq + w.count <= q - 1
          /\ \A o \in 0 .. w.count - 1 :
                \E x \in ClaimsOf(r) :
                    /\ x.att = w.seq /\ x.ord = o /\ x.seq = w.seq + o + 1
                    /\ w.outcome \in {"published", "publish_failed"} =>
                          x.outcome = ClaimSucceeded
      BY <1>1, <2>1 DEF Shaped, AttemptIntervals
    <3>2. w.seq \in Nat /\ w.count \in Nat
      BY <2>1, TombstoneFacts
    <3> QED
      BY <1>1, <1>2, <3>1, <3>2
  <2>2. CASE w = y
    <3>1. out \in {"published", "publish_failed"} => \A o \in Ordinals : claim[o] = ClaimSucceeded
      BY <1>1 DEF Recordable, PublicationOutcomes
    <3>2. ASSUME NEW o \in 0 .. ClaimCount - 1
          PROVE  \E x \in ClaimsOf(s) :
                    /\ x.att = q /\ x.ord = o /\ x.seq = q + o + 1
                    /\ out \in {"published", "publish_failed"} => x.outcome = ClaimSucceeded
      <4>1. PICK x \in mine(q) : x.ord = o
        BY <1>2 DEF Ordinals
      <4> QED
        BY <1>2, <3>1, <4>1
    <3> QED
      BY <1>1, <2>2, <3>2
  <2> QED
    BY <1>1, <2>1, <2>2
<1> QED
  BY <1>3, <1>5, <1>6, <1>7 DEF Shaped

-----------------------------------------------------------------------------
(* terminalRestartStateLocked                                              *)

(* A history lo .. hi, the batch of one attempt outside it, and a run over *)
(* both that ends at end and starts where the history does.                *)
RunsFromStart(lo, hi, q, end, S) ==
    /\ lo \in Nat /\ hi \in Nat /\ q \in Nat /\ end \in Nat
    /\ lo <= hi + 1 /\ hi <= end /\ q + ClaimCount <= end
    /\ \A m \in BatchAt(q) : m \notin lo .. hi
    /\ S = lo .. hi \cup BatchAt(q)
    /\ end \in S /\ RunStart(S, end) = lo

(* The choice of RunStart has a value over such a history and batch, and   *)
(* it is the start of the history only if the batch lies before the        *)
(* history, or next to its end.                                            *)
LEMMA RunFromWatermark ==
    ASSUME NEW lo, NEW hi, NEW q, NEW end, NEW S, RunsFromStart(lo, hi, q, end, S)
    PROVE  \/ end = hi /\ lo <= hi /\ q + ClaimCount < lo
           \/ end = q + ClaimCount /\ q = hi + 1
<1> DEFINE Starts(s) == s <= end /\ s .. end \subseteq S /\ s - 1 \notin S
<1>0. /\ lo \in Nat /\ hi \in Nat /\ q \in Nat /\ end \in Nat /\ ClaimCount \in Nat
      /\ lo <= hi + 1 /\ hi <= end /\ q + ClaimCount <= end /\ end \in S
      /\ \A n : n \in S <=> n \in lo .. hi \/ n \in q .. q + ClaimCount
      /\ \A m \in BatchAt(q) : m \notin lo .. hi
  BY DEF RunsFromStart, BatchAt
<1>1. lo <= hi => q + ClaimCount < lo \/ hi < q
  <2>1. SUFFICES ASSUME lo <= hi, ~(q + ClaimCount < lo), ~(hi < q) PROVE FALSE
    OBVIOUS
  <2>2. CASE q < lo
    BY <1>0, <2>1, <2>2 DEF BatchAt
  <2>3. CASE q >= lo
    BY <1>0, <2>1, <2>3 DEF BatchAt
  <2> QED
    BY <1>0, <2>2, <2>3
<1>2. CASE end = hi /\ lo <= hi
  BY <1>0, <1>1, <1>2
<1>3. CASE ~(end = hi /\ lo <= hi)
  <2>1. end = q + ClaimCount /\ (lo <= hi => hi < q)
    BY <1>0, <1>1, <1>3
  <2>2. \E s \in S : Starts(s)
    <3>1. CASE lo <= hi /\ hi = q - 1
      <4>1. lo \in S /\ lo <= end /\ lo - 1 \notin S
        BY <1>0, <2>1, <3>1
      <4>2. lo .. end \subseteq S
        BY <1>0, <2>1, <3>1
      <4> QED
        BY <4>1, <4>2
    <3>2. CASE ~(lo <= hi /\ hi = q - 1)
      <4>1. q \in S /\ q <= end /\ q - 1 \notin S
        BY <1>0, <2>1, <3>2
      <4>2. q .. end \subseteq S
        BY <1>0, <2>1
      <4> QED
        BY <4>1, <4>2
    <3> QED
      BY <3>1, <3>2
  <2>3. lo \in S /\ Starts(lo)
    BY <2>2 DEF RunStart, RunsFromStart
  <2>4. CASE hi < lo
    <3>1. q <= lo /\ lo - 1 \notin S /\ lo <= end
      BY <1>0, <2>3, <2>4
    <3>2. q = lo
      BY <1>0, <2>1, <3>1
    <3> QED
      BY <1>0, <2>1, <2>4, <3>2
  <2>5. CASE lo <= hi
    <3>1. CASE hi + 1 < q
      <4>1. hi + 1 \in lo .. end
        BY <1>0, <2>1, <2>5, <3>1
      <4>2. hi + 1 \in S
        BY <2>3, <4>1
      <4> QED
        BY <1>0, <3>1, <4>2
    <3> QED
      BY <1>0, <2>1, <2>5, <3>1
  <2> QED
    BY <1>0, <2>4, <2>5
<1> QED
  BY <1>2, <1>3

(* r lies at p or strictly after it, by what was reserved and then by what *)
(* was given up.                                                           *)
Before(r, p) ==
    \/ EndSequence(r) < EndSequence(p)
    \/ EndSequence(r) = EndSequence(p) /\ r.truncated < p.truncated
    \/ r = p

(* What a decision's history is to the history it was built from.          *)
Succeeds(r, p, limit) ==
    /\ r \in RestartType /\ ValidRestart(r, limit) /\ Covers(r, p) /\ Before(p, r)

LEMMA TerminalRestartSound ==
    ASSUME NEW d \in RestartType, NEW limit \in Nat \ {0}, ValidRestart(d, limit),
           NEW n \in 0 .. MaxUint64, NEW e \in BOOLEAN, e <=> n = 0,
           NEW q, NEW out, NEW claim, Recordable(q, out, claim),
           NEW end, end = IF e THEN MaxUint64 ELSE n - 1,
           EndSequence(d) <= end, q + ClaimCount <= end,
           \A x \in d.audit : x.seq \notin BatchAt(q),
           NEW r, r = TerminalRestart(d, n, e, Batch(q, out, claim), limit)
    PROVE  /\ Succeeds(r, d, limit)
           /\ EndSequence(r) = end
           /\ r.audit \subseteq d.audit \cup Batch(q, out, claim)
           /\ r.truncated = 0 => /\ d.truncated = 0
                                 /\ r.audit = d.audit \cup Batch(q, out, claim)
           /\ \A x, y \in d.audit \cup Batch(q, out, claim) : x.seq = y.seq => x = y
<1> DEFINE lo == d.truncated + 1
           hi == EndSequence(d)
           combined == d.audit \cup Batch(q, out, claim)
           S == Sequences(combined)
           keeps == /\ end \in S /\ d.truncated # MaxUint64 /\ RunStart(S, end) = lo
           first == Trimmed(lo, end, limit)
<1>0. /\ WellEnded(d) /\ Shaped(d) /\ hi - d.truncated <= limit
      /\ hi \in Nat /\ d.truncated \in 0 .. MaxUint64 /\ lo \in Nat /\ lo <= hi + 1
      /\ hi <= end /\ end \in 0 .. MaxUint64 /\ ClaimCount \in Nat \ {0}
      /\ q \in Nat \ {0} /\ MaxUint64 \in Nat /\ d.audit \in SUBSET TombstoneType
  BY ValidIs, Ends DEF WellEnded, Recordable
<1>1. S = lo .. hi \cup BatchAt(q)
  BY <1>0, BatchFacts DEF Sequences, Shaped, ContiguousHistory
<1>2. \A m \in BatchAt(q) : m \notin lo .. hi
  BY <1>0 DEF Sequences, Shaped, ContiguousHistory
<1>3. \A x, y \in combined : x.seq = y.seq => x = y
  <2>1. \A x \in Batch(q, out, claim) : x.seq \in BatchAt(q)
    BY BatchFacts DEF Sequences
  <2>2. \A x, z \in d.audit : x.seq = z.seq => x = z
    BY <1>0, TombstoneFacts
  <2>3. \A x, z \in Batch(q, out, claim) : x.seq = z.seq => x = z
    BY BatchFacts
  <2> QED
    BY <2>1, <2>2, <2>3
<1>4. r = [next |-> n, exhausted |-> e,
           truncated |-> IF keeps THEN first - 1 ELSE end,
           audit |-> IF keeps THEN {x \in combined : x.seq \in first .. end} ELSE {}]
  BY DEF TerminalRestart
<1> HIDE DEF lo, hi, S, keeps, first
<1>5. EndSequence(r) = end /\ r.next = n /\ r.exhausted = e
  BY <1>4 DEF EndSequence
<1>6. /\ d.exhausted => r.exhausted
      /\ ~r.exhausted /\ ~d.exhausted => r.next >= d.next
  BY <1>0, <1>5 DEF EndSequence, RestartType, hi
<1>7. ASSUME r \in RestartType, WellEnded(r), Shaped(r), end - r.truncated <= limit,
             \A x \in d.audit : x.seq <= r.truncated \/ x \in r.audit
      PROVE  ValidRestart(r, limit) /\ Covers(r, d)
  <2>1. ValidRestart(r, limit)
    BY <1>5, <1>7, ValidIs
  <2> QED
    BY <1>6, <1>7, <2>1, ValidAtAnyLimit DEF Covers
<1>8. CASE ~keeps
  <2>1. r.truncated = end /\ r.audit = {}
    BY <1>4, <1>8
  <2>2. r \in RestartType
    BY <1>0, <1>4, <1>8 DEF RestartType
  <2>3. WellEnded(r) /\ Shaped(r) /\ end - r.truncated <= limit
    <3>1. WellEnded(r)
      BY <1>0, <1>5, <2>1, <2>2 DEF WellEnded
    <3>2. Cardinality(r.audit) = 0
      BY <2>1, FS_EmptySet
    <3>3. ValidRestart(r, limit)
      BY <1>0, <1>5, <2>1, <3>1, <3>2 DEF ValidRestart, WellEnded
    <3> QED
      BY <2>2, <3>3, ValidIs, <1>5
  <2>4. \A x \in d.audit : x.seq <= r.truncated
    BY <1>0, <2>1, TombstoneFacts DEF hi
  <2>5. Before(d, r)
    <3>1. CASE hi = end /\ d.truncated = end
      <4>1. d.audit = {}
        <5>1. \A x \in d.audit : x.seq \in d.truncated + 1 .. end
          BY <1>0, <3>1, TombstoneFacts DEF hi
        <5> QED
          BY <1>0, <3>1, <5>1
      <4>2. d.next = n /\ d.exhausted = e
        BY <1>0, <1>5, <3>1 DEF EndSequence, RestartType, hi, WellEnded
      <4>3. r = d
        BY <1>4, <1>8, <3>1, <4>1, <4>2 DEF RestartType
      <4> QED
        BY <4>3 DEF Before
    <3>2. CASE hi < end
      BY <1>5, <3>2 DEF Before, hi
    <3>3. CASE hi = end /\ d.truncated < end
      BY <1>5, <2>1, <3>3 DEF Before, hi
    <3> QED
      BY <1>0, <3>1, <3>2, <3>3 DEF WellEnded, hi
  <2>6. r.truncated # 0
    BY <1>0, <2>1
  <2> QED
    BY <1>3, <1>5, <1>7, <2>1, <2>2, <2>3, <2>4, <2>5, <2>6 DEF Succeeds
<1>9. CASE keeps
  <2>1. \/ end = hi /\ lo <= hi /\ q + ClaimCount < lo
        \/ end = q + ClaimCount /\ q = hi + 1
    <3>1. end \in S /\ RunStart(S, end) = lo
      BY <1>9 DEF keeps
    <3>2. lo \in Nat /\ hi \in Nat /\ q \in Nat /\ lo <= hi + 1 /\ hi <= end
      BY <1>0
    <3>3. end \in Nat
      <4>1. end \in 0 .. MaxUint64
        BY <1>0
      <4> QED
        BY <4>1
    <3>4. RunsFromStart(lo, hi, q, end, S)
      BY <1>1, <1>2, <3>1, <3>2, <3>3 DEF RunsFromStart
    <3> QED
      BY <3>4, RunFromWatermark
  <2>2. /\ first \in Nat /\ first >= lo /\ first <= end + 1 /\ end - (first - 1) <= limit
        /\ first # lo => first > 1
    <3>1. lo <= end /\ lo >= 1
      BY <1>0, <2>1 DEF lo
    <3>2. CASE end - lo + 1 > limit
      <4>1. first = end - limit + 1
        BY <3>2 DEF first, Trimmed
      <4> QED
        BY <1>0, <3>1, <3>2, <4>1
    <3>3. CASE ~(end - lo + 1 > limit)
      <4>1. first = lo
        BY <3>3 DEF first, Trimmed
      <4> QED
        BY <1>0, <3>1, <3>3, <4>1
    <3> QED
      BY <3>2, <3>3
  <2>3. /\ r.truncated = first - 1
        /\ r.audit = {x \in combined : x.seq \in first .. end}
    BY <1>4, <1>9
  <2>4. r \in RestartType /\ WellEnded(r)
    <3>1. combined \in SUBSET TombstoneType
      BY <1>0, BatchFacts
    <3>2. r.audit \in SUBSET TombstoneType /\ r.truncated \in 0 .. MaxUint64
      BY <1>0, <2>2, <2>3, <3>1 DEF lo
    <3>3. r \in RestartType
      BY <1>4, <3>2 DEF RestartType
    <3> QED
      BY <1>0, <1>5, <2>2, <2>3, <3>3 DEF WellEnded
  <2>5. Shaped(r)
    <3>1. CASE end = hi /\ lo <= hi /\ q + ClaimCount < lo
      <4>1. \A x \in Batch(q, out, claim) : x.seq < lo /\ x.seq \in Nat
        <5>1. \A x \in Batch(q, out, claim) : x.seq \in BatchAt(q)
          BY BatchFacts DEF Sequences
        <5> QED
          BY <1>0, <3>1, <5>1 DEF BatchAt
      <4>2. Trims(r, d, first)
        BY <1>0, <1>5, <2>2, <2>3, <3>1, <4>1 DEF Trims, hi
      <4> QED
        BY <1>0, <2>2, <3>1, <4>2, TrimmedShaped DEF lo, hi
    <3>2. CASE end = q + ClaimCount /\ q = hi + 1
      <4>1. PICK s : s = [next |-> n, exhausted |-> e, truncated |-> d.truncated,
                          audit |-> combined]
        OBVIOUS
      <4>2. /\ EndSequence(s) = end /\ s.truncated = d.truncated /\ s.audit = combined
            /\ s \in RestartType
        BY <1>0, <4>1, BatchFacts DEF EndSequence, RestartType
      <4>3. Extends(s, d, out, claim)
        BY <1>0, <3>2, <4>2 DEF Extends, hi
      <4>4. WellEnded(s)
        <5>1. s.next = n /\ s.exhausted = e
          BY <4>1
        <5>2. s.exhausted <=> s.next = 0
          BY <1>5, <2>4, <5>1 DEF WellEnded
        <5>3. s.truncated <= EndSequence(s)
          BY <1>0, <4>2 DEF lo
        <5> QED
          BY <4>2, <5>2, <5>3 DEF WellEnded
      <4>5. Shaped(s)
        BY <1>0, <3>2, <4>3, ExtendedShaped DEF hi
      <4>6. Trims(r, s, first)
        BY <1>5, <2>3, <4>2 DEF Trims
      <4> QED
        BY <1>0, <2>2, <4>2, <4>4, <4>5, <4>6, TrimmedShaped DEF lo
    <3> QED
      BY <2>1, <3>1, <3>2
  <2>6. \A x \in d.audit : x.seq <= r.truncated \/ x \in r.audit
    <3>1. \A x \in d.audit : x.seq \in d.truncated + 1 .. hi
      BY <1>0, TombstoneFacts DEF hi
    <3> QED
      BY <1>0, <2>2, <2>3, <3>1
  <2>7. Before(d, r)
    <3>1. CASE hi < end
      BY <1>5, <3>1 DEF Before, hi
    <3>2. CASE hi = end
      <4>0. lo <= hi /\ q + ClaimCount < lo
        BY <1>0, <2>1, <3>2
      <4>1. first = lo
        BY <1>0, <3>2, <4>0 DEF first, Trimmed, lo
      <4>2. \A x \in Batch(q, out, claim) : x.seq < lo /\ x.seq \in Nat
        <5>1. \A x \in Batch(q, out, claim) : x.seq \in BatchAt(q)
          BY BatchFacts DEF Sequences
        <5> QED
          BY <1>0, <4>0, <5>1 DEF BatchAt
      <4>3. r.audit = d.audit
        <5>1. \A x \in d.audit : x.seq \in lo .. hi
          BY <1>0, TombstoneFacts DEF hi, lo
        <5> QED
          BY <1>0, <2>3, <3>2, <4>1, <4>2, <5>1
      <4>4. d.next = n /\ d.exhausted = e
        BY <1>0, <1>5, <3>2 DEF EndSequence, RestartType, hi, WellEnded
      <4>5. r.truncated = d.truncated
        BY <1>0, <2>3, <4>1 DEF lo
      <4>6. r = d
        BY <1>4, <4>3, <4>4, <4>5, <2>4 DEF RestartType
      <4> QED
        BY <4>6 DEF Before
    <3> QED
      BY <1>0, <3>1, <3>2
  <2>8. r.truncated = 0 => d.truncated = 0 /\ r.audit = combined
    <3>1. SUFFICES ASSUME r.truncated = 0 PROVE d.truncated = 0 /\ r.audit = combined
      OBVIOUS
    <3>2. first = 1 /\ lo = 1
      BY <1>0, <2>2, <2>3, <3>1 DEF lo
    <3>3. \A x \in combined : x.seq \in 1 .. end
      <4>1. \A x \in d.audit : x.seq \in 1 .. hi
        BY <1>0, <3>2, TombstoneFacts DEF hi, lo
      <4>2. \A x \in Batch(q, out, claim) : x.seq \in BatchAt(q)
        BY BatchFacts DEF Sequences
      <4> QED
        BY <1>0, <4>1, <4>2 DEF BatchAt
    <3> QED
      BY <1>0, <2>3, <3>2, <3>3 DEF lo
  <2> QED
    BY <1>3, <1>5, <1>7, <2>2, <2>3, <2>4, <2>5, <2>6, <2>7, <2>8 DEF Succeeds
<1> QED
  BY <1>8, <1>9

(* A history covers itself, and being before is an order.                  *)
LEMMA CoversReflexive ==
    ASSUME NEW r \in RestartType, NEW limit \in Nat, ValidRestart(r, limit)
    PROVE  Covers(r, r)
<1>1. ValidRestart(r, MaxUint64 + 1)
  BY ValidAtAnyLimit
<1>2. ~r.exhausted => r.next >= r.next
  BY DEF RestartType
<1> QED
  BY <1>1, <1>2 DEF Covers

LEMMA BeforeIsOrder ==
    ASSUME NEW a, NEW b, NEW c, WellEnded(a), WellEnded(b), WellEnded(c)
    PROVE  /\ Before(a, a)
           /\ Before(a, b) /\ Before(b, c) => Before(a, c)
           /\ Before(a, b) /\ Before(b, a) => a = b
<1>1. \A r : WellEnded(r) => EndSequence(r) \in Nat /\ r.truncated \in Nat
  BY Ends DEF WellEnded
<1> QED
  BY <1>1 DEF Before

-----------------------------------------------------------------------------
(* The inductive invariant: outcomes                                       *)

CancelPCs == {"claims_wait", "claims_woken", "close", "drain", "finish_cancel"}

(* An outcome can be recorded of a state s of an attempt.                  *)
Suits(out, s) ==
    /\ s.claim \in [Ordinals -> ClaimOutcomes]
    /\ out \in PublicationOutcomes => AllSucceeded(s)
    /\ out = "published" => s.restartCommitted

(* An outcome that is being recorded, or is to be retried, suits.          *)
Retried(s) == s.committing \/ s.persistErr => Suits(s.outcome, s)

(* What a call at step pc, about to persist out, knows of its attempt s.   *)
Concludes(pc, out, s) ==
    /\ pc = "persist" /\ s.phase \in ClosingPhases => Suits(out, s)
    /\ pc \in CancelPCs => s.phase = "cancelling"
    /\ pc = "finish_cancel" => out \notin PublicationOutcomes

ConcludedInv ==
    /\ \A a \in Attempts : Retried(attempt[a])
    /\ \A t \in Threads : thread[t].pc # "idle" =>
          Concludes(thread[t].pc, thread[t].out, attempt[thread[t].att])

-----------------------------------------------------------------------------
(* The inductive invariant: histories                                      *)

(* Two sequence batches do not meet.                                       *)
Apart(p, q) == p + ClaimCount < q \/ q + ClaimCount < p

BatchesApart ==
    /\ \A a, b \in Attempts : Begun(a) /\ Begun(b) /\ a # b => Apart(attempt[a].seq, attempt[b].seq)
    /\ \A d \in store.decisions :
          /\ d.seq >= 1
          /\ d.life < crashes =>
                \A a \in Attempts : Begun(a) => d.seq + ClaimCount < attempt[a].seq
          /\ \A e \in store.decisions : d.seq = e.seq \/ Apart(d.seq, e.seq)
    /\ \A i, j \in 1 .. Len(store.effects) : i # j => store.effects[i].seq # store.effects[j].seq

(* A history has no record of attempt a.                                   *)
ClearOf(r, a) == \A x \in r.audit : x.seq \notin BatchAt(attempt[a].seq)

Pending(a) == attempt[a].phase \in LivePhases /\ ~attempt[a].restartCommitted

(* No record of an attempt before its decision.                            *)
NothingEarly ==
    \A a \in Attempts :
        /\ Begun(a) /\ ~Decided(a) => ClearOf(store.restart, a)
        /\ Pending(a) => ClearOf(ledger.durable, a)

Sane(r) == r \in RestartType /\ ValidRestart(r, AuditTombstoneLimit)

Published(r) == {x \in AttemptsOf(r) : x.outcome = "published"}

Own(a, out) ==
    IF out = "published" THEN {AttemptTombstone(attempt[a].seq, ClaimCount, out)} ELSE {}

(* History r is what the decision of outcome out on attempt a makes of p.  *)
Follows(r, p, a, out) ==
    /\ Succeeds(r, p, AuditTombstoneLimit)
    /\ \A x \in r.audit : x \in p.audit \/ x.seq \in BatchAt(attempt[a].seq)
    /\ Published(r) \subseteq Published(p) \cup Own(a, out)
    /\ r.truncated = 0 => p.truncated = 0 /\ Published(r) = Published(p) \cup Own(a, out)

StoringPCs == {"store", "publish_store"}
ApplyingPCs == {"apply", "publish_apply"}
AskingPCs == StoringPCs \cup ApplyingPCs

Deciding(t) ==
    IF thread[t].pc \in {"publish_store", "publish_apply"} THEN "published" ELSE thread[t].out

(* A request was built from a history the ledger held.  As long as the     *)
(* store still holds it, so does the ledger; and once the store has taken  *)
(* the decision, a ledger that still holds it finds it in the store.       *)
Asked(t) ==
    LET req == thread[t].req IN
    /\ Follows(req.target, req.expected, thread[t].att, Deciding(t))
    /\ Sane(req.expected) /\ Before(req.expected, ledger.durable)
    /\ thread[t].pc \in StoringPCs /\ req.expected = store.restart =>
          ledger.durable = store.restart
    /\ thread[t].pc \in ApplyingPCs /\ req.expected = ledger.durable
       /\ ~Covers(ledger.durable, req.target) => Covers(store.restart, req.target)

RequestsFollow == \A t \in Threads : thread[t].pc \in AskingPCs => Asked(t)

(* The store counts the publications it retains, and its generation is no  *)
(* smaller than its revision.                                              *)
StoreCounts ==
    /\ LET n == Cardinality(Published(store.restart)) IN
       IF store.restart.truncated = 0 THEN n = store.revision ELSE n <= store.revision
    /\ store.revision = 0 => store.gen = 0
    /\ store.gen >= store.revision

RecordsSane ==
    /\ Sane(store.restart) /\ Sane(ledger.durable) /\ Covers(store.restart, ledger.durable)
    /\ StoreCounts

HistoryInv == BatchesApart /\ NothingEarly /\ RequestsFollow /\ RecordsSane

RecoveryInv == ConcludedInv /\ HistoryInv

-----------------------------------------------------------------------------
(* Outcomes over one step                                                  *)

LEMMA ConcludesWoken ==
    ASSUME NEW pc \in PCs, NEW out, NEW s, Concludes(pc, out, s), NEW q \in {pc, Woken(pc)}
    PROVE  Concludes(q, out, s)
  BY DEF Concludes, Woken, CancelPCs

LEMMA ConcludedFacts ==
    ASSUME TypeInv, ConcludedInv, NEW u \in Threads, thread[u].pc # "idle"
    PROVE  /\ thread[u].att \in Attempts /\ thread[u].pc \in PCs
           /\ Concludes(thread[u].pc, thread[u].out, attempt[thread[u].att])
           /\ Retried(attempt[thread[u].att])
  BY BusyFacts, CallFacts DEF ConcludedInv, ThreadType

(* Attempt a becomes s while goroutine u at most wakes.                    *)
LEMMA ConcludesOn ==
    ASSUME TypeInv, ConcludedInv, NEW a \in Attempts, NEW s,
           attempt' = [attempt EXCEPT ![a] = s],
           NEW u \in Threads, Roused(u), thread'[u].pc # "idle",
           thread[u].att = a /\ thread[u].pc # "idle" => Concludes(thread[u].pc, thread[u].out, s)
    PROVE  Concludes(thread'[u].pc, thread'[u].out, attempt'[thread'[u].att])
<1>0. PICK pc, out, q : pc = thread[u].pc /\ out = thread[u].out /\ q = thread'[u].pc
  OBVIOUS
<1>1. pc \in PCs /\ q \in {pc, Woken(pc)} /\ thread'[u].out = out
      /\ thread'[u].att = thread[u].att
  BY <1>0, CallFacts DEF Roused, ThreadType
<1>2. pc # "idle"
  BY <1>0, <1>1, WokenSteps
<1>3. PICK b \in Attempts : b = thread[u].att
  BY <1>0, <1>2, BusyFacts
<1>4. Concludes(pc, out, attempt'[b])
  <2>1. CASE b = a
    <3>1. attempt'[b] = s
      BY <2>1, AttemptFacts
    <3> QED
      BY <1>0, <1>2, <1>3, <2>1, <3>1
  <2>2. CASE b # a
    <3>1. attempt'[b] = attempt[b]
      BY <2>2, AttemptFacts
    <3> QED
      BY <1>0, <1>2, <1>3, <3>1, ConcludedFacts
  <2> QED
    BY <2>1, <2>2
<1>5. Concludes(q, out, attempt'[b])
  BY <1>1, <1>4, ConcludesWoken
<1> QED
  BY <1>0, <1>1, <1>3, <1>5

LEMMA ConcludedAttempts ==
    ASSUME TypeInv, ConcludedInv, NEW a \in Attempts, NEW s,
           attempt' = [attempt EXCEPT ![a] = s], Retried(s)
    PROVE  \A b \in Attempts : Retried(attempt'[b])
<1>1. attempt'[a] = s /\ \A b \in Attempts \ {a} : attempt'[b] = attempt[b]
  BY AttemptFacts
<1> QED
  BY <1>1 DEF ConcludedInv

(* One goroutine steps in a call of attempt a, which becomes s.            *)
LEMMA ConcludedMove ==
    ASSUME TypeInv, ConcludedInv, NEW t \in Threads, NEW a \in Attempts, NEW s,
           attempt' = [attempt EXCEPT ![a] = s], Retried(s),
           NEW att, NEW pc, NEW out, NEW req, StepsTo(t, att, pc, out, req),
           pc # "idle" => att = a /\ Concludes(pc, out, s),
           \A u \in Threads \ {t} : thread[u].att = a /\ thread[u].pc # "idle" =>
              Concludes(thread[u].pc, thread[u].out, s)
    PROVE  ConcludedInv'
<1>1. ASSUME NEW u \in Threads, thread'[u].pc # "idle"
      PROVE  Concludes(thread'[u].pc, thread'[u].out, attempt'[thread'[u].att])
  <2>1. CASE u = t
    <3>1. attempt'[a] = s
      BY AttemptFacts
    <3>2. thread'[u].att = att /\ thread'[u].pc = pc /\ thread'[u].out = out
      BY <2>1 DEF StepsTo
    <3> QED
      BY <1>1, <3>1, <3>2
  <2>2. CASE u # t
    <3>1. Roused(u)
      BY <2>2 DEF StepsTo, Waits
    <3> QED
      BY <1>1, <2>2, <3>1, ConcludesOn
  <2> QED
    BY <2>1, <2>2
<1>2. \A b \in Attempts : Retried(attempt'[b])
  BY ConcludedAttempts
<1>3. ConcludedInv' <=> /\ \A b \in Attempts : Retried(attempt'[b])
                        /\ \A u \in Threads : thread'[u].pc # "idle" =>
                              Concludes(thread'[u].pc, thread'[u].out, attempt'[thread'[u].att])
  BY DEF ConcludedInv, Retried, Suits, Concludes, AllSucceeded
<1> QED
  BY <1>1, <1>2, <1>3

(* The claims of attempt a, and how far it is, are the same in s; or only  *)
(* bystanders are left in its calls; or it is concluded.                   *)
Undisturbed(t, a, s) ==
    \/ /\ s.phase = attempt[a].phase /\ s.claim = attempt[a].claim
       /\ attempt[a].restartCommitted => s.restartCommitted
    \/ \A u \in Threads \ {t} : thread[u].att = a => thread[u].pc \in BystanderPCs
    \/ /\ s.phase \notin ClosingPhases
       /\ \A u \in Threads \ {t} : thread[u].att = a => thread[u].pc \notin OwnerPCs

LEMMA OthersConclude ==
    ASSUME TypeInv, ConcludedInv, NEW t \in Threads, NEW a \in Attempts, NEW s,
           Undisturbed(t, a, s), NEW u \in Threads \ {t}, thread[u].att = a, thread[u].pc # "idle"
    PROVE  Concludes(thread[u].pc, thread[u].out, s)
<1>1. Concludes(thread[u].pc, thread[u].out, attempt[a])
  BY ConcludedFacts
<1>2. CASE /\ s.phase = attempt[a].phase /\ s.claim = attempt[a].claim
           /\ attempt[a].restartCommitted => s.restartCommitted
  BY <1>1, <1>2 DEF Concludes, Suits, AllSucceeded
<1>3. CASE thread[u].pc \in BystanderPCs
  BY <1>3 DEF Concludes, BystanderPCs, CancelPCs
<1>4. CASE s.phase \notin ClosingPhases /\ thread[u].pc \notin OwnerPCs
  BY <1>4 DEF Concludes, OwnerPCs, CancelPCs
<1> QED
  BY <1>2, <1>3, <1>4 DEF Undisturbed

(* Steps at which nothing is asked of the attempt.                         *)
LEMMA NothingConcluded ==
    ASSUME NEW pc, pc \notin CancelPCs \cup {"persist"}, NEW out, NEW s
    PROVE  Concludes(pc, out, s)
  BY DEF Concludes, CancelPCs

-----------------------------------------------------------------------------
(* Histories over one step                                                 *)

(* Attempt a keeps its sequences, and is pending only if it was.           *)
Mild(s, a) ==
    /\ s.seq = attempt[a].seq
    /\ s.phase = "unborn" <=> attempt[a].phase = "unborn"
    /\ s.phase \in LivePhases /\ ~s.restartCommitted => Pending(a)

SameHistory == UNCHANGED <<store, crashes>> /\ ledger'.durable = ledger.durable

LEMMA WaitsAsking ==
    ASSUME TypeInv, NEW u \in Threads, Waits(u), thread'[u].pc \in AskingPCs
    PROVE  /\ thread[u].pc = thread'[u].pc /\ thread'[u].att = thread[u].att
           /\ thread'[u].out = thread[u].out /\ thread'[u].req = thread[u].req
           /\ thread[u].att \in Attempts
<1>1. thread[u].pc \in PCs
  BY CallFacts DEF ThreadType
<1>2. thread[u].pc = thread'[u].pc
  BY <1>1 DEF Waits, Roused, Woken, AskingPCs, StoringPCs, ApplyingPCs
<1>3. thread[u].att \in Attempts
  BY <1>2, BusyFacts DEF AskingPCs, StoringPCs, ApplyingPCs
<1> QED
  BY <1>2, <1>3 DEF Waits, Roused

(* What a request rests on besides the store and the ledger.               *)
LEMMA AskedFacts ==
    ASSUME NEW t, NEW a, a = thread[t].att, NEW req, req = thread[t].req,
           NEW out, out = Deciding(t)
    PROVE  Asked(t) <=>
              /\ Follows(req.target, req.expected, a, out)
              /\ Sane(req.expected) /\ Before(req.expected, ledger.durable)
              /\ thread[t].pc \in StoringPCs /\ req.expected = store.restart =>
                    ledger.durable = store.restart
              /\ thread[t].pc \in ApplyingPCs /\ req.expected = ledger.durable
                 /\ ~Covers(ledger.durable, req.target) => Covers(store.restart, req.target)
  BY DEF Asked

LEMMA FollowsSame ==
    ASSUME NEW r, NEW p, NEW a, NEW out, attempt'[a].seq = attempt[a].seq
    PROVE  Follows(r, p, a, out)' <=> Follows(r, p, a, out)
  BY DEF Follows, Own

LEMMA StillAsked ==
    ASSUME TypeInv, NEW u \in Threads, Waits(u), thread'[u].pc \in AskingPCs,
           Asked(u), SameHistory, attempt'[thread[u].att].seq = attempt[thread[u].att].seq
    PROVE  Asked(u)'
<1>0. PICK a, req, out : a = thread[u].att /\ req = thread[u].req /\ out = Deciding(u)
  OBVIOUS
<1>1. /\ thread[u].pc = thread'[u].pc /\ thread'[u].att = a
      /\ thread'[u].out = thread[u].out /\ thread'[u].req = req
  BY <1>0, WaitsAsking
<1>2. Deciding(u)' = out
  BY <1>0, <1>1 DEF Deciding
<1>3. Follows(req.target, req.expected, a, out)'
  BY <1>0, FollowsSame DEF Asked
<1> QED
  BY <1>0, <1>1, <1>2, <1>3 DEF Asked, SameHistory

LEMMA QuietHistory ==
    ASSUME TypeInv, HistoryInv, SameHistory,
           \A b \in Attempts : /\ attempt'[b].seq = attempt[b].seq
                               /\ Begun(b)' <=> Begun(b)
                               /\ Pending(b)' => Pending(b),
           \A u \in Threads : Waits(u) \/ thread'[u].pc \notin AskingPCs \/ Asked(u)'
    PROVE  HistoryInv'
<1>1. \A b : Decided(b)' <=> Decided(b)
  BY DEF SameHistory, Decided
<1>2. BatchesApart'
  BY DEF HistoryInv, BatchesApart, SameHistory
<1>3. NothingEarly'
  BY <1>1 DEF HistoryInv, NothingEarly, SameHistory, ClearOf
<1>4. RequestsFollow'
  <2> SUFFICES ASSUME NEW u \in Threads, thread'[u].pc \in AskingPCs PROVE Asked(u)'
    BY DEF RequestsFollow
  <2>0. CASE Asked(u)'
    BY <2>0
  <2>1. CASE ~Asked(u)'
    <3>1. Waits(u) /\ thread[u].pc \in AskingPCs /\ thread[u].att \in Attempts
      BY <2>1, WaitsAsking
    <3> QED
      BY <3>1, StillAsked DEF HistoryInv, RequestsFollow
  <2> QED
    BY <2>0, <2>1
<1>5. RecordsSane'
  BY DEF HistoryInv, RecordsSane, SameHistory, StoreCounts
<1> QED
  BY <1>2, <1>3, <1>4, <1>5 DEF HistoryInv

LEMMA MildHistory ==
    ASSUME TypeInv, HistoryInv, SameHistory, NEW a \in Attempts, NEW s, Mild(s, a),
           attempt' = [attempt EXCEPT ![a] = s],
           \A u \in Threads : Waits(u) \/ thread'[u].pc \notin AskingPCs
    PROVE  HistoryInv'
<1>1. attempt'[a] = s /\ \A b \in Attempts \ {a} : attempt'[b] = attempt[b]
  BY AttemptFacts
<1>2. ASSUME NEW b \in Attempts
      PROVE  /\ attempt'[b].seq = attempt[b].seq
             /\ Begun(b)' <=> Begun(b)
             /\ Pending(b)' => Pending(b)
  <2>1. CASE b = a
    BY <1>1, <2>1 DEF Mild, Begun, Pending
  <2>2. CASE b # a
    BY <1>1, <2>2 DEF Begun, Pending
  <2> QED
    BY <2>1, <2>2
<1> QED
  BY <1>2, QuietHistory

(* One goroutine steps in a call of attempt a, which becomes s, and        *)
(* neither asks for a decision nor has one stored or applied.              *)
LEMMA RecoveryMove ==
    ASSUME TypeInv, RecoveryInv, SameHistory, NEW t \in Threads, NEW a \in Attempts, NEW s,
           attempt' = [attempt EXCEPT ![a] = s], Retried(s), Mild(s, a),
           NEW att, NEW pc, NEW out, NEW req, StepsTo(t, att, pc, out, req),
           pc \notin AskingPCs, pc # "idle" => att = a /\ Concludes(pc, out, s),
           Undisturbed(t, a, s)
    PROVE  RecoveryInv'
<1>1. ConcludedInv /\ HistoryInv
  BY DEF RecoveryInv
<1>2. \A u \in Threads \ {t} : thread[u].att = a /\ thread[u].pc # "idle" =>
        Concludes(thread[u].pc, thread[u].out, s)
  BY <1>1, OthersConclude
<1>3. ConcludedInv'
  BY <1>1, <1>2, ConcludedMove
<1>4. \A u \in Threads : Waits(u) \/ thread'[u].pc \notin AskingPCs
  BY DEF StepsTo
<1>5. HistoryInv'
  BY <1>1, <1>4, MildHistory
<1> QED
  BY <1>3, <1>5 DEF RecoveryInv

(* The same, and no attempt changes.                                       *)
LEMMA RecoveryStay ==
    ASSUME TypeInv, RecoveryInv, SameHistory, NEW t \in Threads, attempt' = attempt,
           NEW a \in Attempts,
           NEW att, NEW pc, NEW out, NEW req, StepsTo(t, att, pc, out, req),
           pc \notin AskingPCs, pc # "idle" => att = a /\ Concludes(pc, out, attempt[a])
    PROVE  RecoveryInv'
<1>1. PICK s : s = attempt[a]
  OBVIOUS
<1>2. attempt' = [attempt EXCEPT ![a] = s]
  BY <1>1, AttemptFacts
<1>3. Retried(s) /\ Mild(s, a) /\ Undisturbed(t, a, s)
  BY <1>1 DEF RecoveryInv, ConcludedInv, Mild, Pending, Undisturbed
<1> QED
  BY <1>1, <1>2, <1>3, RecoveryMove

(* No goroutine steps.                                                     *)
LEMMA RecoveryAlone ==
    ASSUME TypeInv, RecoveryInv, SameHistory, NEW a \in Attempts, NEW s,
           attempt' = [attempt EXCEPT ![a] = s], Retried(s), Mild(s, a),
           \A u \in Threads : Waits(u),
           \A u \in Threads : thread[u].att = a /\ thread[u].pc # "idle" =>
              Concludes(thread[u].pc, thread[u].out, s)
    PROVE  RecoveryInv'
<1>1. ConcludedInv /\ HistoryInv
  BY DEF RecoveryInv
<1>2. ASSUME NEW u \in Threads, thread'[u].pc # "idle"
      PROVE  Concludes(thread'[u].pc, thread'[u].out, attempt'[thread'[u].att])
  BY <1>1, <1>2, ConcludesOn DEF Waits
<1>3. \A b \in Attempts : Retried(attempt'[b])
  BY <1>1, ConcludedAttempts
<1>4. ConcludedInv'
  BY <1>2, <1>3 DEF ConcludedInv, Retried, Suits, Concludes, AllSucceeded
<1>5. HistoryInv'
  BY <1>1, MildHistory
<1> QED
  BY <1>4, <1>5 DEF RecoveryInv

-----------------------------------------------------------------------------
(* Steps without a goroutine of the ledger                                 *)

(* An attempt that is open or sealed has no call in flight and nothing to  *)
(* retry.                                                                  *)
LEMMA OpenFacts ==
    ASSUME TypeInv, LifeInv, NEW a \in Attempts, attempt[a].phase \in {"open", "sealed"}
    PROVE  /\ ~attempt[a].committing /\ ~attempt[a].persistErr
           /\ \A u \in Threads : thread[u].att = a => thread[u].pc = "idle"
  BY LifeFacts DEF Sound, Fits, ClosingPhases, TerminalPhases

LEMMA HandlingRecovery ==
    ASSUME TypeInv, LifeInv, RecoveryInv, NEW a \in Attempts, Handling(a),
           ~ \E k \in Keys, g \in Generations : Begin(a, k, g)
    PROVE  RecoveryInv'
<1> DEFINE o == attempt[a]
<1>0. attempt \in [Attempts -> AttemptType] /\ o \in AttemptType
  BY AttemptFacts
<1>1. ASSUME NEW s, attempt' = [attempt EXCEPT ![a] = s],
             o.phase = "open", s.phase \in {"open", "sealed"}, s.seq = o.seq,
             s.committing = o.committing, s.persistErr = o.persistErr,
             s.restartCommitted = o.restartCommitted,
             UNCHANGED <<ledger, thread, store, crashes>>
      PROVE  RecoveryInv'
  <2>1. /\ ~o.committing /\ ~o.persistErr
        /\ \A u \in Threads : thread[u].att = a => thread[u].pc = "idle"
    BY <1>1, OpenFacts
  <2>2. Retried(s) /\ Mild(s, a) /\ SameHistory
    BY <1>1, <2>1 DEF Retried, Mild, Pending, LivePhases, SameHistory
  <2>3. \A u \in Threads : Waits(u)
    BY <1>1 DEF Waits, Roused
  <2> QED
    BY <1>1, <2>1, <2>2, <2>3, RecoveryAlone
<1>2. ASSUME NEW p \in Ordinals, Issue(a, p) PROVE RecoveryInv'
  <2> DEFINE s == [o EXCEPT !.issued = @ \cup {p}]
  <2>1. /\ attempt' = [attempt EXCEPT ![a] = s] /\ o.phase = "open"
        /\ UNCHANGED <<ledger, thread, store, crashes>>
    BY <1>0, <1>2 DEF Issue
  <2>2. /\ s.phase = o.phase /\ s.seq = o.seq /\ s.committing = o.committing
        /\ s.persistErr = o.persistErr /\ s.restartCommitted = o.restartCommitted
    BY <1>0 DEF AttemptType
  <2> HIDE DEF s
  <2> QED
    BY <1>1, <2>1, <2>2
<1>3. ASSUME NEW p \in Ordinals, ClaimStart(a, p) PROVE RecoveryInv'
  <2> DEFINE s == [o EXCEPT !.claim[p] = "in_progress"]
  <2>1. /\ attempt' = [attempt EXCEPT ![a] = s] /\ o.phase = "open"
        /\ UNCHANGED <<ledger, thread, store, crashes>>
    BY <1>0, <1>3 DEF ClaimStart
  <2>2. /\ s.phase = o.phase /\ s.seq = o.seq /\ s.committing = o.committing
        /\ s.persistErr = o.persistErr /\ s.restartCommitted = o.restartCommitted
    BY <1>0 DEF AttemptType
  <2> HIDE DEF s
  <2> QED
    BY <1>1, <2>1, <2>2
<1>4. CASE Admit(a)
  <2> DEFINE s == [o EXCEPT !.producer = FALSE, !.admitted = TRUE, !.issued = {}]
  <2>1. /\ attempt' = [attempt EXCEPT ![a] = s] /\ o.phase = "open"
        /\ UNCHANGED <<ledger, thread, store, crashes>>
    BY <1>0, <1>4 DEF Admit, Admissible
  <2>2. /\ s.phase = o.phase /\ s.seq = o.seq /\ s.committing = o.committing
        /\ s.persistErr = o.persistErr /\ s.restartCommitted = o.restartCommitted
    BY <1>0 DEF AttemptType
  <2> HIDE DEF s
  <2> QED
    BY <1>1, <2>1, <2>2
<1>5. CASE Seal(a)
  <2> DEFINE s == [o EXCEPT !.phase = "sealed"]
  <2>1. /\ attempt' = [attempt EXCEPT ![a] = s] /\ o.phase = "open"
        /\ UNCHANGED <<ledger, thread, store, crashes>>
    BY <1>0, <1>5 DEF Seal
  <2>2. /\ s.phase = "sealed" /\ s.seq = o.seq /\ s.committing = o.committing
        /\ s.persistErr = o.persistErr /\ s.restartCommitted = o.restartCommitted
    BY <1>0 DEF AttemptType
  <2> HIDE DEF s
  <2> QED
    BY <1>1, <2>1, <2>2
(* A claim comes back while its attempt is open, or while a cancellation   *)
(* still waits for it.                                                     *)
<1>6. ASSUME NEW p \in Ordinals, NEW outcome \in ProducerOutcomes, ClaimFinish(a, p, outcome)
      PROVE  RecoveryInv'
  <2> DEFINE s == [o EXCEPT !.claim[p] = outcome]
  <2>1. /\ attempt' = [attempt EXCEPT ![a] = s] /\ ~NoClaimIn(o) /\ SameHistory
        /\ thread' = Awake(a)
    BY <1>0, <1>6 DEF ClaimFinish, NoClaimIn, SameHistory
  <2>2. /\ s.phase = o.phase /\ s.seq = o.seq /\ s.committing = o.committing
        /\ s.persistErr = o.persistErr /\ s.restartCommitted = o.restartCommitted
    BY <1>0 DEF AttemptType
  <2> HIDE DEF s
  <2>3. ~o.committing /\ ~o.persistErr
    BY <2>1, LifeFacts DEF Sound
  <2>4. Retried(s) /\ Mild(s, a)
    BY <2>2, <2>3 DEF Retried, Mild, Pending
  <2>5. ASSUME NEW u \in Threads PROVE Waits(u)
    <3>1. PICK pc \in PCs : Awake(a)[u] = [thread[u] EXCEPT !.pc = pc]
      BY AwakeTyped
    <3>2. thread[u] \in ThreadType
      BY CallFacts
    <3> QED
      BY <2>1, <3>1, <3>2, AwakeTyped DEF Waits, Roused, ThreadType
  <2>6. ASSUME NEW u \in Threads, thread[u].att = a, thread[u].pc # "idle"
        PROVE  Concludes(thread[u].pc, thread[u].out, s)
    <3>1. thread[u].pc \notin {"persist", "finish_cancel"}
      BY <2>1, <2>6, LifeFacts DEF Fits, DrainedPCs, PCs
    <3>2. thread[u].pc \in CancelPCs => o.phase = "cancelling"
      BY <2>6, ConcludedFacts DEF Concludes, RecoveryInv
    <3> QED
      BY <2>2, <3>1, <3>2 DEF Concludes
  <2> QED
    BY <2>1, <2>4, <2>5, <2>6, RecoveryAlone
<1> QED
  BY <1>2, <1>3, <1>4, <1>5, <1>6 DEF Handling

-----------------------------------------------------------------------------
(* Calls and cancellation                                                  *)

(* A call takes over an attempt that is open or sealed.                    *)
LEMMA RecoveryBegins ==
    ASSUME TypeInv, LifeInv, RecoveryInv, SameHistory, NEW t \in Threads, NEW a \in Attempts,
           attempt[a].phase \in {"open", "sealed"},
           NEW s, attempt' = [attempt EXCEPT ![a] = s], s.seq = attempt[a].seq,
           s.phase \in ClosingPhases,
           s.committing = attempt[a].committing, s.persistErr = attempt[a].persistErr,
           s.restartCommitted = attempt[a].restartCommitted,
           NEW pc \in CancelPCs \cup {"publish_drain"}, NEW out, NEW req,
           StepsTo(t, a, pc, out, req),
           pc \in CancelPCs => s.phase = "cancelling",
           pc = "finish_cancel" => out = "cancel_failed"
    PROVE  RecoveryInv'
<1>1. /\ ~attempt[a].committing /\ ~attempt[a].persistErr
      /\ \A u \in Threads : thread[u].att = a => thread[u].pc = "idle"
  BY OpenFacts
<1>2. Retried(s) /\ Mild(s, a)
  BY <1>1 DEF Retried, Mild, Pending, LivePhases, ClosingPhases
<1>3. Undisturbed(t, a, s)
  BY <1>1 DEF Undisturbed, BystanderPCs
<1>4. pc \notin AskingPCs /\ Concludes(pc, out, s)
  BY DEF AskingPCs, StoringPCs, ApplyingPCs, CancelPCs, Concludes, PublicationOutcomes
<1> QED
  BY <1>2, <1>3, <1>4, RecoveryMove

LEMMA CancelPassRecovery ==
    ASSUME TypeInv, LifeInv, RecoveryInv, NEW t \in Threads, NEW a \in Attempts, NEW waited,
           CancelPass(t, a, waited)
    PROVE  RecoveryInv'
<1> DEFINE o == attempt[a]
<1>0. /\ attempt \in [Attempts -> AttemptType] /\ o \in AttemptType /\ SameHistory
  BY AttemptFacts DEF CancelPass, SameHistory
<1>1. CASE attempt' = attempt /\ Return(t)
  BY <1>0, <1>1, StepsHome, RecoveryStay DEF AskingPCs, StoringPCs, ApplyingPCs
<1>2. CASE CancelRetries(t, a, waited) /\ Goto(t, Call(a, "persist", o.outcome))
  <2>0. PICK out : out = o.outcome
    OBVIOUS
  <2>1. attempt' = attempt /\ o.persistErr
    BY <1>2 DEF CancelRetries
  <2>2. Suits(out, o)
    BY <2>0, <2>1 DEF RecoveryInv, ConcludedInv, Retried
  <2>3. Concludes("persist", out, o)
    BY <2>2 DEF Concludes, CancelPCs
  <2>4. StepsTo(t, a, "persist", out, NoRequest)
    BY <1>2, <2>0, StepsCall
  <2> QED
    BY <1>0, <2>1, <2>3, <2>4, RecoveryStay DEF AskingPCs, StoringPCs, ApplyingPCs
<1>3. CASE CancelWaits(t, a)
  <2> DEFINE s == [o EXCEPT !.aborted = @ \/ o.phase = "publishing"]
  <2>1. attempt' = [attempt EXCEPT ![a] = s]
    BY <1>0, <1>3 DEF CancelWaits
  <2>2. /\ s.phase = o.phase /\ s.seq = o.seq /\ s.committing = o.committing
        /\ s.persistErr = o.persistErr /\ s.restartCommitted = o.restartCommitted
        /\ s.claim = o.claim /\ s.outcome = o.outcome
    BY <1>0 DEF AttemptType
  <2> HIDE DEF s
  <2>3. Retried(s) /\ Mild(s, a) /\ Undisturbed(t, a, s)
    BY <2>2 DEF RecoveryInv, ConcludedInv, Retried, Suits, AllSucceeded, Mild, Pending,
       Undisturbed
  <2>4. StepsTo(t, a, "cancel_wait", "none", NoRequest)
    BY <1>3, StepsCall DEF CancelWaits
  <2>5. Concludes("cancel_wait", "none", s) /\ "cancel_wait" \notin AskingPCs
    BY DEF Concludes, CancelPCs, AskingPCs, StoringPCs, ApplyingPCs
  <2> QED
    BY <1>0, <2>1, <2>3, <2>4, <2>5, RecoveryMove
<1>4. CASE CancelWins(t, a)
  <2>1. o.phase \in {"open", "sealed"}
    BY <1>4 DEF CancelWins
  <2>2. PICK s : /\ attempt' = [attempt EXCEPT ![a] = s]
                 /\ s.phase = "cancelling" /\ s.seq = o.seq
                 /\ s.committing = o.committing /\ s.persistErr = o.persistErr
                 /\ s.restartCommitted = o.restartCommitted
    <3> DEFINE s == [o EXCEPT !.phase = "cancelling"]
               u == [o EXCEPT !.phase = "cancelling", !.producer = FALSE]
    <3>1. attempt' = [attempt EXCEPT ![a] = s] \/ attempt' = [attempt EXCEPT ![a] = u]
      BY <1>0, <1>4 DEF CancelWins
    <3>2. /\ s.phase = "cancelling" /\ s.seq = o.seq
          /\ s.committing = o.committing /\ s.persistErr = o.persistErr
          /\ s.restartCommitted = o.restartCommitted
      BY <1>0 DEF AttemptType
    <3>3. /\ u.phase = "cancelling" /\ u.seq = o.seq
          /\ u.committing = o.committing /\ u.persistErr = o.persistErr
          /\ u.restartCommitted = o.restartCommitted
      BY <1>0 DEF AttemptType
    <3> HIDE DEF s, u
    <3> QED
      BY <3>1, <3>2, <3>3
  <2>3. PICK pc, out : /\ pc \in CancelPCs /\ Goto(t, Call(a, pc, out))
                       /\ pc = "finish_cancel" => out = "cancel_failed"
    BY <1>4 DEF CancelWins, AfterClaims, CancelPCs
  <2>4. StepsTo(t, a, pc, out, NoRequest)
    BY <2>3, StepsCall
  <2> QED
    BY <1>0, <2>1, <2>2, <2>3, <2>4, RecoveryBegins DEF ClosingPhases
<1> QED
  BY <1>1, <1>2, <1>3, <1>4 DEF CancelPass, CancelReturns, CancelRetries

LEMMA CallingRecovery ==
    ASSUME TypeInv, LifeInv, RecoveryInv, NEW t \in Threads, NEW a \in Attempts, Calling(t, a)
    PROVE  RecoveryInv'
<1> DEFINE o == attempt[a]
<1>0. /\ attempt \in [Attempts -> AttemptType] /\ o \in AttemptType
      /\ {"finish_cancel", "drain"} \subseteq CancelPCs /\ "publish_drain" \notin CancelPCs
  BY AttemptFacts DEF CancelPCs
<1>1. CASE AdmitCloseFails(t, a)
  <2> DEFINE s == [o EXCEPT !.producer = FALSE, !.phase = "cancelling",
                            !.claim = CancelUnresolved(o.claim)]
  <2>1. attempt' = [attempt EXCEPT ![a] = s] /\ o.phase = "open"
    BY <1>0, <1>1 DEF AdmitCloseFails, Admissible
  <2>2. /\ s.phase = "cancelling" /\ s.seq = o.seq
        /\ s.committing = o.committing /\ s.persistErr = o.persistErr
        /\ s.restartCommitted = o.restartCommitted
    BY <1>0 DEF AttemptType
  <2>3. StepsTo(t, a, "finish_cancel", "cancel_failed", NoRequest) /\ SameHistory
    BY <1>1, StepsCall DEF AdmitCloseFails, SameHistory
  <2> HIDE DEF s
  <2> QED
    BY <1>0, <2>1, <2>2, <2>3, RecoveryBegins DEF ClosingPhases
<1>2. CASE AdmitInvalid(t, a)
  <2> DEFINE s == [o EXCEPT !.producer = FALSE, !.admitted = TRUE,
                            !.issued = {}, !.phase = "cancelling"]
  <2>1. attempt' = [attempt EXCEPT ![a] = s] /\ o.phase = "open"
    BY <1>0, <1>2 DEF AdmitInvalid, Admissible
  <2>2. /\ s.phase = "cancelling" /\ s.seq = o.seq
        /\ s.committing = o.committing /\ s.persistErr = o.persistErr
        /\ s.restartCommitted = o.restartCommitted
    BY <1>0 DEF AttemptType
  <2>3. StepsTo(t, a, "drain", "none", NoRequest) /\ SameHistory
    BY <1>2, StepsCall DEF AdmitInvalid, SameHistory
  <2> HIDE DEF s
  <2> QED
    BY <1>0, <2>1, <2>2, <2>3, RecoveryBegins DEF ClosingPhases
<1>3. CASE CancelCall(t, a)
  BY <1>3, CancelPassRecovery DEF CancelCall
<1>4. CASE PublishCall(t, a)
  <2> DEFINE s == [o EXCEPT !.phase = "publishing", !.aborted = FALSE]
  <2>1. attempt' = [attempt EXCEPT ![a] = s] /\ o.phase = "sealed"
    BY <1>0, <1>4 DEF PublishCall
  <2>2. /\ s.phase = "publishing" /\ s.seq = o.seq
        /\ s.committing = o.committing /\ s.persistErr = o.persistErr
        /\ s.restartCommitted = o.restartCommitted
    BY <1>0 DEF AttemptType
  <2>3. StepsTo(t, a, "publish_drain", "none", NoRequest) /\ SameHistory
    BY <1>4, StepsCall DEF PublishCall, SameHistory
  <2> HIDE DEF s
  <2> QED
    BY <1>0, <2>1, <2>2, <2>3, RecoveryBegins DEF ClosingPhases
<1> QED
  BY <1>1, <1>2, <1>3, <1>4 DEF Calling

(* The call that took the attempt over goes on, its claims unchanged.      *)
LEMMA RecoveryGoesOn ==
    ASSUME TypeInv, LifeInv, RecoveryInv, SameHistory, NEW t \in Threads,
           NEW a \in Attempts, a = thread[t].att, thread[t].pc \in OwnerPCs,
           NEW s, attempt' = [attempt EXCEPT ![a] = s], s.seq = attempt[a].seq,
           s.phase = attempt[a].phase, s.claim = attempt[a].claim,
           s.committing = attempt[a].committing, s.persistErr = attempt[a].persistErr,
           s.restartCommitted = attempt[a].restartCommitted,
           NEW pc, pc \notin AskingPCs, NEW out, NEW req, StepsTo(t, a, pc, out, req),
           Concludes(pc, out, s)
    PROVE  RecoveryInv'
<1>1. ~attempt[a].committing /\ ~attempt[a].persistErr
  BY LifeFacts DEF Fits, OwnerPCs, PublishPCs, SlotPCs
<1>2. Retried(s) /\ Mild(s, a) /\ Undisturbed(t, a, s)
  BY <1>1 DEF Retried, Mild, Pending, Undisturbed
<1> QED
  BY <1>2, RecoveryMove

(* The same, in a cancellation that is not drained yet.                    *)
LEMMA CancellationGoesOn ==
    ASSUME TypeInv, LifeInv, RecoveryInv, SameHistory, NEW t \in Threads,
           NEW a \in Attempts, a = thread[t].att, thread[t].pc \in CancelPCs,
           NEW s, attempt' = [attempt EXCEPT ![a] = s], s.seq = attempt[a].seq,
           s.phase = attempt[a].phase, s.claim = attempt[a].claim,
           s.committing = attempt[a].committing, s.persistErr = attempt[a].persistErr,
           s.restartCommitted = attempt[a].restartCommitted,
           NEW pc \in CancelPCs, NEW out, NEW req, StepsTo(t, a, pc, out, req),
           pc = "finish_cancel" => out \notin PublicationOutcomes
    PROVE  RecoveryInv'
<1>1. thread[t].pc \in OwnerPCs /\ thread[t].pc # "idle"
  BY DEF CancelPCs, OwnerPCs
<1>2. attempt[a].phase = "cancelling"
  BY <1>1, ConcludedFacts DEF RecoveryInv, Concludes
<1>3. pc \notin AskingPCs /\ Concludes(pc, out, s)
  BY <1>2 DEF AskingPCs, StoringPCs, ApplyingPCs, CancelPCs, Concludes
<1> QED
  BY <1>1, <1>3, RecoveryGoesOn

LEMMA CancellingRecovery ==
    ASSUME TypeInv, LifeInv, RecoveryInv, NEW t \in Threads, Cancelling(t)
    PROVE  RecoveryInv'
<1>1. CASE CancelWoken(t)
  <2>1. thread[t].att \in Attempts
    BY <1>1, BusyFacts DEF CancelWoken
  <2> QED
    BY <1>1, <2>1, CancelPassRecovery DEF CancelWoken
<1>2. CASE ClaimsWoken(t) \/ CloseOpen(t) \/ Drain(t) \/ FinishCancellation(t)
  <2>0. PICK a, o, was : a = thread[t].att /\ o = attempt[a] /\ was = thread[t].out
    OBVIOUS
  <2>1. /\ thread[t].pc \in OwnerPCs /\ thread[t].pc # "idle" /\ thread[t].pc \in CancelPCs
        /\ SameHistory
    BY <1>2 DEF ClaimsWoken, CloseOpen, Drain, FinishCancellation, OwnerPCs, CancelPCs,
       SameHistory
  <2>2. /\ a \in Attempts /\ o \in AttemptType /\ attempt \in [Attempts -> AttemptType]
        /\ o.phase = "cancelling"
        /\ thread[t].pc = "finish_cancel" => was \notin PublicationOutcomes
        /\ ~o.committing /\ ~o.persistErr
        /\ thread[t].pc = "finish_cancel" => NoClaimIn(o)
        /\ \A u \in Threads \ {t} : thread[u].att = a => thread[u].pc \in BystanderPCs
    <3>1. a \in Attempts
      BY <2>0, <2>1, BusyFacts
    <3>2. Fits(thread[t].pc, was, o) /\ o \in AttemptType /\ attempt \in [Attempts -> AttemptType]
      BY <2>0, <2>1, <3>1, LifeFacts
    <3>3. Concludes(thread[t].pc, was, o)
      BY <2>0, <2>1, ConcludedFacts DEF RecoveryInv
    <3>4. \A u \in Threads \ {t} : thread[u].att = a => thread[u].pc \in BystanderPCs
      BY <2>0, <2>1, <3>1, LifeFacts
    <3> QED
      BY <2>1, <3>1, <3>2, <3>3, <3>4 DEF Fits, Concludes, DrainedPCs, PCs
  <2>4. CASE ClaimsWoken(t)
    <3>1. CASE attempt' = attempt /\ Goto(t, At(t, "claims_wait"))
      <4>1. attempt' = [attempt EXCEPT ![a] = o]
        BY <2>0, <2>2, <3>1
      <4>2. StepsTo(t, a, "claims_wait", was, thread[t].req)
        BY <2>0, <3>1, StepsAt
      <4> QED
        BY <2>0, <2>1, <2>2, <4>1, <4>2, CancellationGoesOn DEF CancelPCs
    <3>2. CASE ~ (attempt' = attempt /\ Goto(t, At(t, "claims_wait")))
      <4> DEFINE s == [o EXCEPT !.producer = FALSE]
      <4>1. attempt' = [attempt EXCEPT ![a] = s] /\ Goto(t, AfterClaims(a))
        BY <2>0, <2>2, <2>4, <3>2 DEF ClaimsWoken
      <4>2. /\ s.phase = o.phase /\ s.seq = o.seq /\ s.claim = o.claim
            /\ s.committing = o.committing /\ s.persistErr = o.persistErr
            /\ s.restartCommitted = o.restartCommitted
        BY <2>2 DEF AttemptType
      <4> HIDE DEF s
      <4>3. PICK pc, out : /\ pc \in CancelPCs /\ Goto(t, Call(a, pc, out))
                        /\ out \notin PublicationOutcomes
        BY <4>1 DEF AfterClaims, CancelPCs, PublicationOutcomes
      <4>4. StepsTo(t, a, pc, out, NoRequest)
        BY <4>3, StepsCall
      <4> QED
        BY <2>0, <2>1, <2>2, <4>1, <4>2, <4>3, <4>4, CancellationGoesOn
    <3> QED
      BY <3>1, <3>2
  <2>5. CASE CloseOpen(t)
    <3>1. attempt' = [attempt EXCEPT ![a] = o]
      BY <2>0, <2>2, <2>5 DEF CloseOpen
    <3>2. PICK out : /\ Goto(t, Call(a, "finish_cancel", out))
                     /\ out \notin PublicationOutcomes
      BY <2>0, <2>5 DEF CloseOpen, PublicationOutcomes
    <3>3. StepsTo(t, a, "finish_cancel", out, NoRequest)
      BY <3>2, StepsCall
    <3> QED
      BY <2>0, <2>1, <2>2, <3>1, <3>2, <3>3, CancellationGoesOn DEF CancelPCs
  <2>6. CASE Drain(t)
    <3> DEFINE s(result) == [o EXCEPT !.drain = result]
    <3>1. PICK result \in {"complete", "failed"}, out \in {"cancelled", "cancel_failed"} :
            /\ attempt' = [attempt EXCEPT ![a] = s(result)]
            /\ Goto(t, Call(a, "finish_cancel", out))
      BY <2>0, <2>2, <2>6 DEF Drain
    <3>2. PICK x : x = s(result)
      OBVIOUS
    <3>3. /\ x.phase = o.phase /\ x.seq = o.seq /\ x.claim = o.claim
          /\ x.committing = o.committing /\ x.persistErr = o.persistErr
          /\ x.restartCommitted = o.restartCommitted
      BY <2>2, <3>2 DEF AttemptType
    <3>4. attempt' = [attempt EXCEPT ![a] = x] /\ out \notin PublicationOutcomes
      BY <3>1, <3>2 DEF PublicationOutcomes
    <3>5. StepsTo(t, a, "finish_cancel", out, NoRequest)
      BY <3>1, StepsCall
    <3> HIDE DEF s
    <3> QED
      BY <2>0, <2>1, <2>2, <3>3, <3>4, <3>5, CancellationGoesOn DEF CancelPCs
  <2>7. CASE FinishCancellation(t)
    <3> DEFINE s == [o EXCEPT !.claim = CancelUnresolved(o.claim)]
    <3>1. /\ attempt' = [attempt EXCEPT ![a] = s] /\ thread[t].pc = "finish_cancel"
          /\ Goto(t, At(t, "persist"))
      BY <2>0, <2>2, <2>7 DEF FinishCancellation
    <3>2. /\ s.phase = o.phase /\ s.seq = o.seq /\ s.claim = CancelUnresolved(o.claim)
          /\ s.committing = o.committing /\ s.persistErr = o.persistErr
          /\ s.restartCommitted = o.restartCommitted
      BY <2>2 DEF AttemptType
    <3> HIDE DEF s
    <3>3. Suits(was, s)
      <4>1. \A p \in Ordinals : o.claim[p] \in {"unresolved"} \cup ClaimOutcomes
        BY <2>2, <3>1 DEF NoClaimIn, AttemptType
      <4>2. CancelUnresolved(o.claim) \in [Ordinals -> ClaimOutcomes]
        BY <4>1 DEF CancelUnresolved, ClaimOutcomes
      <4> QED
        BY <2>2, <3>1, <3>2, <4>2 DEF Suits, PublicationOutcomes
    <3>4. Concludes("persist", was, s) /\ "persist" \notin AskingPCs
      BY <3>3 DEF Concludes, CancelPCs, AskingPCs, StoringPCs, ApplyingPCs
    <3>5. Retried(s) /\ Mild(s, a) /\ Undisturbed(t, a, s)
      BY <2>0, <2>2, <3>2 DEF Retried, Mild, Pending, Undisturbed
    <3>6. StepsTo(t, a, "persist", was, thread[t].req)
      BY <2>0, <3>1, StepsAt
    <3> QED
      BY <2>1, <2>2, <3>1, <3>4, <3>5, <3>6, RecoveryMove
  <2> QED
    BY <1>2, <2>4, <2>5, <2>6, <2>7
<1> QED
  BY <1>1, <1>2 DEF Cancelling

-----------------------------------------------------------------------------
(* Publication and terminal commits, without their decisions               *)

LEMMA SuccessSuits ==
    ASSUME NEW s \in AttemptType, AllSucceeded(s)
    PROVE  Suits("publish_failed", s) /\ s.claim \in [Ordinals -> ClaimOutcomes]
  BY DEF AllSucceeded, Suits, AttemptType, ClaimOutcomes

LEMMA PublicationStepsRecovery ==
    ASSUME TypeInv, LifeInv, RecordInv, RecoveryInv, NEW t \in Threads,
           \/ PublishDrain(t) \/ TakeSlot(t) \/ LeaveQueueAborted(t) \/ LeaveQueueContext(t)
           \/ Recheck(t) \/ StorePublicationFails(t)
           \/ PublishSnapshot(t) /\ FailPublication(t) /\ Release
           \/ ApplyPublication(t) /\ attempt' = attempt /\ FailPublication(t) /\ Release
    PROVE  RecoveryInv'
<1>0. PICK a, o : a = thread[t].att /\ o = attempt[a]
  OBVIOUS
<1>1. thread[t].pc \in PublishPCs
  BY DEF PublishDrain, TakeSlot, LeaveQueueAborted, LeaveQueueContext, Recheck,
     PublishSnapshot, StorePublicationFails, ApplyPublication, PublishPCs, SlotPCs
<1>2. /\ thread[t].pc \in OwnerPCs /\ a \in Attempts /\ thread[t].pc # "idle"
      /\ attempt \in [Attempts -> AttemptType] /\ o \in AttemptType
  BY <1>0, <1>1, OwnedPublication
<1>3. AllSucceeded(o)
  BY <1>0, <1>1, <1>2, LifeFacts DEF Fits
<1>4. SameHistory
  BY LedgerFacts DEF PublishDrain, TakeSlot, LeaveQueueAborted, LeaveQueueContext, Recheck,
     PublishSnapshot, StorePublicationFails, ApplyPublication, Release, SameHistory, LedgerType
<1>5. PICK s : /\ attempt' = [attempt EXCEPT ![a] = s]
               /\ s.phase = o.phase /\ s.seq = o.seq /\ s.claim = o.claim
               /\ s.committing = o.committing /\ s.persistErr = o.persistErr
               /\ s.restartCommitted = o.restartCommitted
  <2>1. CASE attempt' = attempt
    <3>1. attempt' = [attempt EXCEPT ![a] = o]
      BY <1>0, <1>2, <2>1
    <3> QED
      BY <3>1
  <2>2. CASE PublishDrain(t)
    <3> DEFINE s(result) == [o EXCEPT !.drain = result]
    <3>1. PICK result : attempt' = [attempt EXCEPT ![a] = s(result)]
      BY <1>0, <1>2, <2>2 DEF PublishDrain
    <3>2. PICK x : x = s(result)
      OBVIOUS
    <3>3. /\ x.phase = o.phase /\ x.seq = o.seq /\ x.claim = o.claim
          /\ x.committing = o.committing /\ x.persistErr = o.persistErr
          /\ x.restartCommitted = o.restartCommitted
      BY <1>2, <3>2 DEF AttemptType
    <3> QED
      BY <3>1, <3>2, <3>3
  <2> QED
    BY <2>1, <2>2 DEF TakeSlot, LeaveQueueAborted, LeaveQueueContext, Recheck,
       PublishSnapshot, StorePublicationFails
<1>6. CASE FailPublication(t)
  <2>1. StepsTo(t, a, "persist", "publish_failed", NoRequest)
    BY <1>0, <1>6, StepsCall DEF FailPublication
  <2>2. Concludes("persist", "publish_failed", s) /\ "persist" \notin AskingPCs
    BY <1>2, <1>3, <1>5, SuccessSuits
       DEF Concludes, CancelPCs, AskingPCs, StoringPCs, ApplyingPCs, Suits, AllSucceeded
  <2> QED
    BY <1>0, <1>2, <1>4, <1>5, <2>1, <2>2, RecoveryGoesOn
<1>7. CASE ~FailPublication(t)
  <2>1. PICK pc \in {"slot", "recheck", "publish_snapshot"} : Goto(t, At(t, pc))
    BY <1>7 DEF PublishDrain, TakeSlot, LeaveQueueAborted, LeaveQueueContext, Recheck,
       StorePublicationFails
  <2>2. PICK out, req : StepsTo(t, a, pc, out, req)
    BY <1>0, <2>1, StepsAt
  <2>3. Concludes(pc, out, s) /\ pc \notin AskingPCs
    BY DEF Concludes, CancelPCs, AskingPCs, StoringPCs, ApplyingPCs
  <2> QED
    BY <1>0, <1>2, <1>4, <1>5, <2>2, <2>3, RecoveryGoesOn
<1> QED
  BY <1>6, <1>7
LEMMA PersistRecovery ==
    ASSUME TypeInv, OneCommitDriver, LifeInv, RecoveryInv, NEW t \in Threads, Persist(t)
    PROVE  RecoveryInv'
<1>0. PICK a, o, out : a = thread[t].att /\ o = attempt[a] /\ out = thread[t].out
  OBVIOUS
<1>1. /\ a \in Attempts /\ attempt \in [Attempts -> AttemptType] /\ o \in AttemptType
      /\ thread[t].pc = "persist" /\ thread[t].pc # "idle" /\ SameHistory
  <2>1. thread[t].pc = "persist" /\ SameHistory
    BY DEF Persist, SameHistory
  <2> QED
    BY <1>0, <2>1, DriverFacts
<1>2. \A pc \in {"idle", "join_wait", "commit", "finalize"} :
        pc \notin AskingPCs /\ pc \notin CancelPCs \cup {"persist"}
  BY DEF AskingPCs, StoringPCs, ApplyingPCs, CancelPCs
<1>3. CASE attempt' = attempt /\ Return(t)
  BY <1>1, <1>2, <1>3, StepsHome, RecoveryStay
<1>4. CASE attempt' = attempt /\ Goto(t, At(t, "join_wait"))
  <2>1. StepsTo(t, a, "join_wait", out, thread[t].req)
    BY <1>0, <1>4, StepsAt
  <2>2. Concludes("join_wait", out, attempt[a])
    BY <1>2, NothingConcluded
  <2> QED
    BY <1>1, <1>2, <1>4, <2>1, <2>2, RecoveryStay
<1>5. CASE ~ (attempt' = attempt /\ Return(t)) /\ ~ (attempt' = attempt /\ Goto(t, At(t, "join_wait")))
  <2> DEFINE s == [o EXCEPT !.outcome = out, !.committing = TRUE]
  <2>1. PICK pc \in {"commit", "finalize"} :
          /\ attempt' = [attempt EXCEPT ![a] = s] /\ o.phase \in ClosingPhases
          /\ Goto(t, At(t, pc))
    <3>1. /\ attempt' = [attempt EXCEPT ![a].outcome = out, ![a].committing = TRUE]
          /\ o.phase \in ClosingPhases
          /\ Goto(t, At(t, IF o.restartCommitted THEN "finalize" ELSE "commit"))
      BY <1>0, <1>5 DEF Persist, ClosingPhases
    <3>2. attempt' = [attempt EXCEPT ![a] = s]
      BY <1>0, <1>1, <3>1
    <3> QED
      BY <3>1, <3>2
  <2>2. /\ s.phase = o.phase /\ s.seq = o.seq /\ s.claim = o.claim /\ s.outcome = out
        /\ s.restartCommitted = o.restartCommitted
    BY <1>1 DEF AttemptType
  <2> HIDE DEF s
  <2>3. Suits(out, o)
    BY <1>0, <1>1, <2>1, ConcludedFacts DEF RecoveryInv, Concludes
  <2>4. Retried(s) /\ Mild(s, a) /\ Undisturbed(t, a, s)
    BY <1>0, <2>2, <2>3 DEF Retried, Suits, AllSucceeded, Mild, Pending, Undisturbed
  <2>5. StepsTo(t, a, pc, out, thread[t].req)
    BY <1>0, <2>1, StepsAt
  <2>6. Concludes(pc, out, s)
    BY <1>2, NothingConcluded
  <2> QED
    BY <1>1, <1>2, <2>1, <2>4, <2>5, <2>6, RecoveryMove
<1> QED
  BY <1>3, <1>4, <1>5

(* A commit that ends, or does not get to a decision.                      *)
LEMMA CommitEndsRecovery ==
    ASSUME LedgerInv, RecoveryInv, NEW t \in Threads,
           \/ JoinWoken(t) \/ CommitFails(t) \/ Finalize(t) \/ StoreTerminalFails(t)
           \/ (CommitSnapshot(t) \/ ApplyTerminal(t)) /\ Goto(t, At(t, "commit_failed"))
              /\ attempt' = attempt /\ ledger' = ledger
    PROVE  RecoveryInv'
<1>0. PICK a, o, out : a = thread[t].att /\ o = attempt[a] /\ out = thread[t].out
  OBVIOUS
<1>1. TypeInv /\ OneCommitDriver /\ LifeInv
  BY DEF LedgerInv
<1>2. /\ a \in Attempts /\ attempt \in [Attempts -> AttemptType] /\ o \in AttemptType
      /\ thread[t].pc # "idle" /\ Retried(o)
  <2>1. thread[t].pc # "idle"
    BY DEF JoinWoken, CommitFails, Finalize, StoreTerminalFails, CommitSnapshot, ApplyTerminal
  <2> QED
    BY <1>0, <1>1, <2>1, BusyFacts, AttemptFacts, ConcludedFacts DEF RecoveryInv
<1>3. SameHistory
  BY <1>1, LedgerFacts DEF JoinWoken, CommitFails, Finalize, StoreTerminalFails,
     CommitSnapshot, ApplyTerminal, SameHistory, LedgerType
<1>4. \A pc \in {"idle", "join_wait", "commit_failed"} :
        pc \notin AskingPCs /\ pc \notin CancelPCs \cup {"persist"}
  BY DEF AskingPCs, StoringPCs, ApplyingPCs, CancelPCs
<1>5. CASE attempt' = attempt
  <2>1. PICK att, pc, x, req : /\ StepsTo(t, att, pc, x, req) /\ (pc # "idle" => att = a)
                               /\ pc \in {"idle", "join_wait", "commit_failed"}
    <3>1. CASE Return(t) \/ BroadcastAnd(a, t, Idle)
      BY <1>1, <1>2, <3>1, StepsHome
    <3>2. CASE \E pc \in {"join_wait", "commit_failed"} : Goto(t, At(t, pc))
      BY <1>0, <1>1, <3>2, StepsAt
    <3> QED
      BY <1>0, <3>1, <3>2 DEF JoinWoken, CommitFails, Finalize, StoreTerminalFails
  <2>2. Concludes(pc, x, attempt[a])
    BY <1>4, <2>1, NothingConcluded
  <2> QED
    BY <1>1, <1>2, <1>3, <1>4, <1>5, <2>1, <2>2, RecoveryStay
<1>6. ASSUME NEW s, attempt' = [attempt EXCEPT ![a] = s], BroadcastAnd(a, t, Idle),
             Retried(s), Mild(s, a), Undisturbed(t, a, s)
      PROVE  RecoveryInv'
  BY <1>1, <1>2, <1>3, <1>4, <1>6, StepsHome, RecoveryMove
<1>7. CASE CommitFails(t) \/ (Finalize(t) /\ ~Finalizable(a, out))
  <2> DEFINE s == [o EXCEPT !.committing = FALSE, !.persistErr = TRUE]
  <2>1. attempt' = [attempt EXCEPT ![a] = s] /\ BroadcastAnd(a, t, Idle)
    BY <1>0, <1>2, <1>7 DEF CommitFails, Finalize
  <2>2. /\ s.phase = o.phase /\ s.seq = o.seq /\ s.claim = o.claim /\ s.outcome = o.outcome
        /\ s.restartCommitted = o.restartCommitted
    BY <1>2 DEF AttemptType
  <2> HIDE DEF s
  <2>3. thread[t].pc \in CommitPCs
    BY <1>7 DEF CommitFails, Finalize, CommitPCs
  <2>4. o.committing
    BY <1>0, <1>1, <2>3, DriverFacts
  <2>5. Retried(s) /\ Mild(s, a) /\ Undisturbed(t, a, s)
    BY <1>0, <1>2, <2>2, <2>4 DEF Retried, Suits, AllSucceeded, Mild, Pending, Undisturbed
  <2> QED
    BY <1>6, <2>1, <2>5
<1>8. CASE Finalize(t) /\ Finalizable(a, out)
  <2>1. attempt' = [attempt EXCEPT ![a] = Finalized(o, out)] /\ BroadcastAnd(a, t, Idle)
    BY <1>0, <1>2, <1>8 DEF Finalize
  <2>2. thread[t].pc \in CommitPCs
    BY <1>8 DEF Finalize, CommitPCs
  <2>3. out \in TerminalPhases /\ \A u \in Threads \ {t} : thread[u].att = a =>
          thread[u].pc \notin OwnerPCs
    BY <1>0, <1>1, <2>2, DriverFacts
  <2>4. o.phase \in ClosingPhases
    BY <1>0, <1>8 DEF Finalizable, ClosingPhases
  <2>5. PICK s : s = Finalized(o, out)
    OBVIOUS
  <2>6. /\ s.phase = out /\ s.seq = o.seq /\ ~s.committing /\ ~s.persistErr
    BY <2>5, UnbornTyped DEF Finalized, Unborn
  <2>7. out \notin ClosingPhases \cup LivePhases \cup {"unborn"}
    BY <2>3 DEF TerminalPhases, ClosingPhases, LivePhases
  <2>8. Retried(s) /\ Mild(s, a) /\ Undisturbed(t, a, s)
    BY <1>0, <2>3, <2>4, <2>6, <2>7 DEF Retried, Mild, Undisturbed, ClosingPhases
  <2> QED
    BY <1>6, <2>1, <2>5, <2>8
<1>9. CASE JoinWoken(t) \/ StoreTerminalFails(t)
  <2>1. attempt' = attempt
    BY <1>9 DEF JoinWoken, StoreTerminalFails
  <2> QED
    BY <1>5, <2>1
<1> QED
  BY <1>5, <1>7, <1>8, <1>9
-----------------------------------------------------------------------------
(* Asking for a decision                                                   *)

LEMMA OwnRecord ==
    ASSUME NEW q, NEW out, NEW claim, Recordable(q, out, claim)
    PROVE  /\ \A x \in Batch(q, out, claim) : x.seq \in BatchAt(q)
           /\ {x \in Batch(q, out, claim) : x.kind = "attempt" /\ x.outcome = "published"}
                = IF out = "published" THEN {AttemptTombstone(q, ClaimCount, out)} ELSE {}
<1>1. /\ Sequences(Batch(q, out, claim)) = BatchAt(q)
      /\ \A x \in Batch(q, out, claim) :
            x.kind = "attempt" => x = AttemptTombstone(q, ClaimCount, out)
      /\ AttemptTombstone(q, ClaimCount, out) \in Batch(q, out, claim)
  BY BatchFacts
<1>2. PICK y : y = AttemptTombstone(q, ClaimCount, out)
  OBVIOUS
<1>2a. y.kind = "attempt" /\ y.outcome = out
  BY <1>2 DEF AttemptTombstone
<1>3. \A x \in Batch(q, out, claim) : x.seq \in BatchAt(q)
  BY <1>1 DEF Sequences
<1>4. {x \in Batch(q, out, claim) : x.kind = "attempt" /\ x.outcome = "published"}
        = IF out = "published" THEN {y} ELSE {}
  <2> DEFINE own == {x \in Batch(q, out, claim) : x.kind = "attempt" /\ x.outcome = "published"}
  <2>1. \A x : x \in own <=> x = y /\ out = "published"
    BY <1>1, <1>2, <1>2a
  <2> HIDE DEF own
  <2>2. own = IF out = "published" THEN {y} ELSE {}
    BY <2>1
  <2> QED
    BY <2>2 DEF own
<1> QED
  BY <1>2, <1>3, <1>4

(* The history a pending attempt asks for is never refused, and follows    *)
(* the one it was built from.                                              *)
LEMMA TargetFollows ==
    ASSUME LedgerInv, RecordInv, RecoveryInv, NEW a \in Attempts, Pending(a),
           NEW out \in TerminalPhases, attempt[a].claim \in [Ordinals -> ClaimOutcomes],
           out \in PublicationOutcomes => AllSucceeded(attempt[a])
    PROVE  /\ Follows(TargetFor(a, out), ledger.durable, a, out)
           /\ ~TargetRefused(a, out)
<1> DEFINE q == attempt[a].seq
           claim == attempt[a].claim
           d == ledger.durable
           end == Reserved
           own == Batch(q, out, claim)
           r == TargetFor(a, out)
<1>1. /\ TypeInv /\ Sane(d) /\ ledger.next \in 0 .. MaxUint64 /\ ledger.exhausted \in BOOLEAN
      /\ ledger.exhausted <=> ledger.next = 0
      /\ AuditTombstoneLimit \in Nat \ {0}
  BY LedgerFacts DEF LedgerInv, RecoveryInv, HistoryInv, RecordsSane, LedgerType
<1>2. Begun(a)
  BY DEF Pending, Begun, LivePhases
<1>3. /\ q >= 1 /\ q + ClaimCount <= end /\ EndSequence(d) <= end /\ q \in Nat
  BY <1>1, <1>2, AttemptFacts
     DEF RecordInv, SequencesOwned, WatermarksOrdered, Behind, AttemptType
<1>4. Recordable(q, out, claim)
  BY <1>3 DEF Recordable, AllSucceeded
<1>5. \A x \in d.audit : x.seq \notin BatchAt(q)
  BY DEF RecoveryInv, HistoryInv, NothingEarly, ClearOf
<1>6. TerminalTombstones(a, out) = own
  BY DEF TerminalTombstones, Batch
<1>7. r = TerminalRestart(d, ledger.next, ledger.exhausted, own, AuditTombstoneLimit)
  BY <1>6 DEF TargetFor
<1>8. end = IF ledger.exhausted THEN MaxUint64 ELSE ledger.next - 1
  BY DEF Reserved, EndSequence
<1>9. /\ Succeeds(r, d, AuditTombstoneLimit)
      /\ r.audit \subseteq d.audit \cup own
      /\ r.truncated = 0 => d.truncated = 0 /\ r.audit = d.audit \cup own
      /\ \A x, y \in d.audit \cup own : x.seq = y.seq => x = y
  <2>1. PICK n, e, dd, rr, qq, cc, ee :
          /\ n = ledger.next /\ e = ledger.exhausted /\ dd = d /\ rr = r /\ qq = q /\ cc = claim
          /\ ee = end
    OBVIOUS
  <2>2. /\ n \in 0 .. MaxUint64 /\ e \in BOOLEAN /\ (e <=> n = 0) /\ Recordable(qq, out, cc)
        /\ dd \in RestartType /\ ValidRestart(dd, AuditTombstoneLimit)
    BY <1>1, <1>4, <2>1 DEF Sane
  <2>3. /\ ee = IF e THEN MaxUint64 ELSE n - 1
        /\ EndSequence(dd) <= ee /\ qq + ClaimCount <= ee
    BY <1>3, <1>8, <2>1
  <2>4. \A x \in dd.audit : x.seq \notin BatchAt(qq)
    BY <1>5, <2>1
  <2>5. rr = TerminalRestart(dd, n, e, Batch(qq, out, cc), AuditTombstoneLimit)
    BY <1>7, <2>1
  <2>6. /\ Succeeds(rr, dd, AuditTombstoneLimit)
        /\ rr.audit \subseteq dd.audit \cup Batch(qq, out, cc)
        /\ rr.truncated = 0 =>
              dd.truncated = 0 /\ rr.audit = dd.audit \cup Batch(qq, out, cc)
        /\ \A x, y \in dd.audit \cup Batch(qq, out, cc) : x.seq = y.seq => x = y
    BY <1>1, <2>2, <2>3, <2>4, <2>5, TerminalRestartSound
  <2> QED
    BY <2>1, <2>6
<1>10. \A x \in own : x.seq \in BatchAt(q)
  BY <1>4, OwnRecord
<1>11. {x \in own : x.kind = "attempt" /\ x.outcome = "published"} = Own(a, out)
  BY <1>4, OwnRecord DEF Own
<1>12. /\ Published(r) = {x \in r.audit : x.kind = "attempt" /\ x.outcome = "published"}
       /\ Published(d) = {x \in d.audit : x.kind = "attempt" /\ x.outcome = "published"}
  BY DEF Published, AttemptsOf
<1>13. Follows(r, d, a, out)
  <2> HIDE DEF q, claim, d, end, own, r
  <2>1. Published(r) \subseteq Published(d) \cup Own(a, out)
    BY <1>9, <1>11, <1>12
  <2>2. r.truncated = 0 => Published(r) = Published(d) \cup Own(a, out)
    BY <1>9, <1>11, <1>12
  <2>3. \A x \in r.audit : x \in d.audit \/ x.seq \in BatchAt(attempt[a].seq)
    BY <1>9, <1>10 DEF q
  <2> QED
    BY <1>9, <2>1, <2>2, <2>3 DEF Follows
<1>14. ~TargetRefused(a, out)
  <2>1. ValidRestart(r, AuditTombstoneLimit)
    BY <1>9 DEF Succeeds
  <2>2. ~Conflicting(ledger.durable.audit \cup TerminalTombstones(a, out))
    BY <1>6, <1>9 DEF Conflicting
  <2> QED
    BY <2>1, <2>2 DEF TargetRefused
<1> QED
  BY <1>13, <1>14

(* What a call that is about to ask knows.                                 *)
LEMMA AsksForRecordable ==
    ASSUME LedgerInv, RecordInv, RecoveryInv, NEW t \in Threads,
           thread[t].pc \in {"commit", "publish_snapshot"},
           NEW a, a = thread[t].att,
           NEW out, out = IF thread[t].pc = "commit" THEN thread[t].out ELSE "published"
    PROVE  /\ a \in Attempts /\ Pending(a) /\ out \in TerminalPhases
           /\ attempt[a].claim \in [Ordinals -> ClaimOutcomes]
           /\ out \in PublicationOutcomes => AllSucceeded(attempt[a])
           /\ attempt[a] \in AttemptType /\ Retried(attempt[a])
<1>1. TypeInv /\ OneCommitDriver /\ LifeInv
  BY DEF LedgerInv
<1>2. /\ thread[t].pc # "idle" /\ thread[t].pc \in OwnerPCs \cup DecidingPCs
  BY DEF OwnerPCs, PublishPCs, SlotPCs, DecidingPCs
<1>3. /\ a \in Attempts /\ attempt[a] \in AttemptType /\ Retried(attempt[a])
      /\ ~attempt[a].restartCommitted
      /\ Fits(thread[t].pc, thread[t].out, attempt[a])
  BY <1>1, <1>2, BusyFacts, LifeFacts, KnowsFacts, ConcludedFacts DEF Knows, RecoveryInv
<1>4. CASE thread[t].pc = "commit"
  <2>1. thread[t].pc \in CommitPCs
    BY <1>4 DEF CommitPCs
  <2>2. /\ attempt[a].committing /\ attempt[a].outcome = out /\ out \in TerminalPhases
        /\ attempt[a].phase \in ClosingPhases
    BY <1>1, <1>3, <1>4, <2>1, DriverFacts DEF Fits
  <2>3. Suits(out, attempt[a])
    BY <1>3, <2>2 DEF Retried
  <2> QED
    BY <1>3, <2>2, <2>3 DEF Suits, Pending, ClosingPhases, LivePhases
<1>5. CASE thread[t].pc = "publish_snapshot"
  <2>1. attempt[a].phase = "publishing" /\ AllSucceeded(attempt[a])
    BY <1>3, <1>5 DEF Fits, PublishPCs, SlotPCs
  <2> QED
    BY <1>3, <1>5, <2>1, SuccessSuits DEF Pending, LivePhases, TerminalPhases
<1> QED
  BY <1>4, <1>5

LEMMA TargetsAreAccepted == LedgerInv /\ RecordInv /\ RecoveryInv => TargetsAccepted
<1> SUFFICES ASSUME LedgerInv, RecordInv, RecoveryInv, NEW t \in Threads
             PROVE  /\ thread[t].pc = "commit" => ~TargetRefused(thread[t].att, thread[t].out)
                    /\ thread[t].pc = "publish_snapshot" => ~TargetRefused(thread[t].att, "published")
  BY DEF TargetsAccepted
<1>1. CASE thread[t].pc = "commit"
  BY <1>1, AsksForRecordable, TargetFollows
<1>2. CASE thread[t].pc = "publish_snapshot"
  BY <1>2, AsksForRecordable, TargetFollows
<1> QED
  BY <1>1, <1>2
LEMMA ConcludedStay ==
    ASSUME TypeInv, ConcludedInv, NEW t \in Threads, NEW a \in Attempts, attempt' = attempt,
           NEW pc, NEW out, NEW req, StepsTo(t, a, pc, out, req),
           pc \notin CancelPCs \cup {"persist"}
    PROVE  ConcludedInv'
<1>1. PICK s : s = attempt[a]
  OBVIOUS
<1>2. attempt' = [attempt EXCEPT ![a] = s]
  BY <1>1, AttemptFacts
<1>3. Concludes(pc, out, s) /\ Retried(s)
  BY <1>1, NothingConcluded DEF ConcludedInv
<1>4. \A u \in Threads \ {t} : thread[u].att = a /\ thread[u].pc # "idle" =>
        Concludes(thread[u].pc, thread[u].out, s)
  BY <1>1 DEF ConcludedInv
<1> QED
  BY <1>2, <1>3, <1>4, ConcludedMove

LEMMA AskingRecovery ==
    ASSUME LedgerInv, RecordInv, RecoveryInv, NEW t \in Threads,
           \/ CommitSnapshot(t) /\ ~ Goto(t, At(t, "commit_failed"))
           \/ PublishSnapshot(t) /\ ~ (FailPublication(t) /\ Release)
    PROVE  RecoveryInv'
<1>0. PICK a, was, out : /\ a = thread[t].att /\ was = thread[t].out
                         /\ out = IF thread[t].pc = "commit" THEN was ELSE "published"
  OBVIOUS
<1>1. TypeInv /\ ConcludedInv /\ HistoryInv
  BY DEF LedgerInv, RecoveryInv
<1>2. /\ thread[t].pc \in {"commit", "publish_snapshot"}
      /\ attempt' = attempt /\ SameHistory
  BY DEF CommitSnapshot, PublishSnapshot, SameHistory
<1>3. /\ a \in Attempts /\ Pending(a) /\ out \in TerminalPhases
      /\ attempt[a].claim \in [Ordinals -> ClaimOutcomes]
      /\ out \in PublicationOutcomes => AllSucceeded(attempt[a])
      /\ Retried(attempt[a]) /\ attempt \in [Attempts -> AttemptType]
  BY <1>0, <1>1, <1>2, AsksForRecordable, AttemptFacts
<1>4. PICK r, p : r = TargetFor(a, out) /\ p = ledger.durable
  OBVIOUS
<1>5. Follows(r, p, a, out) /\ Sane(p)
  BY <1>1, <1>3, <1>4, TargetFollows DEF HistoryInv, RecordsSane
<1>6. PICK pc, req : /\ req.expected = p /\ req.target = r
                     /\ pc = IF thread[t].pc = "commit" THEN "store" ELSE "publish_store"
                     /\ StepsTo(t, a, pc, was, req)
  <2>1. CASE CommitSnapshot(t) /\ ~ Goto(t, At(t, "commit_failed"))
    <3>1. PICK req : req = [NoRequest EXCEPT !.expected = p, !.target = r]
      OBVIOUS
    <3>2. Goto(t, [At(t, "store") EXCEPT !.req = req]) /\ thread[t].pc = "commit"
      BY <1>0, <1>4, <2>1, <3>1 DEF CommitSnapshot
    <3>3. req.expected = p /\ req.target = r
      BY <3>1 DEF NoRequest
    <3> QED
      BY <1>0, <1>1, <3>2, <3>3, StepsAsking
  <2>2. CASE PublishSnapshot(t) /\ ~ (FailPublication(t) /\ Release)
    <3>1. PICK req : req = [expected |-> p, target |-> r,
                            revision |-> ledger.revision, gen |-> ledger.lastCommitted]
      OBVIOUS
    <3>2. Goto(t, [At(t, "publish_store") EXCEPT !.req = req]) /\ thread[t].pc = "publish_snapshot"
      BY <1>0, <1>4, <2>2, <3>1 DEF PublishSnapshot
    <3>3. req.expected = p /\ req.target = r
      BY <3>1
    <3> QED
      BY <1>0, <1>1, <3>2, <3>3, StepsAsking
  <2> QED
    BY <2>1, <2>2
<1>7. pc \in StoringPCs /\ pc \notin ApplyingPCs /\ pc \notin CancelPCs \cup {"persist"}
  BY <1>6 DEF StoringPCs, ApplyingPCs, CancelPCs
<1>8. Asked(t)'
  <2>1. thread'[t].att = a /\ thread'[t].pc = pc /\ thread'[t].req = req /\ Deciding(t)' = out
    BY <1>0, <1>2, <1>6 DEF StepsTo, Deciding
  <2>2. Follows(r, p, a, out)'
    BY <1>2, <1>5, FollowsSame
  <2>3. Before(p, ledger'.durable) /\ ledger'.durable = p
    BY <1>2, <1>4 DEF Before, SameHistory
  <2> QED
    BY <1>5, <1>6, <1>7, <2>1, <2>2, <2>3 DEF Asked
<1>9. HistoryInv'
  <2>1. \A b \in Attempts : /\ attempt'[b].seq = attempt[b].seq
                            /\ Begun(b)' <=> Begun(b)
                            /\ Pending(b)' => Pending(b)
    BY <1>2 DEF Begun, Pending
  <2>2. \A u \in Threads : Waits(u) \/ thread'[u].pc \notin AskingPCs \/ Asked(u)'
    BY <1>6, <1>8 DEF StepsTo
  <2> QED
    BY <1>1, <1>2, <2>1, <2>2, QuietHistory
<1>10. ConcludedInv'
  BY <1>1, <1>2, <1>3, <1>6, <1>7, ConcludedStay
<1> QED
  BY <1>9, <1>10 DEF RecoveryInv
-----------------------------------------------------------------------------
(* Storing a decision                                                      *)

LEMMA SaneFacts ==
    ASSUME NEW r, Sane(r)
    PROVE  /\ r \in RestartType /\ WellEnded(r) /\ Shaped(r)
           /\ EndSequence(r) \in Nat /\ r.truncated \in Nat
           /\ Covers(r, r) /\ IsFiniteSet(r.audit)
           /\ Cardinality(r.audit) = EndSequence(r) - r.truncated
<1>1. r \in RestartType /\ ValidRestart(r, AuditTombstoneLimit) /\ AuditTombstoneLimit \in Nat
  BY DEF Sane
<1>2. WellEnded(r) /\ Shaped(r)
  BY <1>1, ValidIs
<1>3. EndSequence(r) \in Nat /\ r.truncated \in Nat
  BY <1>2, TombstoneFacts
<1>4. IsFiniteSet(r.audit) /\ Cardinality(r.audit) = EndSequence(r) - r.truncated
  BY <1>2, RetainedCount DEF Shaped
<1>5. Covers(r, r)
  BY <1>1, CoversReflexive
<1> QED
  BY <1>1, <1>2, <1>3, <1>4, <1>5

(* What the store holds after a decision: what it held, or the history the *)
(* decision asked for, and then the ledger knew what the store held.       *)
LEMMA DecisionJoins ==
    ASSUME TypeInv, HistoryInv, NEW t \in Threads, thread[t].pc \in StoringPCs,
           NEW req, req = thread[t].req, Accepts(req), NEW j, j = Joined(req.target)
    PROVE  /\ Sane(j) /\ Covers(j, ledger.durable) /\ Covers(j, req.target)
           /\ \/ j = store.restart
              \/ /\ j = req.target /\ req.expected = store.restart
                 /\ ledger.durable = store.restart
<1>1. /\ Follows(req.target, req.expected, thread[t].att, Deciding(t))
      /\ req.expected = store.restart => ledger.durable = store.restart
  BY DEF HistoryInv, RequestsFollow, Asked, AskingPCs
<1>2. Sane(store.restart) /\ Covers(store.restart, ledger.durable)
  BY DEF HistoryInv, RecordsSane
<1>3. Sane(req.target) /\ Covers(req.target, req.expected) /\ Covers(req.target, req.target)
  <2>1. Sane(req.target) /\ Covers(req.target, req.expected)
    BY <1>1 DEF Follows, Succeeds, Sane
  <2> QED
    BY <2>1, SaneFacts
<1>4. CASE Covers(store.restart, req.target)
  BY <1>2, <1>4 DEF Joined
<1>5. CASE ~Covers(store.restart, req.target)
  <2>1. j = req.target /\ req.expected = store.restart
    BY <1>5 DEF Joined, Accepts
  <2> QED
    BY <1>1, <1>3, <2>1
<1> QED
  BY <1>4, <1>5

(* The requests of other goroutines after a decision.                      *)
LEMMA OthersStillAsked ==
    ASSUME TypeInv, HistoryInv, NEW t \in Threads, thread[t].pc \in StoringPCs,
           Accepts(thread[t].req), store'.restart = Joined(thread[t].req.target),
           UNCHANGED <<ledger, attempt, crashes>>,
           NEW u \in Threads, Waits(u), thread'[u].pc \in AskingPCs
    PROVE  Asked(u)'
<1>0. PICK a, req, out, S, j, x, d :
        /\ a = thread[u].att /\ req = thread[u].req /\ out = Deciding(u) /\ S = store.restart
        /\ j = store'.restart /\ x = thread[t].req /\ d = ledger.durable
  OBVIOUS
<1>1. /\ thread[u].pc = thread'[u].pc /\ thread'[u].att = a
      /\ thread'[u].out = thread[u].out /\ thread'[u].req = req
      /\ ledger'.durable = d
  BY <1>0, WaitsAsking
<1>2. /\ Follows(req.target, req.expected, a, out)
      /\ Sane(req.expected) /\ Before(req.expected, d)
      /\ thread[u].pc \in StoringPCs /\ req.expected = S => d = S
      /\ thread[u].pc \in ApplyingPCs /\ req.expected = d /\ ~Covers(d, req.target) =>
            Covers(S, req.target)
  BY <1>0, <1>1 DEF HistoryInv, RequestsFollow, Asked
<1>3. Deciding(u)' = out
  BY <1>0, <1>1 DEF Deciding
<1>4. Follows(req.target, req.expected, a, out)'
  BY <1>2, FollowsSame
<1>5. \/ j = S
      \/ j = x.target /\ x.expected = S /\ d = S
  BY <1>0, DecisionJoins
<1>6. thread[u].pc \in StoringPCs /\ req.expected = j => d = j
  <2>1. CASE j = S
    BY <1>2, <2>1
  <2>2. CASE j = x.target /\ x.expected = S /\ d = S /\ req.expected = j
    <3>1. Succeeds(j, S, AuditTombstoneLimit)
      BY <1>0, <2>2 DEF HistoryInv, RequestsFollow, Asked, AskingPCs, Follows
    <3>2. Before(S, j) /\ Before(j, S) /\ Sane(j) /\ Sane(S)
      BY <1>0, <1>2, <2>2, <3>1 DEF Succeeds, Sane, HistoryInv, RecordsSane
    <3>3. j = S
      BY <3>2, SaneFacts, BeforeIsOrder
    <3> QED
      BY <2>2, <3>3
  <2> QED
    BY <1>5, <2>1, <2>2
<1>7. thread[u].pc \in ApplyingPCs /\ req.expected = d /\ ~Covers(d, req.target) =>
        Covers(j, req.target)
  BY <1>2, <1>5
<1>8. /\ Follows(req.target, req.expected, thread[u].att, Deciding(u))'
      /\ thread'[u].req = req
  BY <1>0, <1>1, <1>3, <1>4
<1> QED
  BY <1>0, <1>1, <1>2, <1>6, <1>7, <1>8 DEF Asked
(* The batches of attempts and decisions after a decision on attempt a.    *)
LEMMA DecisionApart ==
    ASSUME TypeInv, RecordInv, HistoryInv, NEW a \in Attempts, Begun(a),
           UNCHANGED <<ledger, attempt, crashes>>,
           NEW out, store'.decisions = store.decisions \cup {Decision(a, out)},
           \A i, j \in 1 .. Len(store'.effects) :
              i # j => store'.effects[i].seq # store'.effects[j].seq
    PROVE  BatchesApart'
<1>1. /\ BatchesApart /\ \A e \in store.decisions : Placed(e)
      /\ attempt[a].seq \in Nat /\ attempt[a].seq >= 1
      /\ \A b \in Attempts : attempt'[b] = attempt[b] /\ (Begun(b)' <=> Begun(b))
  BY AttemptFacts
     DEF HistoryInv, RecordInv, DecisionsPlaced, SequencesOwned, AttemptType, Begun
<1>2. PICK d : d = Decision(a, out)
  OBVIOUS
<1>3. d.seq = attempt[a].seq /\ d.life = crashes /\ d.att = a
  BY <1>2 DEF Decision
<1>4. ASSUME NEW e \in store.decisions
      PROVE  d.seq = e.seq \/ Apart(d.seq, e.seq)
  <2>1. PICK b : b = e.att /\ e.life <= crashes /\ b \in Attempts /\ e.life \in Nat
                 /\ e.seq \in Nat /\ crashes \in Nat
    BY <1>1, LedgerFacts DEF Placed, StoreType
  <2>2. CASE e.life = crashes
    <3>1. Begun(b) /\ attempt[b].seq = e.seq
      BY <1>1, <2>1, <2>2 DEF Placed
    <3>2. b = a \/ Apart(attempt[a].seq, attempt[b].seq)
      BY <1>1, <2>1, <3>1 DEF BatchesApart
    <3> QED
      BY <1>3, <3>1, <3>2
  <2>3. CASE e.life < crashes
    BY <1>1, <1>3, <2>3 DEF BatchesApart, Apart
  <2> QED
    BY <2>1, <2>2, <2>3
<1>5. ASSUME NEW e \in store.decisions
      PROVE  e.seq = d.seq \/ Apart(e.seq, d.seq)
  BY <1>4, <1>5 DEF Apart
<1>6. ASSUME NEW e \in store'.decisions
      PROVE  /\ e.seq >= 1
             /\ e.life < crashes =>
                   \A b \in Attempts : Begun(b) => e.seq + ClaimCount < attempt[b].seq
             /\ \A f \in store'.decisions : e.seq = f.seq \/ Apart(e.seq, f.seq)
  <2>1. CASE e \in store.decisions
    BY <1>1, <1>2, <1>5, <2>1 DEF BatchesApart
  <2>2. CASE e = d
    <3>1. ~(e.life < crashes)
      BY <1>3, <2>2, LedgerFacts
    <3> QED
      BY <1>1, <1>2, <1>3, <1>4, <2>2, <3>1
  <2> QED
    BY <1>2, <2>1, <2>2
<1> QED
  BY <1>1, <1>6 DEF BatchesApart, Begun

(* Attempt a is decided, and the store's history follows.                  *)
LEMMA DecisionHistory ==
    ASSUME TypeInv, RecordInv, HistoryInv, NEW t \in Threads, thread[t].pc \in StoringPCs,
           NEW a \in Attempts, a = thread[t].att, Begun(a),
           NEW req, req = thread[t].req, Accepts(req), store'.restart = Joined(req.target),
           UNCHANGED <<ledger, attempt, crashes>>,
           store'.decisions = store.decisions \cup {Decision(a, Deciding(t))},
           \A i, j \in 1 .. Len(store'.effects) :
              i # j => store'.effects[i].seq # store'.effects[j].seq,
           NEW pc, pc = IF thread[t].pc = "store" THEN "apply" ELSE "publish_apply",
           StepsTo(t, a, pc, thread[t].out, req),
           StoreCounts'
    PROVE  HistoryInv'
<1>0. PICK S, j, d, out : S = store.restart /\ j = store'.restart /\ d = ledger.durable
                          /\ out = Deciding(t)
  OBVIOUS
<1>1. /\ Sane(j) /\ Covers(j, d) /\ Covers(j, req.target)
      /\ j = S \/ (j = req.target /\ req.expected = S /\ d = S)
  BY <1>0, DecisionJoins
<1>2. /\ Follows(req.target, req.expected, a, out)
      /\ Sane(req.expected) /\ Before(req.expected, d)
  BY <1>0 DEF HistoryInv, RequestsFollow, Asked, AskingPCs
<1>3. RecordsSane'
  BY <1>0, <1>1 DEF HistoryInv, RecordsSane, Sane
<1>4. BatchesApart'
  BY DecisionApart
<1>5. ASSUME NEW b \in Attempts
      PROVE  /\ Begun(b)' /\ ~Decided(b)' => ClearOf(store.restart, b)'
             /\ Pending(b)' => ClearOf(ledger.durable, b)'
  <2>1. attempt'[b] = attempt[b] /\ (Begun(b)' <=> Begun(b)) /\ (Pending(b)' <=> Pending(b))
    BY DEF Begun, Pending
  <2>2. Pending(b)' => ClearOf(ledger.durable, b)'
    BY <2>1 DEF HistoryInv, NothingEarly, ClearOf
  <2>3. ASSUME Begun(b)', ~Decided(b)' PROVE ClearOf(store.restart, b)'
    <3>1. b # a
      <4>1. Decision(a, out) \in store'.decisions
        BY <1>0
      <4>2. Decision(a, out).life = crashes' /\ Decision(a, out).att = a
        BY DEF Decision
      <4> QED
        BY <2>3, <4>1, <4>2 DEF Decided
    <3>2. ~Decided(b)
      BY <2>3 DEF Decided
    <3>3. ClearOf(S, b)
      BY <1>0, <2>1, <2>3, <3>2 DEF HistoryInv, NothingEarly
    <3>4. Apart(attempt[a].seq, attempt[b].seq)
      BY <2>1, <2>3, <3>1 DEF HistoryInv, BatchesApart
    <3>5. attempt[a].seq \in Nat /\ attempt[b].seq \in Nat /\ ClaimCount \in Nat
      BY AttemptFacts DEF AttemptType
    <3>6. ASSUME NEW x \in j.audit PROVE x.seq \notin BatchAt(attempt[b].seq)
      <4>1. x \in S.audit \/ x.seq \in BatchAt(attempt[a].seq)
        BY <1>1, <1>2, <3>6 DEF Follows
      <4>2. CASE x \in S.audit
        BY <3>3, <4>2 DEF ClearOf
      <4>3. CASE x.seq \in BatchAt(attempt[a].seq)
        BY <3>4, <3>5, <4>3 DEF Apart, BatchAt
      <4> QED
        BY <4>1, <4>2, <4>3
    <3> QED
      BY <1>0, <2>1, <3>6 DEF ClearOf
  <2> QED
    BY <2>2, <2>3
<1>6. NothingEarly'
  BY <1>5 DEF NothingEarly
<1>7. ASSUME NEW u \in Threads, thread'[u].pc \in AskingPCs PROVE Asked(u)'
  <2>1. CASE u # t
    BY <1>7, <2>1, OthersStillAsked DEF StepsTo
  <2>2. CASE u = t
    <3>1. /\ thread'[t].att = a /\ thread'[t].pc = pc /\ thread'[t].req = req
          /\ Deciding(t)' = out /\ pc \notin StoringPCs /\ ledger'.durable = d
      BY <1>0 DEF StepsTo, Deciding, StoringPCs
    <3>2. Follows(req.target, req.expected, a, out)'
      BY <1>2, FollowsSame
    <3> QED
      BY <1>0, <1>1, <1>2, <2>2, <3>1, <3>2 DEF Asked
  <2> QED
    BY <2>1, <2>2
<1> QED
  BY <1>3, <1>4, <1>6, <1>7 DEF HistoryInv, RequestsFollow
LEMMA PublishedFacts ==
    ASSUME NEW r, Sane(r)
    PROVE  /\ Published(r) \subseteq r.audit
           /\ IsFiniteSet(Published(r)) /\ Cardinality(Published(r)) \in Nat
<1>1. Published(r) \subseteq r.audit
  BY DEF Published, AttemptsOf
<1>2. IsFiniteSet(Published(r))
  BY <1>1, SaneFacts, FS_Subset
<1> QED
  BY <1>1, <1>2, FS_CardinalityType

(* A decision that is not a publication leaves the count as it is.         *)
LEMMA CountsKept ==
    ASSUME TypeInv, HistoryInv, NEW t \in Threads, thread[t].pc \in StoringPCs,
           Deciding(t) # "published", Accepts(thread[t].req),
           store'.restart = Joined(thread[t].req.target),
           store'.revision = store.revision, store'.gen = store.gen
    PROVE  StoreCounts'
<1>0. PICK S, j, req, P, Q :
        /\ S = store.restart /\ j = store'.restart /\ req = thread[t].req
        /\ P = Published(S) /\ Q = Published(j)
  OBVIOUS
<1>1. Sane(j) /\ Sane(S) /\ StoreCounts /\ store.revision \in Nat
  BY <1>0, DecisionJoins, LedgerFacts DEF HistoryInv, RecordsSane, StoreType
<1>2. j = S \/ (j = req.target /\ req.expected = S)
  BY <1>0, DecisionJoins
<1>3. Q \subseteq P /\ (j.truncated = 0 => S.truncated = 0 /\ Q = P)
  <2>1. CASE j = S
    BY <1>0, <2>1
  <2>2. CASE j = req.target /\ req.expected = S
    <3>1. Follows(j, S, thread[t].att, Deciding(t))
      BY <1>0, <2>2 DEF HistoryInv, RequestsFollow, Asked, AskingPCs
    <3> QED
      BY <1>0, <3>1 DEF Follows, Own
  <2> QED
    BY <1>2, <2>1, <2>2
<1>4. /\ Cardinality(Q) <= Cardinality(P) /\ Cardinality(P) \in Nat /\ Cardinality(Q) \in Nat
  BY <1>0, <1>1, <1>3, PublishedFacts, FS_Subset
<1>5. /\ IF S.truncated = 0 THEN Cardinality(P) = store.revision ELSE Cardinality(P) <= store.revision
      /\ store.revision = 0 => store.gen = 0
      /\ store.gen >= store.revision
  BY <1>0, <1>1 DEF StoreCounts
<1>6. IF j.truncated = 0 THEN Cardinality(Q) = store.revision ELSE Cardinality(Q) <= store.revision
  BY <1>1, <1>3, <1>4, <1>5
<1>7. Published(store.restart)' = Q
  BY <1>0 DEF Published, AttemptsOf
<1> QED
  BY <1>0, <1>5, <1>6, <1>7 DEF StoreCounts

(* A publication is counted: a store that covers it already can only have  *)
(* given up its record.                                                    *)
LEMMA CountsPublication ==
    ASSUME TypeInv, HistoryInv, NEW t \in Threads, thread[t].pc \in StoringPCs,
           Deciding(t) = "published", Accepts(thread[t].req),
           store'.restart = Joined(thread[t].req.target),
           store'.revision = store.revision + 1, store'.gen > store.gen, store'.gen \in Nat,
           NEW a \in Attempts, a = thread[t].att, Begun(a), ~Decided(a),
           attempt[a].seq >= 1,
           attempt[a].seq + ClaimCount <= EndSequence(thread[t].req.target)
    PROVE  StoreCounts'
<1>0. PICK S, j, req, P, Q, y :
        /\ S = store.restart /\ j = store'.restart /\ req = thread[t].req
        /\ P = Published(S) /\ Q = Published(j)
        /\ y = AttemptTombstone(attempt[a].seq, ClaimCount, "published")
  OBVIOUS
<1>1. /\ Sane(j) /\ Sane(S) /\ StoreCounts /\ store.revision \in Nat /\ store.gen \in Nat
      /\ Covers(j, req.target) /\ ClearOf(S, a)
      /\ attempt[a].seq \in Nat /\ ClaimCount \in Nat \ {0}
  BY <1>0, DecisionJoins, LedgerFacts, AttemptFacts
     DEF HistoryInv, RecordsSane, StoreType, NothingEarly, AttemptType
<1>2. j = S \/ (j = req.target /\ req.expected = S)
  BY <1>0, DecisionJoins
<1>3. Follows(req.target, req.expected, a, "published")
  BY <1>0 DEF HistoryInv, RequestsFollow, Asked, AskingPCs
<1>4. y \notin P /\ Own(a, "published") = {y}
  <2>1. y.seq = attempt[a].seq
    BY <1>0 DEF AttemptTombstone
  <2>2. y \notin S.audit
    BY <1>1, <2>1 DEF ClearOf, BatchAt
  <2> QED
    BY <1>0, <1>1, <2>2, PublishedFacts DEF Own
<1>5. /\ Cardinality(P \cup {y}) = Cardinality(P) + 1 /\ IsFiniteSet(P \cup {y})
      /\ Cardinality(P) \in Nat
  BY <1>0, <1>1, <1>4, PublishedFacts, FS_AddElement
<1>6. Q \subseteq P \cup {y} /\ (j.truncated = 0 => S.truncated = 0 /\ Q = P \cup {y})
  <2>1. CASE j = S
    <3>1. EndSequence(req.target) <= EndSequence(S)
      <4>1. req.target \in RestartType /\ S \in RestartType
        BY <1>1, <1>3, SaneFacts DEF Follows, Succeeds
      <4> QED
        BY <1>1, <2>1, <4>1, CoveringEnds
    <3>2. EndSequence(req.target) \in Int /\ EndSequence(S) \in Nat /\ S.truncated \in Nat
      BY <1>1, <1>3, SaneFacts, RecordEnds DEF Follows, Succeeds
    <3>3. attempt[a].seq <= EndSequence(S)
      BY <1>0, <1>1, <3>1, <3>2
    <3>4. S.truncated # 0
      <4>1. SUFFICES ASSUME S.truncated = 0 PROVE FALSE
        OBVIOUS
      <4>2. attempt[a].seq \in S.truncated + 1 .. EndSequence(S)
        BY <1>1, <3>2, <3>3, <4>1
      <4>3. WellEnded(S) /\ Shaped(S)
        BY <1>1, SaneFacts
      <4>4. PICK x \in S.audit : x.seq = attempt[a].seq
        BY <4>2, <4>3, TombstoneFacts
      <4> QED
        BY <1>1, <4>4 DEF ClearOf, BatchAt
    <3> QED
      BY <1>0, <2>1, <3>4
  <2>2. CASE j = req.target /\ req.expected = S
    BY <1>0, <1>3, <1>4, <2>2 DEF Follows
  <2> QED
    BY <1>2, <2>1, <2>2
<1>7. /\ Cardinality(Q) <= Cardinality(P) + 1 /\ Cardinality(Q) \in Nat
  <2>1. Cardinality(Q) <= Cardinality(P \cup {y})
    BY <1>5, <1>6, FS_Subset
  <2> QED
    BY <1>0, <1>1, <1>5, <2>1, PublishedFacts
<1>8. /\ IF S.truncated = 0 THEN Cardinality(P) = store.revision ELSE Cardinality(P) <= store.revision
      /\ store.gen >= store.revision
  BY <1>0, <1>1 DEF StoreCounts
<1>9. IF j.truncated = 0 THEN Cardinality(Q) = store.revision + 1
      ELSE Cardinality(Q) <= store.revision + 1
  <2>1. PICK U : U = P \cup {y}
    OBVIOUS
  <2>2. CASE j.truncated = 0
    <3>1. Q = U /\ S.truncated = 0
      BY <1>6, <2>1, <2>2
    <3>2. Cardinality(U) = Cardinality(P) + 1 /\ Cardinality(P) = store.revision
      BY <1>5, <1>8, <2>1, <3>1
    <3> QED
      BY <2>2, <3>1, <3>2
  <2>3. CASE j.truncated # 0
    BY <1>1, <1>5, <1>7, <1>8, <2>3
  <2> QED
    BY <2>2, <2>3
<1>10. Published(store.restart)' = Q
  BY <1>0 DEF Published, AttemptsOf
<1>11. store'.gen >= store'.revision /\ store'.revision # 0
  BY <1>1, <1>8
<1> QED
  BY <1>0, <1>9, <1>10, <1>11 DEF StoreCounts
LEMMA StoreTerminalRecovery ==
    ASSUME LedgerInv, RecordInv, RecoveryInv, NEW t \in Threads, StoreTerminal(t)
    PROVE  RecoveryInv'
<1>0. PICK a, req, out : a = thread[t].att /\ req = thread[t].req /\ out = thread[t].out
  OBVIOUS
<1>1. TypeInv /\ OneCommitDriver /\ LifeInv /\ ConcludedInv /\ HistoryInv
  BY DEF LedgerInv, RecoveryInv
<1>2. /\ thread[t].pc = "store" /\ thread[t].pc \in StoringPCs /\ thread[t].pc \in CommitPCs
      /\ thread[t].pc # "idle" /\ thread[t].pc \in DecidingPCs
      /\ Accepts(req) /\ store'.restart = Joined(req.target)
      /\ store'.decisions = store.decisions \cup {Decision(a, out)}
      /\ store'.effects = store.effects /\ store'.revision = store.revision
      /\ store'.gen = store.gen
      /\ UNCHANGED <<ledger, attempt, crashes>> /\ Goto(t, At(t, "apply"))
  BY <1>0, <1>1, LedgerFacts
     DEF StoreTerminal, StoringPCs, CommitPCs, DecidingPCs, StoreType
<1>3. StepsTo(t, a, "apply", out, req)
  BY <1>0, <1>1, <1>2, StepsAt
<1>4. /\ a \in Attempts /\ attempt[a].committing /\ attempt[a].phase \in ClosingPhases
      /\ attempt[a].outcome = out /\ ~attempt[a].restartCommitted
  BY <1>0, <1>1, <1>2, DriverFacts, KnowsFacts DEF Fits, Knows
<1>5. Deciding(t) = out /\ out # "published" /\ Begun(a)
  <2>1. Suits(out, attempt[a])
    BY <1>1, <1>4 DEF ConcludedInv, Retried
  <2> QED
    BY <1>0, <1>2, <1>4, <2>1 DEF Deciding, Suits, Begun, ClosingPhases
<1>6. StoreCounts'
  BY <1>0, <1>1, <1>2, <1>5, CountsKept
<1>7. \A i, j \in 1 .. Len(store'.effects) :
        i # j => store'.effects[i].seq # store'.effects[j].seq
  BY <1>1, <1>2 DEF HistoryInv, BatchesApart
<1>8. HistoryInv'
  <2>1. PICK pc : pc = IF thread[t].pc = "store" THEN "apply" ELSE "publish_apply"
    OBVIOUS
  <2>2. StepsTo(t, a, pc, thread[t].out, req)
    BY <1>0, <1>2, <1>3, <2>1
  <2> QED
    BY <1>0, <1>1, <1>2, <1>4, <1>5, <1>6, <1>7, <2>1, <2>2, DecisionHistory
<1>9. ConcludedInv'
  BY <1>1, <1>2, <1>3, <1>4, ConcludedStay DEF CancelPCs
<1> QED
  BY <1>8, <1>9 DEF RecoveryInv

LEMMA StorePublicationRecovery ==
    ASSUME LedgerInv, RecordInv, RecordInv', RecoveryInv, NEW t \in Threads, StorePublication(t)
    PROVE  RecoveryInv'
<1>0. PICK a, req, out : a = thread[t].att /\ req = thread[t].req /\ out = thread[t].out
  OBVIOUS
<1>1. TypeInv /\ OneCommitDriver /\ LifeInv /\ ConcludedInv /\ HistoryInv
  BY DEF LedgerInv, RecoveryInv
<1>2. /\ thread[t].pc = "publish_store" /\ thread[t].pc \in StoringPCs
      /\ thread[t].pc # "idle" /\ thread[t].pc \in RecordPCs
      /\ Accepts(req)
      /\ UNCHANGED <<ledger, attempt, crashes>> /\ Goto(t, At(t, "publish_apply"))
  BY <1>0 DEF StorePublication, StoringPCs, RecordPCs
<1>3. StepsTo(t, a, "publish_apply", out, req)
  BY <1>0, <1>1, <1>2, StepsAt
<1>4. /\ a \in Attempts /\ Begun(a) /\ attempt[a].gen > store.gen /\ ~Decided(a)
      /\ store'.revision = store.revision + 1 /\ store'.gen = attempt[a].gen
      /\ attempt[a].gen \in Nat
      /\ store'.restart = Joined(req.target)
      /\ store'.effects = Append(store.effects, [id |-> Len(store.effects) + 1,
                                                 gen |-> attempt[a].gen,
                                                 seq |-> attempt[a].seq])
      /\ store'.decisions = store.decisions \cup {Decision(a, "published")}
  <2>1. store.revision = Len(store.effects)
    BY DEF RecordInv, EffectsDecided
  <2>2. a \in Attempts
    BY <1>0, <1>1, <1>2, BusyFacts
  <2>3. attempt[a].gen \in Nat
    BY <1>1, <2>2, AttemptFacts DEF AttemptType
  <2> QED
    BY <1>0, <1>1, <2>1, <2>2, <2>3, PublicationIs
<1>5. /\ attempt[a].seq >= 1 /\ attempt[a].seq + ClaimCount <= EndSequence(req.target)
      /\ attempt[a].seq \in Nat /\ Deciding(t) = "published"
  <2>1. attempt[a].seq >= 1
    BY <1>4 DEF RecordInv, SequencesOwned
  <2>2. attempt[a].seq + ClaimCount <= EndSequence(req.target)
    BY <1>0, <1>1, <1>2, KnowsFacts DEF Knows
  <2> QED
    BY <1>1, <1>2, <1>4, <2>1, <2>2, AttemptFacts DEF AttemptType, Deciding
<1>6. StoreCounts'
  BY <1>0, <1>1, <1>2, <1>4, <1>5, CountsPublication
<1>7. ASSUME NEW i \in 1 .. Len(store'.effects), NEW j \in 1 .. Len(store'.effects), i # j
      PROVE  store'.effects[i].seq # store'.effects[j].seq
  <2>1. PICK E, n, e : /\ E = store.effects /\ n = Len(E)
                       /\ e = [id |-> n + 1, gen |-> attempt[a].gen, seq |-> attempt[a].seq]
    OBVIOUS
  <2>2. /\ store'.effects = Append(E, e) /\ e.seq = attempt[a].seq
        /\ E \in Seq([id : Nat, gen : Nat, seq : Nat])
        /\ e \in [id : Nat, gen : Nat, seq : Nat]
    <3>1. E \in Seq([id : Nat, gen : Nat, seq : Nat])
      BY <1>1, <2>1, LedgerFacts DEF StoreType
    <3>2. n \in Nat
      BY <2>1, <3>1
    <3> QED
      BY <1>4, <1>5, <2>1, <3>1, <3>2
  <2>3. /\ Len(store'.effects) = n + 1 /\ n \in Nat /\ store'.effects[n + 1] = e
        /\ \A k \in 1 .. n : store'.effects[k] = E[k]
    BY <2>1, <2>2, Appended
  <2>4. \A k \in 1 .. n : E[k].seq # attempt[a].seq
    <3>1. SUFFICES ASSUME NEW k \in 1 .. n, E[k].seq = attempt[a].seq PROVE FALSE
      OBVIOUS
    <3>2. PICK d \in store.decisions : d.seq = attempt[a].seq
      BY <2>1, <3>1 DEF RecordInv, EffectsDecided
    <3>3. d \in store'.decisions /\ Decision(a, "published") \in store'.decisions
      BY <1>4, <3>2
    <3>4. /\ Decision(a, "published").seq = attempt[a].seq
          /\ Decision(a, "published").life = crashes /\ Decision(a, "published").att = a
      BY DEF Decision
    <3>5. d.life = crashes /\ d.att = a
      BY <3>2, <3>3, <3>4 DEF RecordInv, DecisionsPlaced, SequenceNeverReused
    <3> QED
      BY <1>4, <3>2, <3>5 DEF Decided
  <2>5. \A k, l \in 1 .. n : k # l => E[k].seq # E[l].seq
    BY <1>1, <2>1 DEF HistoryInv, BatchesApart
  <2>6. \A k \in 1 .. n + 1 : k = n + 1 \/ k \in 1 .. n
    BY <2>3
  <2> QED
    BY <1>7, <2>2, <2>3, <2>4, <2>5, <2>6
<1>8. HistoryInv'
  <2>1. PICK pc : pc = IF thread[t].pc = "store" THEN "apply" ELSE "publish_apply"
    OBVIOUS
  <2>2. StepsTo(t, a, pc, thread[t].out, req)
    BY <1>0, <1>2, <1>3, <2>1
  <2> QED
    BY <1>0, <1>1, <1>2, <1>4, <1>5, <1>6, <1>7, <2>1, <2>2, DecisionHistory
<1>9. ConcludedInv'
  BY <1>1, <1>2, <1>3, <1>4, ConcludedStay DEF CancelPCs
<1> QED
  BY <1>8, <1>9 DEF RecoveryInv
-----------------------------------------------------------------------------
(* Applying a decision to the ledger                                       *)

(* The ledger takes the history of a stored decision on attempt a.         *)
LEMMA HistoryApplied ==
    ASSUME TypeInv, HistoryInv, NEW t \in Threads, thread[t].pc \in ApplyingPCs,
           NEW a \in Attempts, a = thread[t].att, Begun(a),
           NEW req, req = thread[t].req,
           NEW s, attempt' = [attempt EXCEPT ![a] = s], s.seq = attempt[a].seq,
           s.phase = attempt[a].phase, s.restartCommitted, UNCHANGED <<store, crashes>>,
           ledger.durable = req.expected, ~Covers(ledger.durable, req.target),
           ledger'.durable = req.target,
           \A u \in Threads : Waits(u) \/ thread'[u].pc \notin AskingPCs,
           thread'[t].pc \notin AskingPCs
    PROVE  HistoryInv'
<1>0. PICK S, d, r : S = store.restart /\ d = ledger.durable /\ r = req.target
  OBVIOUS
<1>1. /\ attempt'[a] = s /\ \A b \in Attempts \ {a} : attempt'[b] = attempt[b]
  BY AttemptFacts
<1>2. /\ Sane(S) /\ Sane(d) /\ StoreCounts /\ BatchesApart
      /\ Follows(r, d, a, Deciding(t)) /\ Covers(S, r)
  BY <1>0 DEF HistoryInv, RecordsSane, RequestsFollow, Asked, AskingPCs
<1>3. Sane(r) /\ Before(d, r) /\ ~Covers(d, r)
  BY <1>0, <1>2 DEF Follows, Succeeds, Sane
<1>4. d # r /\ d # S /\ WellEnded(d) /\ WellEnded(r)
  BY <1>2, <1>3, SaneFacts
<1>5. \A b \in Attempts : attempt'[b].seq = attempt[b].seq /\ (Begun(b)' <=> Begun(b))
  BY <1>1 DEF Begun
<1>6. BatchesApart'
  BY <1>2, <1>5 DEF BatchesApart
<1>7. RecordsSane'
  BY <1>0, <1>2, <1>3 DEF RecordsSane, StoreCounts
<1>8. ASSUME NEW b \in Attempts
      PROVE  /\ Begun(b)' /\ ~Decided(b)' => ClearOf(store.restart, b)'
             /\ Pending(b)' => ClearOf(ledger.durable, b)'
  <2>1. Begun(b)' /\ ~Decided(b)' => ClearOf(store.restart, b)'
    BY <1>5 DEF HistoryInv, NothingEarly, Decided, ClearOf
  <2>2. ASSUME Pending(b)' PROVE ClearOf(ledger.durable, b)'
    <3>1. b # a /\ Pending(b) /\ Begun(b)
      BY <1>1, <2>2 DEF Pending, Begun, LivePhases
    <3>2. ClearOf(d, b) /\ Apart(attempt[a].seq, attempt[b].seq)
      BY <1>0, <1>2, <3>1 DEF HistoryInv, NothingEarly, BatchesApart
    <3>3. attempt[a].seq \in Nat /\ attempt[b].seq \in Nat /\ ClaimCount \in Nat
      BY AttemptFacts DEF AttemptType
    <3>4. ASSUME NEW x \in r.audit PROVE x.seq \notin BatchAt(attempt[b].seq)
      <4>1. x \in d.audit \/ x.seq \in BatchAt(attempt[a].seq)
        BY <1>2, <3>4 DEF Follows
      <4>2. CASE x \in d.audit
        BY <3>2, <4>2 DEF ClearOf
      <4>3. CASE x.seq \in BatchAt(attempt[a].seq)
        BY <3>2, <3>3, <4>3 DEF Apart, BatchAt
      <4> QED
        BY <4>1, <4>2, <4>3
    <3> QED
      BY <1>0, <1>5, <3>4 DEF ClearOf
  <2> QED
    BY <2>1, <2>2
<1>9. NothingEarly'
  BY <1>8 DEF NothingEarly
<1>10. ASSUME NEW u \in Threads, thread'[u].pc \in AskingPCs PROVE Asked(u)'
  <2>0. PICK b, x, out : b = thread[u].att /\ x = thread[u].req /\ out = Deciding(u)
    OBVIOUS
  <2>1. /\ thread[u].pc = thread'[u].pc /\ thread'[u].att = b /\ thread'[u].req = x
        /\ thread'[u].out = thread[u].out /\ b \in Attempts
    BY <1>10, <2>0, WaitsAsking
  <2>2. /\ Follows(x.target, x.expected, b, out) /\ Sane(x.expected) /\ Before(x.expected, d)
        /\ thread[u].pc \in StoringPCs /\ x.expected = S => d = S
    BY <1>0, <1>10, <2>0, <2>1 DEF HistoryInv, RequestsFollow, Asked
  <2>3. WellEnded(x.expected)
    BY <2>2, SaneFacts
  <2>4. Before(x.expected, r) /\ x.expected # r
    BY <1>3, <1>4, <2>2, <2>3, BeforeIsOrder
  <2>5. Deciding(u)' = out
    BY <2>0, <2>1 DEF Deciding
  <2>6. Follows(x.target, x.expected, b, out)'
    BY <1>5, <2>1, <2>2, FollowsSame
  <2> QED
    BY <1>0, <1>4, <2>1, <2>2, <2>4, <2>5, <2>6 DEF Asked
<1> QED
  BY <1>6, <1>7, <1>9, <1>10 DEF HistoryInv, RequestsFollow

LEMMA DecisionApplied ==
    ASSUME TypeInv, RecoveryInv, NEW t \in Threads, thread[t].pc \in ApplyingPCs,
           NEW a \in Attempts, a = thread[t].att, Begun(a),
           NEW req, req = thread[t].req,
           ledger.durable = req.expected \/ Covers(ledger.durable, req.target),
           ledger'.durable = IF Covers(ledger.durable, req.target) THEN ledger.durable
                                                                   ELSE req.target,
           NEW s, s = [attempt[a] EXCEPT !.restartCommitted = TRUE],
           attempt' = [attempt EXCEPT ![a] = s], UNCHANGED <<store, crashes>>,
           NEW pc \in {"finalize", "persist"}, NEW out, NEW x, StepsTo(t, a, pc, out, x),
           pc = "persist" => AllSucceeded(attempt[a])
    PROVE  RecoveryInv'
<1>1. ConcludedInv /\ HistoryInv /\ attempt[a] \in AttemptType
  BY AttemptFacts DEF RecoveryInv
<1>2. /\ s.seq = attempt[a].seq /\ s.phase = attempt[a].phase /\ s.restartCommitted
      /\ s.claim = attempt[a].claim /\ s.outcome = attempt[a].outcome
      /\ s.committing = attempt[a].committing /\ s.persistErr = attempt[a].persistErr
  BY <1>1 DEF AttemptType
<1>3. pc \notin AskingPCs /\ pc \notin CancelPCs
  BY DEF AskingPCs, StoringPCs, ApplyingPCs, CancelPCs
<1>4. ConcludedInv'
  <2>1. Retried(s)
    BY <1>1, <1>2 DEF ConcludedInv, Retried, Suits, AllSucceeded
  <2>2. Concludes(pc, out, s)
    <3>1. pc = "persist" => Suits(out, s)
      BY <1>1, <1>2, SuccessSuits DEF Suits, AllSucceeded
    <3> QED
      BY <1>3, <3>1 DEF Concludes, CancelPCs
  <2>3. Undisturbed(t, a, s)
    BY <1>2 DEF Undisturbed
  <2>4. \A u \in Threads \ {t} : thread[u].att = a /\ thread[u].pc # "idle" =>
          Concludes(thread[u].pc, thread[u].out, s)
    BY <1>1, <2>3, OthersConclude
  <2>5. pc # "idle" => a = a /\ Concludes(pc, out, s)
    BY <2>2
  <2> QED
    BY <1>1, <2>1, <2>4, <2>5, ConcludedMove, ZenonT(30)
<1>5. \A u \in Threads : Waits(u) \/ thread'[u].pc \notin AskingPCs
  BY <1>3 DEF StepsTo
<1>6. HistoryInv'
  <2>1. CASE Covers(ledger.durable, req.target)
    <3>1. SameHistory
      BY <2>1 DEF SameHistory
    <3>2. Mild(s, a)
      BY <1>2 DEF Mild
    <3> QED
      BY <1>1, <1>5, <3>1, <3>2, MildHistory
  <2>2. CASE ~Covers(ledger.durable, req.target)
    <3>1. ledger.durable = req.expected /\ ledger'.durable = req.target
      BY <2>2
    <3>2. thread'[t].pc \notin AskingPCs
      BY <1>3 DEF StepsTo
    <3> QED
      BY <1>1, <1>2, <1>5, <2>2, <3>1, <3>2, HistoryApplied
  <2> QED
    BY <2>1, <2>2
<1> QED
  BY <1>4, <1>6 DEF RecoveryInv

LEMMA TerminalAppliedRecovery ==
    ASSUME LedgerInv, RecoveryInv, NEW t \in Threads, ApplyTerminal(t),
           ~ (Goto(t, At(t, "commit_failed")) /\ UNCHANGED <<ledger, attempt>>)
    PROVE  RecoveryInv'
<1>1. TypeInv /\ OneCommitDriver /\ LifeInv
  BY DEF LedgerInv
<1>2. PICK a, out, req : a = thread[t].att /\ out = thread[t].out /\ req = thread[t].req
  OBVIOUS
<1>3. /\ thread[t].pc = "apply" /\ UNCHANGED <<store, crashes>>
      /\ ledger' = [ledger EXCEPT !.durable =
            IF Covered(req) THEN ledger.durable ELSE req.target]
      /\ ledger.durable = req.expected \/ Covered(req)
      /\ Goto(t, At(t, "finalize"))
  BY <1>2 DEF ApplyTerminal
<1>4. /\ ledger'.durable = IF Covers(ledger.durable, req.target) THEN ledger.durable
                                                                  ELSE req.target
      /\ ledger.durable = req.expected \/ Covers(ledger.durable, req.target)
  BY <1>1, <1>3, LedgerFacts DEF LedgerType, Covered
<1>5. /\ a \in Attempts /\ attempt \in [Attempts -> AttemptType] /\ Begun(a)
  BY <1>1, <1>2, <1>3, DriverFacts DEF Fits, CommitPCs, Begun, ClosingPhases
<1>6. PICK s : /\ s = [attempt[a] EXCEPT !.restartCommitted = TRUE]
               /\ attempt' = [attempt EXCEPT ![a] = s]
  BY <1>2, <1>5 DEF ApplyTerminal
<1>7. StepsTo(t, a, "finalize", out, req) /\ thread[t].pc \in ApplyingPCs
  BY <1>1, <1>2, <1>3, StepsAt DEF ApplyingPCs
<1> QED
  BY <1>1, <1>2, <1>3, <1>4, <1>5, <1>6, <1>7, DecisionApplied

LEMMA PublicationAppliedRecovery ==
    ASSUME TypeInv, LifeInv, RecordInv, RecoveryInv, NEW t \in Threads, ApplyPublication(t),
           ~ (FailPublication(t) /\ Release /\ attempt' = attempt)
    PROVE  RecoveryInv'
<1>1. PICK a, req : a = thread[t].att /\ req = thread[t].req
  OBVIOUS
<1>2. /\ thread[t].pc = "publish_apply" /\ UNCHANGED <<store, crashes>>
      /\ ledger' = [ledger EXCEPT
            !.revision = req.revision + 1,
            !.lastCommitted = attempt[a].gen,
            !.durable = IF Covered(req) THEN ledger.durable ELSE req.target,
            !.serial = NoThread]
      /\ ledger.durable = req.expected \/ Covered(req)
      /\ Goto(t, Call(a, "persist", "published"))
  BY <1>1 DEF ApplyPublication
<1>3. /\ ledger'.durable = IF Covers(ledger.durable, req.target) THEN ledger.durable
                                                                  ELSE req.target
      /\ ledger.durable = req.expected \/ Covers(ledger.durable, req.target)
  BY <1>2, LedgerFacts DEF LedgerType, Covered
<1>4. thread[t].pc \in PublishPCs /\ thread[t].pc \in ApplyingPCs
  BY <1>2 DEF PublishPCs, SlotPCs, ApplyingPCs
<1>5. a \in Attempts /\ attempt \in [Attempts -> AttemptType] /\ Begun(a)
  BY <1>1, <1>4, OwnedPublication
<1>6. AllSucceeded(attempt[a])
  <2>1. thread[t].pc # "idle"
    BY <1>2
  <2> QED
    BY <1>1, <1>4, <1>5, <2>1, LifeFacts DEF Fits
<1>7. PICK s : /\ s = [attempt[a] EXCEPT !.restartCommitted = TRUE]
               /\ attempt' = [attempt EXCEPT ![a] = s]
  BY <1>1, <1>5 DEF ApplyPublication
<1>8. StepsTo(t, a, "persist", "published", NoRequest)
  BY <1>2, StepsCall
<1> QED
  BY <1>1, <1>2, <1>3, <1>4, <1>5, <1>6, <1>7, <1>8, DecisionApplied

LEMMA CommittingRecovery ==
    ASSUME LedgerInv, RecordInv, RecoveryInv, NEW t \in Threads, Committing(t)
    PROVE  RecoveryInv'
<1>1. TypeInv /\ OneCommitDriver /\ LifeInv
  BY DEF LedgerInv
<1>2. CASE CommitSnapshot(t)
  <2>1. attempt' = attempt /\ ledger' = ledger
    BY <1>2 DEF CommitSnapshot
  <2> QED
    BY <1>2, <2>1, CommitEndsRecovery, AskingRecovery
<1>3. CASE ApplyTerminal(t)
  <2>1. CASE Goto(t, At(t, "commit_failed")) /\ UNCHANGED <<ledger, attempt>>
    BY <1>3, <2>1, CommitEndsRecovery
  <2>2. CASE ~ (Goto(t, At(t, "commit_failed")) /\ UNCHANGED <<ledger, attempt>>)
    BY <1>3, <2>2, TerminalAppliedRecovery
  <2> QED
    BY <2>1, <2>2
<1>4. CASE Persist(t) \/ StoreTerminal(t)
  BY <1>1, <1>4, PersistRecovery, StoreTerminalRecovery
<1>5. CASE JoinWoken(t) \/ CommitFails(t) \/ Finalize(t) \/ StoreTerminalFails(t)
  BY <1>5, CommitEndsRecovery
<1> QED
  BY <1>2, <1>3, <1>4, <1>5 DEF Committing

LEMMA PublishingRecovery ==
    ASSUME LedgerInv, RecordInv, RecordInv', RecoveryInv, NEW t \in Threads,
           Publishing(t) \/ PublicationCallback(t) \/ LeaveQueueContext(t)
    PROVE  RecoveryInv'
<1>1. TypeInv /\ LifeInv
  BY DEF LedgerInv
<1>2. CASE PublishSnapshot(t)
  BY <1>1, <1>2, PublicationStepsRecovery, AskingRecovery
<1>3. CASE ApplyPublication(t)
  BY <1>1, <1>3, PublicationStepsRecovery, PublicationAppliedRecovery
<1>4. CASE StorePublication(t)
  BY <1>4, StorePublicationRecovery
<1>5. CASE \/ PublishDrain(t) \/ TakeSlot(t) \/ LeaveQueueAborted(t) \/ LeaveQueueContext(t)
           \/ Recheck(t) \/ StorePublicationFails(t)
  BY <1>1, <1>5, PublicationStepsRecovery
<1> QED
  BY <1>2, <1>3, <1>4, <1>5 DEF Publishing, PublicationCallback

-----------------------------------------------------------------------------
(* Attempts begin and processes restart                                    *)

LEMMA BeginRecovery ==
    ASSUME TypeInv, LifeInv, RecordInv, RecoveryInv,
           NEW a \in Attempts, NEW k \in Keys, NEW g \in Generations, Begin(a, k, g)
    PROVE  RecoveryInv'
<1> DEFINE new == [Unborn EXCEPT !.phase = "open", !.key = k, !.gen = g, !.seq = ledger.next,
                                 !.producer = TRUE]
<1>1. /\ attempt \in [Attempts -> AttemptType] /\ ledger \in LedgerType
      /\ attempt' = [attempt EXCEPT ![a] = new] /\ ~Begun(a)
      /\ UNCHANGED <<thread, store, crashes>>
  BY LedgerFacts, AttemptFacts DEF Begin, Begun
<1>2. /\ new.phase = "open" /\ new.seq = ledger.next
      /\ new.committing = FALSE /\ new.persistErr = FALSE
  BY DEF Unborn
<1>3. PICK s : s = new
  OBVIOUS
<1> HIDE DEF new
<1>4. /\ attempt'[a] = s /\ s.phase = "open" /\ s.seq = ledger.next
      /\ attempt' = [attempt EXCEPT ![a] = s]
      /\ \A b \in Attempts \ {a} : attempt'[b] = attempt[b]
  BY <1>1, <1>2, <1>3
<1>5. /\ ledger'.durable = ledger.durable
      /\ ledger.next \in Int /\ ClaimCount \in Int /\ ClaimCount >= 1
      /\ Reserved = ledger.next - 1
  <2>1. ledger.next \in Nat /\ ~ledger.exhausted /\ ledger'.durable = ledger.durable
    BY <1>1 DEF Begin, BatchAvailable, LedgerType
  <2> QED
    BY <2>1 DEF Reserved, EndSequence
<1>6. \A u \in Threads : thread[u].pc # "idle" => thread[u].att # a
  BY <1>1, LifeFacts DEF Fits, Begun, ClosingPhases, TerminalPhases
<1>7. ConcludedInv'
  <2>1. Retried(s)
    BY <1>2, <1>3 DEF Retried
  <2>2. \A u \in Threads : Roused(u)
    BY <1>1 DEF Roused
  <2>3. \A b \in Attempts : Retried(attempt'[b])
    BY <1>4, <2>1, ConcludedAttempts DEF RecoveryInv
  <2>4. ASSUME NEW u \in Threads, thread'[u].pc # "idle"
        PROVE  Concludes(thread'[u].pc, thread'[u].out, attempt'[thread'[u].att])
    BY <1>1, <1>4, <1>6, <2>2, <2>4, ConcludesOn DEF RecoveryInv
  <2> QED
    BY <2>3, <2>4 DEF ConcludedInv
<1>8. /\ \A b \in Attempts \ {a} : /\ attempt'[b].seq = attempt[b].seq
                                   /\ Begun(b)' <=> Begun(b)
                                   /\ Pending(b)' <=> Pending(b)
                                   /\ Decided(b)' <=> Decided(b)
                                   /\ BatchAt(attempt'[b].seq) = BatchAt(attempt[b].seq)
  BY <1>1, <1>4 DEF Begun, Pending, Decided
(* Everything recorded or decided ends before the new batch.               *)
<1>9. ASSUME NEW r \in RestartType, Sane(r), Behind(r)
      PROVE  ClearOf(r, a)'
  <2>1. /\ EndSequence(r) \in Nat /\ EndSequence(r) < ledger.next /\ WellEnded(r)
    BY <1>5, <1>9, SaneFacts DEF Behind
  <2>2. ASSUME NEW x \in r.audit PROVE x.seq <= EndSequence(r) /\ x.seq \in Int
    <3>1. Sequences(r.audit) = (r.truncated + 1) .. EndSequence(r) /\ r.truncated \in Nat
      BY <1>9, SaneFacts DEF Shaped, ContiguousHistory
    <3>2. x.seq \in Sequences(r.audit)
      BY <2>2 DEF Sequences
    <3> QED
      BY <2>1, <3>1, <3>2
  <2> QED
    BY <1>4, <1>5, <2>1, <2>2 DEF ClearOf, BatchAt
<1>10. BatchesApart'
  <2>1. ASSUME NEW b \in Attempts \ {a}, Begun(b)
        PROVE  Apart(attempt[b].seq, s.seq) /\ Apart(s.seq, attempt[b].seq)
    BY <1>1, <1>4, <1>5, <2>1 DEF RecordInv, SequencesOwned, AttemptType, Apart
  <2>2. ASSUME NEW d \in store.decisions PROVE d.seq + ClaimCount < s.seq
    <3>1. /\ d.seq + ClaimCount <= EndSequence(store.restart) /\ d.seq \in Int
          /\ EndSequence(store.restart) <= Reserved
      BY LedgerFacts DEF RecordInv, DecisionsPlaced, Placed, StoreType, WatermarksOrdered, Behind
    <3>2. EndSequence(store.restart) \in Int
      BY RecordEnds, LedgerFacts DEF StoreType
    <3> QED
      BY <1>4, <1>5, <3>1, <3>2
  <2>3. BatchesApart
    BY DEF RecoveryInv, HistoryInv
  <2>4. \A b, c \in Attempts : Begun(b)' /\ Begun(c)' /\ b # c =>
          Apart(attempt'[b].seq, attempt'[c].seq)
    BY <1>4, <1>8, <2>1, <2>3 DEF BatchesApart
  <2>5. \A d \in store.decisions : d.life < crashes => \A b \in Attempts : Begun(b)' =>
          d.seq + ClaimCount < attempt'[b].seq
    BY <1>4, <1>8, <2>2, <2>3 DEF BatchesApart
  <2> QED
    BY <1>1, <2>3, <2>4, <2>5 DEF BatchesApart, Apart
<1>11. /\ Sane(store.restart) /\ Sane(ledger.durable)
       /\ Behind(store.restart) /\ Behind(ledger.durable)
       /\ store.restart \in RestartType /\ ledger.durable \in RestartType
  BY LedgerFacts DEF RecoveryInv, HistoryInv, RecordsSane, RecordInv, WatermarksOrdered,
                     StoreType, LedgerType
<1>12. NothingEarly'
  <2>1. ClearOf(store.restart, a)' /\ ClearOf(ledger.durable, a)'
    BY <1>1, <1>5, <1>9, <1>11 DEF ClearOf
  <2>2. ASSUME NEW b \in Attempts \ {a}
        PROVE  /\ ClearOf(store.restart, b) => ClearOf(store.restart, b)'
               /\ ClearOf(ledger.durable, b) => ClearOf(ledger.durable, b)'
    BY <1>1, <1>5, <1>8 DEF ClearOf
  <2> QED
    BY <1>8, <2>1, <2>2 DEF NothingEarly, RecoveryInv, HistoryInv
<1>13. RequestsFollow'
  <2>1. ASSUME NEW u \in Threads, thread'[u].pc \in AskingPCs PROVE Asked(u)'
    <3>1. thread[u].pc \in AskingPCs /\ thread[u].pc # "idle" /\ Waits(u)
      BY <1>1, <2>1 DEF Waits, Roused, AskingPCs, StoringPCs, ApplyingPCs
    <3>2. thread[u].att # a /\ thread[u].att \in Attempts
      BY <1>6, <3>1, BusyFacts
    <3> QED
      BY <1>1, <1>4, <1>5, <2>1, <3>1, <3>2, StillAsked
         DEF SameHistory, RecoveryInv, HistoryInv, RequestsFollow
  <2> QED
    BY <2>1 DEF RequestsFollow
<1>14. RecordsSane'
  BY <1>1, <1>5 DEF RecordsSane, RecoveryInv, HistoryInv, StoreCounts
<1> QED
  BY <1>7, <1>10, <1>12, <1>13, <1>14 DEF RecoveryInv, HistoryInv

LEMMA CrashRecovery ==
    ASSUME TypeInv, RecordInv, RecoveryInv, Crash
    PROVE  RecoveryInv'
<1>1. /\ ledger'.durable = store.restart /\ store' = store
      /\ crashes' = crashes + 1 /\ crashes \in Int
      /\ \A a \in Attempts : attempt'[a] = Unborn
      /\ \A u \in Threads : thread'[u].pc = "idle"
  BY LedgerFacts DEF Crash, NewLedger, Idle
<1>2. /\ Unborn.phase = "unborn" /\ Unborn.committing = FALSE /\ Unborn.persistErr = FALSE
  BY DEF Unborn
<1>3. ConcludedInv'
  BY <1>1, <1>2 DEF ConcludedInv, Retried
<1>4. \A a \in Attempts : ~Begun(a)' /\ ~Pending(a)'
  BY <1>1, <1>2 DEF Begun, Pending, LivePhases
<1>5. BatchesApart' /\ NothingEarly'
  BY <1>1, <1>4 DEF BatchesApart, NothingEarly, RecoveryInv, HistoryInv, Apart
<1>6. RequestsFollow'
  BY <1>1 DEF RequestsFollow, AskingPCs, StoringPCs, ApplyingPCs
<1>7. RecordsSane'
  BY <1>1, SaneFacts DEF RecordsSane, RecoveryInv, HistoryInv, StoreCounts
<1> QED
  BY <1>3, <1>5, <1>6, <1>7 DEF RecoveryInv, HistoryInv

LEMMA InitRecovery == Init => RecoveryInv
<1> SUFFICES ASSUME Init PROVE RecoveryInv
  OBVIOUS
<1>1. /\ ledger.durable = InitialRestart /\ store.restart = InitialRestart
      /\ store.decisions = {} /\ store.effects = <<>> /\ store.revision = 0 /\ store.gen = 0
      /\ \A a \in Attempts : attempt[a] = Unborn
      /\ \A u \in Threads : thread[u].pc = "idle"
  BY DEF Init, NewLedger, Idle
<1>2. /\ Unborn.phase = "unborn" /\ Unborn.committing = FALSE /\ Unborn.persistErr = FALSE
  BY DEF Unborn
<1>3. ConcludedInv
  BY <1>1, <1>2 DEF ConcludedInv, Retried
<1>4. BatchesApart /\ NothingEarly
  <2>1. \A a \in Attempts : ~Begun(a) /\ ~Pending(a)
    BY <1>1, <1>2 DEF Begun, Pending, LivePhases
  <2>2. 1 .. Len(store.effects) = {}
    BY <1>1
  <2> QED
    BY <1>1, <2>1, <2>2 DEF BatchesApart, NothingEarly
<1>5. RequestsFollow
  BY <1>1 DEF RequestsFollow, AskingPCs, StoringPCs, ApplyingPCs
<1>6. PICK r : r = InitialRestart
  OBVIOUS
<1>7. /\ r.audit = {} /\ r.truncated = 0 /\ r.next = 1 /\ r.exhausted = FALSE
      /\ r \in RestartType /\ EndSequence(r) = 0
  BY <1>6 DEF InitialRestart, RestartType, EndSequence
<1>8. Sane(r) /\ Published(r) = {}
  BY <1>7, FS_EmptySet DEF Sane, ValidRestart, Published, AttemptsOf
<1>9. RecordsSane
  <2>1. Covers(r, r)
    BY <1>8, SaneFacts
  <2>2. StoreCounts
    BY <1>1, <1>6, <1>7, <1>8, FS_EmptySet DEF StoreCounts
  <2> QED
    BY <1>1, <1>6, <1>8, <2>1, <2>2 DEF RecordsSane
<1> QED
  BY <1>3, <1>4, <1>5, <1>9 DEF RecoveryInv, HistoryInv

LEMMA RecoveryStep ==
    LedgerInv /\ RecordInv /\ RecordInv' /\ RecoveryInv /\ [Next]_vars => RecoveryInv'
<1> SUFFICES ASSUME LedgerInv, RecordInv, RecordInv', RecoveryInv, [Next]_vars
             PROVE  RecoveryInv'
  OBVIOUS
<1>0. TypeInv /\ LifeInv
  BY DEF LedgerInv
<1>1. CASE UNCHANGED vars
  <2>1. /\ attempt' = attempt /\ thread' = thread /\ store' = store /\ ledger' = ledger
        /\ crashes' = crashes
    BY <1>1 DEF vars
  <2>2. ConcludedInv'
    BY <2>1 DEF RecoveryInv, ConcludedInv
  <2>3. SameHistory /\ \A u \in Threads : Waits(u)
    BY <2>1 DEF SameHistory, Waits, Roused
  <2>4. \A b \in Attempts : /\ attempt'[b].seq = attempt[b].seq
                            /\ Begun(b)' <=> Begun(b)
                            /\ Pending(b)' => Pending(b)
    BY <2>1 DEF Begun, Pending
  <2>5. HistoryInv'
    BY <1>0, <2>3, <2>4, QuietHistory DEF RecoveryInv
  <2> QED
    BY <2>2, <2>5 DEF RecoveryInv
<1>2. ASSUME NEW t \in Threads, Committing(t) PROVE RecoveryInv'
  BY <1>2, CommittingRecovery
<1>3. ASSUME NEW t \in Threads, Cancelling(t) PROVE RecoveryInv'
  BY <1>0, <1>3, CancellingRecovery
<1>4. ASSUME NEW t \in Threads, Publishing(t) \/ PublicationCallback(t) \/ LeaveQueueContext(t)
      PROVE  RecoveryInv'
  BY <1>4, PublishingRecovery
<1>5. ASSUME NEW t \in Threads, NEW a \in Attempts, Calling(t, a) PROVE RecoveryInv'
  BY <1>0, <1>5, CallingRecovery
<1>6. ASSUME NEW a \in Attempts, Handling(a) PROVE RecoveryInv'
  BY <1>0, <1>6, HandlingRecovery, BeginRecovery
<1>7. CASE Crash
  BY <1>0, <1>7, CrashRecovery
<1> QED
  BY <1>1, <1>2, <1>3, <1>4, <1>5, <1>6, <1>7 DEF Next

LEMMA RecoveryInvariant == Spec => [](LedgerInv /\ RecordInv /\ RecoveryInv)
<1>1. Init => RecoveryInv
  BY InitRecovery
<1> QED
  BY <1>1, RecoveryStep, RecordInvariant, PTL DEF Spec

-----------------------------------------------------------------------------
(* What the ledger records, and what a process restarts from               *)

(* Publications take two sequences each at least, and no sequence twice.   *)
LEMMA PublicationsFit ==
    ASSUME TypeInv, RecordInv, RecoveryInv
    PROVE  2 * store.revision <= EndSequence(store.restart)
<1> DEFINE n == Len(store.effects)
           q(i) == store.effects[i].seq
           end == EndSequence(store.restart)
           f == [i \in 1 .. 2 * n |-> IF i <= n THEN q(i) ELSE q(i - n) + 1]
<1>1. n \in Nat /\ \A i \in 1 .. n : q(i) \in Nat
  <2>1. PICK e, S : e = store.effects /\ S = [id : Nat, gen : Nat, seq : Nat]
    OBVIOUS
  <2>2. e \in Seq(S)
    <3>1. store \in StoreType
      BY LedgerFacts
    <3>2. store.effects \in Seq([id : Nat, gen : Nat, seq : Nat])
      BY <3>1 DEF StoreType
    <3> QED
      BY <2>1, <3>2
  <2>3. Len(e) \in Nat /\ \A i \in 1 .. Len(e) : e[i] \in S
    BY <2>2
  <2> QED
    BY <2>1, <2>3
<1>2. store.revision = n
  BY DEF RecordInv, EffectsDecided
<1>3. end \in Nat /\ ClaimCount \in Nat /\ ClaimCount >= 1
  BY SaneFacts DEF RecoveryInv, HistoryInv, RecordsSane
<1>4. ASSUME NEW i \in 1 .. n
      PROVE  \E d \in store.decisions : d.seq = q(i) /\ d.seq >= 1 /\ d.seq + ClaimCount <= end
  <2>1. PICK d \in store.decisions : d.seq = q(i)
    BY DEF RecordInv, EffectsDecided
  <2>2. d.seq >= 1 /\ Placed(d)
    BY DEF RecordInv, DecisionsPlaced, RecoveryInv, HistoryInv, BatchesApart
  <2> QED
    BY <2>1, <2>2 DEF Placed
<1>5. ASSUME NEW i \in 1 .. n, NEW j \in 1 .. n, i # j
      PROVE  q(i) + 1 < q(j) \/ q(j) + 1 < q(i)
  <2>1. q(i) # q(j)
    BY <1>5 DEF RecoveryInv, HistoryInv, BatchesApart
  <2>2. PICK d \in store.decisions : d.seq = q(i)
    BY <1>4
  <2>3. PICK e \in store.decisions : e.seq = q(j)
    BY <1>4
  <2>4. Apart(q(i), q(j))
    BY <2>1, <2>2, <2>3 DEF RecoveryInv, HistoryInv, BatchesApart
  <2> QED
    BY <1>1, <1>3, <2>4 DEF Apart
<1>6. \A i \in 1 .. n : q(i) >= 1 /\ q(i) + 1 <= end /\ q(i) \in Nat
  BY <1>1, <1>3, <1>4
<1> HIDE DEF n, q, end
<1>7. \A i \in 1 .. 2 * n : f[i] \in 1 .. end
  BY <1>1, <1>3, <1>6
<1>8. ASSUME NEW i \in 1 .. 2 * n, NEW j \in 1 .. 2 * n, f[i] = f[j]
      PROVE  i = j
  <2>1. PICK k \in 1 .. n : \/ k = i /\ f[i] = q(k)
                            \/ k = i - n /\ i > n /\ f[i] = q(k) + 1
    BY <1>1
  <2>2. PICK l \in 1 .. n : \/ l = j /\ f[j] = q(l)
                            \/ l = j - n /\ j > n /\ f[j] = q(l) + 1
    BY <1>1
  <2>3. q(k) \in Nat /\ q(l) \in Nat
    BY <1>6
  <2> HIDE DEF f
  <2>4. k = l
    BY <1>5, <1>8, <2>1, <2>2, <2>3
  <2> QED
    BY <1>1, <1>8, <2>1, <2>2, <2>3, <2>4
<1>9. f \in Injection(1 .. 2 * n, 1 .. end)
  BY <1>7, <1>8 DEF Injection, IsInjective
<1>10. /\ IsFiniteSet(1 .. end) /\ Cardinality(1 .. end) = end
       /\ Cardinality(1 .. 2 * n) = 2 * n
  BY <1>1, <1>3, FS_Interval
<1>11. Cardinality(1 .. 2 * n) <= Cardinality(1 .. end)
  BY <1>9, <1>10, FS_Injection
<1> QED
  BY <1>2, <1>10, <1>11 DEF end

(* The history a call is about to commit is one that                       *)
(* terminalRestartStateLocked and the restart validation accept, for every *)
(* tombstone limit and every history the ledger can have by then: no       *)
(* terminal outcome is lost to its own audit record.                       *)
THEOREM LedgerTargetsAccepted == Spec => []TargetsAccepted
  BY RecoveryInvariant, TargetsAreAccepted, PTL

(* Whatever the committer holds, newSampleLedger can start from it: the    *)
(* restart history is well formed and agrees with the sample revision; and *)
(* it covers everything the running ledger takes for durable.              *)
THEOREM StoreIsRestartable == Spec => []StoreInv
<1>1. ASSUME LedgerInv, RecordInv, RecoveryInv PROVE StoreInv
  <2>0. PICK r, n : r = store.restart /\ n = store.revision
    OBVIOUS
  <2>1. /\ TypeInv /\ Sane(r) /\ Covers(r, ledger.durable) /\ StoreCounts
        /\ n \in Nat /\ MaxUint64 \in Nat
    BY <1>1, <2>0, LedgerFacts DEF LedgerInv, RecoveryInv, HistoryInv, RecordsSane, StoreType
  <2>2. 2 * n <= EndSequence(r)
    BY <1>1, <2>0, <2>1, PublicationsFit
  <2>3. EndSequence(r) \in 0 .. MaxUint64 /\ r \in RestartType
    BY <2>1, SaneFacts, Ends DEF WellEnded
  <2>4. n <= MaxUint64 \div 2
    BY <2>1, <2>2, <2>3
  <2>5. r.exhausted \/ r.next - 1 >= 2 * n
    BY <2>1, <2>2, <2>3 DEF EndSequence, RestartType
  <2>6. RelatedToSample(r, n)
    BY <2>0, <2>1, <2>4, <2>5 DEF RelatedToSample, StoreCounts, Published
  <2>7. StoreRestartable
    BY <2>0, <2>1, <2>6 DEF StoreRestartable, Restartable, StoreCounts, Sane
  <2> QED
    BY <2>0, <2>1, <2>7 DEF StoreInv, LedgerBehindStore
<1> QED
  BY <1>1, RecoveryInvariant, PTL
=============================================================================
