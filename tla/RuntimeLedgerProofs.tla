------------------------- MODULE RuntimeLedgerProofs -------------------------
(***************************************************************************)
(* Theorems about the runtime ledger, for every number of attempts, keys,  *)
(* goroutines and claims, every limit and every integer width.             *)
(***************************************************************************)
EXTENDS LedgerProperties, TLAPS

USE RuntimeLedgerAssumption, LedgerRestartAssumption

-----------------------------------------------------------------------------
(* Types *)

(* Steps of a call that already knows its outcome. *)
OutcomePCs == {"finish_cancel", "persist", "join_wait", "join_woken"} \cup CommitPCs

(* A call names an attempt, and an outcome once it has one; an attempt     *)
(* whose terminal commit is under way was begun and has an outcome.        *)
WellFormed(call, attempts) ==
    /\ call.pc # "idle" => call.att \in Attempts
    /\ call.pc \in OutcomePCs => call.out \in TerminalPhases
    /\ call.pc \in CommitPCs => /\ attempts[call.att].outcome \in TerminalPhases
                               /\ attempts[call.att].phase # "unborn"

CallTyped == \A t \in Threads : WellFormed(thread[t], attempt)

(* An outcome waiting for a retry is a terminal one. *)
RetryTyped == \A a \in Attempts : attempt[a].persistErr => attempt[a].outcome \in TerminalPhases

(* The next sequence is 0 exactly when the width is used up. *)
Numbered == ledger.exhausted <=> ledger.next = 0

TypeInv == TypeOK /\ CallTyped /\ RetryTyped /\ Numbered

(* The history that a terminal decision asks for is a restart state.       *)
LEMMA TerminalRestartTyped ==
    ASSUME NEW d \in RestartType, NEW n \in 0 .. MaxUint64, NEW e \in BOOLEAN, e <=> n = 0,
           NEW records \in SUBSET TombstoneType, NEW limit \in Nat \ {0}
    PROVE  TerminalRestart(d, n, e, records, limit) \in RestartType
<1> DEFINE combined == d.audit \cup records
           end == IF e THEN MaxUint64 ELSE n - 1
           keeps == /\ end \in Sequences(combined)
                    /\ d.truncated # MaxUint64
                    /\ RunStart(Sequences(combined), end) = d.truncated + 1
           first == Trimmed(d.truncated + 1, end, limit)
           truncated == IF keeps THEN first - 1 ELSE end
           audit == IF keeps THEN {x \in combined : x.seq \in first .. end} ELSE {}
<1>1. end \in 0 .. MaxUint64
  OBVIOUS
<1>2. d.truncated \in 0 .. MaxUint64 /\ combined \in SUBSET TombstoneType
  BY DEF RestartType
<1>3. first - 1 \in 0 .. MaxUint64
  BY <1>1, <1>2 DEF Trimmed
<1>4. truncated \in 0 .. MaxUint64 /\ audit \in SUBSET TombstoneType
  <2> HIDE DEF combined, end, keeps, first
  <2> QED BY <1>1, <1>2, <1>3
<1>5. TerminalRestart(d, n, e, records, limit)
        = [next |-> n, exhausted |-> e, truncated |-> truncated, audit |-> audit]
  BY Zenon DEF TerminalRestart
<1> QED
  <2> HIDE DEF truncated, audit
  <2> QED BY <1>4, <1>5 DEF RestartType

LEMMA TombstonesTyped ==
    ASSUME TypeInv, NEW a \in Attempts, NEW outcome \in TerminalPhases
    PROVE  TerminalTombstones(a, outcome) \in SUBSET TombstoneType
<1>1. attempt[a].seq \in Nat
  BY DEF TypeInv, TypeOK, AttemptType
<1>2. AttemptTombstone(attempt[a].seq, ClaimCount, outcome) \in TombstoneType
  BY <1>1 DEF AttemptTombstone, TombstoneType
<1>3. ASSUME NEW o \in Ordinals, attempt[a].claim[o] \in ClaimOutcomes
      PROVE  ClaimTombstone(attempt[a].seq, o, attempt[a].claim[o]) \in TombstoneType
  BY <1>1, <1>3 DEF ClaimTombstone, TombstoneType, Ordinals
<1> QED
  BY <1>2, <1>3 DEF TerminalTombstones

LEMMA TargetTyped ==
    ASSUME TypeInv, NEW a \in Attempts, NEW outcome \in TerminalPhases
    PROVE  TargetFor(a, outcome) \in RestartType
<1>1. TerminalTombstones(a, outcome) \in SUBSET TombstoneType
  BY TombstonesTyped
<1>2. /\ ledger.durable \in RestartType /\ ledger.next \in 0 .. MaxUint64
      /\ ledger.exhausted \in BOOLEAN /\ (ledger.exhausted <=> ledger.next = 0)
  BY DEF TypeInv, TypeOK, Numbered, LedgerType
<1> QED
  BY <1>1, <1>2, TerminalRestartTyped DEF TargetFor

LEMMA InitialRestartTyped == InitialRestart \in RestartType
  BY DEF InitialRestart, RestartType

LEMMA IdleTyped == Idle \in ThreadType
  BY InitialRestartTyped DEF Idle, NoRequest, ThreadType, RequestType, PCs

LEMMA CallIsTyped ==
    ASSUME NEW a \in Attempts, NEW pc \in PCs, NEW out \in {"none"} \cup TerminalPhases
    PROVE  /\ Call(a, pc, out) \in ThreadType
           /\ Call(a, pc, out).pc = pc /\ Call(a, pc, out).att = a
           /\ Call(a, pc, out).out = out
<1>1. [Idle EXCEPT !.pc = pc, !.att = a, !.out = out] \in ThreadType
  BY IdleTyped DEF ThreadType
<1> QED
  BY <1>1 DEF Call, Idle

LEMMA UnbornTyped == Unborn \in AttemptType
  BY DEF Unborn, AttemptType

LEMMA InitTyped == Init => TypeInv
<1> SUFFICES ASSUME Init PROVE TypeInv
  OBVIOUS
<1>1. ledger \in LedgerType /\ Numbered
  BY InitialRestartTyped DEF Init, NewLedger, InitialRestart, LedgerType, Numbered
<1>2. attempt \in [Attempts -> AttemptType] /\ RetryTyped
  BY UnbornTyped DEF Init, RetryTyped, Unborn
<1>3. thread \in [Threads -> ThreadType] /\ CallTyped
  BY IdleTyped DEF Init, CallTyped, WellFormed, Idle, OutcomePCs, CommitPCs
<1>4. store \in StoreType /\ crashes \in 0 .. MaxCrashes
  BY InitialRestartTyped DEF Init, StoreType
<1> QED
  BY <1>1, <1>2, <1>3, <1>4 DEF TypeInv, TypeOK

-----------------------------------------------------------------------------
(* Attempts keep their type, and once begun keep their outcome.            *)

Kept == \A a \in Attempts : attempt[a].phase # "unborn" =>
            /\ attempt'[a].phase # "unborn"
            /\ attempt[a].outcome \in TerminalPhases => attempt'[a].outcome \in TerminalPhases

AttemptsTyped == attempt' \in [Attempts -> AttemptType] /\ RetryTyped' /\ Kept

LEMMA CancelUnresolvedTyped ==
    ASSUME TypeInv, NEW a \in Attempts
    PROVE  CancelUnresolved(attempt[a].claim)
             \in [Ordinals -> {"unresolved", "in_progress"} \cup ClaimOutcomes]
  BY DEF TypeInv, TypeOK, AttemptType, CancelUnresolved, ClaimOutcomes

(* A step that replaces one attempt by a well-typed one.                   *)
LEMMA OneAttempt ==
    ASSUME TypeInv, NEW a \in Attempts, NEW s \in AttemptType,
           attempt' = [attempt EXCEPT ![a] = s],
           s.persistErr => s.outcome \in TerminalPhases,
           attempt[a].phase # "unborn" =>
              /\ s.phase # "unborn"
              /\ attempt[a].outcome \in TerminalPhases => s.outcome \in TerminalPhases
    PROVE  AttemptsTyped
  BY DEF TypeInv, TypeOK, RetryTyped, AttemptsTyped, Kept

LEMMA HandlingAttempts ==
    ASSUME TypeInv, NEW a \in Attempts, Handling(a)
    PROVE  AttemptsTyped
<1>0. /\ attempt[a] \in AttemptType /\ attempt \in [Attempts -> AttemptType]
      /\ attempt[a].persistErr => attempt[a].outcome \in TerminalPhases
  BY DEF TypeInv, TypeOK, RetryTyped
<1>1. ASSUME NEW k \in Keys, NEW g \in Generations, Begin(a, k, g) PROVE AttemptsTyped
  <2> DEFINE s == [Unborn EXCEPT !.phase = "open", !.key = k, !.gen = g,
                                 !.seq = ledger.next, !.producer = TRUE]
  <2>1. g \in Nat /\ ledger.next \in Nat
    BY DEF TypeInv, TypeOK, LedgerType
  <2>2. s \in AttemptType /\ ~s.persistErr
    BY <2>1, UnbornTyped DEF Unborn, AttemptType, LivePhases
  <2>3. attempt' = [attempt EXCEPT ![a] = s] /\ attempt[a].phase = "unborn"
    BY <1>1 DEF Begin
  <2> QED
    BY <2>2, <2>3, OneAttempt
<1>2. ASSUME NEW o \in Ordinals, Issue(a, o) PROVE AttemptsTyped
  <2> DEFINE s == [attempt[a] EXCEPT !.issued = @ \cup {o}]
  <2>1. s \in AttemptType
    BY <1>0 DEF AttemptType
  <2>2. attempt' = [attempt EXCEPT ![a] = s]
    BY <1>2, <1>0 DEF Issue
  <2> QED
    BY <1>0, <2>1, <2>2, OneAttempt DEF AttemptType
<1>3. ASSUME NEW o \in Ordinals, ClaimStart(a, o) PROVE AttemptsTyped
  <2> DEFINE s == [attempt[a] EXCEPT !.claim[o] = "in_progress"]
  <2>1. s \in AttemptType
    BY <1>0 DEF AttemptType
  <2>2. attempt' = [attempt EXCEPT ![a] = s]
    BY <1>3, <1>0 DEF ClaimStart
  <2> QED
    BY <1>0, <2>1, <2>2, OneAttempt DEF AttemptType
<1>4. ASSUME NEW o \in Ordinals, NEW outcome \in ProducerOutcomes, ClaimFinish(a, o, outcome)
      PROVE  AttemptsTyped
  <2> DEFINE s == [attempt[a] EXCEPT !.claim[o] = outcome]
  <2>1. s \in AttemptType
    BY <1>0 DEF AttemptType
  <2>2. attempt' = [attempt EXCEPT ![a] = s]
    BY <1>4, <1>0 DEF ClaimFinish
  <2> QED
    BY <1>0, <2>1, <2>2, OneAttempt DEF AttemptType
<1>5. ASSUME Admit(a) PROVE AttemptsTyped
  <2> DEFINE s == [attempt[a] EXCEPT !.producer = FALSE, !.admitted = TRUE, !.issued = {}]
  <2>1. s \in AttemptType
    BY <1>0 DEF AttemptType
  <2>2. attempt' = [attempt EXCEPT ![a] = s]
    BY <1>5, <1>0 DEF Admit
  <2> QED
    BY <1>0, <2>1, <2>2, OneAttempt DEF AttemptType
<1>6. ASSUME Seal(a) PROVE AttemptsTyped
  <2> DEFINE s == [attempt[a] EXCEPT !.phase = "sealed"]
  <2>1. s \in AttemptType
    BY <1>0 DEF AttemptType, LivePhases
  <2>2. attempt' = [attempt EXCEPT ![a] = s]
    BY <1>6, <1>0 DEF Seal
  <2> QED
    BY <1>0, <2>1, <2>2, OneAttempt DEF AttemptType
<1> QED
  BY <1>1, <1>2, <1>3, <1>4, <1>5, <1>6 DEF Handling

LEMMA SameAttempts == TypeInv /\ attempt' = attempt => AttemptsTyped
  BY DEF TypeInv, TypeOK, RetryTyped, AttemptsTyped, Kept

LEMMA AttemptFacts ==
    ASSUME TypeInv, NEW a \in Attempts
    PROVE  /\ attempt[a] \in AttemptType /\ attempt \in [Attempts -> AttemptType]
           /\ attempt[a].persistErr => attempt[a].outcome \in TerminalPhases
           /\ CancelUnresolved(attempt[a].claim)
                \in [Ordinals -> {"unresolved", "in_progress"} \cup ClaimOutcomes]
  BY CancelUnresolvedTyped DEF TypeInv, TypeOK, RetryTyped

LEMMA CancelPassAttempts ==
    ASSUME TypeInv, NEW t \in Threads, NEW a \in Attempts, NEW waited \in BOOLEAN,
           CancelPass(t, a, waited)
    PROVE  AttemptsTyped
<1>0. /\ attempt[a] \in AttemptType /\ attempt \in [Attempts -> AttemptType]
      /\ attempt[a].persistErr => attempt[a].outcome \in TerminalPhases
  BY AttemptFacts
<1>1. CASE CancelReturns(t, a) \/ CancelRetries(t, a, waited)
  BY <1>1, SameAttempts DEF CancelReturns, CancelRetries
<1>2. CASE CancelWaits(t, a)
  <2> DEFINE s == [attempt[a] EXCEPT !.aborted = @ \/ attempt[a].phase = "publishing"]
  <2>1. s \in AttemptType
    BY <1>0 DEF AttemptType
  <2>2. attempt' = [attempt EXCEPT ![a] = s]
    BY <1>2, <1>0 DEF CancelWaits
  <2> QED
    BY ZenonT(60), <1>0, <2>1, <2>2, OneAttempt DEF AttemptType
<1>3. CASE CancelWins(t, a)
  <2> DEFINE s == [attempt[a] EXCEPT !.phase = "cancelling"]
             u == [attempt[a] EXCEPT !.phase = "cancelling", !.producer = FALSE]
  <2>1. s \in AttemptType /\ u \in AttemptType
    BY <1>0 DEF AttemptType, LivePhases
  <2>2. attempt' = [attempt EXCEPT ![a] = s] \/ attempt' = [attempt EXCEPT ![a] = u]
    BY <1>3, <1>0 DEF CancelWins
  <2>3. CASE attempt' = [attempt EXCEPT ![a] = s]
    BY <1>0, <2>1, <2>3, OneAttempt DEF AttemptType
  <2>4. CASE attempt' = [attempt EXCEPT ![a] = u]
    BY <1>0, <2>1, <2>4, OneAttempt DEF AttemptType
  <2> QED
    BY <2>2, <2>3, <2>4
<1> QED
  BY <1>1, <1>2, <1>3 DEF CancelPass

LEMMA CallingAttempts ==
    ASSUME TypeInv, NEW t \in Threads, NEW a \in Attempts, Calling(t, a)
    PROVE  AttemptsTyped
<1>0. /\ attempt[a] \in AttemptType /\ attempt \in [Attempts -> AttemptType]
      /\ attempt[a].persistErr => attempt[a].outcome \in TerminalPhases
      /\ CancelUnresolved(attempt[a].claim)
           \in [Ordinals -> {"unresolved", "in_progress"} \cup ClaimOutcomes]
  BY AttemptFacts
<1>1. CASE AdmitCloseFails(t, a)
  <2> DEFINE s == [attempt[a] EXCEPT !.producer = FALSE, !.phase = "cancelling",
                                     !.claim = CancelUnresolved(attempt[a].claim)]
  <2>1. s \in AttemptType
    BY <1>0 DEF AttemptType, LivePhases
  <2>2. attempt' = [attempt EXCEPT ![a] = s]
    BY <1>1, <1>0 DEF AdmitCloseFails
  <2> QED
    BY <1>0, <2>1, <2>2, OneAttempt DEF AttemptType
<1>2. CASE AdmitInvalid(t, a)
  <2> DEFINE s == [attempt[a] EXCEPT !.producer = FALSE, !.admitted = TRUE,
                                     !.issued = {}, !.phase = "cancelling"]
  <2>1. s \in AttemptType
    BY <1>0 DEF AttemptType, LivePhases
  <2>2. attempt' = [attempt EXCEPT ![a] = s]
    BY <1>2, <1>0 DEF AdmitInvalid
  <2> QED
    BY <1>0, <2>1, <2>2, OneAttempt DEF AttemptType
<1>3. CASE CancelCall(t, a)
  BY <1>3, CancelPassAttempts DEF CancelCall
<1>4. CASE PublishCall(t, a)
  <2> DEFINE s == [attempt[a] EXCEPT !.phase = "publishing", !.aborted = FALSE]
  <2>1. s \in AttemptType
    BY <1>0 DEF AttemptType, LivePhases
  <2>2. attempt' = [attempt EXCEPT ![a] = s]
    BY <1>4, <1>0 DEF PublishCall
  <2> QED
    BY <1>0, <2>1, <2>2, OneAttempt DEF AttemptType
<1> QED
  BY <1>1, <1>2, <1>3, <1>4 DEF Calling

LEMMA CallFacts ==
    ASSUME TypeInv, NEW t \in Threads
    PROVE  /\ thread[t] \in ThreadType
           /\ WellFormed(thread[t], attempt)
  BY DEF TypeInv, TypeOK, CallTyped

LEMMA CommittingAttempts ==
    ASSUME TypeInv, NEW t \in Threads, Committing(t)
    PROVE  AttemptsTyped
<1> DEFINE a == thread[t].att
           out == thread[t].out
<1>0. thread[t] \in ThreadType /\ WellFormed(thread[t], attempt)
  BY CallFacts
<1>1. CASE Persist(t)
  <2>0. a \in Attempts /\ out \in TerminalPhases
    BY <1>0, <1>1 DEF Persist, WellFormed, OutcomePCs
  <2>1. attempt[a] \in AttemptType /\ attempt \in [Attempts -> AttemptType]
        /\ (attempt[a].persistErr => attempt[a].outcome \in TerminalPhases)
    BY <2>0, AttemptFacts
  <2> DEFINE s == [attempt[a] EXCEPT !.outcome = out, !.committing = TRUE]
  <2>2. s \in AttemptType /\ s.outcome \in TerminalPhases /\ s.phase = attempt[a].phase
    BY <2>0, <2>1 DEF AttemptType
  <2>3. attempt' = attempt \/ attempt' = [attempt EXCEPT ![a] = s]
    BY <1>1, <2>0, <2>1 DEF Persist
  <2>4. CASE attempt' = [attempt EXCEPT ![a] = s]
    <3> HIDE DEF s
    <3> QED BY <2>0, <2>2, <2>4, OneAttempt
  <2> QED
    BY <2>3, <2>4, SameAttempts
<1>2. CASE \/ JoinWoken(t) \/ CommitSnapshot(t) \/ StoreTerminal(t) \/ StoreTerminalFails(t)
  BY <1>2, SameAttempts DEF JoinWoken, CommitSnapshot, StoreTerminal, StoreTerminalFails
<1>3. CASE ApplyTerminal(t)
  <2>0. a \in Attempts
    BY <1>0, <1>3 DEF ApplyTerminal, WellFormed
  <2>1. attempt[a] \in AttemptType /\ attempt \in [Attempts -> AttemptType]
        /\ (attempt[a].persistErr => attempt[a].outcome \in TerminalPhases)
    BY <2>0, AttemptFacts
  <2> DEFINE s == [attempt[a] EXCEPT !.restartCommitted = TRUE]
  <2>2. s \in AttemptType /\ s.outcome = attempt[a].outcome /\ s.phase = attempt[a].phase
        /\ s.persistErr = attempt[a].persistErr
    BY <2>1 DEF AttemptType
  <2>3. attempt' = attempt \/ attempt' = [attempt EXCEPT ![a] = s]
    BY <1>3, <2>0, <2>1 DEF ApplyTerminal
  <2>4. CASE attempt' = [attempt EXCEPT ![a] = s]
    <3> HIDE DEF s
    <3> QED BY <2>0, <2>1, <2>2, <2>4, OneAttempt
  <2> QED
    BY <2>3, <2>4, SameAttempts
<1>4. CASE CommitFails(t)
  <2>0. a \in Attempts /\ attempt[a].outcome \in TerminalPhases
    BY <1>0, <1>4 DEF CommitFails, WellFormed, CommitPCs
  <2>1. attempt[a] \in AttemptType /\ attempt \in [Attempts -> AttemptType]
    BY <2>0, AttemptFacts
  <2> DEFINE s == [attempt[a] EXCEPT !.committing = FALSE, !.persistErr = TRUE]
  <2>2. s \in AttemptType /\ s.outcome \in TerminalPhases /\ s.phase = attempt[a].phase
    BY <2>0, <2>1 DEF AttemptType
  <2>3. attempt' = [attempt EXCEPT ![a] = s]
    BY <1>4, <2>0, <2>1 DEF CommitFails
  <2> QED
    BY <2>0, <2>2, <2>3, OneAttempt
<1>5. CASE Finalize(t)
  <2>0. a \in Attempts /\ attempt[a].outcome \in TerminalPhases /\ out \in TerminalPhases
    BY <1>0, <1>5 DEF Finalize, WellFormed, CommitPCs, OutcomePCs
  <2>1. attempt[a] \in AttemptType /\ attempt \in [Attempts -> AttemptType]
    BY <2>0, AttemptFacts
  <2> DEFINE s == [attempt[a] EXCEPT !.committing = FALSE, !.persistErr = TRUE]
             f == Finalized(attempt[a], out)
  <2>2. s \in AttemptType /\ s.outcome \in TerminalPhases /\ s.phase = attempt[a].phase
    BY <2>0, <2>1 DEF AttemptType
  <2>3. f \in AttemptType /\ f.outcome \in TerminalPhases /\ f.phase # "unborn"
    BY ZenonT(60), <2>0, <2>1 DEF AttemptType, Finalized, Unborn, TerminalPhases
  <2>4. attempt' = [attempt EXCEPT ![a] = s] \/ attempt' = [attempt EXCEPT ![a] = f]
    BY <1>5, <2>0, <2>1 DEF Finalize
  <2>5. CASE attempt' = [attempt EXCEPT ![a] = s]
    BY <2>0, <2>2, <2>5, OneAttempt
  <2>6. CASE attempt' = [attempt EXCEPT ![a] = f]
    <3> HIDE DEF f
    <3> QED BY <2>0, <2>3, <2>6, OneAttempt
  <2> QED
    BY <2>4, <2>5, <2>6
<1> QED
  BY <1>1, <1>2, <1>3, <1>4, <1>5 DEF Committing

LEMMA CancellingAttempts ==
    ASSUME TypeInv, NEW t \in Threads, Cancelling(t)
    PROVE  AttemptsTyped
<1> DEFINE a == thread[t].att
<1>0. /\ thread[t] \in ThreadType
      /\ thread[t].pc # "idle" => thread[t].att \in Attempts
  BY CallFacts DEF WellFormed
<1>1. CASE CancelWoken(t)
  <2>1. a \in Attempts /\ thread[t].waited \in BOOLEAN
    BY <1>0, <1>1 DEF CancelWoken, ThreadType
  <2> QED
    BY <1>1, <2>1, CancelPassAttempts DEF CancelWoken
<1>2. CASE ClaimsWoken(t)
  <2>0. a \in Attempts
    BY <1>0, <1>2 DEF ClaimsWoken
  <2>1. attempt[a] \in AttemptType /\ attempt \in [Attempts -> AttemptType]
        /\ (attempt[a].persistErr => attempt[a].outcome \in TerminalPhases)
    BY <2>0, AttemptFacts
  <2> DEFINE s == [attempt[a] EXCEPT !.producer = FALSE]
  <2>2. s \in AttemptType
    BY <2>1 DEF AttemptType
  <2>3. attempt' = attempt \/ attempt' = [attempt EXCEPT ![a] = s]
    BY <1>2, <2>0, <2>1 DEF ClaimsWoken
  <2>4. CASE attempt' = [attempt EXCEPT ![a] = s]
    BY <2>0, <2>1, <2>2, <2>4, OneAttempt DEF AttemptType
  <2> QED
    BY <2>3, <2>4, SameAttempts
<1>3. CASE CloseOpen(t)
  BY <1>3, SameAttempts DEF CloseOpen
<1>4. CASE Drain(t)
  <2>0. a \in Attempts
    BY <1>0, <1>4 DEF Drain
  <2>1. attempt[a] \in AttemptType /\ attempt \in [Attempts -> AttemptType]
        /\ (attempt[a].persistErr => attempt[a].outcome \in TerminalPhases)
    BY <2>0, AttemptFacts
  <2> DEFINE s(result) == [attempt[a] EXCEPT !.drain = result]
  <2>2. PICK result \in {"complete", "failed"} : attempt' = [attempt EXCEPT ![a] = s(result)]
    BY <1>4, <2>0, <2>1 DEF Drain
  <2>3. s(result) \in AttemptType
    BY <2>1 DEF AttemptType
  <2> QED
    BY <2>0, <2>1, <2>2, <2>3, OneAttempt DEF AttemptType
<1>5. CASE FinishCancellation(t)
  <2>0. a \in Attempts
    BY <1>0, <1>5 DEF FinishCancellation
  <2>1. /\ attempt[a] \in AttemptType /\ attempt \in [Attempts -> AttemptType]
        /\ attempt[a].persistErr => attempt[a].outcome \in TerminalPhases
        /\ CancelUnresolved(attempt[a].claim)
             \in [Ordinals -> {"unresolved", "in_progress"} \cup ClaimOutcomes]
    BY <2>0, AttemptFacts
  <2> DEFINE claim == IF attempt[a].phase = "cancelling" THEN CancelUnresolved(attempt[a].claim)
                                                         ELSE attempt[a].claim
             s == [attempt[a] EXCEPT !.claim = claim]
  <2>2. s \in AttemptType
    BY <2>1 DEF AttemptType
  <2>3. attempt' = [attempt EXCEPT ![a] = s]
    BY <1>5, <2>0, <2>1 DEF FinishCancellation
  <2> QED
    BY ZenonT(60), <2>0, <2>1, <2>2, <2>3, OneAttempt DEF AttemptType
<1> QED
  BY <1>1, <1>2, <1>3, <1>4, <1>5 DEF Cancelling

LEMMA PublishingAttempts ==
    ASSUME TypeInv, NEW t \in Threads,
           Publishing(t) \/ PublicationCallback(t) \/ LeaveQueueContext(t)
    PROVE  AttemptsTyped
<1> DEFINE a == thread[t].att
<1>0. /\ thread[t] \in ThreadType
      /\ thread[t].pc # "idle" => thread[t].att \in Attempts
  BY CallFacts DEF WellFormed
<1>1. CASE PublishDrain(t)
  <2>0. a \in Attempts
    BY <1>0, <1>1 DEF PublishDrain
  <2>1. attempt[a] \in AttemptType /\ attempt \in [Attempts -> AttemptType]
        /\ (attempt[a].persistErr => attempt[a].outcome \in TerminalPhases)
    BY <2>0, AttemptFacts
  <2> DEFINE s(result) == [attempt[a] EXCEPT !.drain = result]
  <2>2. PICK result \in {"complete", "failed"} : attempt' = [attempt EXCEPT ![a] = s(result)]
    BY <1>1, <2>0, <2>1 DEF PublishDrain
  <2>3. s(result) \in AttemptType
    BY <2>1 DEF AttemptType
  <2> QED
    BY <2>0, <2>1, <2>2, <2>3, OneAttempt DEF AttemptType
<1>2. CASE ApplyPublication(t)
  <2>0. a \in Attempts
    BY <1>0, <1>2 DEF ApplyPublication
  <2>1. attempt[a] \in AttemptType /\ attempt \in [Attempts -> AttemptType]
        /\ (attempt[a].persistErr => attempt[a].outcome \in TerminalPhases)
    BY <2>0, AttemptFacts
  <2> DEFINE s == [attempt[a] EXCEPT !.restartCommitted = TRUE]
  <2>2. s \in AttemptType
    BY <2>1 DEF AttemptType
  <2>3. attempt' = attempt \/ attempt' = [attempt EXCEPT ![a] = s]
    BY <1>2, <2>0, <2>1 DEF ApplyPublication
  <2>4. CASE attempt' = [attempt EXCEPT ![a] = s]
    BY <2>0, <2>1, <2>2, <2>4, OneAttempt DEF AttemptType
  <2> QED
    BY <2>3, <2>4, SameAttempts
<1>3. CASE \/ TakeSlot(t) \/ LeaveQueueAborted(t) \/ Recheck(t) \/ PublishSnapshot(t)
           \/ PublicationCallback(t) \/ LeaveQueueContext(t)
  BY <1>3, SameAttempts DEF TakeSlot, LeaveQueueAborted, Recheck, PublishSnapshot,
       PublicationCallback, StorePublication, StorePublicationFails, LeaveQueueContext
<1> QED
  BY <1>1, <1>2, <1>3 DEF Publishing

-----------------------------------------------------------------------------
(* Goroutines                                                              *)

ThreadsTyped == thread' \in [Threads -> ThreadType] /\ CallTyped'

LEMMA WokenTyped ==
    ASSUME NEW pc \in PCs
    PROVE  /\ Woken(pc) \in PCs
           /\ Woken(pc) # "idle" <=> pc # "idle"
           /\ Woken(pc) \in OutcomePCs <=> pc \in OutcomePCs
           /\ Woken(pc) \in CommitPCs <=> pc \in CommitPCs
           /\ Woken(pc) \in SlotPCs <=> pc \in SlotPCs
  BY DEF Woken, PCs, OutcomePCs, CommitPCs, SlotPCs

LEMMA AwakeTyped ==
    ASSUME TypeInv, NEW a \in Attempts, NEW u \in Threads
    PROVE  /\ Awake(a)[u] \in ThreadType
           /\ \E pc \in PCs : Awake(a)[u] = [thread[u] EXCEPT !.pc = pc]
           /\ Awake(a)[u].att = thread[u].att /\ Awake(a)[u].out = thread[u].out
           /\ Awake(a)[u].pc \in {thread[u].pc, Woken(thread[u].pc)}
<1>1. thread[u] \in ThreadType
  BY CallFacts
<1>2. Woken(thread[u].pc) \in PCs
  BY <1>1, WokenTyped DEF ThreadType
<1>3. At(u, Woken(thread[u].pc)) \in ThreadType
  BY <1>1, <1>2 DEF ThreadType, At
<1>4. thread[u] = [thread[u] EXCEPT !.pc = thread[u].pc]
  BY <1>1 DEF ThreadType
<1> QED
  BY <1>1, <1>2, <1>3, <1>4 DEF Awake, At, ThreadType

(* An attempt that keeps its outcome keeps every call well formed.         *)
LEMMA KeptCalls ==
    ASSUME Kept, NEW call \in ThreadType, WellFormed(call, attempt),
           call.pc # "idle" => call.att \in Attempts
    PROVE  WellFormed(call, attempt')
  BY DEF Kept, WellFormed, CommitPCs

LEMMA AwakeWellFormed ==
    ASSUME TypeInv, Kept, NEW a \in Attempts, NEW u \in Threads
    PROVE  Awake(a)[u] \in ThreadType /\ WellFormed(Awake(a)[u], attempt')
<1>1. /\ Awake(a)[u] \in ThreadType
      /\ Awake(a)[u].att = thread[u].att /\ Awake(a)[u].out = thread[u].out
      /\ Awake(a)[u].pc \in {thread[u].pc, Woken(thread[u].pc)}
  BY AwakeTyped
<1>2. thread[u] \in ThreadType /\ WellFormed(thread[u], attempt)
  BY CallFacts
<1>3. thread[u].pc \in PCs /\ WellFormed(thread[u], attempt')
  BY <1>2, KeptCalls DEF WellFormed, ThreadType
<1> QED
  BY <1>1, <1>3, WokenTyped DEF WellFormed

(* One goroutine takes a step; others of the attempt may have been woken.  *)
LEMMA OneCall ==
    ASSUME TypeInv, Kept, NEW t \in Threads, NEW call \in ThreadType, WellFormed(call, attempt'),
           \/ thread' = [thread EXCEPT ![t] = call]
           \/ \E a \in Attempts : thread' = [Awake(a) EXCEPT ![t] = call]
    PROVE  ThreadsTyped
<1>1. thread \in [Threads -> ThreadType] /\ \A u \in Threads : WellFormed(thread[u], attempt)
  BY DEF TypeInv, TypeOK, CallTyped
<1>2. CASE thread' = [thread EXCEPT ![t] = call]
  <2>1. \A u \in Threads : WellFormed(thread[u], attempt')
    BY <1>1, KeptCalls DEF WellFormed
  <2> QED
    BY <1>1, <1>2, <2>1 DEF ThreadsTyped, CallTyped
<1>3. ASSUME NEW a \in Attempts, thread' = [Awake(a) EXCEPT ![t] = call]
      PROVE  ThreadsTyped
  <2>1. ASSUME NEW u \in Threads
        PROVE  Awake(a)[u] \in ThreadType /\ WellFormed(Awake(a)[u], attempt')
    BY AwakeWellFormed
  <2>2. \A u \in Threads : thread'[u] = IF u = t THEN call ELSE Awake(a)[u]
    BY <1>3 DEF Awake
  <2>3. thread' \in [Threads -> ThreadType]
    BY <1>3, <2>1 DEF Awake
  <2> QED
    BY <2>1, <2>2, <2>3 DEF ThreadsTyped, CallTyped
<1> QED
  BY <1>2, <1>3

LEMMA SameCalls ==
    ASSUME TypeInv, Kept,
           thread' = thread \/ \E a \in Attempts : thread' = Awake(a)
    PROVE  ThreadsTyped
<1>1. thread \in [Threads -> ThreadType] /\ \A u \in Threads : WellFormed(thread[u], attempt)
  BY DEF TypeInv, TypeOK, CallTyped
<1>2. CASE thread' = thread
  <2>1. \A u \in Threads : WellFormed(thread[u], attempt')
    BY <1>1, KeptCalls DEF WellFormed
  <2> QED
    BY <1>1, <1>2, <2>1 DEF ThreadsTyped, CallTyped
<1>3. ASSUME NEW a \in Attempts, thread' = Awake(a) PROVE ThreadsTyped
  <2>1. ASSUME NEW u \in Threads
        PROVE  Awake(a)[u] \in ThreadType /\ WellFormed(Awake(a)[u], attempt')
    BY AwakeWellFormed
  <2> QED
    BY <1>3, <2>1 DEF ThreadsTyped, CallTyped, Awake
<1> QED
  BY <1>2, <1>3

(* A fresh step of a call that is not yet committing.                      *)
LEMMA FreshCall ==
    ASSUME TypeInv, Kept, NEW t \in Threads, NEW a \in Attempts, NEW pc \in PCs \ CommitPCs,
           NEW out \in {"none"} \cup TerminalPhases,
           pc \in OutcomePCs => out \in TerminalPhases,
           Goto(t, Call(a, pc, out))
    PROVE  ThreadsTyped
<1>1. /\ Call(a, pc, out) \in ThreadType
      /\ Call(a, pc, out).pc = pc /\ Call(a, pc, out).att = a /\ Call(a, pc, out).out = out
  BY CallIsTyped
<1>2. WellFormed(Call(a, pc, out), attempt')
  BY <1>1 DEF WellFormed
<1> QED
  BY <1>1, <1>2, OneCall DEF Goto

LEMMA Returned ==
    ASSUME TypeInv, Kept, NEW t \in Threads,
           Return(t) \/ \E a \in Attempts : BroadcastAnd(a, t, Idle)
    PROVE  ThreadsTyped
<1>1. Idle \in ThreadType /\ Idle.pc = "idle"
  BY IdleTyped DEF Idle
<1>2. WellFormed(Idle, attempt')
  BY <1>1 DEF WellFormed, OutcomePCs, CommitPCs
<1> QED
  BY <1>1, <1>2, OneCall DEF Return, Goto, BroadcastAnd

(* The same call at another step.                                          *)
LEMMA NextStep ==
    ASSUME TypeInv, Kept, NEW t \in Threads, thread[t].att \in Attempts, NEW pc \in PCs,
           pc \in OutcomePCs => thread[t].out \in TerminalPhases,
           pc \in CommitPCs => /\ attempt'[thread[t].att].outcome \in TerminalPhases
                               /\ attempt'[thread[t].att].phase # "unborn",
           Goto(t, At(t, pc))
    PROVE  ThreadsTyped
<1>1. thread[t] \in ThreadType
  BY CallFacts
<1>2. /\ At(t, pc) \in ThreadType
      /\ At(t, pc).pc = pc /\ At(t, pc).att = thread[t].att /\ At(t, pc).out = thread[t].out
  BY <1>1 DEF At, ThreadType
<1>3. WellFormed(At(t, pc), attempt')
  BY <1>2 DEF WellFormed
<1> QED
  BY <1>2, <1>3, OneCall DEF Goto

LEMMA CancelPassThreads ==
    ASSUME TypeInv, NEW t \in Threads, NEW a \in Attempts, NEW waited \in BOOLEAN,
           CancelPass(t, a, waited)
    PROVE  ThreadsTyped
<1>0. Kept
  BY CancelPassAttempts DEF AttemptsTyped
<1>1. CASE CancelReturns(t, a)
  BY <1>0, <1>1, Returned DEF CancelReturns
<1>2. CASE CancelRetries(t, a, waited)
  <2>1. attempt[a].outcome \in TerminalPhases
    BY <1>2, AttemptFacts DEF CancelRetries
  <2>2. CASE Return(t)
    BY <1>0, <2>2, Returned
  <2>3. CASE Goto(t, Call(a, "persist", attempt[a].outcome))
    BY <1>0, <2>1, <2>3, FreshCall DEF PCs, CommitPCs
  <2> QED
    BY <1>2, <2>2, <2>3 DEF CancelRetries
<1>3. CASE CancelWaits(t, a)
  <2> DEFINE call == [Call(a, "cancel_wait", "none") EXCEPT !.waited = TRUE]
  <2>1. "cancel_wait" \in PCs /\ "none" \in {"none"} \cup TerminalPhases
    BY DEF PCs
  <2>2. /\ Call(a, "cancel_wait", "none") \in ThreadType
        /\ Call(a, "cancel_wait", "none").pc = "cancel_wait"
        /\ Call(a, "cancel_wait", "none").att = a
    BY <2>1, CallIsTyped
  <2>3. call \in ThreadType /\ call.pc = "cancel_wait" /\ call.att = a
    BY <2>2 DEF ThreadType
  <2>4. WellFormed(call, attempt')
    BY <2>3 DEF WellFormed, OutcomePCs, CommitPCs
  <2> QED
    BY <1>0, <1>3, <2>3, <2>4, OneCall DEF CancelWaits, Goto
<1>4. CASE CancelWins(t, a)
  <2>1. \E pc \in PCs \ CommitPCs, out \in {"none"} \cup TerminalPhases :
           /\ pc \in OutcomePCs => out \in TerminalPhases
           /\ Goto(t, Call(a, pc, out))
    BY <1>4 DEF CancelWins, AfterClaims, PCs, CommitPCs, OutcomePCs, TerminalPhases
  <2> QED
    BY <1>0, <2>1, FreshCall
<1> QED
  BY <1>1, <1>2, <1>3, <1>4 DEF CancelPass

LEMMA CallingThreads ==
    ASSUME TypeInv, NEW t \in Threads, NEW a \in Attempts, Calling(t, a)
    PROVE  ThreadsTyped
<1>0. Kept
  BY CallingAttempts DEF AttemptsTyped
<1>1. CASE AdmitCloseFails(t, a)
  BY <1>0, <1>1, FreshCall DEF AdmitCloseFails, PCs, CommitPCs, OutcomePCs, TerminalPhases
<1>2. CASE AdmitInvalid(t, a)
  BY <1>0, <1>2, FreshCall DEF AdmitInvalid, PCs, CommitPCs, OutcomePCs
<1>3. CASE CancelCall(t, a)
  BY <1>3, CancelPassThreads DEF CancelCall
<1>4. CASE PublishCall(t, a)
  BY <1>0, <1>4, FreshCall DEF PublishCall, PCs, CommitPCs, OutcomePCs
<1> QED
  BY <1>1, <1>2, <1>3, <1>4 DEF Calling

LEMMA CommittingThreads ==
    ASSUME TypeInv, NEW t \in Threads, Committing(t)
    PROVE  ThreadsTyped
<1> DEFINE a == thread[t].att
           out == thread[t].out
<1>0. Kept
  BY CommittingAttempts DEF AttemptsTyped
<1>1. thread[t] \in ThreadType /\ WellFormed(thread[t], attempt)
  BY CallFacts
<1>2. CASE Persist(t)
  <2>1. a \in Attempts /\ out \in TerminalPhases
    BY <1>1, <1>2 DEF Persist, WellFormed, OutcomePCs
  <2>2. CASE Return(t)
    BY <1>0, <2>2, Returned
  <2>3. CASE Goto(t, At(t, "join_wait"))
    BY <1>0, <2>1, <2>3, NextStep DEF PCs, CommitPCs
  <2>4. ASSUME NEW pc \in {"finalize", "commit"}, Goto(t, At(t, pc)),
               attempt[a].phase \in {"cancelling", "publishing"},
               attempt' = [attempt EXCEPT ![a].outcome = out, ![a].committing = TRUE]
        PROVE  ThreadsTyped
    <3>1. attempt'[a].outcome = out /\ attempt'[a].phase = attempt[a].phase
      BY <2>1, <2>4, AttemptFacts DEF AttemptType
    <3> QED
      BY <1>0, <2>1, <2>4, <3>1, NextStep DEF PCs
  <2> QED
    BY <1>2, <2>2, <2>3, <2>4 DEF Persist
<1>3. CASE JoinWoken(t)
  <2>1. a \in Attempts /\ out \in TerminalPhases
    BY <1>1, <1>3 DEF JoinWoken, WellFormed, OutcomePCs
  <2>2. CASE Return(t)
    BY <1>0, <2>2, Returned
  <2>3. CASE Goto(t, At(t, "join_wait"))
    BY <1>0, <2>1, <2>3, NextStep DEF PCs, CommitPCs
  <2> QED
    BY <1>3, <2>2, <2>3 DEF JoinWoken
<1>4. ASSUME thread[t].pc \in CommitPCs,
             NEW pc \in CommitPCs, Goto(t, At(t, pc))
      PROVE  ThreadsTyped
  <2>1. /\ a \in Attempts /\ out \in TerminalPhases
        /\ attempt[a].outcome \in TerminalPhases /\ attempt[a].phase # "unborn"
    BY <1>1, <1>4 DEF WellFormed, CommitPCs, OutcomePCs
  <2>2. attempt'[a].outcome \in TerminalPhases /\ attempt'[a].phase # "unborn"
    BY <1>0, <2>1 DEF Kept
  <2> QED
    BY <1>0, <1>4, <2>1, <2>2, NextStep DEF PCs, CommitPCs
<1>5. CASE CommitSnapshot(t)
  <2>1. /\ a \in Attempts /\ out \in TerminalPhases
        /\ attempt[a].outcome \in TerminalPhases /\ attempt[a].phase # "unborn"
    BY <1>1, <1>5 DEF CommitSnapshot, WellFormed, CommitPCs, OutcomePCs
  <2>2. CASE Goto(t, At(t, "commit_failed"))
    BY <1>4, <1>5, <2>2 DEF CommitSnapshot, CommitPCs
  <2> DEFINE req == [NoRequest EXCEPT !.expected = ledger.durable, !.target = TargetFor(a, out)]
             call == [At(t, "store") EXCEPT !.req = req]
  <2>3. CASE Goto(t, call)
    <3>1. TargetFor(a, out) \in RestartType /\ ledger.durable \in RestartType
      BY <2>1, TargetTyped DEF TypeInv, TypeOK, LedgerType
    <3>2. req \in RequestType
      BY <3>1 DEF NoRequest, RequestType
    <3>3. call \in ThreadType /\ call.pc = "store" /\ call.att = a /\ call.out = out
      <4> HIDE DEF req
      <4> QED BY <1>1, <3>2 DEF At, ThreadType, PCs
    <3>4. attempt' = attempt
      BY <1>5 DEF CommitSnapshot
    <3>5. WellFormed(call, attempt')
      <4> HIDE DEF call
      <4> QED BY <2>1, <3>3, <3>4 DEF WellFormed
    <3> HIDE DEF call
    <3> QED
      BY <1>0, <2>3, <3>3, <3>5, OneCall DEF Goto
  <2> QED
    BY <1>5, <2>2, <2>3 DEF CommitSnapshot
<1>6. CASE StoreTerminal(t) \/ StoreTerminalFails(t) \/ ApplyTerminal(t)
  BY <1>4, <1>6 DEF StoreTerminal, StoreTerminalFails, ApplyTerminal, CommitPCs
<1>7. CASE CommitFails(t) \/ Finalize(t)
  <2>1. a \in Attempts
    BY <1>1, <1>7 DEF CommitFails, Finalize, WellFormed
  <2> QED
    BY <1>0, <1>7, <2>1, Returned DEF CommitFails, Finalize
<1> QED
  BY <1>2, <1>3, <1>5, <1>6, <1>7 DEF Committing

LEMMA CancellingThreads ==
    ASSUME TypeInv, NEW t \in Threads, Cancelling(t)
    PROVE  ThreadsTyped
<1> DEFINE a == thread[t].att
<1>0. Kept
  BY CancellingAttempts DEF AttemptsTyped
<1>1. thread[t] \in ThreadType /\ WellFormed(thread[t], attempt)
  BY CallFacts
<1>2. a \in Attempts
  BY <1>1 DEF Cancelling, CancelWoken, ClaimsWoken, CloseOpen, Drain, FinishCancellation,
       WellFormed
<1>3. CASE CancelWoken(t)
  BY <1>1, <1>2, <1>3, CancelPassThreads DEF CancelWoken, ThreadType
<1>4. CASE ClaimsWoken(t)
  <2>1. CASE Goto(t, At(t, "claims_wait"))
    BY <1>0, <1>2, <2>1, NextStep DEF PCs, CommitPCs, OutcomePCs
  <2>2. CASE Goto(t, AfterClaims(a))
    <3>1. \E pc \in PCs \ CommitPCs, out \in {"none"} \cup TerminalPhases :
             /\ pc \in OutcomePCs => out \in TerminalPhases
             /\ Goto(t, Call(a, pc, out))
      BY <2>2 DEF AfterClaims, PCs, CommitPCs, OutcomePCs, TerminalPhases
    <3> QED
      BY <1>0, <1>2, <3>1, FreshCall
  <2> QED
    BY <1>4, <2>1, <2>2 DEF ClaimsWoken
<1>5. ASSUME NEW out \in TerminalPhases, Goto(t, Call(a, "finish_cancel", out))
      PROVE  ThreadsTyped
  BY <1>0, <1>2, <1>5, FreshCall DEF PCs, CommitPCs
<1>6. CASE CloseOpen(t)
  BY <1>5, <1>6 DEF CloseOpen, TerminalPhases
<1>7. CASE Drain(t)
  BY <1>5, <1>7 DEF Drain, TerminalPhases
<1>8. CASE FinishCancellation(t)
  <2>1. thread[t].out \in TerminalPhases
    BY <1>1, <1>8 DEF FinishCancellation, WellFormed, OutcomePCs
  <2> QED
    BY <1>0, <1>2, <1>8, <2>1, NextStep DEF FinishCancellation, PCs, CommitPCs
<1> QED
  BY <1>3, <1>4, <1>6, <1>7, <1>8 DEF Cancelling

LEMMA PublishingThreads ==
    ASSUME TypeInv, NEW t \in Threads,
           Publishing(t) \/ PublicationCallback(t) \/ LeaveQueueContext(t)
    PROVE  ThreadsTyped
<1> DEFINE a == thread[t].att
<1>0. Kept
  BY PublishingAttempts DEF AttemptsTyped
<1>1. thread[t] \in ThreadType /\ WellFormed(thread[t], attempt)
  BY CallFacts
<1>2. a \in Attempts
  BY <1>1 DEF Publishing, PublishDrain, TakeSlot, LeaveQueueAborted, Recheck, PublishSnapshot,
       ApplyPublication, PublicationCallback, StorePublication, StorePublicationFails,
       LeaveQueueContext, WellFormed
<1>3. ASSUME FailPublication(t) PROVE ThreadsTyped
  BY <1>0, <1>2, <1>3, FreshCall DEF FailPublication, PCs, CommitPCs, TerminalPhases
<1>4. ASSUME NEW pc \in {"slot"} \cup SlotPCs, Goto(t, At(t, pc)) PROVE ThreadsTyped
  <2>1. pc \in PCs \ OutcomePCs
    BY DEF SlotPCs, PCs, OutcomePCs, CommitPCs
  <2> QED
    BY <1>0, <1>2, <1>4, <2>1, NextStep DEF OutcomePCs
<1>5. CASE PublishDrain(t)
  BY <1>3, <1>4, <1>5 DEF PublishDrain
<1>6. CASE TakeSlot(t)
  BY <1>4, <1>6 DEF TakeSlot, SlotPCs
<1>7. CASE LeaveQueueAborted(t) \/ LeaveQueueContext(t) \/ StorePublicationFails(t)
  BY <1>3, <1>7 DEF LeaveQueueAborted, LeaveQueueContext, StorePublicationFails
<1>8. CASE Recheck(t)
  BY <1>3, <1>4, <1>8 DEF Recheck, SlotPCs
<1>9. CASE PublishSnapshot(t)
  <2> DEFINE req == [expected |-> ledger.durable, target |-> TargetFor(a, "published"),
                     revision |-> ledger.revision, gen |-> ledger.lastCommitted]
             call == [At(t, "publish_store") EXCEPT !.req = req]
  <2>1. CASE Goto(t, call)
    <3>1. /\ ledger.durable \in RestartType /\ ledger.revision \in Nat
          /\ ledger.lastCommitted \in Nat /\ TargetFor(a, "published") \in RestartType
      BY <1>2, TargetTyped DEF TypeInv, TypeOK, LedgerType, TerminalPhases
    <3>2. req \in RequestType
      BY <3>1 DEF RequestType
    <3>3. call \in ThreadType /\ call.pc = "publish_store" /\ call.att = a
      <4> HIDE DEF req
      <4> QED BY <1>1, <3>2 DEF At, ThreadType, PCs
    <3>4. WellFormed(call, attempt')
      <4> HIDE DEF call
      <4> QED BY <1>2, <3>3 DEF WellFormed, OutcomePCs, CommitPCs
    <3> HIDE DEF call
    <3> QED
      BY <1>0, <2>1, <3>3, <3>4, OneCall DEF Goto
  <2> QED
    BY <1>3, <1>9, <2>1 DEF PublishSnapshot
<1>10. CASE StorePublication(t)
  BY <1>4, <1>10 DEF StorePublication, SlotPCs
<1>11. CASE ApplyPublication(t)
  BY <1>0, <1>2, <1>3, <1>11, FreshCall DEF ApplyPublication, PCs, CommitPCs, TerminalPhases
<1> QED
  BY <1>5, <1>6, <1>7, <1>8, <1>9, <1>10, <1>11 DEF Publishing, PublicationCallback

LEMMA HandlingThreads ==
    ASSUME TypeInv, NEW a \in Attempts, Handling(a)
    PROVE  ThreadsTyped
<1>1. Kept
  BY HandlingAttempts DEF AttemptsTyped
<1>2. thread' = thread \/ thread' = Awake(a)
  BY DEF Handling, Begin, Issue, ClaimStart, ClaimFinish, Admit, Seal
<1> QED
  BY <1>1, <1>2, SameCalls

-----------------------------------------------------------------------------
(* The ledger and the store                                                *)

LedgerTyped == ledger' \in LedgerType /\ Numbered'
StoreTyped == store' \in StoreType /\ crashes' \in 0 .. MaxCrashes

LEMMA SameLedger == TypeInv /\ ledger' = ledger => LedgerTyped
  BY DEF TypeInv, TypeOK, LedgerTyped, Numbered

LEMMA SameStore == TypeInv /\ UNCHANGED <<store, crashes>> => StoreTyped
  BY DEF TypeInv, TypeOK, StoreTyped

LEMMA LedgerFacts ==
    ASSUME TypeInv
    PROVE  /\ ledger \in LedgerType /\ (ledger.exhausted <=> ledger.next = 0)
           /\ store \in StoreType /\ crashes \in 0 .. MaxCrashes
  BY DEF TypeInv, TypeOK, Numbered

LEMMA BeginLedger ==
    ASSUME TypeInv, NEW a \in Attempts, NEW k \in Keys, NEW g \in Generations, Begin(a, k, g)
    PROVE  LedgerTyped
<1>1. NextAfterBatch(ledger.next, ClaimCount) \in 0 .. MaxUint64
  BY LedgerFacts DEF Begin, BatchAvailable, NextAfterBatch, LedgerType
<1>2. ExhaustedAfterBatch(ledger.next, ClaimCount)
         <=> NextAfterBatch(ledger.next, ClaimCount) = 0
  BY LedgerFacts DEF Begin, BatchAvailable, NextAfterBatch, ExhaustedAfterBatch, LedgerType
<1>3. ExhaustedAfterBatch(ledger.next, ClaimCount) \in BOOLEAN
  BY DEF ExhaustedAfterBatch
<1>4. ledger.retainedClaims + ClaimCount \in Int
  BY LedgerFacts DEF LedgerType
<1> QED
  BY <1>1, <1>2, <1>3, <1>4, LedgerFacts DEF Begin, LedgerType, LedgerTyped, Numbered

(* A call that is inside a step names an attempt and carries typed states. *)
LEMMA BusyFacts ==
    ASSUME TypeInv, NEW t \in Threads, thread[t].pc # "idle"
    PROVE  /\ thread[t].att \in Attempts
           /\ attempt[thread[t].att] \in AttemptType
           /\ thread[t].req \in RequestType
           /\ thread[t].pc \in OutcomePCs => thread[t].out \in TerminalPhases
<1>1. thread[t] \in ThreadType /\ WellFormed(thread[t], attempt)
  BY CallFacts
<1>2. thread[t].att \in Attempts
  BY <1>1 DEF WellFormed
<1>3. attempt[thread[t].att] \in AttemptType
  BY <1>2, AttemptFacts
<1> QED
  BY <1>1, <1>2, <1>3 DEF WellFormed, ThreadType

LEMMA ThreadStepLedger ==
    ASSUME TypeInv, NEW t \in Threads,
           \/ Committing(t) \/ Cancelling(t) \/ Publishing(t)
           \/ PublicationCallback(t) \/ LeaveQueueContext(t)
    PROVE  LedgerTyped
<1> DEFINE a == thread[t].att
           req == thread[t].req
<1>1. /\ ledger \in LedgerType /\ (ledger.exhausted <=> ledger.next = 0)
  BY LedgerFacts
<1>2. CASE ledger' = ledger
  BY <1>2, SameLedger
<1>3. CASE ApplyTerminal(t)
  <2>1. req.target \in RestartType
    BY <1>3, BusyFacts DEF ApplyTerminal, RequestType
  <2> DEFINE durable == IF Covered(req) THEN ledger.durable ELSE req.target
  <2>2. durable \in RestartType
    BY <1>1, <2>1 DEF LedgerType
  <2>3. CASE ledger' = [ledger EXCEPT !.durable = durable]
    <3> HIDE DEF durable
    <3> QED BY <1>1, <2>2, <2>3 DEF LedgerTyped, LedgerType, Numbered
  <2> QED
    BY <1>2, <1>3, <2>3 DEF ApplyTerminal
<1>4. CASE Finalize(t)
  <2>1. CASE Finalizable(a, thread[t].out)
    <3>1. attempt[a].key \in Keys
      BY <2>1 DEF Finalizable
    <3> DEFINE key == attempt[a].key
    <3>2. ledger' = [ledger EXCEPT !.attempts[key] = NoAttempt, !.retainedClaims = @ - ClaimCount]
      BY <1>4, <2>1 DEF Finalize
    <3>3. [ledger.attempts EXCEPT ![key] = NoAttempt] \in [Keys -> Attempts \cup {NoAttempt}]
      BY <1>1, <3>1 DEF LedgerType
    <3>4. ledger.retainedClaims - ClaimCount \in Int
      BY <1>1 DEF LedgerType
    <3> HIDE DEF key
    <3> QED
      BY <1>1, <3>2, <3>3, <3>4 DEF LedgerTyped, LedgerType, Numbered
  <2>2. CASE ~Finalizable(a, thread[t].out)
    BY <1>2, <1>4, <2>2 DEF Finalize
  <2> QED
    BY <2>1, <2>2
<1>5. CASE TakeSlot(t)
  BY <1>1, <1>5 DEF TakeSlot, LedgerTyped, LedgerType, Numbered
<1>6. CASE Release
  BY <1>1, <1>6 DEF Release, LedgerTyped, LedgerType, Numbered
<1>7. CASE ApplyPublication(t)
  <2>1. /\ req.target \in RestartType /\ req.revision + 1 \in Nat
        /\ attempt[a].gen \in Nat
    BY <1>7, BusyFacts DEF ApplyPublication, RequestType, AttemptType
  <2> DEFINE durable == IF Covered(req) THEN ledger.durable ELSE req.target
  <2>2. durable \in RestartType
    BY <1>1, <2>1 DEF LedgerType
  <2>3. CASE ledger' = [ledger EXCEPT !.revision = req.revision + 1,
                                      !.lastCommitted = attempt[a].gen,
                                      !.durable = durable, !.serial = NoThread]
    <3> HIDE DEF durable
    <3> QED BY <1>1, <2>1, <2>2, <2>3 DEF LedgerTyped, LedgerType, Numbered
  <2> QED
    BY <1>6, <1>7, <2>3 DEF ApplyPublication
<1>8. CASE Committing(t)
  BY <1>2, <1>3, <1>4, <1>8 DEF Committing, Persist, JoinWoken, CommitSnapshot, StoreTerminal,
       StoreTerminalFails, CommitFails
<1>9. CASE Cancelling(t)
  BY <1>2, <1>9 DEF Cancelling, CancelWoken, CancelPass, ClaimsWoken, CloseOpen, Drain,
       FinishCancellation
<1>10. CASE Publishing(t) \/ PublicationCallback(t) \/ LeaveQueueContext(t)
  BY <1>2, <1>5, <1>6, <1>7, <1>10 DEF Publishing, PublishDrain, LeaveQueueAborted, Recheck,
       PublishSnapshot, PublicationCallback, StorePublication, StorePublicationFails,
       LeaveQueueContext
<1> QED
  BY <1>8, <1>9, <1>10

LEMMA ThreadStepStore ==
    ASSUME TypeInv, NEW t \in Threads,
           \/ Committing(t) \/ Cancelling(t) \/ Publishing(t)
           \/ PublicationCallback(t) \/ LeaveQueueContext(t)
    PROVE  StoreTyped
<1> DEFINE a == thread[t].att
           req == thread[t].req
<1>1. store \in StoreType /\ crashes \in 0 .. MaxCrashes
  BY LedgerFacts
<1>2. CASE UNCHANGED <<store, crashes>>
  BY <1>2, SameStore
<1>3. ASSUME req \in RequestType PROVE Joined(req.target) \in RestartType
  BY <1>1, <1>3 DEF Joined, StoreType, RequestType
<1>4. ASSUME a \in Attempts, attempt[a] \in AttemptType, NEW outcome \in TerminalPhases
      PROVE  Decision(a, outcome)
               \in [seq : Nat, life : Nat, att : Attempts, outcome : TerminalPhases]
  BY <1>1, <1>4 DEF Decision, AttemptType
<1>5. CASE StoreTerminal(t)
  <2>1. /\ Joined(req.target) \in RestartType
        /\ Decision(a, thread[t].out)
             \in [seq : Nat, life : Nat, att : Attempts, outcome : TerminalPhases]
    BY <1>3, <1>4, <1>5, BusyFacts DEF StoreTerminal, OutcomePCs, CommitPCs
  <2>2. store' = [store EXCEPT !.restart = Joined(req.target),
                               !.decisions = @ \cup {Decision(a, thread[t].out)}]
    BY <1>5 DEF StoreTerminal
  <2>3. crashes' = crashes
    BY <1>5 DEF StoreTerminal
  <2> QED
    BY <1>1, <2>1, <2>2, <2>3 DEF StoreTyped, StoreType
<1>6. CASE StorePublication(t)
  <2>1. /\ Joined(req.target) \in RestartType
        /\ Decision(a, "published")
             \in [seq : Nat, life : Nat, att : Attempts, outcome : TerminalPhases]
        /\ req.revision + 1 \in Nat /\ attempt[a].gen \in Nat /\ attempt[a].seq \in Nat
    BY <1>3, <1>4, <1>6, BusyFacts DEF StorePublication, TerminalPhases, AttemptType, RequestType
  <2> DEFINE effect == [id |-> req.revision + 1, gen |-> attempt[a].gen, seq |-> attempt[a].seq]
             decisions == store.decisions \cup {Decision(a, "published")}
             effects == Append(store.effects, effect)
  <2>2. /\ decisions \in SUBSET [seq : Nat, life : Nat, att : Attempts, outcome : TerminalPhases]
        /\ effects \in Seq([id : Nat, gen : Nat, seq : Nat])
    BY <1>1, <2>1 DEF StoreType
  <2>3. store' = [store EXCEPT !.revision = req.revision + 1, !.gen = attempt[a].gen,
                               !.restart = Joined(req.target), !.effects = effects,
                               !.decisions = decisions]
    BY <1>6 DEF StorePublication
  <2>4. crashes' = crashes
    BY <1>6 DEF StorePublication
  <2> HIDE DEF decisions, effects
  <2> QED
    BY <1>1, <2>1, <2>2, <2>3, <2>4 DEF StoreTyped, StoreType
<1> QED
  BY <1>2, <1>5, <1>6 DEF Committing, Persist, JoinWoken, CommitSnapshot, StoreTerminalFails,
       ApplyTerminal, CommitFails, Finalize, Cancelling, CancelWoken, CancelPass, ClaimsWoken,
       CloseOpen, Drain, FinishCancellation, Publishing, PublishDrain, TakeSlot,
       LeaveQueueAborted, Recheck, PublishSnapshot, ApplyPublication, PublicationCallback,
       StorePublicationFails, LeaveQueueContext

LEMMA CrashTyped == ASSUME TypeInv, Crash PROVE TypeInv'
<1>1. /\ store \in StoreType /\ crashes \in 0 .. MaxCrashes
  BY LedgerFacts
<1>2. ledger' \in LedgerType /\ Numbered'
  BY <1>1 DEF Crash, NewLedger, Restartable, ValidRestart, StoreType, RestartType, LedgerType,
       Numbered
<1>3. attempt' \in [Attempts -> AttemptType] /\ RetryTyped'
  BY UnbornTyped DEF Crash, RetryTyped, Unborn
<1>4. thread' \in [Threads -> ThreadType] /\ CallTyped'
  BY IdleTyped DEF Crash, CallTyped, WellFormed, Idle, OutcomePCs, CommitPCs
<1>5. store' \in StoreType /\ crashes' \in 0 .. MaxCrashes
  BY <1>1 DEF Crash
<1> QED
  BY <1>2, <1>3, <1>4, <1>5 DEF TypeInv, TypeOK

LEMMA StepTyped == TypeInv /\ [Next]_vars => TypeInv'
<1> SUFFICES ASSUME TypeInv, [Next]_vars PROVE TypeInv'
  OBVIOUS
<1>1. ASSUME AttemptsTyped, ThreadsTyped, LedgerTyped, StoreTyped PROVE TypeInv'
  BY <1>1 DEF AttemptsTyped, ThreadsTyped, LedgerTyped, StoreTyped, TypeInv, TypeOK
<1>2. ASSUME NEW t \in Threads,
             \/ Committing(t) \/ Cancelling(t) \/ Publishing(t)
             \/ PublicationCallback(t) \/ LeaveQueueContext(t)
      PROVE  TypeInv'
  BY <1>1, <1>2, CommittingAttempts, CancellingAttempts, PublishingAttempts,
     CommittingThreads, CancellingThreads, PublishingThreads, ThreadStepLedger, ThreadStepStore
<1>3. ASSUME NEW t \in Threads, NEW a \in Attempts, Calling(t, a) PROVE TypeInv'
  <2>1. ledger' = ledger /\ UNCHANGED <<store, crashes>>
    BY <1>3 DEF Calling, AdmitCloseFails, AdmitInvalid, CancelCall, CancelPass, PublishCall
  <2> QED
    BY <1>1, <1>3, <2>1, CallingAttempts, CallingThreads, SameLedger, SameStore
<1>4. ASSUME NEW a \in Attempts, Handling(a) PROVE TypeInv'
  <2>1. UNCHANGED <<store, crashes>>
    BY <1>4 DEF Handling, Begin, Issue, ClaimStart, ClaimFinish, Admit, Seal
  <2>2. LedgerTyped
    BY <1>4, BeginLedger, SameLedger DEF Handling, Issue, ClaimStart, ClaimFinish, Admit, Seal
  <2> QED
    BY <1>1, <1>4, <2>1, <2>2, HandlingAttempts, HandlingThreads, SameStore
<1>5. CASE Crash
  BY <1>5, CrashTyped
<1>6. CASE UNCHANGED vars
  <2>1. Kept /\ AttemptsTyped
    BY <1>6, SameAttempts DEF vars, AttemptsTyped
  <2>2. ThreadsTyped
    BY <1>6, <2>1, SameCalls DEF vars
  <2> QED
    BY <1>1, <1>6, <2>1, <2>2, SameLedger, SameStore DEF vars
<1> QED
  BY <1>2, <1>3, <1>4, <1>5, <1>6 DEF Next

(* Every reachable state is well typed: the next sequence never leaves the *)
(* integer width, and every pending call names an attempt and carries a    *)
(* terminal outcome once it persists one.                                  *)
THEOREM TypeCorrect == Spec => []TypeOK
<1>1. TypeInv => TypeOK
  BY DEF TypeInv
<1> QED
  BY <1>1, InitTyped, StepTyped, PTL DEF Spec

-----------------------------------------------------------------------------
(* The commit slot                                                         *)

ThreadStep(t) ==
    \/ Committing(t) \/ Cancelling(t) \/ Publishing(t)
    \/ PublicationCallback(t) \/ LeaveQueueContext(t)
    \/ \E a \in Attempts : Calling(t, a)

(* Goroutine u is neither moved into nor out of the slot or a commit.      *)
Unmoved(u) ==
    /\ thread'[u].att = thread[u].att
    /\ thread'[u].pc \in SlotPCs <=> thread[u].pc \in SlotPCs
    /\ thread'[u].pc \in CommitPCs <=> thread[u].pc \in CommitPCs

LEMMA AwakeUnmoved ==
    ASSUME TypeInv, NEW a \in Attempts, NEW u \in Threads, thread'[u] = Awake(a)[u]
    PROVE  Unmoved(u)
<1>1. thread[u].pc \in PCs
  BY CallFacts DEF ThreadType
<1>2. Awake(a)[u].att = thread[u].att /\ Awake(a)[u].pc \in {thread[u].pc, Woken(thread[u].pc)}
  BY AwakeTyped
<1> QED
  BY <1>1, <1>2, WokenTyped DEF Unmoved

(* A thread's step goes on as one call and moves nobody else.              *)
LEMMA OthersUnmoved ==
    ASSUME TypeInv, NEW t \in Threads, NEW call \in ThreadType,
           \/ Goto(t, call)
           \/ \E a \in Attempts : BroadcastAnd(a, t, call)
    PROVE  thread'[t] = call /\ \A u \in Threads \ {t} : Unmoved(u)
<1>1. thread \in [Threads -> ThreadType]
  BY DEF TypeInv, TypeOK
<1>2. CASE Goto(t, call)
  BY <1>1, <1>2 DEF Goto, Unmoved
<1>3. ASSUME NEW a \in Attempts, BroadcastAnd(a, t, call)
      PROVE  thread'[t] = call /\ \A u \in Threads \ {t} : Unmoved(u)
  <2>1. thread'[t] = call /\ \A u \in Threads \ {t} : thread'[u] = Awake(a)[u]
    BY <1>3 DEF BroadcastAnd, Awake
  <2> QED
    BY <2>1, AwakeUnmoved
<1> QED
  BY <1>2, <1>3

(* The calls a step can end in.                                            *)
LEMMA AtIs ==
    ASSUME TypeInv, NEW t \in Threads, NEW pc \in PCs
    PROVE  /\ At(t, pc) \in ThreadType /\ At(t, pc).pc = pc /\ At(t, pc).att = thread[t].att
           /\ At(t, pc).out = thread[t].out
           /\ \A req \in RequestType :
                 /\ [At(t, pc) EXCEPT !.req = req] \in ThreadType
                 /\ [At(t, pc) EXCEPT !.req = req].pc = pc
                 /\ [At(t, pc) EXCEPT !.req = req].att = thread[t].att
                 /\ [At(t, pc) EXCEPT !.req = req].out = thread[t].out
<1>1. thread[t] \in ThreadType
  BY CallFacts
<1> QED
  BY <1>1 DEF At, ThreadType

(* A step leaves goroutine t at one of the given steps, in a call of the   *)
(* same attempt unless it has just begun or ended.                         *)
Goes(t, pcs) ==
    /\ thread'[t].pc \in pcs
    /\ (thread[t].pc # "idle" /\ thread'[t].pc # "idle") => thread'[t].att = thread[t].att
    /\ \A u \in Threads \ {t} : Unmoved(u)

LEMMA GoesAt ==
    ASSUME TypeInv, NEW t \in Threads, NEW pc \in PCs,
           \/ Goto(t, At(t, pc))
           \/ \E req \in RequestType : Goto(t, [At(t, pc) EXCEPT !.req = req])
    PROVE  Goes(t, {pc})
<1>1. CASE Goto(t, At(t, pc))
  BY <1>1, AtIs, OthersUnmoved DEF Goes
<1>2. ASSUME NEW req \in RequestType, Goto(t, [At(t, pc) EXCEPT !.req = req])
      PROVE  Goes(t, {pc})
  <2> DEFINE call == [At(t, pc) EXCEPT !.req = req]
  <2>1. call \in ThreadType /\ call.pc = pc /\ call.att = thread[t].att
    BY AtIs
  <2> HIDE DEF call
  <2>2. Goto(t, call)
    BY <1>2 DEF call
  <2> QED
    BY <2>1, <2>2, OthersUnmoved DEF Goes
<1> QED
  BY <1>1, <1>2

LEMMA GoesHome ==
    ASSUME TypeInv, NEW t \in Threads,
           Return(t) \/ \E a \in Attempts : BroadcastAnd(a, t, Idle)
    PROVE  Goes(t, {"idle"})
<1>1. Idle \in ThreadType /\ Idle.pc = "idle"
  BY IdleTyped DEF Idle
<1> QED
  BY <1>1, OthersUnmoved DEF Goes, Return

LEMMA GoesCall ==
    ASSUME TypeInv, NEW t \in Threads, NEW a \in Attempts, NEW pc \in PCs,
           NEW out \in {"none"} \cup TerminalPhases,
           thread[t].pc # "idle" => a = thread[t].att,
           Goto(t, Call(a, pc, out))
    PROVE  Goes(t, {pc})
  BY CallIsTyped, OthersUnmoved DEF Goes

Elsewhere == PCs \ (SlotPCs \cup CommitPCs)

LEMMA CancelPassGoes ==
    ASSUME TypeInv, NEW t \in Threads, NEW a \in Attempts, NEW waited \in BOOLEAN,
           thread[t].pc # "idle" => a = thread[t].att,
           CancelPass(t, a, waited)
    PROVE  Goes(t, Elsewhere)
<1> USE DEF Elsewhere, PCs, SlotPCs, CommitPCs
<1>1. CASE Return(t)
  BY <1>1, GoesHome DEF Goes
<1>2. CASE CancelRetries(t, a, waited)
  <2>1. attempt[a].outcome \in TerminalPhases
    BY <1>2, AttemptFacts DEF CancelRetries
  <2>2. CASE Goto(t, Call(a, "persist", attempt[a].outcome))
    BY <2>1, <2>2, GoesCall DEF Goes
  <2> QED
    BY <1>1, <1>2, <2>2 DEF CancelRetries
<1>3. CASE CancelWaits(t, a)
  <2> DEFINE call == [Call(a, "cancel_wait", "none") EXCEPT !.waited = TRUE]
  <2>1. call \in ThreadType /\ call.pc = "cancel_wait" /\ call.att = a
    <3>1. /\ Call(a, "cancel_wait", "none") \in ThreadType
          /\ Call(a, "cancel_wait", "none").pc = "cancel_wait"
          /\ Call(a, "cancel_wait", "none").att = a
      BY CallIsTyped
    <3> QED
      BY <3>1 DEF ThreadType
  <2> HIDE DEF call
  <2>2. Goto(t, call)
    BY <1>3 DEF CancelWaits, call
  <2> QED
    BY <2>1, <2>2, OthersUnmoved DEF Goes
<1>4. CASE CancelWins(t, a)
  <2>1. \E pc \in Elsewhere, out \in {"none"} \cup TerminalPhases : Goto(t, Call(a, pc, out))
    BY <1>4 DEF CancelWins, AfterClaims, TerminalPhases
  <2> QED
    BY <2>1, GoesCall DEF Goes
<1> QED
  BY <1>1, <1>2, <1>3, <1>4 DEF CancelPass, CancelReturns

LEMMA CallingGoes ==
    ASSUME TypeInv, NEW t \in Threads, NEW a \in Attempts, Calling(t, a)
    PROVE  thread[t].pc = "idle" /\ Goes(t, Elsewhere)
<1>1. thread[t].pc = "idle"
  BY DEF Calling, AdmitCloseFails, AdmitInvalid, CancelCall, PublishCall
<1>2. CASE CancelCall(t, a)
  BY <1>1, <1>2, CancelPassGoes DEF CancelCall
<1>3. CASE AdmitCloseFails(t, a) \/ AdmitInvalid(t, a) \/ PublishCall(t, a)
  <2>1. \E pc \in Elsewhere, out \in {"none"} \cup TerminalPhases : Goto(t, Call(a, pc, out))
    BY <1>3 DEF AdmitCloseFails, AdmitInvalid, PublishCall, TerminalPhases, Elsewhere, PCs,
         SlotPCs, CommitPCs
  <2> QED
    BY <1>1, <2>1, GoesCall DEF Goes, Elsewhere
<1> QED
  BY <1>1, <1>2, <1>3 DEF Calling

LEMMA CancellingGoes ==
    ASSUME TypeInv, NEW t \in Threads, Cancelling(t)
    PROVE  thread[t].pc \in Elsewhere /\ Goes(t, Elsewhere)
<1> USE DEF Elsewhere, PCs, SlotPCs, CommitPCs
<1> DEFINE a == thread[t].att
<1>1. thread[t].pc \in Elsewhere /\ thread[t].pc # "idle"
  BY DEF Cancelling, CancelWoken, ClaimsWoken, CloseOpen, Drain, FinishCancellation
<1>2. a \in Attempts /\ thread[t] \in ThreadType
  BY <1>1, BusyFacts, CallFacts
<1>3. CASE CancelWoken(t)
  BY <1>1, <1>2, <1>3, CancelPassGoes DEF CancelWoken, ThreadType
<1>4. CASE ClaimsWoken(t) \/ CloseOpen(t) \/ Drain(t) \/ FinishCancellation(t)
  <2>1. \/ \E pc \in Elsewhere : Goto(t, At(t, pc))
        \/ \E pc \in Elsewhere, out \in {"none"} \cup TerminalPhases : Goto(t, Call(a, pc, out))
    BY <1>4 DEF ClaimsWoken, CloseOpen, Drain, FinishCancellation, AfterClaims, TerminalPhases
  <2>2. ASSUME NEW pc \in Elsewhere, Goto(t, At(t, pc)) PROVE Goes(t, Elsewhere)
    <3>1. Goes(t, {pc})
      BY <2>2, GoesAt
    <3> QED
      BY <3>1 DEF Goes
  <2>3. ASSUME NEW pc \in Elsewhere, NEW out \in {"none"} \cup TerminalPhases,
               Goto(t, Call(a, pc, out))
        PROVE  Goes(t, Elsewhere)
    <3>1. Goes(t, {pc})
      BY <1>2, <2>3, GoesCall
    <3> QED
      BY <3>1 DEF Goes
  <2> QED
    BY <1>1, <2>1, <2>2, <2>3
<1> QED
  BY <1>1, <1>3, <1>4 DEF Cancelling

LEMMA GoesWider ==
    ASSUME NEW t \in Threads, NEW pcs, NEW wider, Goes(t, pcs), pcs \subseteq wider
    PROVE  Goes(t, wider)
  BY DEF Goes

LEMMA CommittingGoes ==
    ASSUME TypeInv, NEW t \in Threads
    PROVE  /\ Persist(t) => Goes(t, {"idle", "join_wait", "commit", "finalize"})
           /\ JoinWoken(t) => Goes(t, {"idle", "join_wait"})
           /\ CommitSnapshot(t) => Goes(t, {"store", "commit_failed"})
           /\ StoreTerminal(t) => Goes(t, {"apply"})
           /\ StoreTerminalFails(t) => Goes(t, {"commit_failed"})
           /\ ApplyTerminal(t) => Goes(t, {"commit_failed", "finalize"})
           /\ CommitFails(t) => Goes(t, {"idle"})
           /\ Finalize(t) => Goes(t, {"idle"})
<1> DEFINE a == thread[t].att
<1>1. ASSUME NEW pcs \in SUBSET PCs, NEW pc \in pcs, Goto(t, At(t, pc)) PROVE Goes(t, pcs)
  <2>1. pc \in PCs
    OBVIOUS
  <2>2. Goes(t, {pc})
    BY <1>1, <2>1, GoesAt
  <2> QED
    BY <2>2, GoesWider
<1>2. ASSUME NEW pcs, "idle" \in pcs, Return(t) PROVE Goes(t, pcs)
  BY <1>2, GoesHome, GoesWider
<1>3. ASSUME Persist(t) PROVE Goes(t, {"idle", "join_wait", "commit", "finalize"})
  <2>1. Return(t) \/ \E pc \in {"join_wait", "commit", "finalize"} : Goto(t, At(t, pc))
    BY <1>3 DEF Persist
  <2> QED
    BY <1>1, <1>2, <2>1 DEF PCs
<1>4. ASSUME JoinWoken(t) PROVE Goes(t, {"idle", "join_wait"})
  <2>1. Return(t) \/ Goto(t, At(t, "join_wait"))
    BY <1>4 DEF JoinWoken
  <2> QED
    BY <1>1, <1>2, <2>1 DEF PCs
<1>5. ASSUME CommitSnapshot(t) PROVE Goes(t, {"store", "commit_failed"})
  <2> DEFINE req == [NoRequest EXCEPT !.expected = ledger.durable,
                                      !.target = TargetFor(a, thread[t].out)]
  <2>1. TargetFor(a, thread[t].out) \in RestartType /\ ledger.durable \in RestartType
    BY <1>5, BusyFacts, TargetTyped, LedgerFacts
       DEF CommitSnapshot, OutcomePCs, CommitPCs, LedgerType
  <2>2. req \in RequestType
    BY <2>1 DEF NoRequest, RequestType
  <2>3. Goto(t, At(t, "commit_failed")) \/ Goto(t, [At(t, "store") EXCEPT !.req = req])
    BY <1>5 DEF CommitSnapshot
  <2> HIDE DEF req
  <2>4. CASE Goto(t, [At(t, "store") EXCEPT !.req = req])
    <3>1. Goes(t, {"store"})
      BY <2>2, <2>4, GoesAt DEF PCs
    <3> QED
      BY <3>1, GoesWider
  <2> QED
    BY <1>1, <2>3, <2>4 DEF PCs
<1>6. StoreTerminal(t) => Goes(t, {"apply"})
  BY GoesAt DEF StoreTerminal, PCs
<1>7. StoreTerminalFails(t) => Goes(t, {"commit_failed"})
  BY GoesAt DEF StoreTerminalFails, PCs
<1>8. ASSUME ApplyTerminal(t) PROVE Goes(t, {"commit_failed", "finalize"})
  <2>1. Goto(t, At(t, "commit_failed")) \/ Goto(t, At(t, "finalize"))
    BY <1>8 DEF ApplyTerminal
  <2> QED
    BY <1>1, <2>1 DEF PCs
<1>9. ASSUME CommitFails(t) \/ Finalize(t) PROVE Goes(t, {"idle"})
  BY <1>9, BusyFacts, GoesHome DEF CommitFails, Finalize
<1> QED
  BY <1>3, <1>4, <1>5, <1>6, <1>7, <1>8, <1>9

LEMMA PublishingGoes ==
    ASSUME TypeInv, NEW t \in Threads
    PROVE  /\ PublishDrain(t) => Goes(t, {"slot", "persist"})
           /\ TakeSlot(t) => Goes(t, {"recheck"})
           /\ LeaveQueueAborted(t) \/ LeaveQueueContext(t) => Goes(t, {"persist"})
           /\ Recheck(t) => \/ Goes(t, {"publish_snapshot"}) /\ ledger' = ledger
                            \/ Goes(t, {"persist"}) /\ Release
           /\ PublishSnapshot(t) => \/ Goes(t, {"publish_store"}) /\ ledger' = ledger
                                    \/ Goes(t, {"persist"}) /\ Release
           /\ StorePublication(t) => Goes(t, {"publish_apply"})
           /\ StorePublicationFails(t) => Goes(t, {"persist"}) /\ Release
           /\ ApplyPublication(t) => Goes(t, {"persist"})
<1> DEFINE a == thread[t].att
<1>1. ASSUME thread[t].pc # "idle", FailPublication(t) PROVE Goes(t, {"persist"})
  BY <1>1, BusyFacts, GoesCall DEF FailPublication, PCs, TerminalPhases
<1>2. PublishDrain(t) => Goes(t, {"slot", "persist"})
  <2>1. PublishDrain(t) => Goes(t, {"slot"}) \/ Goes(t, {"persist"})
    BY <1>1, GoesAt DEF PublishDrain, PCs
  <2> QED
    BY <2>1, GoesWider
<1>3. TakeSlot(t) => Goes(t, {"recheck"})
  BY GoesAt DEF TakeSlot, PCs
<1>4. LeaveQueueAborted(t) \/ LeaveQueueContext(t) => Goes(t, {"persist"})
  BY <1>1 DEF LeaveQueueAborted, LeaveQueueContext
<1>5. Recheck(t) => \/ Goes(t, {"publish_snapshot"}) /\ ledger' = ledger
                    \/ Goes(t, {"persist"}) /\ Release
  BY <1>1, GoesAt DEF Recheck, PCs
<1>6. ASSUME PublishSnapshot(t)
      PROVE  \/ Goes(t, {"publish_store"}) /\ ledger' = ledger
             \/ Goes(t, {"persist"}) /\ Release
  <2> DEFINE req == [expected |-> ledger.durable, target |-> TargetFor(a, "published"),
                     revision |-> ledger.revision, gen |-> ledger.lastCommitted]
  <2>1. /\ TargetFor(a, "published") \in RestartType /\ ledger.durable \in RestartType
        /\ ledger.revision \in Nat /\ ledger.lastCommitted \in Nat
    BY <1>6, BusyFacts, TargetTyped, LedgerFacts DEF PublishSnapshot, TerminalPhases, LedgerType
  <2>2. req \in RequestType
    BY <2>1 DEF RequestType
  <2>3. \/ FailPublication(t) /\ Release
        \/ Goto(t, [At(t, "publish_store") EXCEPT !.req = req]) /\ ledger' = ledger
    BY <1>6 DEF PublishSnapshot
  <2> HIDE DEF req
  <2> QED
    BY <1>1, <1>6, <2>2, <2>3, GoesAt DEF PublishSnapshot, PCs
<1>7. StorePublication(t) => Goes(t, {"publish_apply"})
  BY GoesAt DEF StorePublication, PCs
<1>8. StorePublicationFails(t) => Goes(t, {"persist"}) /\ Release
  BY <1>1 DEF StorePublicationFails
<1>9. ASSUME ApplyPublication(t) PROVE Goes(t, {"persist"})
  BY <1>1, <1>9, BusyFacts, GoesCall DEF ApplyPublication, PCs, TerminalPhases
<1> QED
  BY <1>2, <1>3, <1>4, <1>5, <1>6, <1>7, <1>8, <1>9

(* The slot stays with its holder, is won from nobody, or is given up by   *)
(* the goroutine that leaves the slot section.                             *)
LEMMA SlotMove ==
    ASSUME TypeInv, SlotHeld, NEW t \in Threads, Goes(t, PCs),
           \/ /\ ledger'.serial = ledger.serial
              /\ thread[t].pc \in SlotPCs <=> thread'[t].pc \in SlotPCs
           \/ /\ ledger.serial = NoThread /\ ledger'.serial = t
              /\ thread'[t].pc \in SlotPCs
           \/ /\ thread[t].pc \in SlotPCs /\ ledger'.serial = NoThread
              /\ thread'[t].pc \notin SlotPCs
    PROVE  SlotHeld'
<1> SUFFICES ASSUME NEW u \in Threads PROVE (ledger.serial = u <=> thread[u].pc \in SlotPCs)'
  BY DEF SlotHeld
<1>1. CASE u = t
  BY <1>1 DEF SlotHeld
<1>2. CASE u # t
  <2>1. thread'[u].pc \in SlotPCs <=> thread[u].pc \in SlotPCs
    BY <1>2 DEF Goes, Unmoved
  <2> QED
    BY <1>2, <2>1 DEF SlotHeld
<1> QED
  BY <1>1, <1>2

LEMMA SlotHeldStep == TypeInv /\ SlotHeld /\ [Next]_vars => SlotHeld'
<1> SUFFICES ASSUME TypeInv, SlotHeld, [Next]_vars PROVE SlotHeld'
  OBVIOUS
<1> USE DEF PCs, SlotPCs
<1>0. ledger \in LedgerType
  BY LedgerFacts
<1>1. ASSUME NEW t \in Threads, NEW pcs \in SUBSET PCs, Goes(t, pcs)
      PROVE  Goes(t, PCs) /\ thread'[t].pc \in pcs
  BY <1>1 DEF Goes
<1>2. ASSUME Release PROVE ledger'.serial = NoThread
  BY <1>0, <1>2 DEF Release, LedgerType
<1>3. ASSUME NEW t \in Threads, thread[t].pc \notin SlotPCs, NEW pcs \in SUBSET (PCs \ SlotPCs),
             Goes(t, pcs), ledger'.serial = ledger.serial
      PROVE  SlotHeld'
  BY <1>3, <1>1, SlotMove
<1>4. ASSUME NEW t \in Threads, thread[t].pc \in SlotPCs, Goes(t, {"persist"}), Release
      PROVE  SlotHeld'
  BY <1>4, <1>1, <1>2, SlotMove
<1>5. ASSUME NEW t \in Threads, thread[t].pc \in SlotPCs, NEW pc \in SlotPCs, Goes(t, {pc}),
             ledger' = ledger
      PROVE  SlotHeld'
  BY <1>5, <1>1, SlotMove
<1>6. ASSUME NEW t \in Threads, Committing(t) PROVE SlotHeld'
  <2>1. thread[t].pc \notin SlotPCs
    BY <1>6 DEF Committing, Persist, JoinWoken, CommitSnapshot, StoreTerminal,
         StoreTerminalFails, ApplyTerminal, CommitFails, Finalize
  <2>2. ledger'.serial = ledger.serial
    BY <1>0, <1>6 DEF Committing, Persist, JoinWoken, CommitSnapshot, StoreTerminal,
         StoreTerminalFails, ApplyTerminal, CommitFails, Finalize, LedgerType
  <2>3. Goes(t, {"idle", "join_wait", "commit", "finalize", "store", "commit_failed", "apply"})
    BY <1>6, CommittingGoes, GoesWider DEF Committing
  <2> QED
    BY <1>3, <2>1, <2>2, <2>3
<1>7. ASSUME NEW t \in Threads, Cancelling(t) \/ \E a \in Attempts : Calling(t, a) PROVE SlotHeld'
  <2>1. ledger' = ledger
    BY <1>7 DEF Cancelling, CancelWoken, CancelPass, ClaimsWoken, CloseOpen, Drain,
         FinishCancellation, Calling, AdmitCloseFails, AdmitInvalid, CancelCall, PublishCall
  <2>2. thread[t].pc \notin SlotPCs /\ Goes(t, Elsewhere)
    BY <1>7, CancellingGoes, CallingGoes DEF Elsewhere
  <2> QED
    BY <1>3, <2>1, <2>2 DEF Elsewhere
<1>8. ASSUME NEW t \in Threads,
             Publishing(t) \/ PublicationCallback(t) \/ LeaveQueueContext(t)
      PROVE  SlotHeld'
  <2>1. CASE PublishDrain(t) \/ LeaveQueueAborted(t) \/ LeaveQueueContext(t)
    <3>1. Goes(t, {"slot", "persist"})
      BY <2>1, PublishingGoes, GoesWider
    <3>2. thread[t].pc \notin SlotPCs /\ ledger' = ledger
      BY <2>1 DEF PublishDrain, LeaveQueueAborted, LeaveQueueContext
    <3> QED
      BY <1>3, <3>1, <3>2
  <2>2. CASE TakeSlot(t)
    <3>1. ledger.serial = NoThread /\ ledger'.serial = t
      BY <1>0, <2>2 DEF TakeSlot, LedgerType
    <3> QED
      BY <1>1, <2>2, <3>1, PublishingGoes, SlotMove
  <2>3. CASE Recheck(t) \/ PublishSnapshot(t) \/ StorePublicationFails(t)
    <3>1. thread[t].pc \in SlotPCs
      BY <2>3 DEF Recheck, PublishSnapshot, StorePublicationFails
    <3> QED
      BY <1>4, <1>5, <2>3, <3>1, PublishingGoes
  <2>4. CASE StorePublication(t)
    BY <1>5, <2>4, PublishingGoes DEF StorePublication
  <2>5. CASE ApplyPublication(t)
    <3>1. ledger'.serial = NoThread
      BY <1>0, <1>2, <2>5 DEF ApplyPublication, LedgerType
    <3>2. thread[t].pc \in SlotPCs
      BY <2>5 DEF ApplyPublication
    <3> QED
      BY <1>1, <2>5, <3>1, <3>2, PublishingGoes, SlotMove
  <2> QED
    BY <1>8, <2>1, <2>2, <2>3, <2>4, <2>5 DEF Publishing, PublicationCallback
<1>9. ASSUME NEW a \in Attempts, Handling(a) PROVE SlotHeld'
  <2>1. ledger'.serial = ledger.serial
    BY <1>0, <1>9 DEF Handling, Begin, Issue, ClaimStart, ClaimFinish, Admit, Seal, LedgerType
  <2>2. thread' = thread \/ thread' = Awake(a)
    BY <1>9 DEF Handling, Begin, Issue, ClaimStart, ClaimFinish, Admit, Seal
  <2>3. \A u \in Threads : thread'[u].pc \in SlotPCs <=> thread[u].pc \in SlotPCs
    BY <2>2, AwakeUnmoved DEF Unmoved
  <2> QED
    BY <2>1, <2>3 DEF SlotHeld
<1>10. CASE Crash
  BY <1>10 DEF Crash, NewLedger, Idle, SlotHeld
<1>11. CASE UNCHANGED vars
  BY <1>11 DEF vars, SlotHeld
<1> QED
  BY <1>6, <1>7, <1>8, <1>9, <1>10, <1>11 DEF Next

(* The commit slot is held exactly by the goroutine between winning it and *)
(* leaving its publication commit: Publish gives it back on every path,    *)
(* and only the goroutine that won it does.                                *)
THEOREM SlotIsHeld == Spec => []SlotHeld
<1>1. Init => SlotHeld
  BY DEF Init, NewLedger, Idle, SlotHeld, SlotPCs
<1> QED
  BY <1>1, InitTyped, StepTyped, SlotHeldStep, PTL DEF Spec

-----------------------------------------------------------------------------
(* The terminal commit                                                     *)

SameCommitting == \A a \in Attempts : attempt'[a].committing = attempt[a].committing

(* Only the attempt of goroutine t starts or ends its commit.              *)
OnlyCommitting(t, value) ==
    \A a \in Attempts :
        attempt'[a].committing = IF a = thread[t].att THEN value ELSE attempt[a].committing

(* The commit stays with its driver, is begun where there was none, or is  *)
(* ended by its driver.                                                    *)
LEMMA CommitMove ==
    ASSUME TypeInv, OneCommitDriver, NEW t \in Threads, Goes(t, PCs),
           \/ /\ SameCommitting
              /\ thread[t].pc \in CommitPCs <=> thread'[t].pc \in CommitPCs
           \/ /\ thread[t].pc = "persist" /\ thread'[t].pc \in CommitPCs
              /\ ~attempt[thread[t].att].committing /\ OnlyCommitting(t, TRUE)
           \/ /\ thread[t].pc \in CommitPCs /\ thread'[t].pc \notin CommitPCs
              /\ OnlyCommitting(t, FALSE)
    PROVE  OneCommitDriver'
<1> DEFINE C(u, a) == thread[u].att = a /\ thread[u].pc \in CommitPCs
           D(u, a) == thread'[u].att = a /\ thread'[u].pc \in CommitPCs
<1>1. \A u \in Threads \ {t}, a \in Attempts : D(u, a) <=> C(u, a)
  BY DEF Goes, Unmoved
<1>2. \A a \in Attempts :
        /\ attempt[a].committing <=> \E u \in Threads : C(u, a)
        /\ \A u, w \in Threads : C(u, a) /\ C(w, a) => u = w
  BY DEF OneCommitDriver, Committers
<1>3. thread[t].pc # "idle" => thread[t].att \in Attempts
  BY BusyFacts
<1>4. thread[t].pc \in CommitPCs \/ thread'[t].pc \in CommitPCs
        => thread[t].pc \in CommitPCs \cup {"persist"}
  OBVIOUS
<1>5. thread'[t].pc \in CommitPCs => thread'[t].att = thread[t].att
  BY <1>4 DEF Goes, CommitPCs
<1>6. \A a \in Attempts :
        /\ attempt'[a].committing <=> \E u \in Threads : D(u, a)
        /\ \A u, w \in Threads : D(u, a) /\ D(w, a) => u = w
  <2> SUFFICES ASSUME NEW a \in Attempts
               PROVE  /\ attempt'[a].committing <=> \E u \in Threads : D(u, a)
                      /\ \A u, w \in Threads : D(u, a) /\ D(w, a) => u = w
    OBVIOUS
  <2>1. CASE SameCommitting /\ (thread[t].pc \in CommitPCs <=> thread'[t].pc \in CommitPCs)
    <3>1. \A u \in Threads : D(u, a) <=> C(u, a)
      BY <1>1, <1>5, <2>1
    <3> QED
      BY <1>2, <2>1, <3>1 DEF SameCommitting
  <2>2. CASE /\ thread[t].pc = "persist" /\ thread'[t].pc \in CommitPCs
             /\ ~attempt[thread[t].att].committing /\ OnlyCommitting(t, TRUE)
    <3>1. ~C(t, a) /\ (D(t, a) <=> a = thread[t].att)
      BY <1>5, <2>2 DEF CommitPCs
    <3>2. a = thread[t].att => \A u \in Threads : ~C(u, a)
      BY <1>2, <2>2
    <3>3. attempt'[a].committing = IF a = thread[t].att THEN TRUE ELSE attempt[a].committing
      BY <2>2 DEF OnlyCommitting
    <3> HIDE DEF C, D
    <3>4. CASE a = thread[t].att
      BY <1>1, <3>1, <3>2, <3>3, <3>4
    <3>5. CASE a # thread[t].att
      <4>1. \A u \in Threads : D(u, a) <=> C(u, a)
        BY <1>1, <3>1, <3>5
      <4> QED
        BY <1>2, <3>3, <3>5, <4>1
    <3> QED
      BY <3>4, <3>5
  <2>3. CASE /\ thread[t].pc \in CommitPCs /\ thread'[t].pc \notin CommitPCs
             /\ OnlyCommitting(t, FALSE)
    <3>1. ~D(t, a) /\ (C(t, a) <=> a = thread[t].att)
      BY <2>3
    <3>2. attempt'[a].committing = IF a = thread[t].att THEN FALSE ELSE attempt[a].committing
      BY <2>3 DEF OnlyCommitting
    <3> HIDE DEF C, D
    <3>3. CASE a = thread[t].att
      <4>1. \A u \in Threads : ~D(u, a)
        BY <1>1, <1>2, <3>1, <3>3
      <4> QED
        BY <3>2, <3>3, <4>1
    <3>4. CASE a # thread[t].att
      <4>1. \A u \in Threads : D(u, a) <=> C(u, a)
        BY <1>1, <3>1, <3>4
      <4> QED
        BY <1>2, <3>2, <3>4, <4>1
    <3> QED
      BY <3>3, <3>4
  <2> QED
    BY <2>1, <2>2, <2>3
<1> QED
  BY <1>6 DEF OneCommitDriver, Committers

LEMMA ThreadStepCommitting ==
    ASSUME TypeInv, NEW t \in Threads,
           \/ Cancelling(t) \/ Publishing(t) \/ PublicationCallback(t) \/ LeaveQueueContext(t)
           \/ \E a \in Attempts : Calling(t, a)
    PROVE  SameCommitting
<1>1. attempt \in [Attempts -> AttemptType]
  BY DEF TypeInv, TypeOK
<1>2. ASSUME NEW a \in Attempts, NEW waited \in BOOLEAN, CancelPass(t, a, waited)
      PROVE  SameCommitting
  <2> USE DEF SameCommitting, AttemptType
  <2>1. CASE CancelReturns(t, a) \/ CancelRetries(t, a, waited)
    BY <2>1 DEF CancelReturns, CancelRetries
  <2>2. CASE CancelWaits(t, a)
    BY <1>1, <2>2 DEF CancelWaits
  <2>3. CASE CancelWins(t, a)
    <3>1. CASE attempt' = [attempt EXCEPT ![a].phase = "cancelling"]
      BY <1>1, <3>1
    <3>2. CASE attempt' = [attempt EXCEPT ![a].phase = "cancelling", ![a].producer = FALSE]
      BY <1>1, <3>2
    <3> QED
      BY <2>3, <3>1, <3>2 DEF CancelWins
  <2> QED
    BY <1>2, <2>1, <2>2, <2>3 DEF CancelPass
<1>3. ASSUME NEW a \in Attempts, Calling(t, a) PROVE SameCommitting
  <2> USE DEF SameCommitting, AttemptType
  <2>1. CASE AdmitCloseFails(t, a)
    BY <1>1, <2>1 DEF AdmitCloseFails
  <2>2. CASE AdmitInvalid(t, a)
    BY <1>1, <2>2 DEF AdmitInvalid
  <2>3. CASE CancelCall(t, a)
    BY <1>2, <2>3 DEF CancelCall
  <2>4. CASE PublishCall(t, a)
    BY <1>1, <2>4 DEF PublishCall
  <2> QED
    BY <1>3, <2>1, <2>2, <2>3, <2>4 DEF Calling
<1>4. CASE Cancelling(t)
  <2>1. CASE CancelWoken(t)
    BY <1>2, <2>1, BusyFacts, CallFacts DEF CancelWoken, ThreadType
  <2> USE DEF SameCommitting, AttemptType
  <2>2. CASE ClaimsWoken(t)
    BY <1>1, <2>2 DEF ClaimsWoken
  <2>3. CASE CloseOpen(t)
    BY <2>3 DEF CloseOpen
  <2>4. CASE Drain(t)
    BY <1>1, <2>4 DEF Drain
  <2>5. CASE FinishCancellation(t)
    BY <1>1, <2>5 DEF FinishCancellation
  <2> QED
    BY <1>4, <2>1, <2>2, <2>3, <2>4, <2>5 DEF Cancelling
<1>5. CASE Publishing(t) \/ PublicationCallback(t) \/ LeaveQueueContext(t)
  BY SMTT(30), <1>1, <1>5 DEF Publishing, PublishDrain, TakeSlot, LeaveQueueAborted, Recheck,
       PublishSnapshot, ApplyPublication, PublicationCallback, StorePublication,
       StorePublicationFails, LeaveQueueContext, SameCommitting, AttemptType
<1> QED
  BY <1>3, <1>4, <1>5

LEMMA OneCommitDriverStep == TypeInv /\ OneCommitDriver /\ [Next]_vars => OneCommitDriver'
<1> SUFFICES ASSUME TypeInv, OneCommitDriver, [Next]_vars PROVE OneCommitDriver'
  OBVIOUS
<1> USE DEF PCs, CommitPCs
<1>0. attempt \in [Attempts -> AttemptType]
  BY DEF TypeInv, TypeOK
<1>1. ASSUME NEW t \in Threads, NEW pcs \in SUBSET PCs, Goes(t, pcs)
      PROVE  Goes(t, PCs) /\ thread'[t].pc \in pcs
  BY <1>1 DEF Goes
<1>2. ASSUME NEW t \in Threads, thread[t].pc \notin CommitPCs,
             NEW pcs \in SUBSET (PCs \ CommitPCs), Goes(t, pcs), SameCommitting
      PROVE  OneCommitDriver'
  BY <1>1, <1>2, CommitMove
<1>3. ASSUME NEW t \in Threads, Persist(t) PROVE OneCommitDriver'
  <2>1. thread[t].pc = "persist" /\ thread[t].att \in Attempts
    BY <1>3, BusyFacts DEF Persist
  <2>2. Goes(t, PCs)
    BY <1>3, CommittingGoes, GoesWider
  <2>3. CASE attempt' = attempt /\ (Return(t) \/ Goto(t, At(t, "join_wait")))
    <3>1. Goes(t, {"idle", "join_wait"})
      BY <2>3, GoesHome, GoesAt, GoesWider
    <3> QED
      BY <1>2, <2>1, <2>3, <3>1 DEF SameCommitting
  <2>4. ASSUME ~attempt[thread[t].att].committing,
               attempt' = [attempt EXCEPT ![thread[t].att].outcome = thread[t].out,
                                          ![thread[t].att].committing = TRUE],
               NEW pc \in {"finalize", "commit"}, Goto(t, At(t, pc))
        PROVE  OneCommitDriver'
    <3>1. OnlyCommitting(t, TRUE)
      BY <1>0, <2>1, <2>4 DEF OnlyCommitting, AttemptType
    <3>2. thread'[t].pc = pc
      BY <2>4, GoesAt DEF Goes
    <3> QED
      BY <2>1, <2>2, <2>4, <3>1, <3>2, CommitMove
  <2> QED
    BY <1>3, <2>3, <2>4 DEF Persist
<1>4. ASSUME NEW t \in Threads, JoinWoken(t) PROVE OneCommitDriver'
  BY <1>2, <1>4, CommittingGoes DEF JoinWoken, SameCommitting
<1>5. ASSUME NEW t \in Threads,
             \/ CommitSnapshot(t) \/ StoreTerminal(t) \/ StoreTerminalFails(t) \/ ApplyTerminal(t)
      PROVE  OneCommitDriver'
  <2>1. thread[t].pc \in CommitPCs /\ SameCommitting
    BY <1>0, <1>5 DEF CommitSnapshot, StoreTerminal, StoreTerminalFails, ApplyTerminal,
         SameCommitting, AttemptType
  <2>2. Goes(t, CommitPCs)
    BY <1>5, CommittingGoes, GoesWider
  <2> QED
    BY <1>1, <2>1, <2>2, CommitMove
<1>6. ASSUME NEW t \in Threads, CommitFails(t) \/ Finalize(t) PROVE OneCommitDriver'
  <2>1. thread[t].pc \in CommitPCs /\ thread[t].att \in Attempts
    BY <1>6, BusyFacts DEF CommitFails, Finalize
  <2>2. OnlyCommitting(t, FALSE)
    <3> USE DEF OnlyCommitting, AttemptType
    <3>1. CASE CommitFails(t)
      BY ZenonT(60), <1>0, <2>1, <3>1 DEF CommitFails
    <3>2. CASE Finalize(t)
      <4>1. CASE attempt' = [attempt EXCEPT ![thread[t].att] = Finalized(@, thread[t].out)]
        BY <1>0, <2>1, <4>1 DEF Finalized, Unborn
      <4>2. CASE attempt' = [attempt EXCEPT ![thread[t].att].committing = FALSE,
                                            ![thread[t].att].persistErr = TRUE]
        BY ZenonT(60), <1>0, <2>1, <4>2
      <4> QED
        BY <3>2, <4>1, <4>2 DEF Finalize
    <3> QED
      BY <1>6, <3>1, <3>2
  <2>3. Goes(t, {"idle"})
    BY <1>6, CommittingGoes
  <2> QED
    BY <1>1, <2>1, <2>2, <2>3, CommitMove
<1>7. ASSUME NEW t \in Threads, Cancelling(t) \/ \E a \in Attempts : Calling(t, a)
      PROVE  OneCommitDriver'
  BY <1>2, <1>7, ThreadStepCommitting, CancellingGoes, CallingGoes DEF Elsewhere
<1>8. ASSUME NEW t \in Threads,
             Publishing(t) \/ PublicationCallback(t) \/ LeaveQueueContext(t)
      PROVE  OneCommitDriver'
  <2>1. thread[t].pc \notin CommitPCs
    BY <1>8 DEF Publishing, PublishDrain, TakeSlot, LeaveQueueAborted, Recheck, PublishSnapshot,
         ApplyPublication, PublicationCallback, StorePublication, StorePublicationFails,
         LeaveQueueContext
  <2>2. Goes(t, {"slot", "persist"} \cup SlotPCs)
    BY <1>8, PublishingGoes, GoesWider DEF Publishing, PublicationCallback, SlotPCs
  <2> QED
    BY <1>2, <1>8, <2>1, <2>2, ThreadStepCommitting DEF SlotPCs
<1>9. ASSUME NEW a \in Attempts, Handling(a) PROVE OneCommitDriver'
  <2>1. \A u \in Threads : Unmoved(u)
    BY <1>9, AwakeUnmoved DEF Handling, Begin, Issue, ClaimStart, ClaimFinish, Admit, Seal, Unmoved
  <2>2. attempt[a].phase = "unborn" => ~attempt[a].committing
    BY CallFacts DEF OneCommitDriver, Committers, WellFormed
  <2>3. SameCommitting
    <3> USE DEF SameCommitting, AttemptType
    <3>1. ASSUME NEW k \in Keys, NEW g \in Generations, Begin(a, k, g) PROVE SameCommitting
      BY <1>0, <2>2, <3>1 DEF Begin, Unborn
    <3>2. ASSUME NEW o \in Ordinals, Issue(a, o) PROVE SameCommitting
      BY <1>0, <3>2 DEF Issue
    <3>3. ASSUME NEW o \in Ordinals, ClaimStart(a, o) PROVE SameCommitting
      BY <1>0, <3>3 DEF ClaimStart
    <3>4. ASSUME NEW o \in Ordinals, NEW outcome \in ProducerOutcomes, ClaimFinish(a, o, outcome)
          PROVE  SameCommitting
      BY <1>0, <3>4 DEF ClaimFinish
    <3>5. CASE Admit(a)
      BY <1>0, <3>5 DEF Admit
    <3>6. CASE Seal(a)
      BY <1>0, <3>6 DEF Seal
    <3> QED
      BY <1>9, <3>1, <3>2, <3>3, <3>4, <3>5, <3>6 DEF Handling
  <2> QED
    BY <2>1, <2>3 DEF OneCommitDriver, Committers, SameCommitting, Unmoved
<1>10. CASE Crash
  BY <1>10 DEF Crash, Unborn, Idle, OneCommitDriver, Committers
<1>11. CASE UNCHANGED vars
  BY <1>11 DEF vars, OneCommitDriver, Committers
<1> QED
  BY <1>3, <1>4, <1>5, <1>6, <1>7, <1>8, <1>9, <1>10, <1>11 DEF Next, Committing

(* However many goroutines cancel and publish an attempt, exactly one      *)
(* drives its terminal commit while terminalCommitInProgress is set, and   *)
(* none does otherwise.                                                    *)
THEOREM CommitHasOneDriver == Spec => []OneCommitDriver
<1>1. Init => OneCommitDriver
  BY DEF Init, Unborn, Idle, OneCommitDriver, Committers, CommitPCs
<1> QED
  BY <1>1, InitTyped, StepTyped, OneCommitDriverStep, PTL DEF Spec
=============================================================================
