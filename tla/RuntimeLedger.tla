---------------------------- MODULE RuntimeLedger ----------------------------
(***************************************************************************)
(* The bounded attempt ledger of runtime_ledger.go: attempts that acquire, *)
(* claim, seal and then either publish through a transactional committer   *)
(* or cancel, with any number of goroutines calling the same attempt       *)
(* handles.                                                                *)
(*                                                                         *)
(* One action is one critical section of the code (under ledger.mu, under  *)
(* state.mu, or one call of the producer or of the committer, which the    *)
(* code makes without a lock).  A goroutine is a member of Threads; its pc *)
(* names the next critical section of the API call it is executing.        *)
(*                                                                         *)
(* The producer (RuntimeAcquisitionSource, RuntimeAttempt, capabilities)   *)
(* and the committer (PublicationCommitter) are not part of the            *)
(* repository.  The producer may answer any call with success or failure.  *)
(* The committer is the durable store that docs/m2-01-api.md and the       *)
(* interface comment ask for: it accepts a target when it holds the        *)
(* expected state or already covers the target, and an error means that it *)
(* changed nothing.                                                        *)
(***************************************************************************)
EXTENDS LedgerRestart, Sequences

CONSTANTS
    Attempts,           \* attempt objects a process can create
    Keys,               \* attempt keys
    Threads,            \* goroutines calling the API
    Generations,        \* poll generations offered to BeginRuntimeAttempt
    ClaimCount,         \* dependencies of the profile, one claim each
    ProducerOutcomes,   \* claim outcomes the producer can yield
    MaxRetainedAttempts, MaxRetainedClaimEntries, AuditTombstoneLimit,
    MaxCrashes,         \* bound: process crashes in one behaviour
    NoAttempt, NoThread, NoKey

ASSUME RuntimeLedgerAssumption ==
    /\ IsFiniteSet(Attempts) /\ IsFiniteSet(Keys)
    /\ Generations \subseteq 1 .. MaxUint64
    /\ ClaimCount \in 1 .. MaxClaimEntries
    /\ ProducerOutcomes \subseteq ClaimOutcomes \ {"attempt_cancelled"}
    /\ MaxRetainedAttempts \in Nat \ {0}
    /\ MaxRetainedClaimEntries \in Nat \ {0}
    /\ AuditTombstoneLimit \in Nat \ {0}
    /\ MaxCrashes \in Nat
    /\ NoAttempt \notin Attempts /\ NoThread \notin Threads /\ NoKey \notin Keys

VARIABLES
    ledger,     \* SampleLedger
    attempt,    \* runtimeAttemptState of every attempt
    thread,     \* the call each goroutine is executing
    store,      \* what the committer holds durably
    crashes     \* crashes so far

vars == <<ledger, attempt, thread, store, crashes>>

Ordinals == 0 .. ClaimCount - 1

-----------------------------------------------------------------------------
(* Attempts *)

LivePhases == {"open", "sealed", "cancelling", "publishing"}

Unborn ==
    [phase |-> "unborn", key |-> NoKey, gen |-> 0, seq |-> 0,
     claim |-> [o \in Ordinals |-> "unresolved"],
     issued |-> {}, admitted |-> FALSE, producer |-> FALSE, drain |-> "pending",
     aborted |-> FALSE, restartCommitted |-> FALSE, outcome |-> "none",
     committing |-> FALSE, persistErr |-> FALSE]

(* What finalizeTerminalAttempt leaves of an attempt. *)
Finalized(s, outcome) ==
    [Unborn EXCEPT !.phase = outcome, !.seq = s.seq, !.outcome = s.outcome]

InProgress(a) == {o \in Ordinals : attempt[a].claim[o] = "in_progress"}
AllClaimed(a) == \A o \in Ordinals : attempt[a].claim[o] = ClaimSucceeded

CancelUnresolved(claim) ==
    [o \in Ordinals |-> IF claim[o] = "unresolved" THEN "attempt_cancelled" ELSE claim[o]]

(* runtimeAttemptState.terminalTombstones *)
TerminalTombstones(a, outcome) ==
    {AttemptTombstone(attempt[a].seq, ClaimCount, outcome)} \cup
    {ClaimTombstone(attempt[a].seq, o, attempt[a].claim[o]) :
        o \in {p \in Ordinals : attempt[a].claim[p] \in ClaimOutcomes}}

RetainedKeys == {k \in Keys : ledger.attempts[k] # NoAttempt}

-----------------------------------------------------------------------------
(* Goroutines *)

NoRequest == [expected |-> InitialRestart, target |-> InitialRestart, revision |-> 0, gen |-> 0]

Idle == [pc |-> "idle", att |-> NoAttempt, out |-> "none", waited |-> FALSE, req |-> NoRequest]

(* The same call at another step. *)
At(t, pc) == [thread[t] EXCEPT !.pc = pc]

(* A call of attempt a at a step, about to persist an outcome. *)
Call(a, pc, out) == [Idle EXCEPT !.pc = pc, !.att = a, !.out = out]

Goto(t, call) == thread' = [thread EXCEPT ![t] = call]
Return(t) == Goto(t, Idle)

(* cond.Broadcast of attempt a, while thread t goes on as call. *)
Woken(pc) ==
    CASE pc = "cancel_wait" -> "cancel_woken"
      [] pc = "join_wait" -> "join_woken"
      [] pc = "claims_wait" -> "claims_woken"
      [] OTHER -> pc

Awake(a) ==
    [u \in Threads |-> IF thread[u].att = a THEN At(u, Woken(thread[u].pc)) ELSE thread[u]]

BroadcastAnd(a, t, call) == thread' = [Awake(a) EXCEPT ![t] = call]

(* terminalWaiters: it is incremented before cond.Wait and decremented     *)
(* only once the waiter holds the mutex again.                             *)
Waiters(a) ==
    {t \in Threads : /\ thread[t].att = a
                     /\ thread[t].pc \in {"cancel_wait", "cancel_woken", "join_wait", "join_woken"}}

-----------------------------------------------------------------------------
(* Creating, issuing, admitting, claiming, sealing *)

(* BeginRuntimeAttempt; a producer that refuses BeginAttempt changes nothing. *)
Begin(a, k, g) ==
    /\ attempt[a].phase = "unborn"
    /\ ledger.lastCommitted # 0 => g > ledger.lastCommitted
    /\ ledger.attempts[k] = NoAttempt
    /\ Cardinality(RetainedKeys) < MaxRetainedAttempts
    /\ ledger.retainedClaims + ClaimCount <= MaxRetainedClaimEntries
    /\ BatchAvailable(ledger.next, ledger.exhausted, ClaimCount)
    /\ attempt' = [attempt EXCEPT ![a] =
          [Unborn EXCEPT !.phase = "open", !.key = k, !.gen = g, !.seq = ledger.next,
                         !.producer = TRUE]]
    /\ ledger' = [ledger EXCEPT !.attempts[k] = a,
                                !.retainedClaims = @ + ClaimCount,
                                !.next = NextAfterBatch(@, ClaimCount),
                                !.exhausted = ExhaustedAfterBatch(ledger.next, ClaimCount)]
    /\ UNCHANGED <<thread, store, crashes>>

Issue(a, o) ==
    /\ attempt[a].phase = "open" /\ ~attempt[a].admitted /\ attempt[a].producer
    /\ o \notin attempt[a].issued
    /\ attempt' = [attempt EXCEPT ![a].issued = @ \cup {o}]
    /\ UNCHANGED <<ledger, thread, store, crashes>>

Admissible(a) ==
    /\ attempt[a].phase = "open" /\ ~attempt[a].admitted /\ attempt[a].producer
    /\ InProgress(a) = {}
    /\ attempt[a].issued = Ordinals

(* Admit: the producer closes and the observation template is valid. *)
Admit(a) ==
    /\ Admissible(a)
    /\ attempt' = [attempt EXCEPT ![a].producer = FALSE, ![a].admitted = TRUE, ![a].issued = {}]
    /\ UNCHANGED <<ledger, thread, store, crashes>>

(* Admit: the producer refuses to close. *)
AdmitCloseFails(t, a) ==
    /\ thread[t].pc = "idle" /\ Admissible(a)
    /\ attempt' = [attempt EXCEPT ![a].producer = FALSE, ![a].phase = "cancelling",
                                  ![a].claim = CancelUnresolved(@)]
    /\ Goto(t, Call(a, "finish_cancel", "cancel_failed"))
    /\ UNCHANGED <<ledger, store, crashes>>

(* Admit: closed, but the template or its durable envelope is invalid. *)
AdmitInvalid(t, a) ==
    /\ thread[t].pc = "idle" /\ Admissible(a)
    /\ attempt' = [attempt EXCEPT ![a].producer = FALSE, ![a].admitted = TRUE,
                                  ![a].issued = {}, ![a].phase = "cancelling"]
    /\ Goto(t, Call(a, "drain", "none"))
    /\ UNCHANGED <<ledger, store, crashes>>

(* Claim: the section before and the section after Capability().Claim.     *)
(* The claiming goroutine is the entry itself.                             *)
ClaimStart(a, o) ==
    /\ attempt[a].phase = "open" /\ attempt[a].admitted
    /\ attempt[a].claim[o] = "unresolved"
    /\ attempt' = [attempt EXCEPT ![a].claim[o] = "in_progress"]
    /\ UNCHANGED <<ledger, thread, store, crashes>>

(* Faulty variant: the finished claim does not broadcast. *)
ClaimFinishSilent(a, o, outcome) ==
    /\ attempt[a].claim[o] = "in_progress"
    /\ attempt' = [attempt EXCEPT ![a].claim[o] = outcome]
    /\ UNCHANGED <<ledger, thread, store, crashes>>

ClaimFinish(a, o, outcome) ==
    /\ attempt[a].claim[o] = "in_progress"
    /\ attempt' = [attempt EXCEPT ![a].claim[o] = outcome]
    /\ thread' = Awake(a)
    /\ UNCHANGED <<ledger, store, crashes>>

Seal(a) ==
    /\ attempt[a].phase = "open" /\ attempt[a].admitted
    /\ InProgress(a) = {} /\ AllClaimed(a)
    /\ attempt' = [attempt EXCEPT ![a].phase = "sealed"]
    /\ UNCHANGED <<ledger, thread, store, crashes>>

-----------------------------------------------------------------------------
(* Cancel *)

(* What Cancel does once the claims are drained, in the same section: take *)
(* the producer attempt of an unadmitted attempt.                          *)
AfterClaims(a) ==
    CASE attempt[a].admitted -> Call(a, "drain", "none")
      [] ~attempt[a].admitted /\ attempt[a].producer -> Call(a, "close", "none")
      [] OTHER -> Call(a, "finish_cancel", "cancel_failed")

(* One pass of Cancel's loop for thread t, under state.mu.                 *)
CancelReturns(t, a) ==
    /\ attempt[a].phase \in TerminalPhases
    /\ Return(t)
    /\ UNCHANGED attempt

CancelRetries(t, a, waited) ==
    /\ attempt[a].phase \in {"publishing", "cancelling"} /\ attempt[a].persistErr
    /\ IF waited \/ (~attempt[a].committing /\ Waiters(a) \ {t} # {})
       THEN Return(t)
       ELSE Goto(t, Call(a, "persist", attempt[a].outcome))
    /\ UNCHANGED attempt

CancelWaits(t, a) ==
    /\ attempt[a].phase \in {"publishing", "cancelling"} /\ ~attempt[a].persistErr
    /\ attempt' = [attempt EXCEPT ![a].aborted = @ \/ attempt[a].phase = "publishing"]
    /\ Goto(t, [Call(a, "cancel_wait", "none") EXCEPT !.waited = TRUE])

(* Faulty variant: cancellation does not wait for claims in progress. *)
CancelWinsNoWait(t, a) ==
    /\ attempt[a].phase \in {"open", "sealed"}
    /\ attempt' = [attempt EXCEPT ![a].phase = "cancelling", ![a].producer = FALSE]
    /\ Goto(t, AfterClaims(a))

CancelWins(t, a) ==
    /\ attempt[a].phase \in {"open", "sealed"}
    /\ IF InProgress(a) # {}
       THEN /\ attempt' = [attempt EXCEPT ![a].phase = "cancelling"]
            /\ Goto(t, Call(a, "claims_wait", "none"))
       ELSE /\ attempt' = [attempt EXCEPT ![a].phase = "cancelling", ![a].producer = FALSE]
            /\ Goto(t, AfterClaims(a))

CancelPass(t, a, waited) ==
    /\ \/ CancelReturns(t, a)
       \/ CancelRetries(t, a, waited)
       \/ CancelWaits(t, a)
       \/ CancelWins(t, a)
    /\ UNCHANGED <<ledger, store, crashes>>

CancelCall(t, a) ==
    /\ thread[t].pc = "idle" /\ attempt[a].phase # "unborn"
    /\ CancelPass(t, a, FALSE)

CancelWoken(t) ==
    /\ thread[t].pc = "cancel_woken"
    /\ CancelPass(t, thread[t].att, thread[t].waited)

ClaimsWoken(t) ==
    LET a == thread[t].att IN
    /\ thread[t].pc = "claims_woken"
    /\ IF InProgress(a) # {}
       THEN Goto(t, At(t, "claims_wait")) /\ UNCHANGED attempt
       ELSE /\ attempt' = [attempt EXCEPT ![a].producer = FALSE]
            /\ Goto(t, AfterClaims(a))
    /\ UNCHANGED <<ledger, store, crashes>>

(* producerAttempt.Close(nil); membership and closed errors are benign. *)
CloseOpen(t) ==
    /\ thread[t].pc = "close"
    /\ \E out \in {"cancelled", "cancel_failed"} :
          Goto(t, Call(thread[t].att, "finish_cancel", out))
    /\ UNCHANGED <<ledger, attempt, store, crashes>>

(* drainSource for Cancel and Admit; a drain error is sticky. *)
Drain(t) ==
    LET a == thread[t].att IN
    /\ thread[t].pc = "drain"
    /\ \/ /\ attempt[a].drain # "failed"
          /\ attempt' = [attempt EXCEPT ![a].drain = "complete"]
          /\ Goto(t, Call(a, "finish_cancel", "cancelled"))
       \/ /\ attempt[a].drain # "complete"
          /\ attempt' = [attempt EXCEPT ![a].drain = "failed"]
          /\ Goto(t, Call(a, "finish_cancel", "cancel_failed"))
    /\ UNCHANGED <<ledger, store, crashes>>

FinishCancellation(t) ==
    LET a == thread[t].att IN
    /\ thread[t].pc = "finish_cancel"
    /\ attempt' = [attempt EXCEPT ![a].claim =
          IF attempt[a].phase = "cancelling" THEN CancelUnresolved(@) ELSE @]
    /\ Goto(t, At(t, "persist"))
    /\ UNCHANGED <<ledger, store, crashes>>

-----------------------------------------------------------------------------
(* persistTerminalOutcome, commitTerminalState, finalizeTerminalAttempt *)

(* Faulty variant: a retry does not join the commit in progress. *)
PersistNoJoin(t) ==
    LET a == thread[t].att
        out == thread[t].out
    IN
    /\ thread[t].pc = "persist"
    /\ IF attempt[a].phase \notin {"cancelling", "publishing"}
       THEN Return(t) /\ UNCHANGED attempt
       ELSE /\ attempt' = [attempt EXCEPT ![a].outcome = out, ![a].committing = TRUE]
            /\ Goto(t, At(t, IF attempt[a].restartCommitted THEN "finalize" ELSE "commit"))
    /\ UNCHANGED <<ledger, store, crashes>>

(* Faulty variant: the terminal phase is finalized without a commit. *)
PersistSkipsCommit(t) ==
    LET a == thread[t].att
        out == thread[t].out
    IN
    /\ thread[t].pc = "persist"
    /\ IF attempt[a].phase \notin {"cancelling", "publishing"} \/ attempt[a].committing
       THEN Return(t) /\ UNCHANGED attempt
       ELSE /\ attempt' = [attempt EXCEPT ![a].outcome = out, ![a].committing = TRUE]
            /\ Goto(t, At(t, "finalize"))
    /\ UNCHANGED <<ledger, store, crashes>>

Persist(t) ==
    LET a == thread[t].att
        out == thread[t].out
        unavailable ==
            \/ attempt[a].phase \notin {"cancelling", "publishing"}
            \/ (attempt[a].persistErr \/ attempt[a].committing) /\ attempt[a].outcome # out
    IN
    /\ thread[t].pc = "persist"
    /\ CASE unavailable -> Return(t) /\ UNCHANGED attempt
         [] ~unavailable /\ attempt[a].committing ->
              Goto(t, At(t, "join_wait")) /\ UNCHANGED attempt
         [] OTHER ->
              /\ attempt' = [attempt EXCEPT ![a].outcome = out, ![a].committing = TRUE]
              /\ Goto(t, At(t, IF attempt[a].restartCommitted THEN "finalize" ELSE "commit"))
    /\ UNCHANGED <<ledger, store, crashes>>

(* A joined call waits out the commit in progress and returns its result.  *)
JoinWoken(t) ==
    /\ thread[t].pc = "join_woken"
    /\ IF attempt[thread[t].att].committing THEN Goto(t, At(t, "join_wait")) ELSE Return(t)
    /\ UNCHANGED <<ledger, attempt, store, crashes>>

(* The restart state that decides attempt a with an outcome. *)
TargetFor(a, outcome) ==
    TerminalRestart(ledger.durable, ledger.next, ledger.exhausted,
                    TerminalTombstones(a, outcome), AuditTombstoneLimit)

TargetRefused(a, outcome) ==
    \/ Conflicting(ledger.durable.audit \cup TerminalTombstones(a, outcome))
    \/ ~ValidRestart(TargetFor(a, outcome), AuditTombstoneLimit)

CommitSnapshot(t) ==
    LET a == thread[t].att
        out == thread[t].out
    IN
    /\ thread[t].pc = "commit"
    /\ IF TargetRefused(a, out)
       THEN Goto(t, At(t, "commit_failed"))
       ELSE Goto(t, [At(t, "store") EXCEPT
                        !.req = [NoRequest EXCEPT !.expected = ledger.durable,
                                                  !.target = TargetFor(a, out)]])
    /\ UNCHANGED <<ledger, attempt, store, crashes>>

(* The committer's join of a restart target. *)
Accepts(req) == store.restart = req.expected \/ Covers(store.restart, req.target)

Joined(target) == IF Covers(store.restart, target) THEN store.restart ELSE target

Decision(a, outcome) ==
    [seq |-> attempt[a].seq, life |-> crashes, att |-> a, outcome |-> outcome]

StoreTerminal(t) ==
    LET req == thread[t].req IN
    /\ thread[t].pc = "store"
    /\ Accepts(req)
    /\ store' = [store EXCEPT !.restart = Joined(req.target),
                              !.decisions = @ \cup {Decision(thread[t].att, thread[t].out)}]
    /\ Goto(t, At(t, "apply"))
    /\ UNCHANGED <<ledger, attempt, crashes>>

(* A conflict, a committer error or the commit deadline. *)
StoreTerminalFails(t) ==
    /\ thread[t].pc = "store"
    /\ Goto(t, At(t, "commit_failed"))
    /\ UNCHANGED <<ledger, attempt, store, crashes>>

Covered(req) == Covers(ledger.durable, req.target)

ApplyTerminal(t) ==
    LET req == thread[t].req IN
    /\ thread[t].pc = "apply"
    /\ IF ledger.durable # req.expected /\ ~Covered(req)
       THEN Goto(t, At(t, "commit_failed")) /\ UNCHANGED <<ledger, attempt>>
       ELSE /\ ledger' = [ledger EXCEPT !.durable = IF Covered(req) THEN @ ELSE req.target]
            /\ attempt' = [attempt EXCEPT ![thread[t].att].restartCommitted = TRUE]
            /\ Goto(t, At(t, "finalize"))
    /\ UNCHANGED <<store, crashes>>

CommitFails(t) ==
    LET a == thread[t].att IN
    /\ thread[t].pc = "commit_failed"
    /\ attempt' = [attempt EXCEPT ![a].committing = FALSE, ![a].persistErr = TRUE]
    /\ BroadcastAnd(a, t, Idle)
    /\ UNCHANGED <<ledger, store, crashes>>

Finalizable(a, outcome) ==
    /\ InProgress(a) = {} /\ attempt[a].committing /\ attempt[a].outcome = outcome
    /\ attempt[a].phase \in {"cancelling", "publishing"}
    /\ attempt[a].key \in Keys /\ ledger.attempts[attempt[a].key] = a

Finalize(t) ==
    LET a == thread[t].att
        out == thread[t].out
    IN
    /\ thread[t].pc = "finalize"
    /\ IF Finalizable(a, out)
       THEN /\ ledger' = [ledger EXCEPT !.attempts[attempt[a].key] = NoAttempt,
                                        !.retainedClaims = @ - ClaimCount]
            /\ attempt' = [attempt EXCEPT ![a] = Finalized(@, out)]
       ELSE /\ attempt' = [attempt EXCEPT ![a].committing = FALSE, ![a].persistErr = TRUE]
            /\ UNCHANGED ledger
    /\ BroadcastAnd(a, t, Idle)
    /\ UNCHANGED <<store, crashes>>

-----------------------------------------------------------------------------
(* Publish *)

PublishCall(t, a) ==
    /\ thread[t].pc = "idle" /\ attempt[a].phase = "sealed"
    /\ attempt' = [attempt EXCEPT ![a].phase = "publishing", ![a].aborted = FALSE]
    /\ Goto(t, Call(a, "publish_drain", "none"))
    /\ UNCHANGED <<ledger, store, crashes>>

FailPublication(t) == Goto(t, Call(thread[t].att, "persist", "publish_failed"))

Release == ledger' = [ledger EXCEPT !.serial = NoThread]

(* Faulty variant: an unknown drain error does not stop the publication. *)
PublishDrainIgnoresError(t) ==
    /\ thread[t].pc = "publish_drain"
    /\ \E result \in {"complete", "failed"} :
          attempt' = [attempt EXCEPT ![thread[t].att].drain = result]
    /\ Goto(t, At(t, "slot"))
    /\ UNCHANGED <<ledger, store, crashes>>

PublishDrain(t) ==
    LET a == thread[t].att IN
    /\ thread[t].pc = "publish_drain"
    /\ \/ /\ attempt[a].drain # "failed"
          /\ attempt' = [attempt EXCEPT ![a].drain = "complete"]
          /\ Goto(t, At(t, "slot"))
       \/ /\ attempt[a].drain # "complete"
          /\ attempt' = [attempt EXCEPT ![a].drain = "failed"]
          /\ FailPublication(t)
    /\ UNCHANGED <<ledger, store, crashes>>

(* select on the caller's context, the abort channel and the commit slot:  *)
(* any ready case may be taken.                                            *)
TakeSlot(t) ==
    /\ thread[t].pc = "slot" /\ ledger.serial = NoThread
    /\ ledger' = [ledger EXCEPT !.serial = t]
    /\ Goto(t, At(t, "recheck"))
    /\ UNCHANGED <<attempt, store, crashes>>

(* Faulty variant: the abort is noticed only when the slot is free. *)
LeaveQueueWhenFree(t) ==
    /\ thread[t].pc = "slot" /\ attempt[thread[t].att].aborted
    /\ ledger.serial = NoThread
    /\ FailPublication(t)
    /\ UNCHANGED <<ledger, attempt, store, crashes>>

LeaveQueueAborted(t) ==
    /\ thread[t].pc = "slot" /\ attempt[thread[t].att].aborted
    /\ FailPublication(t)
    /\ UNCHANGED <<ledger, attempt, store, crashes>>

LeaveQueueContext(t) ==
    /\ thread[t].pc = "slot"
    /\ FailPublication(t)
    /\ UNCHANGED <<ledger, attempt, store, crashes>>

(* Faulty variant: an early return of Publish keeps the commit slot. *)
RecheckKeepsSlot(t) ==
    /\ thread[t].pc = "recheck"
    /\ \/ /\ ~attempt[thread[t].att].aborted
          /\ Goto(t, At(t, "publish_snapshot"))
       \/ FailPublication(t)
    /\ UNCHANGED <<ledger, attempt, store, crashes>>

(* The abort and context recheck after the slot was won. *)
Recheck(t) ==
    /\ thread[t].pc = "recheck"
    /\ \/ /\ ~attempt[thread[t].att].aborted
          /\ Goto(t, At(t, "publish_snapshot")) /\ UNCHANGED ledger
       \/ FailPublication(t) /\ Release
    /\ UNCHANGED <<attempt, store, crashes>>

(* Faulty variant: the poll generation is not rechecked in the slot. *)
AdvancesUnchecked(a) == attempt[a].gen > 0

Advances(a) == ledger.lastCommitted = 0 \/ attempt[a].gen > ledger.lastCommitted

(* Faulty variant: the staged history names another outcome. *)
PublishSnapshotWrongOutcome(t) ==
    LET a == thread[t].att IN
    /\ thread[t].pc = "publish_snapshot"
    /\ Advances(a) /\ ~TargetRefused(a, "publish_failed")
    /\ Goto(t, [At(t, "publish_store") EXCEPT
                   !.req = [expected |-> ledger.durable,
                            target |-> TargetFor(a, "publish_failed"),
                            revision |-> ledger.revision,
                            gen |-> ledger.lastCommitted]])
    /\ UNCHANGED <<ledger, attempt, store, crashes>>

PublishSnapshot(t) ==
    LET a == thread[t].att IN
    /\ thread[t].pc = "publish_snapshot"
    /\ IF \/ ledger.revision = MaxUint64
          \/ ~Advances(a)
          \/ TargetRefused(a, "published")
       THEN FailPublication(t) /\ Release
       ELSE /\ Goto(t, [At(t, "publish_store") EXCEPT
                           !.req = [expected |-> ledger.durable,
                                    target |-> TargetFor(a, "published"),
                                    revision |-> ledger.revision,
                                    gen |-> ledger.lastCommitted]])
            /\ UNCHANGED ledger
    /\ UNCHANGED <<attempt, store, crashes>>

(* CommitPublication: one transaction over the sample state, the restart   *)
(* state and the external effect.                                          *)
StorePublication(t) ==
    LET a == thread[t].att
        req == thread[t].req
    IN
    /\ thread[t].pc = "publish_store"
    /\ store.revision = req.revision /\ store.gen = req.gen
    /\ Accepts(req)
    /\ store' = [store EXCEPT
          !.revision = req.revision + 1,
          !.gen = attempt[a].gen,
          !.restart = Joined(req.target),
          !.effects = Append(@, [id |-> req.revision + 1, gen |-> attempt[a].gen,
                                 seq |-> attempt[a].seq]),
          !.decisions = @ \cup {Decision(a, "published")}]
    /\ Goto(t, At(t, "publish_apply"))
    /\ UNCHANGED <<ledger, attempt, crashes>>

(* An error or a cancelled decision: no external effect. *)
StorePublicationFails(t) ==
    /\ thread[t].pc = "publish_store"
    /\ FailPublication(t) /\ Release
    /\ UNCHANGED <<attempt, store, crashes>>

ApplyPublication(t) ==
    LET a == thread[t].att
        req == thread[t].req
        changed == \/ ledger.revision # req.revision \/ ledger.lastCommitted # req.gen
                   \/ ledger.durable # req.expected /\ ~Covered(req)
    IN
    /\ thread[t].pc = "publish_apply"
    /\ IF changed
       THEN FailPublication(t) /\ Release /\ UNCHANGED attempt
       ELSE /\ ledger' = [ledger EXCEPT
                  !.revision = req.revision + 1,
                  !.lastCommitted = attempt[a].gen,
                  !.durable = IF Covered(req) THEN @ ELSE req.target,
                  !.serial = NoThread]
            /\ attempt' = [attempt EXCEPT ![a].restartCommitted = TRUE]
            /\ Goto(t, Call(a, "persist", "published"))
    /\ UNCHANGED <<store, crashes>>

-----------------------------------------------------------------------------
(* Process start and crash *)

(* Faulty variant: the sequence resumes at the truncation watermark. *)
NewLedgerAtWatermark(revision, gen, restart) ==
    [revision |-> revision, lastCommitted |-> gen,
     attempts |-> [k \in Keys |-> NoAttempt], retainedClaims |-> 0,
     next |-> restart.truncated + 1, exhausted |-> restart.exhausted, durable |-> restart,
     serial |-> NoThread]

(* newSampleLedger over a durable sample revision, generation and restart. *)
NewLedger(revision, gen, restart) ==
    [revision |-> revision, lastCommitted |-> gen,
     attempts |-> [k \in Keys |-> NoAttempt], retainedClaims |-> 0,
     next |-> restart.next, exhausted |-> restart.exhausted, durable |-> restart,
     serial |-> NoThread]

(* What newSampleLedger accepts from the store. *)
Restartable(revision, gen, restart) ==
    /\ revision = 0 => gen = 0
    /\ revision # 0 => gen >= revision
    /\ ValidRestart(restart, AuditTombstoneLimit)
    /\ RelatedToSample(restart, revision)

(* The process dies between any two steps and a new one activates the      *)
(* ledger from the committer's durable state.                              *)
Crash ==
    /\ crashes < MaxCrashes
    /\ Restartable(store.revision, store.gen, store.restart)
    /\ crashes' = crashes + 1
    /\ ledger' = NewLedger(store.revision, store.gen, store.restart)
    /\ attempt' = [a \in Attempts |-> Unborn]
    /\ thread' = [t \in Threads |-> Idle]
    /\ UNCHANGED store

Init ==
    /\ ledger = NewLedger(0, 0, InitialRestart)
    /\ attempt = [a \in Attempts |-> Unborn]
    /\ thread = [t \in Threads |-> Idle]
    /\ store = [revision |-> 0, gen |-> 0, restart |-> InitialRestart,
                effects |-> <<>>, decisions |-> {}]
    /\ crashes = 0

(* The steps of a call already made. *)
Committing(t) ==
    \/ Persist(t) \/ JoinWoken(t) \/ CommitSnapshot(t) \/ StoreTerminal(t)
    \/ StoreTerminalFails(t) \/ ApplyTerminal(t) \/ CommitFails(t) \/ Finalize(t)

Cancelling(t) ==
    \/ CancelWoken(t) \/ ClaimsWoken(t) \/ CloseOpen(t) \/ Drain(t) \/ FinishCancellation(t)

Publishing(t) ==
    \/ PublishDrain(t) \/ TakeSlot(t) \/ LeaveQueueAborted(t)
    \/ Recheck(t) \/ PublishSnapshot(t) \/ ApplyPublication(t)

PublicationCallback(t) == StorePublication(t) \/ StorePublicationFails(t)

(* The calls a goroutine can make. *)
Calling(t, a) ==
    \/ AdmitCloseFails(t, a) \/ AdmitInvalid(t, a) \/ CancelCall(t, a) \/ PublishCall(t, a)

Handling(a) ==
    \/ \E k \in Keys, g \in Generations : Begin(a, k, g)
    \/ \E o \in Ordinals : Issue(a, o) \/ ClaimStart(a, o)
    \/ \E o \in Ordinals, outcome \in ProducerOutcomes : ClaimFinish(a, o, outcome)
    \/ Admit(a) \/ Seal(a)

Next ==
    \/ \E t \in Threads :
          \/ Committing(t) \/ Cancelling(t) \/ Publishing(t)
          \/ PublicationCallback(t) \/ LeaveQueueContext(t)
          \/ \E a \in Attempts : Calling(t, a)
    \/ \E a \in Attempts : Handling(a)
    \/ Crash

Spec == Init /\ [][Next]_vars

(* A call in flight goes on: the runtime schedules every goroutine, and    *)
(* the producer and CommitTerminalState (which has a deadline) return.     *)
(* CommitPublication may block for ever, and a caller's context need not   *)
(* end, so those steps get no fairness.                                    *)
Fairness ==
    /\ \A t \in Threads : WF_vars(Committing(t) \/ Cancelling(t) \/ Publishing(t))
    /\ \A a \in Attempts, o \in Ordinals :
          WF_vars(\E outcome \in ProducerOutcomes : ClaimFinish(a, o, outcome))

-----------------------------------------------------------------------------
(* Type invariant *)

TombstoneType ==
    [kind : {"attempt", "claim"}, seq : Nat, count : Nat, att : Nat, ord : Nat,
     outcome : TerminalPhases \cup ClaimOutcomes]

RestartType ==
    [next : 0 .. MaxUint64, exhausted : BOOLEAN, truncated : 0 .. MaxUint64,
     audit : SUBSET TombstoneType]

LedgerType ==
    [revision : Nat, lastCommitted : Nat, attempts : [Keys -> Attempts \cup {NoAttempt}],
     retainedClaims : Int, next : 0 .. MaxUint64, exhausted : BOOLEAN, durable : RestartType,
     serial : Threads \cup {NoThread}]

AttemptType ==
    [phase : {"unborn"} \cup LivePhases \cup TerminalPhases, key : Keys \cup {NoKey},
     gen : Nat, seq : Nat,
     claim : [Ordinals -> {"unresolved", "in_progress"} \cup ClaimOutcomes],
     issued : SUBSET Ordinals, admitted : BOOLEAN, producer : BOOLEAN,
     drain : {"pending", "complete", "failed"}, aborted : BOOLEAN,
     restartCommitted : BOOLEAN, outcome : {"none"} \cup TerminalPhases,
     committing : BOOLEAN, persistErr : BOOLEAN]

PCs == {"idle", "cancel_wait", "cancel_woken", "claims_wait", "claims_woken", "close", "drain",
        "finish_cancel", "persist", "join_wait", "join_woken", "commit", "store", "apply",
        "commit_failed", "finalize", "publish_drain", "slot", "recheck", "publish_snapshot",
        "publish_store", "publish_apply"}

RequestType == [expected : RestartType, target : RestartType, revision : Nat, gen : Nat]

ThreadType ==
    [pc : PCs, att : Attempts \cup {NoAttempt}, out : {"none"} \cup TerminalPhases,
     waited : BOOLEAN, req : RequestType]

StoreType ==
    [revision : Nat, gen : Nat, restart : RestartType,
     effects : Seq([id : Nat, gen : Nat, seq : Nat]),
     decisions : SUBSET [seq : Nat, life : Nat, att : Attempts, outcome : TerminalPhases]]

(* Every variable keeps the shape its Go type has; in particular the next  *)
(* sequence never leaves the integer width (reserveTerminalBatchLocked     *)
(* wraps to 0 and marks the ledger exhausted).                             *)
TypeOK ==
    /\ ledger \in LedgerType
    /\ attempt \in [Attempts -> AttemptType]
    /\ thread \in [Threads -> ThreadType]
    /\ store \in StoreType
    /\ crashes \in 0 .. MaxCrashes
=============================================================================
