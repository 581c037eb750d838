--------------------------- MODULE LedgerProperties ---------------------------
(***************************************************************************)
(* What the runtime ledger must keep true.  The first group is about one   *)
(* process and its goroutines, the second about the ledger and the durable *)
(* store over crashes, the third about progress.                           *)
(***************************************************************************)
EXTENDS RuntimeLedger

-----------------------------------------------------------------------------
(* Goroutines of one process *)

SlotPCs == {"recheck", "publish_snapshot", "publish_store", "publish_apply"}
CommitPCs == {"commit", "store", "apply", "commit_failed", "finalize"}
WaitingPCs == {"cancel_wait", "join_wait", "claims_wait"}

Committers(a) == {t \in Threads : thread[t].att = a /\ thread[t].pc \in CommitPCs}

(* The commit slot (SampleLedger.commitSerial) is held exactly by the      *)
(* goroutine between winning it and returning from its publication commit: *)
(* no early return of Publish keeps the token, none gives it back twice.   *)
SlotHeld == \A t \in Threads : ledger.serial = t <=> thread[t].pc \in SlotPCs

(* terminalCommitInProgress is set exactly while one goroutine drives the  *)
(* terminal commit of the attempt: concurrent Cancel retries join it and   *)
(* never start a second commit (persistTerminalOutcome).                   *)
OneCommitDriver ==
    \A a \in Attempts :
        /\ attempt[a].committing <=> Committers(a) # {}
        /\ \A t, u \in Committers(a) : t = u

(* Nobody sleeps on an attempt's condition variable without somebody left  *)
(* to wake it: a claim wait has a claim in progress, and every other wait  *)
(* has a goroutine awake on the same attempt or a claim in progress.       *)
NoStrandedWaiter ==
    \A t \in Threads :
        LET a == thread[t].att IN
        /\ thread[t].pc = "claims_wait" => InProgress(a) # {}
        /\ thread[t].pc \in WaitingPCs =>
              \/ InProgress(a) # {}
              \/ \E u \in Threads : thread[u].att = a /\ thread[u].pc \notin WaitingPCs

(* A producer claim is in flight only in an attempt that is open or whose  *)
(* cancellation still waits for it: never once the attempt is sealed, its  *)
(* source drained or a terminal outcome being persisted.                   *)
ClaimsDrainedFirst ==
    \A a \in Attempts : InProgress(a) # {} =>
        /\ attempt[a].phase \in {"open", "cancelling"}
        /\ attempt[a].drain = "pending"
        /\ ~attempt[a].committing

(* finalizeTerminalAttempt never finds its preconditions gone: by the time *)
(* the durable commit is done the attempt still owns its key, its outcome  *)
(* and its commit, so a durable decision always becomes visible.           *)
FinalizeNeverRefused ==
    \A t \in Threads : thread[t].pc = "finalize" => Finalizable(thread[t].att, thread[t].out)

(* Retained capacity is exactly that of the attempts still alive, it never *)
(* passes the configured bounds, and an attempt gives its capacity back    *)
(* with the same step that makes its terminal phase visible.               *)
CapacityAccounted ==
    /\ ledger.retainedClaims = ClaimCount * Cardinality(RetainedKeys)
    /\ ledger.retainedClaims <= MaxRetainedClaimEntries
    /\ Cardinality(RetainedKeys) <= MaxRetainedAttempts
    /\ \A a \in Attempts :
          attempt[a].phase \in LivePhases <=> \E k \in Keys : ledger.attempts[k] = a

(* The life of an attempt under its goroutines: who waits, what is drained *)
(* and what is released when.                                              *)
AttemptInv ==
    NoStrandedWaiter /\ ClaimsDrainedFirst /\ FinalizeNeverRefused /\ CapacityAccounted

(* An external publication happens only for an attempt that is publishing, *)
(* with its producer drained and every claim succeeded.                    *)
EffectFromDrainedSuccess ==
    [][store.effects' # store.effects =>
          \E a \in Attempts :
              /\ attempt[a].seq = store.effects'[Len(store.effects')].seq
              /\ attempt[a].phase = "publishing"
              /\ attempt[a].drain = "complete"
              /\ AllClaimed(a)]_vars

-----------------------------------------------------------------------------
(* The ledger and its durable store *)

(* Whatever the store holds when the process dies, newSampleLedger accepts *)
(* it: the restart history is well formed and agrees with the revision.    *)
StoreRestartable == Restartable(store.revision, store.gen, store.restart)

(* What the ledger believes durable is durable: the store covers it.       *)
LedgerBehindStore == Covers(store.restart, ledger.durable)

(* What survives the process: a store it can start from, and nothing the   *)
(* ledger took for durable is missing from it.                             *)
StoreInv == StoreRestartable /\ LedgerBehindStore

(* A terminal phase is visible only after the store recorded that outcome  *)
(* and a watermark past the attempt's whole sequence batch.                *)
TerminalIsDurable ==
    \A a \in Attempts : attempt[a].phase \in TerminalPhases =>
        /\ Decision(a, attempt[a].phase) \in store.decisions
        /\ attempt[a].seq + ClaimCount <= EndSequence(store.restart)

(* A terminal sequence that reached the store belongs to one attempt, even *)
(* though a crash forgets the sequences reserved by live attempts.         *)
SequenceNeverReused ==
    \A d, e \in store.decisions : d.seq = e.seq => d.life = e.life /\ d.att = e.att

(* terminalRestartStateLocked never builds a history it then refuses, so   *)
(* no outcome is lost to its own audit record.                             *)
TargetsAccepted ==
    \A t \in Threads :
        /\ thread[t].pc = "commit" => ~TargetRefused(thread[t].att, thread[t].out)
        /\ thread[t].pc = "publish_snapshot" => ~TargetRefused(thread[t].att, "published")

(* The durable record over crashes is the one DurableRecord promises.      *)
Record == INSTANCE DurableRecord WITH
    MaxSequence <- MaxUint64,
    published <- store.effects,
    closed <- EndSequence(store.restart)

RecordSpec == Record!Spec

(* docs/m2-01-api.md:186-188: a committed decision advances the revision   *)
(* and produces the sample; publish_failed is for any other decision.      *)
CommittedIsPublished ==
    \A a \in Attempts :
        Decision(a, "published") \in store.decisions => attempt[a].phase # "publish_failed"

(* docs/m2-01-api.md:134-139: a CommitTerminalState error is retryable, a  *)
(* later Cancel retries the same idempotent terminal target.  While no     *)
(* call is in flight, the retry's target is one the store's join accepts.  *)
RetryIsAcceptable ==
    (\A t \in Threads : thread[t].pc = "idle") =>
        \A a \in Attempts : attempt[a].persistErr =>
            \/ store.restart = ledger.durable
            \/ Covers(store.restart, TargetFor(a, attempt[a].outcome))

-----------------------------------------------------------------------------
(* Progress *)

CallsStop == <>[][~ \E t \in Threads, a \in Attempts : Calling(t, a)]_vars

(* A call that may wait for ever: it is inside CommitPublication, queued   *)
(* behind it without being cancelled, or waiting for a publisher inside it. *)
BehindCommitter(t) ==
    \/ thread[t].pc = "publish_store"
    \/ /\ thread[t].pc = "slot" /\ ~attempt[thread[t].att].aborted
       /\ ledger.serial # NoThread
    \/ /\ thread[t].pc = "cancel_wait"
       /\ \E u \in Threads : thread[u].att = thread[t].att /\ thread[u].pc = "publish_store"

(* Once goroutines stop making new calls, every call returns or is behind  *)
(* a committer that does not: no lost wakeup, no lock-step of retries.     *)
CallsReturn ==
    CallsStop => \A t \in Threads :
        (thread[t].pc # "idle") ~> (thread[t].pc = "idle" \/ BehindCommitter(t))

(* docs/m2-01-api.md: a queued publication cannot wait indefinitely behind *)
(* another blocked committer after its own cancellation wins.              *)
QueuedCancellationReturns ==
    CallsStop => \A t \in Threads :
        (thread[t].pc = "slot" /\ attempt[thread[t].att].aborted) ~> (thread[t].pc = "idle")
=============================================================================
