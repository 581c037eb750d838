------------------------------ MODULE MCLedger ------------------------------
(***************************************************************************)
(* Two instances of the ledger.  In the first, two attempts at a time, two *)
(* goroutines, a store and one crash.                                      *)
(*                                                                         *)
(* In the second, one attempt, from BeginRuntimeAttempt on, while the      *)
(* publication of another attempt is inside CommitPublication and may stay *)
(* there for ever.  Three goroutines: the publishing one and two others.   *)
(***************************************************************************)
EXTENDS LedgerProperties, TLC

(* For the runs of two attempts at a time, from a fresh ledger.            *)
Symmetry == Permutations(Attempts) \cup Permutations(Keys) \cup Permutations(Threads)

-----------------------------------------------------------------------------
blocked == CHOOSE a \in Attempts : TRUE                \* the attempt being published
free == CHOOSE a \in Attempts : a # blocked            \* the attempt under study
publisher == CHOOSE t \in Threads : TRUE               \* the goroutine inside CommitPublication

blockedKey == CHOOSE k \in Keys : TRUE

BlockedInit ==
    LET target == [InitialRestart EXCEPT !.next = ClaimCount + 2, !.audit =
            {AttemptTombstone(1, ClaimCount, "published")} \cup
            {ClaimTombstone(1, o, ClaimSucceeded) : o \in Ordinals}]
    IN
    /\ ledger = [NewLedger(0, 0, InitialRestart) EXCEPT
            !.attempts[blockedKey] = blocked, !.retainedClaims = ClaimCount,
            !.next = ClaimCount + 2, !.serial = publisher]
    /\ attempt = [a \in Attempts |-> IF a # blocked THEN Unborn ELSE
            [Unborn EXCEPT !.phase = "publishing", !.key = blockedKey, !.gen = 1, !.seq = 1,
                           !.claim = [o \in Ordinals |-> ClaimSucceeded],
                           !.admitted = TRUE, !.drain = "complete"]]
    /\ thread = [t \in Threads |-> IF t # publisher THEN Idle ELSE
            [Call(blocked, "publish_store", "none") EXCEPT
                !.req = [NoRequest EXCEPT !.target = target]]]
    /\ store = [revision |-> 0, gen |-> 0, restart |-> InitialRestart,
                effects |-> <<>>, decisions |-> {}]
    /\ crashes = 0

(* Nobody else calls into the blocked attempt. *)
FreeNext ==
    \/ \E t \in Threads :
          \/ Committing(t) \/ Cancelling(t) \/ Publishing(t)
          \/ PublicationCallback(t) \/ LeaveQueueContext(t)
          \/ Calling(t, free)
    \/ Handling(free)

BlockedSpec == BlockedInit /\ [][FreeNext]_vars /\ Fairness
=============================================================================
