------------------------- MODULE LedgerAttemptProofs -------------------------
(***************************************************************************)
(* Theorems about the life of an attempt of the runtime ledger, for every  *)
(* number of attempts, keys, goroutines and claims: nobody waits for ever  *)
(* with nobody left to wake him, claims are drained before the source is,  *)
(* a durable decision is always finalized, capacity is given back exactly  *)
(* once, and only a drained success is published.                          *)
(***************************************************************************)
EXTENDS RuntimeLedgerProofs, FiniteSetTheorems

USE RuntimeLedgerAssumption, LedgerRestartAssumption

-----------------------------------------------------------------------------
(* The inductive invariant                                                 *)

(* Steps of Publish between winning the attempt and leaving the commit     *)
(* section, steps of the one call that took the attempt out of "open" or   *)
(* "sealed", and steps reached only with no claim in flight.               *)
PublishPCs == {"publish_drain", "slot"} \cup SlotPCs
OwnerPCs == {"claims_wait", "claims_woken", "close", "drain", "finish_cancel"} \cup PublishPCs
DrainedPCs == PCs \ {"idle", "cancel_wait", "cancel_woken", "claims_wait", "claims_woken"}
BystanderPCs == {"idle", "cancel_wait", "cancel_woken"}
ClosingPhases == {"cancelling", "publishing"}

NoClaimIn(s) == \A o \in Ordinals : s.claim[o] # "in_progress"
AllSucceeded(s) == \A o \in Ordinals : s.claim[o] = ClaimSucceeded

(* What a state s of an attempt always is. *)
Sound(s) ==
    /\ s.phase \in {"open", "sealed"} =>
          s.drain = "pending" /\ ~s.committing /\ ~s.persistErr
    /\ s.phase = "sealed" => AllSucceeded(s)
    /\ ~NoClaimIn(s) =>
          /\ s.phase \in {"open", "cancelling"}
          /\ s.drain = "pending" /\ ~s.committing /\ ~s.persistErr

(* What a call at step pc, about to persist out, knows of its attempt s.   *)
Fits(pc, out, s) ==
    /\ pc # "idle" => s.phase \in ClosingPhases \cup TerminalPhases
    /\ pc \in DrainedPCs => NoClaimIn(s)
    /\ pc \in CommitPCs => s.phase \in ClosingPhases /\ s.outcome = out
    /\ pc = "cancel_wait" => s.phase \in ClosingPhases /\ ~s.persistErr
    /\ pc = "join_wait" => s.committing
    /\ pc = "claims_wait" => ~NoClaimIn(s)
    /\ pc \in OwnerPCs => s.phase \in ClosingPhases /\ ~s.committing /\ ~s.persistErr
    /\ pc \in PublishPCs => s.phase = "publishing" /\ AllSucceeded(s)
    /\ pc \in PublishPCs \ {"publish_drain"} => s.drain = "complete"

AttemptsSound == \A a \in Attempts : Sound(attempt[a])

CallsFit ==
    \A t \in Threads : thread[t].pc # "idle" =>
        Fits(thread[t].pc, thread[t].out, attempt[thread[t].att])

(* Until the attempt's first terminal commit its owner is alone with it,   *)
(* but for concurrent cancels.                                             *)
OwnerAlone ==
    \A t, u \in Threads :
        t # u /\ thread[t].pc \in OwnerPCs /\ thread[u].att = thread[t].att =>
            thread[u].pc \in BystanderPCs

(* An attempt that has left "open" or "sealed" and has not reached its     *)
(* first terminal commit has a call that will take it there.               *)
Driven ==
    \A a \in Attempts :
        /\ attempt[a].phase \in ClosingPhases
        /\ ~attempt[a].persistErr /\ ~attempt[a].committing
        => \E t \in Threads : thread[t].att = a /\ thread[t].pc \in OwnerPCs \cup {"persist"}

LifeInv == AttemptsSound /\ CallsFit /\ OwnerAlone /\ Driven

(* A key is held by exactly the live attempt that was begun with it.       *)
KeysHeld ==
    /\ \A a \in Attempts : attempt[a].phase \in LivePhases =>
          attempt[a].key \in Keys /\ ledger.attempts[attempt[a].key] = a
    /\ \A k \in Keys : ledger.attempts[k] # NoAttempt =>
          /\ attempt[ledger.attempts[k]].phase \in LivePhases
          /\ attempt[ledger.attempts[k]].key = k

-----------------------------------------------------------------------------
(* Steps of goroutines                                                     *)

(* Goroutine u only lives through a broadcast.                             *)
Roused(u) ==
    /\ thread'[u].att = thread[u].att /\ thread'[u].out = thread[u].out
    /\ thread'[u].pc \in {thread[u].pc, Woken(thread[u].pc)}

Becomes(t, a, pc, out) ==
    /\ thread'[t].att = a /\ thread'[t].pc = pc /\ thread'[t].out = out
    /\ \A u \in Threads \ {t} : Roused(u)

LEMMA WokenSteps ==
    ASSUME NEW pc \in PCs
    PROVE  /\ Woken(pc) \in PCs
           /\ Woken(pc) = "idle" <=> pc = "idle"
           /\ Woken(pc) = "persist" <=> pc = "persist"
           /\ Woken(pc) \in OwnerPCs <=> pc \in OwnerPCs
           /\ Woken(pc) \in BystanderPCs <=> pc \in BystanderPCs
           /\ Woken(pc) \in DrainedPCs <=> pc \in DrainedPCs
           /\ Woken(pc) \in CommitPCs <=> pc \in CommitPCs
           /\ Woken(pc) \in PublishPCs <=> pc \in PublishPCs
           /\ Woken(pc) = "publish_drain" <=> pc = "publish_drain"
           /\ Woken(pc) \notin WaitingPCs
  BY DEF Woken, PCs, OwnerPCs, BystanderPCs, DrainedPCs, CommitPCs, PublishPCs, SlotPCs, WaitingPCs

(* Waking a call asks nothing more of its attempt.                         *)
LEMMA FitsWoken ==
    ASSUME NEW pc \in PCs, NEW out, NEW s, Fits(pc, out, s), NEW q \in {pc, Woken(pc)}
    PROVE  Fits(q, out, s)
<1>1. CASE q = pc
  BY <1>1
<1>2. CASE q = Woken(pc)
  BY <1>2, WokenSteps DEF Fits, WaitingPCs
<1> QED
  BY <1>1, <1>2

LEMMA RousedByGoto ==
    ASSUME TypeInv, NEW t \in Threads, NEW call,
           Goto(t, call) \/ \E a \in Attempts : BroadcastAnd(a, t, call)
    PROVE  thread'[t] = call /\ \A u \in Threads \ {t} : Roused(u)
<1>1. thread \in [Threads -> ThreadType]
  BY DEF TypeInv, TypeOK
<1>2. CASE Goto(t, call)
  BY <1>1, <1>2 DEF Goto, Roused
<1>3. ASSUME NEW a \in Attempts, BroadcastAnd(a, t, call)
      PROVE  thread'[t] = call /\ \A u \in Threads \ {t} : Roused(u)
  <2>1. thread'[t] = call /\ \A u \in Threads \ {t} : thread'[u] = Awake(a)[u]
    BY <1>3 DEF BroadcastAnd, Awake
  <2> QED
    BY <2>1, AwakeTyped DEF Roused
<1> QED
  BY <1>2, <1>3

LEMMA BecomesAt ==
    ASSUME TypeInv, NEW t \in Threads, NEW pc,
           Goto(t, At(t, pc)) \/ \E req : Goto(t, [At(t, pc) EXCEPT !.req = req])
    PROVE  Becomes(t, thread[t].att, pc, thread[t].out)
<1>1. thread[t] \in ThreadType
  BY CallFacts
<1>2. CASE Goto(t, At(t, pc))
  <2>1. At(t, pc).pc = pc /\ At(t, pc).att = thread[t].att /\ At(t, pc).out = thread[t].out
    BY <1>1 DEF At, ThreadType
  <2> QED
    BY <1>2, <2>1, RousedByGoto DEF Becomes
<1>3. ASSUME NEW req, Goto(t, [At(t, pc) EXCEPT !.req = req])
      PROVE  Becomes(t, thread[t].att, pc, thread[t].out)
  <2> DEFINE call == [At(t, pc) EXCEPT !.req = req]
  <2>1. call.pc = pc /\ call.att = thread[t].att /\ call.out = thread[t].out
    BY <1>1 DEF At, ThreadType
  <2> HIDE DEF call
  <2>2. Goto(t, call)
    BY <1>3 DEF call
  <2> QED
    BY <2>1, <2>2, RousedByGoto DEF Becomes
<1> QED
  BY <1>2, <1>3

LEMMA BecomesCall ==
    ASSUME TypeInv, NEW t \in Threads, NEW a, NEW pc, NEW out,
           \/ Goto(t, Call(a, pc, out))
           \/ \E waited : Goto(t, [Call(a, pc, out) EXCEPT !.waited = waited])
    PROVE  Becomes(t, a, pc, out)
<1>1. CASE Goto(t, Call(a, pc, out))
  <2>1. Call(a, pc, out).pc = pc /\ Call(a, pc, out).att = a /\ Call(a, pc, out).out = out
    BY DEF Call, Idle
  <2> QED
    BY <1>1, <2>1, RousedByGoto DEF Becomes
<1>2. ASSUME NEW waited, Goto(t, [Call(a, pc, out) EXCEPT !.waited = waited])
      PROVE  Becomes(t, a, pc, out)
  <2> DEFINE call == [Call(a, pc, out) EXCEPT !.waited = waited]
  <2>1. call.pc = pc /\ call.att = a /\ call.out = out
    BY DEF Call, Idle
  <2> HIDE DEF call
  <2>2. Goto(t, call)
    BY <1>2 DEF call
  <2> QED
    BY <2>1, <2>2, RousedByGoto DEF Becomes
<1> QED
  BY <1>1, <1>2

LEMMA BecomesIdle ==
    ASSUME TypeInv, NEW t \in Threads,
           Return(t) \/ \E a \in Attempts : BroadcastAnd(a, t, Idle)
    PROVE  Becomes(t, NoAttempt, "idle", "none")
<1>1. Idle.pc = "idle" /\ Idle.att = NoAttempt /\ Idle.out = "none"
  BY DEF Idle
<1> QED
  BY <1>1, RousedByGoto DEF Becomes, Return

(* What a goroutine inside a call, and everybody else, knows of its attempt. *)
LEMMA LifeFacts ==
    ASSUME TypeInv, LifeInv, NEW a \in Attempts
    PROVE  /\ attempt \in [Attempts -> AttemptType] /\ attempt[a] \in AttemptType
           /\ Sound(attempt[a])
           /\ \A u \in Threads :
                 /\ thread[u].pc \in PCs
                 /\ thread[u].att = a /\ thread[u].pc # "idle" =>
                       Fits(thread[u].pc, thread[u].out, attempt[a])
           /\ \A t, u \in Threads :
                 /\ t # u /\ thread[t].pc \in OwnerPCs
                 /\ thread[t].att = a /\ thread[u].att = a
                 => thread[u].pc \in BystanderPCs
<1>1. attempt \in [Attempts -> AttemptType] /\ attempt[a] \in AttemptType
  BY AttemptFacts
<1>2. \A u \in Threads : thread[u].pc \in PCs
  BY CallFacts DEF ThreadType
<1> QED
  BY <1>1, <1>2 DEF LifeInv, AttemptsSound, CallsFit, OwnerAlone

(* One attempt changes to s while goroutines are at most roused.           *)
LEMMA AttemptMove ==
    ASSUME TypeInv, LifeInv, NEW a \in Attempts, NEW s \in AttemptType, Sound(s),
           attempt' = [attempt EXCEPT ![a] = s],
           \A u \in Threads : Roused(u),
           \A u \in Threads : thread[u].att = a /\ thread[u].pc # "idle" =>
              Fits(thread'[u].pc, thread[u].out, s),
           s.phase \in ClosingPhases /\ ~s.persistErr /\ ~s.committing =>
              \E u \in Threads : thread[u].att = a /\ thread[u].pc \in OwnerPCs \cup {"persist"}
    PROVE  LifeInv'
<1>1. /\ attempt'[a] = s /\ \A b \in Attempts \ {a} : attempt'[b] = attempt[b]
      /\ \A u \in Threads : thread[u].pc \in PCs
  BY LifeFacts
<1>2. AttemptsSound'
  BY <1>1 DEF AttemptsSound, LifeInv
<1>3. CallsFit'
  <2> SUFFICES ASSUME NEW u \in Threads, thread'[u].pc # "idle"
               PROVE  Fits(thread'[u].pc, thread'[u].out, attempt'[thread'[u].att])
    BY DEF CallsFit, Fits
  <2>1. thread[u].pc \in PCs /\ thread[u].pc # "idle"
    BY <1>1, WokenSteps DEF Roused
  <2>2. thread[u].att \in Attempts
    BY <2>1, BusyFacts
  <2>3. CASE thread[u].att = a
    BY <1>1, <2>1, <2>3 DEF Roused
  <2>4. CASE thread[u].att # a
    <3>1. Fits(thread[u].pc, thread[u].out, attempt[thread[u].att])
      BY <2>1 DEF LifeInv, CallsFit
    <3>2. attempt'[thread'[u].att] = attempt[thread[u].att] /\ thread'[u].out = thread[u].out
      BY <1>1, <2>2, <2>4 DEF Roused
    <3> QED
      BY <2>1, <3>1, <3>2, FitsWoken DEF Roused
  <2> QED
    BY <2>3, <2>4
<1>4. \A u \in Threads : /\ thread'[u].att = thread[u].att
                         /\ thread'[u].pc \in OwnerPCs <=> thread[u].pc \in OwnerPCs
                         /\ thread'[u].pc \in BystanderPCs <=> thread[u].pc \in BystanderPCs
                         /\ thread'[u].pc = "persist" <=> thread[u].pc = "persist"
  BY <1>1, WokenSteps DEF Roused
<1>5. OwnerAlone'
  BY <1>4 DEF OwnerAlone, LifeInv
<1>6. Driven'
  BY <1>1, <1>4 DEF Driven, LifeInv
<1> QED
  BY <1>2, <1>3, <1>5, <1>6 DEF LifeInv

(* One goroutine moves on in a call of attempt a, which changes to s.      *)
LEMMA CallMove ==
    ASSUME TypeInv, LifeInv, NEW t \in Threads, NEW a \in Attempts,
           NEW s \in AttemptType, Sound(s),
           attempt' = [attempt EXCEPT ![a] = s],
           NEW att, NEW pc \in PCs, NEW out, Becomes(t, att, pc, out),
           thread[t].pc # "idle" => thread[t].att = a,
           pc # "idle" => att = a /\ Fits(pc, out, s),
           \A u \in Threads \ {t} : thread[u].att = a /\ thread[u].pc # "idle" =>
              Fits(thread'[u].pc, thread[u].out, s),
           pc \in OwnerPCs /\ thread[t].pc \notin OwnerPCs =>
              \A u \in Threads \ {t} : thread[u].att = a => thread[u].pc \in BystanderPCs,
           pc \notin BystanderPCs /\ thread[t].pc \in BystanderPCs =>
              \A u \in Threads \ {t} : thread[u].att = a => thread[u].pc \notin OwnerPCs,
           s.phase \in ClosingPhases /\ ~s.persistErr /\ ~s.committing =>
              \/ pc \in OwnerPCs \cup {"persist"}
              \/ /\ attempt[a].phase \in ClosingPhases
                 /\ ~attempt[a].persistErr /\ ~attempt[a].committing
                 /\ thread[t].pc \notin OwnerPCs \cup {"persist"}
    PROVE  LifeInv'
<1>1. /\ attempt'[a] = s /\ \A b \in Attempts \ {a} : attempt'[b] = attempt[b]
      /\ \A u \in Threads : thread[u].pc \in PCs
  BY LifeFacts
<1>2. AttemptsSound'
  BY <1>1 DEF AttemptsSound, LifeInv
<1>3. thread'[t].att = att /\ thread'[t].pc = pc /\ thread'[t].out = out
  BY DEF Becomes
<1>4. \A u \in Threads \ {t} :
        /\ thread'[u].att = thread[u].att
        /\ thread'[u].pc \in OwnerPCs <=> thread[u].pc \in OwnerPCs
        /\ thread'[u].pc \in BystanderPCs <=> thread[u].pc \in BystanderPCs
        /\ thread'[u].pc = "persist" <=> thread[u].pc = "persist"
  BY <1>1, WokenSteps DEF Becomes, Roused
<1>5. CallsFit'
  <2> SUFFICES ASSUME NEW u \in Threads, thread'[u].pc # "idle"
               PROVE  Fits(thread'[u].pc, thread'[u].out, attempt'[thread'[u].att])
    BY DEF CallsFit, Fits
  <2>1. CASE u = t
    BY <1>1, <1>3, <2>1
  <2>2. CASE u # t
    <3>1. Roused(u)
      BY <2>2 DEF Becomes
    <3>2. thread[u].pc \in PCs /\ thread[u].pc # "idle"
      BY <1>1, <3>1, WokenSteps DEF Roused
    <3>3. thread[u].att \in Attempts
      BY <3>2, BusyFacts
    <3>4. CASE thread[u].att = a
      BY <1>1, <2>2, <3>1, <3>2, <3>4 DEF Roused
    <3>5. CASE thread[u].att # a
      <4>1. Fits(thread[u].pc, thread[u].out, attempt[thread[u].att])
        BY <3>2 DEF LifeInv, CallsFit
      <4>2. attempt'[thread'[u].att] = attempt[thread[u].att] /\ thread'[u].out = thread[u].out
        BY <1>1, <3>1, <3>3, <3>5 DEF Roused
      <4> QED
        BY <3>1, <3>2, <4>1, <4>2, FitsWoken DEF Roused
    <3> QED
      BY <3>4, <3>5
  <2> QED
    BY <2>1, <2>2
<1>6. "idle" \in BystanderPCs /\ BystanderPCs \cap OwnerPCs = {} /\ "persist" \notin BystanderPCs
  BY DEF BystanderPCs, OwnerPCs, PublishPCs, SlotPCs
<1>7. OwnerAlone'
  <2> SUFFICES ASSUME NEW w \in Threads, NEW u \in Threads, w # u,
                      thread'[w].pc \in OwnerPCs, thread'[u].att = thread'[w].att
               PROVE  thread'[u].pc \in BystanderPCs
    BY DEF OwnerAlone
  <2>0. \A x, y \in Threads :
          x # y /\ thread[x].pc \in OwnerPCs /\ thread[y].att = thread[x].att
          => thread[y].pc \in BystanderPCs
    BY DEF LifeInv, OwnerAlone
  <2>1. CASE w = t
    <3>1. att = a /\ thread[u].att = a /\ pc \in OwnerPCs /\ u # t
      BY <1>3, <1>4, <1>6, <2>1
    <3>2. thread[u].pc \in BystanderPCs
      BY <1>6, <2>0, <3>1
    <3> QED
      BY <1>4, <3>1, <3>2
  <2>2. CASE u = t
    <3>1. SUFFICES ASSUME pc \notin BystanderPCs PROVE FALSE
      BY <1>3, <2>2
    <3>2. thread[w].att = a /\ thread[w].pc \in OwnerPCs /\ w # t
      BY <1>3, <1>4, <1>6, <2>2, <3>1
    <3>3. CASE thread[t].pc \in BystanderPCs
      BY <3>1, <3>2, <3>3
    <3>4. CASE thread[t].pc \notin BystanderPCs
      BY <1>6, <2>0, <3>2, <3>4
    <3> QED
      BY <3>3, <3>4
  <2>3. CASE w # t /\ u # t
    BY <1>4, <2>0, <2>3
  <2> QED
    BY <2>1, <2>2, <2>3
<1>8. Driven'
  <2> SUFFICES ASSUME NEW b \in Attempts, attempt'[b].phase \in ClosingPhases,
                      ~attempt'[b].persistErr, ~attempt'[b].committing
               PROVE  \E u \in Threads : thread'[u].att = b
                                         /\ thread'[u].pc \in OwnerPCs \cup {"persist"}
    BY DEF Driven
  <2>1. CASE b = a /\ pc \in OwnerPCs \cup {"persist"}
    BY <1>3, <1>6, <2>1
  <2>2. CASE b # a \/ pc \notin OwnerPCs \cup {"persist"}
    <3>1. /\ attempt[b].phase \in ClosingPhases
          /\ ~attempt[b].persistErr /\ ~attempt[b].committing
          /\ b = a => thread[t].pc \notin OwnerPCs \cup {"persist"}
      BY <1>1, <2>2
    <3>2. PICK u \in Threads : thread[u].att = b /\ thread[u].pc \in OwnerPCs \cup {"persist"}
      BY <3>1 DEF LifeInv, Driven
    <3>3. u # t
      BY <1>6, <3>1, <3>2
    <3> QED
      BY <1>4, <3>2, <3>3
  <2> QED
    BY <2>1, <2>2
<1> QED
  BY <1>2, <1>5, <1>7, <1>8 DEF LifeInv

(* A step of a call that leaves every attempt as it is.                    *)
LEMMA QuietMove ==
    ASSUME TypeInv, LifeInv, NEW t \in Threads, NEW a \in Attempts, attempt' = attempt,
           thread[t].pc # "idle" => thread[t].att = a,
           NEW att, NEW pc \in PCs, NEW out, Becomes(t, att, pc, out),
           pc # "idle" => att = a /\ Fits(pc, out, attempt[a]),
           pc \in OwnerPCs => thread[t].pc \in OwnerPCs,
           thread[t].pc \in BystanderPCs => pc \in BystanderPCs \/ attempt[a].persistErr,
           \/ pc \in OwnerPCs \cup {"persist"}
           \/ thread[t].pc \notin OwnerPCs \cup {"persist"}
           \/ attempt[a].phase \notin ClosingPhases
           \/ attempt[a].persistErr \/ attempt[a].committing
    PROVE  LifeInv'
<1> DEFINE s == attempt[a]
<1>1. /\ s \in AttemptType /\ Sound(s) /\ attempt' = [attempt EXCEPT ![a] = s]
      /\ \A u \in Threads :
           /\ thread[u].pc \in PCs
           /\ thread[u].att = a /\ thread[u].pc # "idle" => Fits(thread[u].pc, thread[u].out, s)
  BY LifeFacts
<1>2. \A u \in Threads \ {t} : thread[u].att = a /\ thread[u].pc # "idle" =>
        Fits(thread'[u].pc, thread[u].out, s)
  BY <1>1, FitsWoken DEF Becomes, Roused
<1>3. s.persistErr =>
        \A u \in Threads \ {t} : thread[u].att = a => thread[u].pc \notin OwnerPCs
  BY <1>1 DEF Fits, OwnerPCs, PublishPCs, SlotPCs
<1>4. pc # "idle" => att = a /\ Fits(pc, out, s)
  OBVIOUS
<1>5. pc \in OwnerPCs /\ thread[t].pc \notin OwnerPCs =>
        \A u \in Threads \ {t} : thread[u].att = a => thread[u].pc \in BystanderPCs
  OBVIOUS
<1>6. pc \notin BystanderPCs /\ thread[t].pc \in BystanderPCs =>
        \A u \in Threads \ {t} : thread[u].att = a => thread[u].pc \notin OwnerPCs
  BY <1>3
<1>7. s.phase \in ClosingPhases /\ ~s.persistErr /\ ~s.committing =>
        \/ pc \in OwnerPCs \cup {"persist"}
        \/ /\ attempt[a].phase \in ClosingPhases
           /\ ~attempt[a].persistErr /\ ~attempt[a].committing
           /\ thread[t].pc \notin OwnerPCs \cup {"persist"}
  OBVIOUS
<1> HIDE DEF s
<1> QED
  BY <1>1, <1>2, <1>4, <1>5, <1>6, <1>7, CallMove

(* A goroutine that finds the attempt open or sealed takes it over.        *)
LEMMA TakesOver ==
    ASSUME TypeInv, LifeInv, NEW t \in Threads, NEW a \in Attempts,
           attempt[a].phase \in {"open", "sealed"},
           thread[t].pc # "idle" => thread[t].att = a,
           NEW s \in AttemptType, Sound(s), attempt' = [attempt EXCEPT ![a] = s],
           NEW pc \in OwnerPCs, NEW out, Becomes(t, a, pc, out), Fits(pc, out, s)
    PROVE  LifeInv'
<1>1. \A u \in Threads : thread[u].att = a => thread[u].pc = "idle"
  BY LifeFacts DEF Fits, ClosingPhases, TerminalPhases
<1>2. pc \in PCs /\ "idle" \in BystanderPCs /\ "idle" \notin OwnerPCs
  BY DEF OwnerPCs, PublishPCs, SlotPCs, PCs, BystanderPCs
<1> QED
  BY <1>1, <1>2, CallMove

(* The owner of an attempt goes on, or persists the outcome it has.        *)
LEMMA OwnerMove ==
    ASSUME TypeInv, LifeInv, NEW t \in Threads, thread[t].pc \in OwnerPCs,
           NEW a, a = thread[t].att,
           NEW s \in AttemptType, Sound(s), attempt' = [attempt EXCEPT ![a] = s],
           s.phase = attempt[a].phase, ~s.persistErr,
           NEW pc \in OwnerPCs \cup {"persist"}, NEW out, Becomes(t, a, pc, out), Fits(pc, out, s)
    PROVE  LifeInv'
<1>1. /\ pc \in PCs /\ thread[t].pc # "idle" /\ thread[t].pc \notin BystanderPCs
      /\ "persist" \notin BystanderPCs /\ \A q \in BystanderPCs : q \notin OwnerPCs
  BY DEF OwnerPCs, PublishPCs, SlotPCs, PCs, BystanderPCs
<1>2. a \in Attempts
  BY <1>1, BusyFacts
<1>3. \A u \in Threads \ {t} : thread[u].att = a => thread[u].pc \in BystanderPCs
  BY <1>2, LifeFacts
<1>4. ASSUME NEW u \in Threads \ {t}, thread[u].att = a, thread[u].pc # "idle"
      PROVE  Fits(thread'[u].pc, thread[u].out, s)
  <2>1. Fits(thread[u].pc, thread[u].out, attempt[a]) /\ thread[u].pc \in BystanderPCs
        /\ thread[u].pc \in PCs
    BY <1>2, <1>3, <1>4, LifeFacts
  <2>2. Fits(thread[u].pc, thread[u].out, s)
    BY <2>1 DEF Fits, BystanderPCs, DrainedPCs, CommitPCs, OwnerPCs, PublishPCs, SlotPCs
  <2> QED
    BY <2>1, <2>2, FitsWoken DEF Becomes, Roused
<1> QED
  BY <1>1, <1>2, <1>3, <1>4, CallMove

-----------------------------------------------------------------------------
(* Steps without a goroutine of the ledger                                 *)

LEMMA HandlingLife ==
    ASSUME TypeInv, LifeInv, NEW a \in Attempts, Handling(a)
    PROVE  LifeInv'
<1> DEFINE o == attempt[a]
<1>0. /\ attempt \in [Attempts -> AttemptType] /\ o \in AttemptType /\ Sound(o)
      /\ \A u \in Threads : thread[u].pc \in PCs
      /\ \A u \in Threads : thread[u].att = a /\ thread[u].pc # "idle" =>
            Fits(thread[u].pc, thread[u].out, o)
  BY LifeFacts
(* Nobody is inside a call of an attempt that is unborn, open or sealed.   *)
<1>1. ASSUME NEW s \in AttemptType, Sound(s), attempt' = [attempt EXCEPT ![a] = s],
             o.phase \in {"unborn", "open"}, s.phase \in {"open", "sealed"}, thread' = thread
      PROVE  LifeInv'
  <2>1. \A u \in Threads : ~ (thread[u].att = a /\ thread[u].pc # "idle")
    BY <1>0, <1>1 DEF Fits, ClosingPhases, TerminalPhases
  <2>2. \A u \in Threads : Roused(u)
    BY <1>1 DEF Roused
  <2>3. s.phase \notin ClosingPhases
    BY <1>1 DEF ClosingPhases
  <2> HIDE DEF o
  <2> QED
    BY <1>1, <2>1, <2>2, <2>3, AttemptMove
<1>2. ASSUME NEW k \in Keys, NEW g \in Generations, Begin(a, k, g) PROVE LifeInv'
  <2> DEFINE s == [Unborn EXCEPT !.phase = "open", !.key = k, !.gen = g,
                                 !.seq = ledger.next, !.producer = TRUE]
  <2>1. g \in Nat /\ ledger.next \in Nat
    BY LedgerFacts DEF LedgerType
  <2>2. s \in AttemptType
    BY <2>1, UnbornTyped DEF Unborn, AttemptType, LivePhases
  <2>3. Sound(s) /\ s.phase = "open"
    BY DEF Sound, Unborn, NoClaimIn
  <2>4. attempt' = [attempt EXCEPT ![a] = s] /\ o.phase = "unborn" /\ thread' = thread
    BY <1>2 DEF Begin
  <2> HIDE DEF s
  <2> QED
    BY <1>1, <2>2, <2>3, <2>4
<1>3. ASSUME NEW p \in Ordinals, Issue(a, p) PROVE LifeInv'
  <2> DEFINE s == [o EXCEPT !.issued = @ \cup {p}]
  <2>1. s \in AttemptType /\ Sound(s) /\ s.phase = "open" /\ o.phase = "open"
    BY <1>0, <1>3 DEF AttemptType, Sound, NoClaimIn, Issue
  <2>2. attempt' = [attempt EXCEPT ![a] = s] /\ thread' = thread
    BY <1>3, <1>0 DEF Issue
  <2> HIDE DEF s
  <2> QED
    BY <1>1, <2>1, <2>2
<1>4. ASSUME NEW p \in Ordinals, ClaimStart(a, p) PROVE LifeInv'
  <2> DEFINE s == [o EXCEPT !.claim[p] = "in_progress"]
  <2>1. s \in AttemptType /\ s.phase = "open" /\ o.phase = "open"
    BY <1>0, <1>4 DEF AttemptType, ClaimStart
  <2>2. Sound(s)
    BY <1>0, <2>1 DEF AttemptType, Sound
  <2>3. attempt' = [attempt EXCEPT ![a] = s] /\ thread' = thread
    BY <1>4, <1>0 DEF ClaimStart
  <2> HIDE DEF s
  <2> QED
    BY <1>1, <2>1, <2>2, <2>3
<1>5. CASE Admit(a)
  <2> DEFINE s == [o EXCEPT !.producer = FALSE, !.admitted = TRUE, !.issued = {}]
  <2>1. s \in AttemptType /\ Sound(s) /\ s.phase = "open" /\ o.phase = "open"
    BY <1>0, <1>5 DEF AttemptType, Sound, NoClaimIn, Admit, Admissible
  <2>2. attempt' = [attempt EXCEPT ![a] = s] /\ thread' = thread
    BY <1>5, <1>0 DEF Admit
  <2> HIDE DEF s
  <2> QED
    BY <1>1, <2>1, <2>2
<1>6. CASE Seal(a)
  <2> DEFINE s == [o EXCEPT !.phase = "sealed"]
  <2>1. s \in AttemptType /\ s.phase = "sealed" /\ o.phase = "open"
    BY <1>0, <1>6 DEF AttemptType, Seal, LivePhases
  <2>2. Sound(s)
    BY <1>0, <1>6 DEF AttemptType, Sound, NoClaimIn, AllSucceeded, Seal, AllClaimed, ClaimSucceeded
  <2>3. attempt' = [attempt EXCEPT ![a] = s] /\ thread' = thread
    BY <1>6, <1>0 DEF Seal
  <2> HIDE DEF s
  <2> QED
    BY <1>1, <2>1, <2>2, <2>3
<1>7. ASSUME NEW p \in Ordinals, NEW outcome \in ProducerOutcomes, ClaimFinish(a, p, outcome)
      PROVE  LifeInv'
  <2> DEFINE s == [o EXCEPT !.claim[p] = outcome]
  <2>0. /\ s \in AttemptType /\ attempt' = [attempt EXCEPT ![a] = s] /\ thread' = Awake(a)
        /\ outcome \in ClaimOutcomes
    BY <1>0, <1>7 DEF AttemptType, ClaimFinish
  <2>1. /\ s.phase = o.phase /\ s.drain = o.drain /\ s.committing = o.committing
        /\ s.persistErr = o.persistErr /\ s.outcome = o.outcome
        /\ ~NoClaimIn(o) /\ ~AllSucceeded(o) /\ (NoClaimIn(o) => NoClaimIn(s))
    BY <1>0, <1>7 DEF AttemptType, ClaimFinish, NoClaimIn, AllSucceeded, ClaimSucceeded
  <2>2. Sound(s)
    BY <1>0, <2>1 DEF Sound
  <2>3. \A u \in Threads :
          /\ Roused(u)
          /\ thread[u].att = a => thread'[u].pc = Woken(thread[u].pc)
    <3>1. \A u \in Threads : thread[u] \in ThreadType
      BY CallFacts
    <3> QED
      BY <2>0, <3>1, AwakeTyped DEF Roused, Awake, At, ThreadType
  <2>4. ASSUME NEW u \in Threads, thread[u].att = a, thread[u].pc # "idle"
        PROVE  Fits(thread'[u].pc, thread[u].out, s)
    <3> DEFINE pc == Woken(thread[u].pc)
    <3>1. Fits(pc, thread[u].out, o)
      BY <1>0, <2>4, FitsWoken
    <3>2. pc \notin WaitingPCs
      BY <1>0, WokenSteps
    <3> HIDE DEF pc, s, o
    <3>3. Fits(pc, thread[u].out, s)
      BY <2>1, <3>1, <3>2 DEF Fits, WaitingPCs
    <3> QED
      BY <2>3, <2>4, <3>3 DEF pc
  <2>5. s.phase \in ClosingPhases /\ ~s.persistErr /\ ~s.committing =>
          \E u \in Threads : thread[u].att = a /\ thread[u].pc \in OwnerPCs \cup {"persist"}
    BY <2>1 DEF LifeInv, Driven
  <2> HIDE DEF s
  <2> QED
    BY <2>0, <2>2, <2>3, <2>4, <2>5, AttemptMove
<1> QED
  BY <1>2, <1>3, <1>4, <1>5, <1>6, <1>7 DEF Handling

-----------------------------------------------------------------------------
(* Calls and cancellation                                                  *)

LEMMA InProgressIs ==
    ASSUME NEW a \in Attempts
    PROVE  /\ InProgress(a) = {} <=> NoClaimIn(attempt[a])
           /\ AllClaimed(a) <=> AllSucceeded(attempt[a])
  BY DEF InProgress, NoClaimIn, AllClaimed, AllSucceeded

LEMMA CancelUnresolvedIs ==
    ASSUME NEW claim
    PROVE  \A p \in Ordinals : /\ CancelUnresolved(claim)[p] = "in_progress" <=> claim[p] = "in_progress"
                               /\ claim[p] = ClaimSucceeded => CancelUnresolved(claim)[p] = ClaimSucceeded
  BY DEF CancelUnresolved, ClaimSucceeded

LEMMA CancelPassLife ==
    ASSUME TypeInv, LifeInv, NEW t \in Threads, NEW a \in Attempts, NEW waited \in BOOLEAN,
           thread[t].pc \in {"idle", "cancel_woken"},
           thread[t].pc # "idle" => thread[t].att = a,
           CancelPass(t, a, waited)
    PROVE  LifeInv'
<1> DEFINE o == attempt[a]
<1>0. /\ attempt \in [Attempts -> AttemptType] /\ o \in AttemptType /\ Sound(o)
      /\ thread[t].pc \in BystanderPCs /\ thread[t].pc \notin OwnerPCs \cup {"persist"}
      /\ {"idle", "cancel_wait", "persist"} \subseteq PCs
  BY LifeFacts DEF BystanderPCs, OwnerPCs, PublishPCs, SlotPCs, PCs
<1>1. CASE attempt' = attempt /\ Return(t)
  <2>1. "idle" \in BystanderPCs /\ "idle" \notin OwnerPCs
    BY DEF BystanderPCs, OwnerPCs, PublishPCs, SlotPCs
  <2>2. Becomes(t, NoAttempt, "idle", "none")
    BY <1>1, BecomesIdle
  <2> QED
    BY <1>0, <1>1, <2>1, <2>2, QuietMove
<1>2. CASE CancelRetries(t, a, waited) /\ Goto(t, Call(a, "persist", o.outcome))
  <2>1. attempt' = attempt /\ o.persistErr /\ o.phase \in ClosingPhases
    BY <1>2 DEF CancelRetries, ClosingPhases
  <2>2. Becomes(t, a, "persist", o.outcome)
    BY <1>2, BecomesCall
  <2>3. Fits("persist", o.outcome, o)
    BY <1>0, <2>1 DEF Fits, Sound, CommitPCs, OwnerPCs, PublishPCs, SlotPCs
  <2>4. "persist" \notin OwnerPCs /\ "persist" \in PCs
    BY DEF OwnerPCs, PublishPCs, SlotPCs, PCs
  <2> QED
    BY <2>1, <2>2, <2>3, <2>4, QuietMove
<1>3. CASE CancelWaits(t, a)
  <2> DEFINE s == [o EXCEPT !.aborted = @ \/ attempt[a].phase = "publishing"]
  <2>1. s \in AttemptType
    BY <1>0 DEF AttemptType
  <2>2. attempt' = [attempt EXCEPT ![a] = s]
    BY <1>3, <1>0 DEF CancelWaits
  <2>3. /\ s.phase = o.phase /\ s.claim = o.claim /\ s.drain = o.drain /\ s.outcome = o.outcome
        /\ s.committing = o.committing /\ s.persistErr = o.persistErr
    BY <1>0 DEF AttemptType
  <2> HIDE DEF s
  <2>4. Sound(s)
    BY <1>0, <2>3 DEF Sound, NoClaimIn, AllSucceeded
  <2>5. \A pc, out : Fits(pc, out, o) => Fits(pc, out, s)
    BY <2>3 DEF Fits, NoClaimIn, AllSucceeded
  <2>6. Becomes(t, a, "cancel_wait", "none")
    BY <1>3, BecomesCall DEF CancelWaits
  <2>7. o.phase \in ClosingPhases /\ ~o.persistErr
    BY <1>3 DEF CancelWaits, ClosingPhases
  <2>8. Fits("cancel_wait", "none", s)
    BY <2>3, <2>7 DEF Fits, DrainedPCs, CommitPCs, OwnerPCs, PublishPCs, SlotPCs
  <2>9. \A u \in Threads \ {t} : thread[u].att = a /\ thread[u].pc # "idle" =>
          Fits(thread'[u].pc, thread[u].out, s)
    BY <2>5, <2>6, FitsWoken, LifeFacts DEF Becomes, Roused
  <2>10. "cancel_wait" \in BystanderPCs /\ "cancel_wait" \notin OwnerPCs
    BY DEF BystanderPCs, OwnerPCs, PublishPCs, SlotPCs
  <2>11. s.phase \in ClosingPhases /\ ~s.persistErr /\ ~s.committing =>
           /\ attempt[a].phase \in ClosingPhases
           /\ ~attempt[a].persistErr /\ ~attempt[a].committing
           /\ thread[t].pc \notin OwnerPCs \cup {"persist"}
    BY <1>0, <2>3
  <2>12. "cancel_wait" \in PCs
    BY <1>0
  <2> HIDE DEF o
  <2> QED
    BY ZenonT(60), <2>1, <2>2, <2>4, <2>6, <2>8, <2>9, <2>10, <2>11, <2>12, CallMove
<1>4. CASE CancelWins(t, a)
  <2>1. o.phase \in {"open", "sealed"}
    BY <1>4 DEF CancelWins
  <2>2. CASE InProgress(a) # {}
    <3> DEFINE s == [o EXCEPT !.phase = "cancelling"]
    <3>1. s \in AttemptType /\ attempt' = [attempt EXCEPT ![a] = s]
      BY <1>0, <1>4, <2>2 DEF AttemptType, LivePhases, CancelWins
    <3>2. /\ s.phase = "cancelling" /\ s.claim = o.claim /\ s.drain = o.drain
          /\ s.committing = o.committing /\ s.persistErr = o.persistErr
      BY <1>0 DEF AttemptType
    <3> HIDE DEF s
    <3>3. Sound(s) /\ ~NoClaimIn(s)
      BY <1>0, <2>1, <2>2, <3>2, InProgressIs DEF Sound, NoClaimIn, AllSucceeded
    <3>4. Fits("claims_wait", "none", s)
      BY <1>0, <2>1, <3>2, <3>3
         DEF Fits, Sound, ClosingPhases, DrainedPCs, CommitPCs, PublishPCs, SlotPCs
    <3>5. Becomes(t, a, "claims_wait", "none")
      BY <1>4, <2>2, BecomesCall DEF CancelWins
    <3> QED
      BY <2>1, <3>1, <3>3, <3>4, <3>5, TakesOver DEF OwnerPCs
  <2>3. CASE InProgress(a) = {}
    <3> DEFINE s == [o EXCEPT !.phase = "cancelling", !.producer = FALSE]
    <3>1. s \in AttemptType /\ attempt' = [attempt EXCEPT ![a] = s]
      BY <1>0, <1>4, <2>3 DEF AttemptType, LivePhases, CancelWins
    <3>2. /\ s.phase = "cancelling" /\ s.claim = o.claim /\ s.drain = o.drain
          /\ s.committing = o.committing /\ s.persistErr = o.persistErr
      BY <1>0 DEF AttemptType
    <3> HIDE DEF s
    <3>3. Sound(s) /\ NoClaimIn(s)
      BY <1>0, <2>1, <2>3, <3>2, InProgressIs DEF Sound, NoClaimIn, AllSucceeded
    <3>4. PICK pc \in {"drain", "close", "finish_cancel"}, out \in {"none", "cancel_failed"} :
            Goto(t, Call(a, pc, out))
      BY <1>4, <2>3 DEF CancelWins, AfterClaims
    <3>5. Fits(pc, out, s)
      BY <1>0, <2>1, <3>2, <3>3, <3>4
         DEF Fits, Sound, ClosingPhases, CommitPCs, PublishPCs, SlotPCs
    <3>6. Becomes(t, a, pc, out)
      BY <3>4, BecomesCall
    <3> QED
      BY <2>1, <3>1, <3>3, <3>4, <3>5, <3>6, TakesOver DEF OwnerPCs
  <2> QED
    BY <2>2, <2>3
<1> QED
  BY <1>1, <1>2, <1>3, <1>4 DEF CancelPass, CancelReturns, CancelRetries

LEMMA CallingLife ==
    ASSUME TypeInv, LifeInv, NEW t \in Threads, NEW a \in Attempts, Calling(t, a)
    PROVE  LifeInv'
<1> DEFINE o == attempt[a]
<1>0. /\ attempt \in [Attempts -> AttemptType] /\ o \in AttemptType /\ Sound(o)
      /\ CancelUnresolved(o.claim)
           \in [Ordinals -> {"unresolved", "in_progress"} \cup ClaimOutcomes]
      /\ thread[t].pc = "idle"
  BY LifeFacts, AttemptFacts DEF Calling, AdmitCloseFails, AdmitInvalid, CancelCall, PublishCall
<1>1. CASE AdmitCloseFails(t, a)
  <2> DEFINE s == [o EXCEPT !.producer = FALSE, !.phase = "cancelling",
                            !.claim = CancelUnresolved(o.claim)]
  <2>1. s \in AttemptType /\ attempt' = [attempt EXCEPT ![a] = s]
    BY <1>0, <1>1 DEF AttemptType, LivePhases, AdmitCloseFails
  <2>2. /\ s.phase = "cancelling" /\ s.claim = CancelUnresolved(o.claim)
        /\ s.committing = o.committing /\ s.persistErr = o.persistErr
    BY <1>0 DEF AttemptType
  <2>3. o.phase = "open" /\ NoClaimIn(o)
    BY <1>1, InProgressIs DEF AdmitCloseFails, Admissible
  <2> HIDE DEF s
  <2>4. NoClaimIn(s)
    BY <2>2, <2>3, CancelUnresolvedIs DEF NoClaimIn
  <2>5. Sound(s) /\ Fits("finish_cancel", "cancel_failed", s)
    BY <1>0, <2>2, <2>3, <2>4
       DEF Sound, Fits, ClosingPhases, CommitPCs, PublishPCs, SlotPCs
  <2>6. Becomes(t, a, "finish_cancel", "cancel_failed")
    BY <1>1, BecomesCall DEF AdmitCloseFails
  <2> QED
    BY <1>0, <2>1, <2>3, <2>5, <2>6, TakesOver DEF OwnerPCs
<1>2. CASE AdmitInvalid(t, a)
  <2> DEFINE s == [o EXCEPT !.producer = FALSE, !.admitted = TRUE,
                            !.issued = {}, !.phase = "cancelling"]
  <2>1. s \in AttemptType /\ attempt' = [attempt EXCEPT ![a] = s]
    BY <1>0, <1>2 DEF AttemptType, LivePhases, AdmitInvalid
  <2>2. /\ s.phase = "cancelling" /\ s.claim = o.claim
        /\ s.committing = o.committing /\ s.persistErr = o.persistErr
    BY <1>0 DEF AttemptType
  <2>3. o.phase = "open" /\ NoClaimIn(o)
    BY <1>2, InProgressIs DEF AdmitInvalid, Admissible
  <2> HIDE DEF s
  <2>4. NoClaimIn(s)
    BY <2>2, <2>3 DEF NoClaimIn
  <2>5. Sound(s) /\ Fits("drain", "none", s)
    BY <1>0, <2>2, <2>3, <2>4
       DEF Sound, Fits, ClosingPhases, CommitPCs, PublishPCs, SlotPCs
  <2>6. Becomes(t, a, "drain", "none")
    BY <1>2, BecomesCall DEF AdmitInvalid
  <2> QED
    BY <1>0, <2>1, <2>3, <2>5, <2>6, TakesOver DEF OwnerPCs
<1>3. CASE CancelCall(t, a)
  BY <1>0, <1>3, CancelPassLife DEF CancelCall
<1>4. CASE PublishCall(t, a)
  <2> DEFINE s == [o EXCEPT !.phase = "publishing", !.aborted = FALSE]
  <2>1. s \in AttemptType /\ attempt' = [attempt EXCEPT ![a] = s]
    BY <1>0, <1>4 DEF AttemptType, LivePhases, PublishCall
  <2>2. /\ s.phase = "publishing" /\ s.claim = o.claim
        /\ s.committing = o.committing /\ s.persistErr = o.persistErr
    BY <1>0 DEF AttemptType
  <2>3. o.phase = "sealed" /\ AllSucceeded(o)
    BY <1>0, <1>4 DEF PublishCall, Sound
  <2> HIDE DEF s
  <2>4. AllSucceeded(s) /\ NoClaimIn(s)
    BY <2>2, <2>3 DEF AllSucceeded, NoClaimIn, ClaimSucceeded
  <2>5. Sound(s) /\ Fits("publish_drain", "none", s)
    BY <1>0, <2>2, <2>3, <2>4 DEF Sound, Fits, ClosingPhases, CommitPCs
  <2>6. Becomes(t, a, "publish_drain", "none")
    BY <1>4, BecomesCall DEF PublishCall
  <2> QED
    BY <1>0, <2>1, <2>3, <2>5, <2>6, TakesOver DEF OwnerPCs, PublishPCs
<1> QED
  BY <1>1, <1>2, <1>3, <1>4 DEF Calling

LEMMA CancellingLife ==
    ASSUME TypeInv, LifeInv, NEW t \in Threads, Cancelling(t)
    PROVE  LifeInv'
<1> DEFINE a == thread[t].att
           o == attempt[a]
<1>0. /\ thread[t].pc # "idle" /\ a \in Attempts /\ thread[t] \in ThreadType
  BY BusyFacts, CallFacts
     DEF Cancelling, CancelWoken, ClaimsWoken, CloseOpen, Drain, FinishCancellation
<1>1. /\ attempt \in [Attempts -> AttemptType] /\ o \in AttemptType /\ Sound(o)
      /\ Fits(thread[t].pc, thread[t].out, o)
      /\ CancelUnresolved(o.claim)
           \in [Ordinals -> {"unresolved", "in_progress"} \cup ClaimOutcomes]
  BY <1>0, LifeFacts, AttemptFacts
<1>2. CASE CancelWoken(t)
  BY <1>0, <1>2, CancelPassLife DEF CancelWoken, ThreadType
<1>3. CASE ClaimsWoken(t)
  <2>0. /\ thread[t].pc = "claims_woken" /\ thread[t].pc \in OwnerPCs
        /\ o.phase \in ClosingPhases /\ ~o.committing /\ ~o.persistErr
    BY <1>1, <1>3 DEF ClaimsWoken, Fits, OwnerPCs
  <2>1. CASE InProgress(a) # {}
    <3>1. Becomes(t, a, "claims_wait", thread[t].out)
      BY <1>3, <2>1, BecomesAt DEF ClaimsWoken
    <3>2. attempt' = [attempt EXCEPT ![a] = o]
      BY <1>0, <1>1, <1>3, <2>1 DEF ClaimsWoken
    <3>3. Fits("claims_wait", thread[t].out, o)
      BY <1>0, <2>0, <2>1, InProgressIs DEF Fits, DrainedPCs, CommitPCs, PublishPCs, SlotPCs
    <3>4. "claims_wait" \in OwnerPCs
      BY DEF OwnerPCs
    <3> QED
      BY <1>1, <2>0, <3>1, <3>2, <3>3, <3>4, OwnerMove
  <2>2. CASE InProgress(a) = {}
    <3> DEFINE s == [o EXCEPT !.producer = FALSE]
    <3>1. s \in AttemptType /\ attempt' = [attempt EXCEPT ![a] = s]
      BY <1>0, <1>1, <1>3, <2>2 DEF AttemptType, ClaimsWoken
    <3>2. /\ s.phase = o.phase /\ s.claim = o.claim /\ s.drain = o.drain
          /\ s.committing = o.committing /\ s.persistErr = o.persistErr
      BY <1>1 DEF AttemptType
    <3> HIDE DEF s
    <3>3. Sound(s) /\ NoClaimIn(s)
      BY <1>0, <1>1, <2>2, <3>2, InProgressIs DEF Sound, NoClaimIn, AllSucceeded
    <3>4. PICK pc \in {"drain", "close", "finish_cancel"}, out \in {"none", "cancel_failed"} :
            Goto(t, Call(a, pc, out))
      BY <1>3, <2>2 DEF ClaimsWoken, AfterClaims
    <3>5. Fits(pc, out, s)
      BY <2>0, <3>2, <3>3, <3>4 DEF Fits, ClosingPhases, CommitPCs, PublishPCs, SlotPCs
    <3>6. Becomes(t, a, pc, out)
      BY <3>4, BecomesCall
    <3>7. pc \in OwnerPCs
      BY <3>4 DEF OwnerPCs
    <3> QED
      BY <2>0, <3>1, <3>2, <3>3, <3>5, <3>6, <3>7, OwnerMove
  <2> QED
    BY <2>1, <2>2
<1>4. CASE CloseOpen(t)
  <2>0. /\ thread[t].pc \in OwnerPCs /\ NoClaimIn(o)
        /\ o.phase \in ClosingPhases /\ ~o.committing /\ ~o.persistErr
    BY <1>1, <1>4 DEF CloseOpen, Fits, OwnerPCs, DrainedPCs, PCs
  <2>1. PICK out \in {"cancelled", "cancel_failed"} : Goto(t, Call(a, "finish_cancel", out))
    BY <1>4 DEF CloseOpen
  <2>2. Becomes(t, a, "finish_cancel", out)
    BY <2>1, BecomesCall
  <2>3. attempt' = [attempt EXCEPT ![a] = o]
    BY <1>0, <1>1, <1>4 DEF CloseOpen
  <2>4. Fits("finish_cancel", out, o)
    BY <2>0 DEF Fits, CommitPCs, PublishPCs, SlotPCs
  <2>5. "finish_cancel" \in OwnerPCs
    BY DEF OwnerPCs
  <2> QED
    BY <1>1, <2>0, <2>2, <2>3, <2>4, <2>5, OwnerMove
<1>5. CASE Drain(t)
  <2>0. /\ thread[t].pc \in OwnerPCs /\ NoClaimIn(o)
        /\ o.phase \in ClosingPhases /\ ~o.committing /\ ~o.persistErr
    BY <1>1, <1>5 DEF Drain, Fits, OwnerPCs, DrainedPCs, PCs
  <2>1. PICK result \in {"complete", "failed"}, out \in {"cancelled", "cancel_failed"} :
          /\ attempt' = [attempt EXCEPT ![a].drain = result]
          /\ Goto(t, Call(a, "finish_cancel", out))
    BY <1>5 DEF Drain
  <2> DEFINE s == [o EXCEPT !.drain = result]
  <2>2. s \in AttemptType /\ attempt' = [attempt EXCEPT ![a] = s]
    BY <1>0, <1>1, <2>1 DEF AttemptType
  <2>3. /\ s.phase = o.phase /\ s.claim = o.claim
        /\ s.committing = o.committing /\ s.persistErr = o.persistErr
    BY <1>1 DEF AttemptType
  <2> HIDE DEF s
  <2>4. Sound(s) /\ NoClaimIn(s)
    BY <2>0, <2>3 DEF Sound, NoClaimIn, ClosingPhases
  <2>5. Fits("finish_cancel", out, s)
    BY <2>0, <2>3, <2>4 DEF Fits, CommitPCs, PublishPCs, SlotPCs
  <2>6. Becomes(t, a, "finish_cancel", out) /\ "finish_cancel" \in OwnerPCs
    BY <2>1, BecomesCall DEF OwnerPCs
  <2> QED
    BY <2>0, <2>2, <2>3, <2>4, <2>5, <2>6, OwnerMove
<1>6. CASE FinishCancellation(t)
  <2>0. /\ thread[t].pc \in OwnerPCs /\ NoClaimIn(o)
        /\ o.phase \in ClosingPhases /\ ~o.committing /\ ~o.persistErr
    BY <1>1, <1>6 DEF FinishCancellation, Fits, OwnerPCs, DrainedPCs, PCs
  <2> DEFINE claim == IF o.phase = "cancelling" THEN CancelUnresolved(o.claim) ELSE o.claim
             s == [o EXCEPT !.claim = claim]
  <2>1. claim \in [Ordinals -> {"unresolved", "in_progress"} \cup ClaimOutcomes]
    BY <1>1 DEF AttemptType
  <2>2. \A p \in Ordinals : claim[p] # "in_progress"
    BY <2>0, CancelUnresolvedIs DEF NoClaimIn
  <2>3. attempt' = [attempt EXCEPT ![a].claim = claim]
    BY <1>6, <1>0, <1>1 DEF FinishCancellation
  <2> HIDE DEF claim
  <2>4. s \in AttemptType /\ attempt' = [attempt EXCEPT ![a] = s]
    BY <1>0, <1>1, <2>1, <2>3 DEF AttemptType
  <2>5. /\ s.phase = o.phase /\ s.claim = claim
        /\ s.committing = o.committing /\ s.persistErr = o.persistErr
    BY <1>1 DEF AttemptType
  <2> HIDE DEF s
  <2>6. Sound(s) /\ NoClaimIn(s)
    BY <2>0, <2>2, <2>5 DEF Sound, NoClaimIn, ClosingPhases
  <2>7. Fits("persist", thread[t].out, s)
    BY <2>0, <2>5, <2>6 DEF Fits, CommitPCs, PublishPCs, SlotPCs, OwnerPCs
  <2>8. Becomes(t, a, "persist", thread[t].out)
    BY <1>6, BecomesAt DEF FinishCancellation
  <2> QED
    BY <2>0, <2>4, <2>5, <2>6, <2>7, <2>8, OwnerMove
<1> QED
  BY <1>2, <1>3, <1>4, <1>5, <1>6 DEF Cancelling

-----------------------------------------------------------------------------
(* Publication                                                             *)

(* An owner of the commit section that leaves the attempts as they are.    *)
LEMMA OwnerWaits ==
    ASSUME TypeInv, LifeInv, NEW t \in Threads, thread[t].pc \in PublishPCs \ {"publish_drain"},
           attempt' = attempt, NEW pc \in SlotPCs \cup {"persist"}, NEW out,
           Becomes(t, thread[t].att, pc, out)
    PROVE  LifeInv'
<1> DEFINE a == thread[t].att
           o == attempt[a]
<1>1. thread[t].pc \in OwnerPCs /\ thread[t].pc # "idle" /\ thread[t].pc \in DrainedPCs
  BY DEF OwnerPCs, DrainedPCs, PublishPCs, SlotPCs, PCs
<1>2. a \in Attempts
  BY <1>1, BusyFacts
<1>3. /\ attempt \in [Attempts -> AttemptType] /\ o \in AttemptType /\ Sound(o)
      /\ Fits(thread[t].pc, thread[t].out, o)
  BY <1>1, <1>2, LifeFacts
<1>4. attempt' = [attempt EXCEPT ![a] = o]
  BY <1>2, <1>3
<1>5. /\ NoClaimIn(o) /\ o.phase = "publishing" /\ AllSucceeded(o) /\ o.drain = "complete"
      /\ ~o.committing /\ ~o.persistErr
  BY <1>1, <1>3 DEF Fits
<1>6. Fits(pc, out, o)
  BY <1>5 DEF Fits, ClosingPhases, CommitPCs, SlotPCs
<1>7. pc \in OwnerPCs \cup {"persist"}
  BY DEF OwnerPCs, PublishPCs
<1> QED
  BY <1>1, <1>3, <1>4, <1>5, <1>6, <1>7, OwnerMove

LEMMA PublishingLife ==
    ASSUME TypeInv, LifeInv, NEW t \in Threads,
           Publishing(t) \/ PublicationCallback(t) \/ LeaveQueueContext(t)
    PROVE  LifeInv'
<1> DEFINE a == thread[t].att
           o == attempt[a]
<1>0. /\ thread[t].pc \in PublishPCs /\ a \in Attempts
  BY BusyFacts
     DEF Publishing, PublishDrain, TakeSlot, LeaveQueueAborted, Recheck, PublishSnapshot,
         ApplyPublication, PublicationCallback, StorePublication, StorePublicationFails,
         LeaveQueueContext, PublishPCs, SlotPCs
<1>1. /\ attempt \in [Attempts -> AttemptType] /\ o \in AttemptType /\ Sound(o)
      /\ thread[t].pc \in OwnerPCs /\ thread[t].pc \in DrainedPCs
      /\ Fits(thread[t].pc, thread[t].out, o)
  BY <1>0, LifeFacts DEF OwnerPCs, DrainedPCs, PublishPCs, SlotPCs, PCs
<1>2. /\ NoClaimIn(o) /\ o.phase = "publishing" /\ AllSucceeded(o)
      /\ ~o.committing /\ ~o.persistErr
  BY <1>0, <1>1 DEF Fits
<1>3. FailPublication(t) => Becomes(t, a, "persist", "publish_failed")
  BY BecomesCall DEF FailPublication
<1>4. CASE PublishDrain(t)
  <2>1. PICK result \in {"complete", "failed"} :
          /\ attempt' = [attempt EXCEPT ![a].drain = result]
          /\ \/ result = "complete" /\ Goto(t, At(t, "slot"))
             \/ FailPublication(t)
    BY <1>4 DEF PublishDrain
  <2> DEFINE s == [o EXCEPT !.drain = result]
  <2>2. s \in AttemptType /\ attempt' = [attempt EXCEPT ![a] = s]
    BY <1>0, <1>1, <2>1 DEF AttemptType
  <2>3. /\ s.phase = o.phase /\ s.claim = o.claim /\ s.drain = result
        /\ s.committing = o.committing /\ s.persistErr = o.persistErr
    BY <1>1 DEF AttemptType
  <2> HIDE DEF s
  <2>4. Sound(s) /\ NoClaimIn(s) /\ AllSucceeded(s)
    BY <1>2, <2>3 DEF Sound, NoClaimIn, AllSucceeded
  <2>5. CASE result = "complete" /\ Goto(t, At(t, "slot"))
    <3>1. Fits("slot", thread[t].out, s) /\ "slot" \in OwnerPCs
      BY <1>2, <2>3, <2>4, <2>5 DEF Fits, ClosingPhases, CommitPCs, OwnerPCs, PublishPCs
    <3>2. Becomes(t, a, "slot", thread[t].out)
      BY <2>5, BecomesAt
    <3> QED
      BY <1>1, <1>2, <2>2, <2>3, <2>4, <3>1, <3>2, OwnerMove
  <2>6. CASE FailPublication(t)
    <3>1. Fits("persist", "publish_failed", s)
      BY <1>2, <2>3, <2>4 DEF Fits, ClosingPhases, CommitPCs, OwnerPCs, PublishPCs, SlotPCs
    <3> QED
      BY <1>1, <1>2, <1>3, <2>2, <2>3, <2>4, <2>6, <3>1, OwnerMove
  <2> QED
    BY <2>1, <2>5, <2>6
<1>5. ASSUME thread[t].pc \in PublishPCs \ {"publish_drain"}, attempt' = attempt,
             \/ \E pc \in SlotPCs : Goto(t, At(t, pc))
             \/ \E pc \in SlotPCs : \E req : Goto(t, [At(t, pc) EXCEPT !.req = req])
             \/ FailPublication(t)
      PROVE  LifeInv'
  BY <1>3, <1>5, BecomesAt, OwnerWaits
<1>6. CASE TakeSlot(t) \/ LeaveQueueAborted(t) \/ LeaveQueueContext(t)
  BY <1>5, <1>6 DEF TakeSlot, LeaveQueueAborted, LeaveQueueContext, PublishPCs, SlotPCs
<1>7. CASE Recheck(t) \/ StorePublication(t) \/ StorePublicationFails(t)
  BY <1>5, <1>7 DEF Recheck, StorePublication, StorePublicationFails, PublishPCs, SlotPCs
<1>8. CASE PublishSnapshot(t)
  BY <1>5, <1>8 DEF PublishSnapshot, PublishPCs, SlotPCs
<1>9. CASE ApplyPublication(t)
  <2>1. thread[t].pc \in PublishPCs \ {"publish_drain"}
    BY <1>9 DEF ApplyPublication, PublishPCs, SlotPCs
  <2>2. CASE FailPublication(t) /\ attempt' = attempt
    BY <1>5, <2>1, <2>2
  <2>3. CASE /\ attempt' = [attempt EXCEPT ![a].restartCommitted = TRUE]
             /\ Goto(t, Call(a, "persist", "published"))
    <3> DEFINE s == [o EXCEPT !.restartCommitted = TRUE]
    <3>1. s \in AttemptType /\ attempt' = [attempt EXCEPT ![a] = s]
      BY <1>0, <1>1, <2>3 DEF AttemptType
    <3>2. /\ s.phase = o.phase /\ s.claim = o.claim
          /\ s.committing = o.committing /\ s.persistErr = o.persistErr
      BY <1>1 DEF AttemptType
    <3> HIDE DEF s
    <3>3. Sound(s) /\ NoClaimIn(s)
      BY <1>2, <3>2 DEF Sound, NoClaimIn, AllSucceeded
    <3>4. Fits("persist", "published", s)
      BY <1>2, <3>2, <3>3 DEF Fits, ClosingPhases, CommitPCs, OwnerPCs, PublishPCs, SlotPCs
    <3>5. Becomes(t, a, "persist", "published")
      BY <2>3, BecomesCall
    <3> QED
      BY <1>1, <1>2, <3>1, <3>2, <3>3, <3>4, <3>5, OwnerMove
  <2> QED
    BY <1>9, <2>2, <2>3 DEF ApplyPublication
<1> QED
  BY <1>4, <1>6, <1>7, <1>8, <1>9 DEF Publishing, PublicationCallback

-----------------------------------------------------------------------------
(* The terminal commit                                                     *)

(* The driver of a commit is alone with it, and its attempt has no owner.  *)
LEMMA DriverFacts ==
    ASSUME TypeInv, LifeInv, OneCommitDriver, NEW t \in Threads,
           thread[t].pc \in CommitPCs \cup {"persist"}, NEW a, a = thread[t].att
    PROVE  /\ a \in Attempts /\ thread[t].pc # "idle"
           /\ thread[t].pc \notin OwnerPCs \cup BystanderPCs
           /\ attempt \in [Attempts -> AttemptType] /\ attempt[a] \in AttemptType
           /\ Sound(attempt[a]) /\ NoClaimIn(attempt[a])
           /\ Fits(thread[t].pc, thread[t].out, attempt[a])
           /\ thread[t].out \in TerminalPhases
           /\ thread[t].pc \in CommitPCs => attempt[a].committing
           /\ \A u \in Threads \ {t} : thread[u].att = a =>
                 /\ thread[u].pc \in PCs
                 /\ thread[u].pc \notin OwnerPCs
                 /\ thread[t].pc \in CommitPCs \/ ~attempt[a].committing =>
                       thread[u].pc \notin CommitPCs
                 /\ thread[u].pc # "idle" => Fits(thread[u].pc, thread[u].out, attempt[a])
<1>1. /\ thread[t].pc # "idle" /\ thread[t].pc \notin OwnerPCs \cup BystanderPCs
      /\ thread[t].pc \in DrainedPCs /\ thread[t].pc \in OutcomePCs
  BY DEF CommitPCs, OwnerPCs, BystanderPCs, PublishPCs, SlotPCs, DrainedPCs, OutcomePCs, PCs
<1>2. a \in Attempts /\ thread[t].out \in TerminalPhases
  BY <1>1, BusyFacts
<1>3. /\ attempt \in [Attempts -> AttemptType] /\ attempt[a] \in AttemptType
      /\ Sound(attempt[a]) /\ Fits(thread[t].pc, thread[t].out, attempt[a])
  BY <1>1, <1>2, LifeFacts
<1>4. NoClaimIn(attempt[a])
  BY <1>1, <1>3 DEF Fits
<1>5. thread[t].pc \in CommitPCs => attempt[a].committing
  BY <1>2 DEF OneCommitDriver, Committers
<1>6. ASSUME NEW u \in Threads \ {t}, thread[u].att = a
      PROVE  /\ thread[u].pc \in PCs
             /\ thread[u].pc \notin OwnerPCs
             /\ thread[t].pc \in CommitPCs \/ ~attempt[a].committing =>
                   thread[u].pc \notin CommitPCs
             /\ thread[u].pc # "idle" => Fits(thread[u].pc, thread[u].out, attempt[a])
  <2>1. thread[u].pc \notin OwnerPCs
    BY <1>1, <1>2, <1>6, LifeFacts
  <2>2. thread[t].pc \in CommitPCs \/ ~attempt[a].committing => thread[u].pc \notin CommitPCs
    BY <1>2, <1>6 DEF OneCommitDriver, Committers
  <2> QED
    BY <1>2, <1>6, <2>1, <2>2, LifeFacts
<1> QED
  BY <1>1, <1>2, <1>3, <1>4, <1>5, <1>6

(* The commit ends without a terminal phase: the attempt can be retried.   *)
LEMMA CommitEnds ==
    ASSUME TypeInv, LifeInv, OneCommitDriver, NEW t \in Threads, thread[t].pc \in CommitPCs,
           NEW a, a = thread[t].att, NEW s \in AttemptType,
           attempt' = [attempt EXCEPT ![a] = s], BroadcastAnd(a, t, Idle),
           NoClaimIn(s), s.phase \in ClosingPhases \cup TerminalPhases,
           s.phase \in ClosingPhases => s.persistErr
    PROVE  LifeInv'
<1>1. /\ a \in Attempts /\ thread[t].att = a
      /\ thread[t].pc \notin OwnerPCs \cup {"persist"} \cup BystanderPCs
      /\ \A u \in Threads \ {t} : thread[u].att = a =>
            /\ thread[u].pc \in PCs /\ thread[u].pc \notin OwnerPCs \cup CommitPCs
            /\ thread[u].pc # "idle" => Fits(thread[u].pc, thread[u].out, attempt[a])
  BY DriverFacts DEF CommitPCs, OwnerPCs, BystanderPCs, PublishPCs, SlotPCs
<1>2. Sound(s)
  BY DEF Sound, ClosingPhases, TerminalPhases
<1>3. Becomes(t, NoAttempt, "idle", "none")
  BY <1>1, BecomesIdle
<1>4. \A u \in Threads \ {t} : thread[u].att = a => thread'[u].pc = Woken(thread[u].pc)
  <2>1. \A u \in Threads : thread[u] \in ThreadType
    BY CallFacts
  <2> QED
    BY <2>1 DEF BroadcastAnd, Awake, At, ThreadType
<1>5. ASSUME NEW u \in Threads \ {t}, thread[u].att = a, thread[u].pc # "idle"
      PROVE  Fits(thread'[u].pc, thread[u].out, s)
  <2> DEFINE pc == Woken(thread[u].pc)
  <2>1. pc \notin WaitingPCs /\ pc \notin OwnerPCs \cup CommitPCs
    BY <1>1, <1>5, WokenSteps
  <2>2. pc \notin PublishPCs
    BY <2>1 DEF OwnerPCs
  <2> HIDE DEF pc
  <2>3. Fits(pc, thread[u].out, s)
    BY <2>1, <2>2 DEF Fits, WaitingPCs
  <2> QED
    BY <1>4, <1>5, <2>3 DEF pc
<1>6. "idle" \in PCs /\ "idle" \in BystanderPCs /\ "idle" \notin OwnerPCs
  BY DEF PCs, BystanderPCs, OwnerPCs, PublishPCs, SlotPCs
<1>7. ~ (s.phase \in ClosingPhases /\ ~s.persistErr /\ ~s.committing)
  OBVIOUS
<1>8. ASSUME NEW att, NEW pc \in PCs, NEW out, Becomes(t, att, pc, out),
             pc # "idle" => att = a /\ Fits(pc, out, s),
             pc \in BystanderPCs, pc \notin OwnerPCs
      PROVE  LifeInv'
  <2>1. thread[t].pc # "idle" => thread[t].att = a
    BY <1>1
  <2>2. pc \in OwnerPCs /\ thread[t].pc \notin OwnerPCs =>
          \A u \in Threads \ {t} : thread[u].att = a => thread[u].pc \in BystanderPCs
    BY <1>8
  <2>3. pc \notin BystanderPCs /\ thread[t].pc \in BystanderPCs =>
          \A u \in Threads \ {t} : thread[u].att = a => thread[u].pc \notin OwnerPCs
    BY <1>8
  <2>4. s.phase \in ClosingPhases /\ ~s.persistErr /\ ~s.committing =>
          \/ pc \in OwnerPCs \cup {"persist"}
          \/ /\ attempt[a].phase \in ClosingPhases
             /\ ~attempt[a].persistErr /\ ~attempt[a].committing
             /\ thread[t].pc \notin OwnerPCs \cup {"persist"}
    BY <1>7
  <2>5. \A u \in Threads \ {t} : thread[u].att = a /\ thread[u].pc # "idle" =>
          Fits(thread'[u].pc, thread[u].out, s)
    BY <1>5
  <2>6. a \in Attempts
    BY <1>1
  <2> QED
    BY <1>2, <1>8, <2>1, <2>2, <2>3, <2>4, <2>5, <2>6, CallMove
<1> QED
  BY <1>3, <1>6, <1>8

LEMMA CommittingLife ==
    ASSUME TypeInv, LifeInv, OneCommitDriver, NEW t \in Threads, Committing(t)
    PROVE  LifeInv'
<1> DEFINE a == thread[t].att
           o == attempt[a]
<1>0. thread[t].pc \in PCs /\ thread[t].pc # "idle" /\ a \in Attempts
  BY BusyFacts, CallFacts DEF Committing, Persist, JoinWoken, CommitSnapshot, StoreTerminal,
     StoreTerminalFails, ApplyTerminal, CommitFails, Finalize, ThreadType
<1>1. /\ "idle" \in BystanderPCs /\ "idle" \notin OwnerPCs /\ "persist" \notin CommitPCs
      /\ "join_wait" \notin OwnerPCs /\ {"idle", "join_wait"} \cup CommitPCs \subseteq PCs
      /\ "join_woken" \notin OwnerPCs \cup {"persist"} \cup BystanderPCs
      /\ \A pc \in CommitPCs : pc \notin OwnerPCs \cup {"persist"} \cup BystanderPCs
      /\ CommitPCs \subseteq DrainedPCs
  BY DEF BystanderPCs, OwnerPCs, PublishPCs, SlotPCs, PCs, CommitPCs, DrainedPCs
<1>2. CASE Persist(t)
  <2>0. thread[t].pc = "persist"
    BY <1>2 DEF Persist
  <2>1. CASE attempt' = attempt /\ Return(t)
             /\ (o.phase \notin ClosingPhases \/ o.persistErr \/ o.committing)
    <3>1. Becomes(t, NoAttempt, "idle", "none")
      BY <2>1, BecomesIdle
    <3> QED
      BY <1>0, <1>1, <2>1, <3>1, QuietMove
  <2>2. CASE attempt' = attempt /\ o.committing /\ o.phase \in ClosingPhases
             /\ Goto(t, At(t, "join_wait"))
    <3>1. Becomes(t, a, "join_wait", thread[t].out)
      BY <2>2, BecomesAt
    <3>2. Fits("join_wait", thread[t].out, o)
      BY <2>0, <2>2, DriverFacts DEF Fits, CommitPCs, OwnerPCs, PublishPCs, SlotPCs
    <3>3. thread[t].pc \notin BystanderPCs
      BY <2>0 DEF BystanderPCs
    <3>4. "join_wait" \in PCs /\ "join_wait" \notin OwnerPCs
      BY <1>1
    <3> QED
      BY <1>0, <2>2, <3>1, <3>2, <3>3, <3>4, QuietMove
  <2>3. ASSUME ~o.committing, o.phase \in ClosingPhases,
               attempt' = [attempt EXCEPT ![a].outcome = thread[t].out, ![a].committing = TRUE],
               NEW pc \in {"finalize", "commit"}, Goto(t, At(t, pc))
        PROVE  LifeInv'
    <3> DEFINE s == [o EXCEPT !.outcome = thread[t].out, !.committing = TRUE]
    <3>0. /\ o \in AttemptType /\ attempt \in [Attempts -> AttemptType]
          /\ thread[t].out \in TerminalPhases /\ NoClaimIn(o) /\ Sound(o)
          /\ thread[t].pc \notin OwnerPCs \cup BystanderPCs
          /\ \A u \in Threads \ {t} : thread[u].att = a =>
                /\ thread[u].pc \in PCs /\ thread[u].pc \notin OwnerPCs \cup CommitPCs
                /\ thread[u].pc # "idle" => Fits(thread[u].pc, thread[u].out, o)
      BY <2>0, <2>3, DriverFacts
    <3>1. s \in AttemptType /\ attempt' = [attempt EXCEPT ![a] = s]
      BY <1>0, <2>3, <3>0 DEF AttemptType
    <3>2. /\ s.phase = o.phase /\ s.claim = o.claim /\ s.drain = o.drain
          /\ s.outcome = thread[t].out /\ s.committing /\ s.persistErr = o.persistErr
      BY <3>0 DEF AttemptType
    <3> HIDE DEF s
    <3>3. Sound(s) /\ NoClaimIn(s)
      BY <2>3, <3>0, <3>2 DEF Sound, NoClaimIn, ClosingPhases
    <3>4. pc \in CommitPCs
      BY <2>3 DEF CommitPCs
    <3>5. Fits(pc, thread[t].out, s)
      BY <2>3, <3>2, <3>3 DEF Fits, ClosingPhases, OwnerPCs, PublishPCs, SlotPCs
    <3>6. Becomes(t, a, pc, thread[t].out)
      BY <2>3, BecomesAt
    <3>7. ASSUME NEW u \in Threads \ {t}, thread[u].att = a, thread[u].pc # "idle"
          PROVE  Fits(thread'[u].pc, thread[u].out, s)
      <4>1. Fits(thread[u].pc, thread[u].out, s)
        BY <3>0, <3>2, <3>7 DEF Fits, NoClaimIn, AllSucceeded
      <4> QED
        BY <3>0, <3>6, <3>7, <4>1, FitsWoken DEF Becomes, Roused
    <3>8. pc \in PCs /\ pc \notin OwnerPCs
      BY <1>1, <3>4
    <3> QED
      BY <1>0, <3>0, <3>1, <3>2, <3>3, <3>5, <3>6, <3>7, <3>8, CallMove
  <2>4. \/ /\ attempt' = attempt /\ Return(t)
           /\ o.phase \notin ClosingPhases \/ o.persistErr \/ o.committing
        \/ /\ attempt' = attempt /\ o.committing /\ o.phase \in ClosingPhases
           /\ Goto(t, At(t, "join_wait"))
        \/ /\ ~o.committing /\ o.phase \in ClosingPhases
           /\ attempt' = [attempt EXCEPT ![a].outcome = thread[t].out, ![a].committing = TRUE]
           /\ \E pc \in {"finalize", "commit"} : Goto(t, At(t, pc))
    BY <1>2 DEF Persist, ClosingPhases
  <2> QED
    BY <2>1, <2>2, <2>3, <2>4
<1>3. CASE JoinWoken(t)
  <2>0. thread[t].pc = "join_woken" /\ attempt' = attempt
    BY <1>3 DEF JoinWoken
  <2>1. CASE Return(t)
    <3>1. Becomes(t, NoAttempt, "idle", "none")
      BY <2>1, BecomesIdle
    <3> QED
      BY <1>0, <1>1, <2>0, <3>1, QuietMove
  <2>2. CASE o.committing /\ Goto(t, At(t, "join_wait"))
    <3>1. Becomes(t, a, "join_wait", thread[t].out)
      BY <2>2, BecomesAt
    <3>2. Fits("join_woken", thread[t].out, o) /\ "join_woken" \in DrainedPCs
      BY <1>0, <2>0, LifeFacts DEF DrainedPCs, PCs
    <3>3. Fits("join_wait", thread[t].out, o)
      BY <2>2, <3>2 DEF Fits, CommitPCs, OwnerPCs, PublishPCs, SlotPCs
    <3> QED
      BY <1>0, <1>1, <2>0, <3>1, <3>3, QuietMove
  <2> QED
    BY <1>3, <2>1, <2>2 DEF JoinWoken
(* The driver goes on with its commit.                                     *)
<1>4. ASSUME thread[t].pc \in CommitPCs, attempt' = attempt, NEW pc \in CommitPCs,
             Goto(t, At(t, pc)) \/ \E req : Goto(t, [At(t, pc) EXCEPT !.req = req])
      PROVE  LifeInv'
  <2>1. Becomes(t, a, pc, thread[t].out)
    BY <1>4, BecomesAt
  <2>2. Fits(pc, thread[t].out, o)
    <3>1. Fits(thread[t].pc, thread[t].out, o) /\ NoClaimIn(o)
      BY <1>4, DriverFacts
    <3> QED
      BY <1>4, <3>1 DEF Fits, CommitPCs, OwnerPCs, PublishPCs, SlotPCs
  <2>3. pc \in PCs /\ pc \notin OwnerPCs /\ thread[t].pc \notin OwnerPCs \cup {"persist"} \cup BystanderPCs
    BY <1>1, <1>4
  <2> QED
    BY <1>0, <1>4, <2>1, <2>2, <2>3, QuietMove
<1>5. CASE CommitSnapshot(t) \/ StoreTerminal(t) \/ StoreTerminalFails(t)
  BY <1>4, <1>5 DEF CommitSnapshot, StoreTerminal, StoreTerminalFails, CommitPCs
<1>6. CASE ApplyTerminal(t)
  <2>0. thread[t].pc = "apply" /\ "apply" \in CommitPCs /\ {"finalize", "commit_failed"} \subseteq CommitPCs
    BY <1>6 DEF ApplyTerminal, CommitPCs
  <2>1. CASE attempt' = attempt /\ Goto(t, At(t, "commit_failed"))
    BY <1>4, <2>0, <2>1
  <2>2. CASE attempt' = [attempt EXCEPT ![a].restartCommitted = TRUE] /\ Goto(t, At(t, "finalize"))
    <3> DEFINE s == [o EXCEPT !.restartCommitted = TRUE]
    <3>0. /\ o \in AttemptType /\ attempt \in [Attempts -> AttemptType] /\ o.committing
          /\ Fits(thread[t].pc, thread[t].out, o) /\ NoClaimIn(o) /\ Sound(o)
          /\ thread[t].pc \notin OwnerPCs \cup BystanderPCs
          /\ \A u \in Threads \ {t} : thread[u].att = a =>
                /\ thread[u].pc \in PCs
                /\ thread[u].pc # "idle" => Fits(thread[u].pc, thread[u].out, o)
      BY <2>0, DriverFacts
    <3>1. s \in AttemptType /\ attempt' = [attempt EXCEPT ![a] = s]
      BY <1>0, <2>2, <3>0 DEF AttemptType
    <3>2. /\ s.phase = o.phase /\ s.claim = o.claim /\ s.drain = o.drain
          /\ s.outcome = o.outcome /\ s.committing /\ s.persistErr = o.persistErr
      BY <3>0 DEF AttemptType
    <3> HIDE DEF s
    <3>3. Sound(s)
      BY <3>0, <3>2 DEF Sound, NoClaimIn, AllSucceeded
    <3>4. \A pc, out : Fits(pc, out, o) => Fits(pc, out, s)
      BY <3>0, <3>2 DEF Fits, NoClaimIn, AllSucceeded
    <3>5. Fits("finalize", thread[t].out, o)
      BY <2>0, <3>0 DEF Fits, CommitPCs, OwnerPCs, PublishPCs, SlotPCs
    <3>6. Becomes(t, a, "finalize", thread[t].out)
      BY <2>2, BecomesAt
    <3>7. \A u \in Threads \ {t} : thread[u].att = a /\ thread[u].pc # "idle" =>
            Fits(thread'[u].pc, thread[u].out, s)
      BY <3>0, <3>4, <3>6, FitsWoken DEF Becomes, Roused
    <3>8. "finalize" \in PCs /\ "finalize" \notin OwnerPCs
      BY <1>1, <2>0
    <3>9. Fits("finalize", thread[t].out, s)
      BY <3>4, <3>5
    <3> QED
      BY <1>0, <3>0, <3>1, <3>2, <3>3, <3>6, <3>7, <3>8, <3>9, CallMove
  <2> QED
    BY <1>6, <2>1, <2>2 DEF ApplyTerminal
<1>7. ASSUME thread[t].pc \in CommitPCs, BroadcastAnd(a, t, Idle),
             attempt' = [attempt EXCEPT ![a].committing = FALSE, ![a].persistErr = TRUE]
      PROVE  LifeInv'
  <2> DEFINE s == [o EXCEPT !.committing = FALSE, !.persistErr = TRUE]
  <2>0. /\ o \in AttemptType /\ attempt \in [Attempts -> AttemptType] /\ NoClaimIn(o)
        /\ Fits(thread[t].pc, thread[t].out, o)
    BY <1>7, DriverFacts
  <2>1. s \in AttemptType /\ attempt' = [attempt EXCEPT ![a] = s]
    BY <1>0, <1>7, <2>0 DEF AttemptType
  <2>2. s.phase = o.phase /\ s.claim = o.claim /\ s.persistErr
    BY <2>0 DEF AttemptType
  <2>3. NoClaimIn(s) /\ s.phase \in ClosingPhases
    BY <1>7, <2>0, <2>2 DEF NoClaimIn, Fits
  <2> HIDE DEF s
  <2> QED
    BY <1>7, <2>1, <2>2, <2>3, CommitEnds
<1>8. CASE CommitFails(t)
  BY <1>7, <1>8 DEF CommitFails, CommitPCs
<1>9. CASE Finalize(t)
  <2>1. thread[t].pc \in CommitPCs /\ BroadcastAnd(a, t, Idle)
    BY <1>9 DEF Finalize, CommitPCs
  <2>2. CASE attempt' = [attempt EXCEPT ![a].committing = FALSE, ![a].persistErr = TRUE]
    BY <1>7, <2>1, <2>2
  <2>3. CASE attempt' = [attempt EXCEPT ![a] = Finalized(@, thread[t].out)]
    <3> DEFINE s == Finalized(o, thread[t].out)
    <3>0. o \in AttemptType /\ attempt \in [Attempts -> AttemptType] /\ thread[t].out \in TerminalPhases
      BY <2>1, DriverFacts
    <3>1. s \in AttemptType
      BY ZenonT(60), <3>0 DEF AttemptType, Finalized, Unborn, TerminalPhases
    <3>2. s.phase = thread[t].out /\ NoClaimIn(s)
      BY DEF Finalized, Unborn, NoClaimIn
    <3>3. attempt' = [attempt EXCEPT ![a] = s]
      BY <1>0, <2>3, <3>0
    <3>4. s.phase \notin ClosingPhases
      BY <3>0, <3>2 DEF ClosingPhases, TerminalPhases
    <3> HIDE DEF s
    <3> QED
      BY <2>1, <3>0, <3>1, <3>2, <3>3, <3>4, CommitEnds
  <2> QED
    BY <1>9, <2>2, <2>3 DEF Finalize
<1> QED
  BY <1>2, <1>3, <1>5, <1>6, <1>8, <1>9 DEF Committing

LEMMA InitLife == Init => LifeInv
<1> SUFFICES ASSUME Init PROVE LifeInv
  OBVIOUS
<1>1. Sound(Unborn)
  BY DEF Sound, Unborn, NoClaimIn
<1>2. AttemptsSound
  BY <1>1 DEF Init, AttemptsSound
<1>3. \A t \in Threads : thread[t].pc = "idle"
  BY DEF Init, Idle
<1>4. \A a \in Attempts : attempt[a].phase = "unborn"
  BY DEF Init, Unborn
<1> QED
  BY <1>2, <1>3, <1>4 DEF LifeInv, CallsFit, OwnerAlone, Driven, OwnerPCs, PublishPCs, SlotPCs,
     ClosingPhases

LEMMA CrashLife == ASSUME Crash PROVE LifeInv'
<1>1. Sound(Unborn)
  BY DEF Sound, Unborn, NoClaimIn
<1>2. AttemptsSound'
  BY <1>1 DEF Crash, AttemptsSound
<1>3. \A t \in Threads : thread'[t].pc = "idle"
  BY DEF Crash, Idle
<1>4. \A a \in Attempts : attempt'[a].phase = "unborn"
  BY DEF Crash, Unborn
<1> QED
  BY <1>2, <1>3, <1>4 DEF LifeInv, CallsFit, OwnerAlone, Driven, OwnerPCs, PublishPCs, SlotPCs,
     ClosingPhases

LEMMA LifeStep == TypeInv /\ OneCommitDriver /\ LifeInv /\ [Next]_vars => LifeInv'
<1> SUFFICES ASSUME TypeInv, OneCommitDriver, LifeInv, [Next]_vars PROVE LifeInv'
  OBVIOUS
<1>1. CASE UNCHANGED vars
  BY <1>1 DEF vars, LifeInv, AttemptsSound, CallsFit, OwnerAlone, Driven
<1> QED
  BY <1>1, CommittingLife, CancellingLife, PublishingLife, CallingLife, HandlingLife, CrashLife
     DEF Next

-----------------------------------------------------------------------------
(* Keys and capacity                                                       *)

RetainedInv ==
    /\ KeysHeld
    /\ ledger.retainedClaims = ClaimCount * Cardinality(RetainedKeys)
    /\ ledger.retainedClaims <= MaxRetainedClaimEntries
    /\ Cardinality(RetainedKeys) <= MaxRetainedAttempts

(* No attempt is begun or finalized. *)
SameLives ==
    \A b \in Attempts :
        /\ attempt'[b].key = attempt[b].key
        /\ attempt'[b].phase \in LivePhases <=> attempt[b].phase \in LivePhases

SameRetained ==
    ledger'.attempts = ledger.attempts /\ ledger'.retainedClaims = ledger.retainedClaims

(* What keeps every attempt alive or ended keeps the retained capacity.    *)
LEMMA RetainedKept ==
    ASSUME TypeInv, RetainedInv, SameLives, SameRetained
    PROVE  RetainedInv'
<1>1. RetainedKeys' = RetainedKeys
  BY DEF SameRetained, RetainedKeys
<1>2. \A k \in Keys : ledger.attempts[k] \in Attempts \cup {NoAttempt}
  BY LedgerFacts DEF LedgerType
<1>3. KeysHeld'
  BY <1>2 DEF KeysHeld, SameLives, SameRetained, RetainedInv
<1> QED
  BY <1>1, <1>3 DEF RetainedInv, SameRetained

LEMMA OneLife ==
    ASSUME TypeInv, NEW a \in Attempts, NEW s, attempt' = [attempt EXCEPT ![a] = s],
           s.key = attempt[a].key, s.phase \in LivePhases <=> attempt[a].phase \in LivePhases
    PROVE  SameLives
  BY AttemptFacts DEF SameLives

LEMMA HandlingRetained ==
    ASSUME TypeInv, RetainedInv, NEW a \in Attempts, Handling(a),
           ~ \E k \in Keys, g \in Generations : Begin(a, k, g)
    PROVE  RetainedInv'
<1> USE DEF SameLives, AttemptType, LivePhases
<1>0. attempt \in [Attempts -> AttemptType] /\ attempt[a] \in AttemptType
  BY AttemptFacts
<1>1. ASSUME NEW o \in Ordinals, Issue(a, o) PROVE SameLives
  BY <1>0, <1>1 DEF Issue
<1>2. ASSUME NEW o \in Ordinals, ClaimStart(a, o) PROVE SameLives
  BY <1>0, <1>2 DEF ClaimStart
<1>3. ASSUME NEW o \in Ordinals, NEW outcome \in ProducerOutcomes, ClaimFinish(a, o, outcome)
      PROVE  SameLives
  BY <1>0, <1>3 DEF ClaimFinish
<1>4. ASSUME Admit(a) PROVE SameLives
  BY <1>0, <1>4 DEF Admit
<1>5. ASSUME Seal(a) PROVE SameLives
  BY <1>0, <1>5 DEF Seal
<1>6. SameLives
  BY <1>1, <1>2, <1>3, <1>4, <1>5 DEF Handling
<1>7. SameRetained
  BY DEF Handling, Issue, ClaimStart, ClaimFinish, Admit, Seal, SameRetained
<1> QED
  BY <1>6, <1>7, RetainedKept

LEMMA CancelPassLives ==
    ASSUME TypeInv, NEW t \in Threads, NEW a \in Attempts, NEW waited, CancelPass(t, a, waited)
    PROVE  SameLives
<1> USE DEF SameLives, AttemptType, LivePhases
<1>0. attempt \in [Attempts -> AttemptType] /\ attempt[a] \in AttemptType
  BY AttemptFacts
<1>1. ASSUME attempt' = attempt PROVE SameLives
  BY <1>1
<1>2. ASSUME CancelWaits(t, a) PROVE SameLives
  BY <1>0, <1>2 DEF CancelWaits
<1>3. ASSUME CancelWins(t, a) PROVE SameLives
  BY <1>0, <1>3 DEF CancelWins
<1> QED
  BY <1>1, <1>2, <1>3 DEF CancelPass, CancelReturns, CancelRetries

LEMMA CallingLives ==
    ASSUME TypeInv, NEW t \in Threads, NEW a \in Attempts, Calling(t, a)
    PROVE  SameLives
<1> USE DEF SameLives, AttemptType, LivePhases
<1>0. attempt \in [Attempts -> AttemptType] /\ attempt[a] \in AttemptType
  BY AttemptFacts
<1>1. ASSUME AdmitCloseFails(t, a) PROVE SameLives
  BY <1>0, <1>1 DEF AdmitCloseFails, Admissible
<1>2. ASSUME AdmitInvalid(t, a) PROVE SameLives
  BY <1>0, <1>2 DEF AdmitInvalid, Admissible
<1>3. ASSUME CancelCall(t, a) PROVE SameLives
  BY <1>3, CancelPassLives DEF CancelCall
<1>4. ASSUME PublishCall(t, a) PROVE SameLives
  BY <1>0, <1>4 DEF PublishCall
<1> QED
  BY <1>1, <1>2, <1>3, <1>4 DEF Calling

LEMMA CancellingLives ==
    ASSUME TypeInv, NEW t \in Threads, Cancelling(t)
    PROVE  SameLives
<1> USE DEF SameLives, AttemptType, LivePhases
<1> DEFINE a == thread[t].att
<1>0. /\ attempt \in [Attempts -> AttemptType]
      /\ \A b \in Attempts : attempt[b] \in AttemptType
  BY AttemptFacts DEF TypeInv, TypeOK
<1>1. ASSUME CancelWoken(t) PROVE SameLives
  BY <1>1, BusyFacts, CancelPassLives DEF CancelWoken
<1>2. ASSUME ClaimsWoken(t) PROVE SameLives
  BY <1>0, <1>2 DEF ClaimsWoken
<1>3. ASSUME CloseOpen(t) PROVE SameLives
  BY <1>0, <1>3 DEF CloseOpen
<1>4. ASSUME Drain(t) PROVE SameLives
  <2>1. PICK result \in {"complete", "failed"} : attempt' = [attempt EXCEPT ![a].drain = result]
    BY <1>4 DEF Drain
  <2> QED
    BY <1>0, <2>1
<1>5. ASSUME FinishCancellation(t) PROVE SameLives
  BY <1>0, <1>5 DEF FinishCancellation
<1> QED
  BY <1>1, <1>2, <1>3, <1>4, <1>5 DEF Cancelling

LEMMA PublishingLives ==
    ASSUME TypeInv, NEW t \in Threads,
           Publishing(t) \/ PublicationCallback(t) \/ LeaveQueueContext(t)
    PROVE  SameLives
<1> USE DEF SameLives, AttemptType, LivePhases
<1>0. /\ attempt \in [Attempts -> AttemptType]
      /\ \A b \in Attempts : attempt[b] \in AttemptType
  BY AttemptFacts DEF TypeInv, TypeOK
<1>1. ASSUME PublishDrain(t) PROVE SameLives
  BY <1>0, <1>1 DEF PublishDrain
<1>2. ASSUME ApplyPublication(t) PROVE SameLives
  BY <1>0, <1>2 DEF ApplyPublication
<1>3. ASSUME attempt' = attempt PROVE SameLives
  BY <1>3
<1> QED
  BY <1>1, <1>2, <1>3 DEF Publishing, PublicationCallback, LeaveQueueContext, TakeSlot,
     LeaveQueueAborted, Recheck, PublishSnapshot, StorePublication, StorePublicationFails

LEMMA CommittingLives ==
    ASSUME TypeInv, NEW t \in Threads, Committing(t),
           ~ (Finalize(t) /\ Finalizable(thread[t].att, thread[t].out))
    PROVE  SameLives
<1> USE DEF SameLives, AttemptType, LivePhases
<1>0. /\ attempt \in [Attempts -> AttemptType]
      /\ \A b \in Attempts : attempt[b] \in AttemptType
  BY AttemptFacts DEF TypeInv, TypeOK
<1>1. ASSUME Persist(t) PROVE SameLives
  BY <1>0, <1>1 DEF Persist
<1>2. ASSUME ApplyTerminal(t) PROVE SameLives
  BY <1>0, <1>2 DEF ApplyTerminal
<1>3. ASSUME CommitFails(t) PROVE SameLives
  BY <1>0, <1>3 DEF CommitFails
<1>4. ASSUME Finalize(t) PROVE SameLives
  BY <1>0, <1>4 DEF Finalize
<1>5. ASSUME attempt' = attempt PROVE SameLives
  BY <1>5
<1> QED
  BY <1>1, <1>2, <1>3, <1>4, <1>5 DEF Committing, JoinWoken, CommitSnapshot, StoreTerminal,
     StoreTerminalFails

(* Beginning an attempt takes a free key and its capacity with it.         *)
LEMMA BeginRetained ==
    ASSUME TypeInv, RetainedInv, NEW a \in Attempts, NEW k \in Keys, NEW g \in Generations,
           Begin(a, k, g)
    PROVE  RetainedInv'
<1>1. /\ attempt \in [Attempts -> AttemptType]
      /\ ledger.attempts \in [Keys -> Attempts \cup {NoAttempt}]
      /\ ledger.retainedClaims \in Int /\ ClaimCount \in Nat
  BY AttemptFacts, LedgerFacts DEF LedgerType
<1>2. /\ attempt[a].phase = "unborn" /\ ledger.attempts[k] = NoAttempt
      /\ Cardinality(RetainedKeys) < MaxRetainedAttempts
      /\ ledger.retainedClaims + ClaimCount <= MaxRetainedClaimEntries
  BY DEF Begin
<1>3. /\ attempt'[a].phase = "open" /\ attempt'[a].key = k
      /\ \A b \in Attempts \ {a} : attempt'[b] = attempt[b]
  BY <1>1 DEF Begin, Unborn
<1>4. /\ ledger'.attempts = [ledger.attempts EXCEPT ![k] = a]
      /\ ledger'.retainedClaims = ledger.retainedClaims + ClaimCount
  BY LedgerFacts DEF Begin, LedgerType
<1>5. KeysHeld'
  <2>1. \A b \in Attempts : attempt'[b].phase \in LivePhases =>
          attempt'[b].key \in Keys /\ ledger'.attempts[attempt'[b].key] = b
    BY <1>1, <1>2, <1>3, <1>4 DEF RetainedInv, KeysHeld, LivePhases
  <2>2. \A h \in Keys : ledger'.attempts[h] # NoAttempt =>
          /\ attempt'[ledger'.attempts[h]].phase \in LivePhases
          /\ attempt'[ledger'.attempts[h]].key = h
    BY <1>1, <1>2, <1>3, <1>4 DEF RetainedInv, KeysHeld, LivePhases
  <2> QED
    BY <2>1, <2>2 DEF KeysHeld
<1>6. RetainedKeys' = RetainedKeys \cup {k} /\ k \notin RetainedKeys
  BY <1>1, <1>2, <1>4 DEF RetainedKeys
<1>7. IsFiniteSet(RetainedKeys)
  BY FS_Subset DEF RetainedKeys
<1>8. Cardinality(RetainedKeys') = Cardinality(RetainedKeys) + 1 /\ Cardinality(RetainedKeys) \in Nat
  BY <1>6, <1>7, FS_AddElement, FS_CardinalityType
<1>9. ledger'.retainedClaims = ClaimCount * Cardinality(RetainedKeys')
  BY <1>1, <1>4, <1>8 DEF RetainedInv
<1> QED
  BY <1>1, <1>2, <1>4, <1>5, <1>8, <1>9 DEF RetainedInv

(* Finalizing an attempt gives back its key and its capacity.              *)
LEMMA FinalizeRetained ==
    ASSUME TypeInv, RetainedInv, NEW t \in Threads, Finalize(t),
           Finalizable(thread[t].att, thread[t].out)
    PROVE  RetainedInv'
<1> DEFINE a == thread[t].att
           k == attempt[a].key
<1>0. a \in Attempts /\ thread[t].out \in TerminalPhases
  BY BusyFacts DEF Finalize, OutcomePCs, CommitPCs
<1>1. /\ attempt \in [Attempts -> AttemptType]
      /\ ledger.attempts \in [Keys -> Attempts \cup {NoAttempt}]
      /\ ledger.retainedClaims \in Int /\ ClaimCount \in Nat
  BY <1>0, AttemptFacts, LedgerFacts DEF LedgerType
<1>2. k \in Keys /\ ledger.attempts[k] = a
  BY DEF Finalizable
<1>3. /\ attempt'[a].phase \notin LivePhases
      /\ \A b \in Attempts \ {a} : attempt'[b] = attempt[b]
  <2> DEFINE s == Finalized(attempt[a], thread[t].out)
  <2>1. attempt' = [attempt EXCEPT ![a] = s]
    BY DEF Finalize
  <2>2. s.phase \notin LivePhases
    BY <1>0 DEF Finalized, Unborn, TerminalPhases, LivePhases
  <2> HIDE DEF s
  <2> QED
    BY <1>0, <1>1, <2>1, <2>2
<1>4. /\ ledger'.attempts = [ledger.attempts EXCEPT ![k] = NoAttempt]
      /\ ledger'.retainedClaims = ledger.retainedClaims - ClaimCount
  BY LedgerFacts DEF Finalize, LedgerType
<1> HIDE DEF a, k
<1>5. KeysHeld'
  <2>0. \A h \in Keys : ledger.attempts[h] = a => h = k
    BY <1>0, <1>2 DEF RetainedInv, KeysHeld
  <2>1. \A b \in Attempts : attempt'[b].phase \in LivePhases =>
          attempt'[b].key \in Keys /\ ledger'.attempts[attempt'[b].key] = b
    BY <1>0, <1>1, <1>2, <1>3, <1>4 DEF RetainedInv, KeysHeld
  <2>2. \A h \in Keys : ledger'.attempts[h] # NoAttempt =>
          /\ attempt'[ledger'.attempts[h]].phase \in LivePhases
          /\ attempt'[ledger'.attempts[h]].key = h
    BY <1>0, <1>1, <1>2, <1>3, <1>4, <2>0 DEF RetainedInv, KeysHeld
  <2> QED
    BY <2>1, <2>2 DEF KeysHeld
<1>6. RetainedKeys' = RetainedKeys \ {k} /\ k \in RetainedKeys
  BY <1>0, <1>1, <1>2, <1>4 DEF RetainedKeys
<1>7. IsFiniteSet(RetainedKeys)
  BY FS_Subset DEF RetainedKeys
<1>8. Cardinality(RetainedKeys') = Cardinality(RetainedKeys) - 1 /\ Cardinality(RetainedKeys) \in Nat
  BY <1>6, <1>7, FS_RemoveElement, FS_CardinalityType
<1>9. ledger'.retainedClaims = ClaimCount * Cardinality(RetainedKeys')
  BY <1>1, <1>4, <1>8 DEF RetainedInv
<1> QED
  BY <1>1, <1>4, <1>5, <1>8, <1>9 DEF RetainedInv

(* A new process retains nothing. *)
LEMMA FreshRetained ==
    ASSUME NEW led, NEW att,
           led.attempts = [k \in Keys |-> NoAttempt], led.retainedClaims = 0,
           att = [a \in Attempts |-> Unborn]
    PROVE  /\ \A a \in Attempts : att[a].phase \notin LivePhases
           /\ \A k \in Keys : led.attempts[k] = NoAttempt
           /\ {k \in Keys : led.attempts[k] # NoAttempt} = {}
           /\ led.retainedClaims = ClaimCount * Cardinality({})
           /\ led.retainedClaims <= MaxRetainedClaimEntries
           /\ Cardinality({}) <= MaxRetainedAttempts
  BY FS_EmptySet DEF Unborn, LivePhases

LEMMA InitRetained == Init => RetainedInv
<1> SUFFICES ASSUME Init PROVE RetainedInv
  OBVIOUS
<1>1. /\ ledger.attempts = [k \in Keys |-> NoAttempt] /\ ledger.retainedClaims = 0
      /\ attempt = [a \in Attempts |-> Unborn]
  BY DEF Init, NewLedger
<1>2. /\ \A a \in Attempts : attempt[a].phase \notin LivePhases
      /\ \A k \in Keys : ledger.attempts[k] = NoAttempt
      /\ RetainedKeys = {}
      /\ ledger.retainedClaims = ClaimCount * Cardinality({})
      /\ ledger.retainedClaims <= MaxRetainedClaimEntries
      /\ Cardinality({}) <= MaxRetainedAttempts
  BY <1>1, FreshRetained DEF RetainedKeys
<1> QED
  BY <1>2 DEF RetainedInv, KeysHeld

LEMMA CrashRetained == ASSUME Crash PROVE RetainedInv'
<1>1. /\ ledger'.attempts = [k \in Keys |-> NoAttempt] /\ ledger'.retainedClaims = 0
      /\ attempt' = [a \in Attempts |-> Unborn]
  BY DEF Crash, NewLedger
<1>2. /\ \A a \in Attempts : attempt'[a].phase \notin LivePhases
      /\ \A k \in Keys : ledger'.attempts[k] = NoAttempt
      /\ RetainedKeys' = {}
      /\ ledger'.retainedClaims = ClaimCount * Cardinality({})
      /\ ledger'.retainedClaims <= MaxRetainedClaimEntries
      /\ Cardinality({}) <= MaxRetainedAttempts
  BY <1>1, FreshRetained DEF RetainedKeys
<1> QED
  BY <1>2 DEF RetainedInv, KeysHeld

LEMMA ThreadStepRetained ==
    ASSUME TypeInv, NEW t \in Threads, ThreadStep(t),
           ~ (Finalize(t) /\ Finalizable(thread[t].att, thread[t].out))
    PROVE  SameRetained
<1>0. ledger \in LedgerType
  BY LedgerFacts
<1> USE DEF SameRetained
<1>1. ASSUME Release PROVE SameRetained
  BY <1>0, <1>1 DEF Release, LedgerType
<1>2. ASSUME TakeSlot(t) PROVE SameRetained
  BY <1>0, <1>2 DEF TakeSlot, LedgerType
<1>3. ASSUME ApplyTerminal(t) PROVE SameRetained
  BY <1>0, <1>3 DEF ApplyTerminal, LedgerType
<1>4. ASSUME ApplyPublication(t) PROVE SameRetained
  BY <1>0, <1>1, <1>4 DEF ApplyPublication, LedgerType
<1>5. ASSUME ledger' = ledger PROVE SameRetained
  BY <1>5
<1>6. ASSUME Committing(t) PROVE SameRetained
  BY <1>3, <1>5, <1>6 DEF Committing, Persist, JoinWoken, CommitSnapshot, StoreTerminal,
     StoreTerminalFails, CommitFails, Finalize
<1>7. ASSUME Cancelling(t) \/ \E a \in Attempts : Calling(t, a) PROVE SameRetained
  BY <1>5, <1>7 DEF Cancelling, CancelWoken, CancelPass, ClaimsWoken, CloseOpen, Drain,
     FinishCancellation, Calling, AdmitCloseFails, AdmitInvalid, CancelCall, PublishCall
<1>8. ASSUME Publishing(t) \/ PublicationCallback(t) \/ LeaveQueueContext(t) PROVE SameRetained
  BY <1>1, <1>2, <1>4, <1>5, <1>8 DEF Publishing, PublishDrain, LeaveQueueAborted, Recheck,
     PublishSnapshot, PublicationCallback, StorePublication, StorePublicationFails,
     LeaveQueueContext
<1> QED
  BY <1>6, <1>7, <1>8 DEF ThreadStep

LEMMA RetainedStep == TypeInv /\ RetainedInv /\ [Next]_vars => RetainedInv'
<1> SUFFICES ASSUME TypeInv, RetainedInv, [Next]_vars PROVE RetainedInv'
  OBVIOUS
<1>1. CASE UNCHANGED vars
  BY <1>1, RetainedKept DEF vars, SameLives, SameRetained
<1>2. ASSUME NEW t \in Threads, ThreadStep(t) PROVE RetainedInv'
  <2>1. CASE Finalize(t) /\ Finalizable(thread[t].att, thread[t].out)
    BY <2>1, FinalizeRetained
  <2>2. CASE ~ (Finalize(t) /\ Finalizable(thread[t].att, thread[t].out))
    <3>1. SameLives
      BY <1>2, <2>2, CommittingLives, CancellingLives, PublishingLives, CallingLives
         DEF ThreadStep
    <3> QED
      BY <1>2, <2>2, <3>1, ThreadStepRetained, RetainedKept
  <2> QED
    BY <2>1, <2>2
<1>3. ASSUME NEW a \in Attempts, Handling(a) PROVE RetainedInv'
  BY <1>3, BeginRetained, HandlingRetained
<1> QED
  BY <1>1, <1>2, <1>3, CrashRetained DEF Next, ThreadStep

-----------------------------------------------------------------------------
(* The attempt invariants                                                  *)

(* Whoever waits on an attempt has a claim in flight to wait for, or its   *)
(* driver or owner awake.                                                  *)
LEMMA WaiterHasWaker ==
    ASSUME TypeInv, OneCommitDriver, LifeInv, NEW t \in Threads
    PROVE  LET a == thread[t].att IN
           /\ thread[t].pc = "claims_wait" => InProgress(a) # {}
           /\ thread[t].pc \in WaitingPCs =>
                 \/ InProgress(a) # {}
                 \/ \E u \in Threads : thread[u].att = a /\ thread[u].pc \notin WaitingPCs
<1> DEFINE a == thread[t].att
<1> SUFFICES ASSUME thread[t].pc \in WaitingPCs
             PROVE  /\ thread[t].pc = "claims_wait" => InProgress(a) # {}
                    /\ \/ InProgress(a) # {}
                       \/ \E u \in Threads : thread[u].att = a /\ thread[u].pc \notin WaitingPCs
  BY DEF WaitingPCs
<1>1. thread[t].pc # "idle" /\ a \in Attempts
  BY BusyFacts DEF WaitingPCs
<1>2. Fits(thread[t].pc, thread[t].out, attempt[a])
  BY <1>1, LifeFacts
<1>3. InProgress(a) = {} <=> NoClaimIn(attempt[a])
  BY <1>1, InProgressIs
<1>4. ASSUME attempt[a].committing
      PROVE  \E u \in Threads : thread[u].att = a /\ thread[u].pc \notin WaitingPCs
  BY <1>1, <1>4 DEF OneCommitDriver, Committers, CommitPCs, WaitingPCs
<1>5. CASE thread[t].pc = "claims_wait"
  BY <1>2, <1>3, <1>5 DEF Fits
<1>6. CASE thread[t].pc = "join_wait"
  BY <1>2, <1>4, <1>6 DEF Fits
<1>7. CASE thread[t].pc = "cancel_wait" /\ InProgress(a) = {}
  <2>1. attempt[a].phase \in ClosingPhases /\ ~attempt[a].persistErr
    BY <1>2, <1>7 DEF Fits
  <2>2. CASE attempt[a].committing
    BY <1>4, <1>7, <2>2
  <2>3. CASE ~attempt[a].committing
    <3>1. PICK u \in Threads : thread[u].att = a /\ thread[u].pc \in OwnerPCs \cup {"persist"}
      BY <1>1, <2>1, <2>3 DEF LifeInv, Driven
    <3>2. thread[u].pc # "claims_wait"
      BY <1>1, <1>3, <1>7, <3>1, LifeFacts DEF Fits
    <3> QED
      BY <1>7, <3>1, <3>2 DEF OwnerPCs, PublishPCs, SlotPCs, WaitingPCs
  <2> QED
    BY <2>2, <2>3
<1> QED
  BY <1>5, <1>6, <1>7 DEF WaitingPCs

LEMMA LifeGivesAttemptInv ==
    TypeInv /\ OneCommitDriver /\ LifeInv /\ RetainedInv => AttemptInv
<1> SUFFICES ASSUME TypeInv, OneCommitDriver, LifeInv, RetainedInv PROVE AttemptInv
  OBVIOUS
<1>1. NoStrandedWaiter
  BY WaiterHasWaker DEF NoStrandedWaiter
<1>2. ClaimsDrainedFirst
  BY LifeFacts, InProgressIs DEF ClaimsDrainedFirst, Sound
<1>3. FinalizeNeverRefused
  <2> SUFFICES ASSUME NEW t \in Threads, thread[t].pc = "finalize"
               PROVE  Finalizable(thread[t].att, thread[t].out)
    BY DEF FinalizeNeverRefused
  <2> DEFINE a == thread[t].att
  <2>1. a \in Attempts /\ NoClaimIn(attempt[a]) /\ attempt[a].committing
        /\ Fits(thread[t].pc, thread[t].out, attempt[a])
    BY DriverFacts DEF CommitPCs
  <2>2. attempt[a].phase \in ClosingPhases /\ attempt[a].outcome = thread[t].out
    BY <2>1 DEF Fits, CommitPCs
  <2>3. attempt[a].key \in Keys /\ ledger.attempts[attempt[a].key] = a
    BY <2>1, <2>2 DEF RetainedInv, KeysHeld, ClosingPhases, LivePhases
  <2> QED
    BY <2>1, <2>2, <2>3, InProgressIs DEF Finalizable, ClosingPhases
<1>4. CapacityAccounted
  <2>1. \A a \in Attempts :
          attempt[a].phase \in LivePhases <=> \E k \in Keys : ledger.attempts[k] = a
    BY DEF RetainedInv, KeysHeld
  <2> QED
    BY <2>1 DEF RetainedInv, CapacityAccounted
<1> QED
  BY <1>1, <1>2, <1>3, <1>4 DEF AttemptInv

LedgerInv == TypeInv /\ OneCommitDriver /\ LifeInv /\ RetainedInv

LEMMA LedgerInvariant == Spec => []LedgerInv
<1>1. Init => LedgerInv
  <2>1. Init => OneCommitDriver
    BY DEF Init, Unborn, Idle, OneCommitDriver, Committers, CommitPCs
  <2> QED
    BY <2>1, InitTyped, InitLife, InitRetained DEF LedgerInv
<1>2. LedgerInv /\ [Next]_vars => LedgerInv'
  BY StepTyped, OneCommitDriverStep, LifeStep, RetainedStep DEF LedgerInv
<1> QED
  BY <1>1, <1>2, PTL DEF Spec

(* At every step of every number of goroutines: nobody sleeps on an        *)
(* attempt without somebody left to wake him, no claim is in flight once   *)
(* the source is drained or an outcome persisted, finalizeTerminalAttempt  *)
(* never refuses what was durably decided, and the retained capacity is    *)
(* exactly that of the attempts still alive, within its limits.            *)
THEOREM AttemptsLiveRight == Spec => []AttemptInv
<1>1. LedgerInv => AttemptInv
  BY LifeGivesAttemptInv DEF LedgerInv
<1> QED
  BY <1>1, LedgerInvariant, PTL

(* The committer's store gets an external effect only by CommitPublication *)
(* of an attempt that is publishing, drained, with every claim succeeded.  *)
LEMMA EffectStep ==
    ASSUME LedgerInv, [Next]_vars, store'.effects # store.effects
    PROVE  \E a \in Attempts :
              /\ attempt[a].seq = store'.effects[Len(store'.effects)].seq
              /\ attempt[a].phase = "publishing"
              /\ attempt[a].drain = "complete"
              /\ AllClaimed(a)
<1>1. PICK t \in Threads : StorePublication(t)
  <2>1. store \in StoreType
    BY LedgerFacts DEF LedgerInv
  <2>2. ASSUME NEW t \in Threads, StoreTerminal(t) PROVE FALSE
    BY <2>1, <2>2 DEF StoreTerminal, StoreType
  <2>3. store' # store
    OBVIOUS
  <2>4. CASE UNCHANGED vars
    BY <2>3, <2>4 DEF vars
  <2>5. CASE Crash \/ \E a \in Attempts : Handling(a)
    BY <2>3, <2>5 DEF Crash, Handling, Begin, Issue, ClaimStart, ClaimFinish, Admit, Seal
  <2>6. ASSUME NEW t \in Threads, Cancelling(t) \/ \E a \in Attempts : Calling(t, a)
        PROVE  FALSE
    BY <2>3, <2>6 DEF Cancelling, CancelWoken, CancelPass, ClaimsWoken, CloseOpen, Drain,
       FinishCancellation, Calling, AdmitCloseFails, AdmitInvalid, CancelCall, PublishCall
  <2>7. ASSUME NEW t \in Threads, Committing(t) PROVE FALSE
    BY <2>2, <2>3, <2>7 DEF Committing, Persist, JoinWoken, CommitSnapshot, StoreTerminalFails,
       ApplyTerminal, CommitFails, Finalize
  <2>8. ASSUME NEW t \in Threads, Publishing(t) \/ StorePublicationFails(t) \/ LeaveQueueContext(t)
        PROVE  FALSE
    BY <2>3, <2>8 DEF Publishing, PublishDrain, TakeSlot, LeaveQueueAborted, Recheck,
       PublishSnapshot, ApplyPublication, StorePublicationFails, LeaveQueueContext
  <2> QED
    BY <2>4, <2>5, <2>6, <2>7, <2>8 DEF Next, PublicationCallback
<1> DEFINE a == thread[t].att
<1>2. thread[t].pc = "publish_store"
  BY <1>1 DEF StorePublication
<1>3. a \in Attempts /\ Fits("publish_store", thread[t].out, attempt[a])
  BY <1>2, BusyFacts, LifeFacts DEF LedgerInv
<1>4. attempt[a].phase = "publishing" /\ attempt[a].drain = "complete" /\ AllClaimed(a)
  BY <1>3, InProgressIs DEF Fits, PublishPCs, SlotPCs
<1>5. store'.effects[Len(store'.effects)].seq = attempt[a].seq
  <2>1. store.effects \in Seq([id : Nat, gen : Nat, seq : Nat])
    BY LedgerFacts DEF LedgerInv, StoreType
  <2> DEFINE e == [id |-> thread[t].req.revision + 1, gen |-> attempt[a].gen, seq |-> attempt[a].seq]
  <2>2. store'.effects = Append(store.effects, e) /\ e.seq = attempt[a].seq
    BY <1>1, LedgerFacts DEF StorePublication, LedgerInv, StoreType
  <2>3. e \in [id : Nat, gen : Nat, seq : Nat]
    BY <1>2, <1>3, BusyFacts DEF LedgerInv, RequestType, AttemptType
  <2> HIDE DEF e
  <2> QED
    BY <2>1, <2>2, <2>3
<1> QED
  BY <1>3, <1>4, <1>5

(* Nothing is published outside the process but an attempt that won the    *)
(* race against Cancel, drained its source and had every claim succeed.    *)
THEOREM OnlyDrainedSuccessIsPublished == Spec => EffectFromDrainedSuccess
<1>1. LedgerInv /\ [Next]_vars =>
        [store.effects' # store.effects =>
            \E a \in Attempts :
                /\ attempt[a].seq = store.effects'[Len(store.effects')].seq
                /\ attempt[a].phase = "publishing"
                /\ attempt[a].drain = "complete"
                /\ AllClaimed(a)]_vars
  BY EffectStep
<1> QED
  BY <1>1, LedgerInvariant, PTL DEF Spec, EffectFromDrainedSuccess
====
