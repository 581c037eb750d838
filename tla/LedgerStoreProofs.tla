-------------------------- MODULE LedgerStoreProofs --------------------------
(***************************************************************************)
(* Theorems about what the runtime ledger leaves in the committer's store, *)
(* for every number of attempts, keys, goroutines, claims and crashes,     *)
(* every limit and every integer width: a terminal phase is visible only   *)
(* once it is durable, no terminal sequence is used twice, and the durable *)
(* record is the one DurableRecord promises.                               *)
(***************************************************************************)
EXTENDS LedgerAttemptProofs

USE RuntimeLedgerAssumption, LedgerRestartAssumption

-----------------------------------------------------------------------------
(* The inductive invariant                                                 *)

(* Steps at which nothing of the attempt's terminal commit is applied.     *)
DecidingPCs == {"commit", "store", "apply", "commit_failed"}
RecordPCs == {"store", "publish_store"}

(* The attempt has a decision of this process in the store.                *)
Decided(a) == \E d \in store.decisions : d.life = crashes /\ d.att = a

(* A state s of an attempt and what the store says of it.                  *)
Committed(a) ==
    LET s == attempt[a] IN
    /\ s.restartCommitted => s.phase \in ClosingPhases
    /\ s.restartCommitted /\ s.persistErr => s.committing
    /\ s.phase \in {"open", "sealed"} => ~Decided(a)
    /\ s.phase \in LivePhases => s.gen \in Generations
    /\ s.phase \in TerminalPhases => Decision(a, s.phase) \in store.decisions

(* What a call at step pc of attempt a, about to persist out by request    *)
(* req, knows of the store.                                                *)
Knows(pc, out, req, a) ==
    /\ pc \in OwnerPCs \cup DecidingPCs => ~attempt[a].restartCommitted
    /\ pc \in OwnerPCs \ {"publish_apply"} => ~Decided(a)
    /\ pc = "persist" /\ attempt[a].restartCommitted /\ ~attempt[a].committing =>
          Decision(a, out) \in store.decisions
    /\ pc \in {"apply", "finalize"} => Decision(a, out) \in store.decisions
    /\ pc = "publish_apply" => Decision(a, "published") \in store.decisions
    /\ pc \in RecordPCs => attempt[a].seq + ClaimCount <= EndSequence(req.target)
    /\ pc = "publish_store" => attempt[a].gen > req.gen

AttemptsCommitted == \A a \in Attempts : Committed(a)

CallsKnow ==
    \A t \in Threads : thread[t].pc # "idle" =>
        Knows(thread[t].pc, thread[t].out, thread[t].req, thread[t].att)

(* The watermark of the process is ahead of every record's.                *)
Reserved == EndSequence(ledger)

Behind(r) == (r.exhausted <=> r.next = 0) /\ EndSequence(r) <= Reserved

Ordered(req) == Behind(req.target) /\ EndSequence(req.expected) <= EndSequence(req.target)

WatermarksOrdered ==
    /\ Behind(store.restart) /\ Behind(ledger.durable)
    /\ \A t \in Threads : Ordered(thread[t].req)

Begun(a) == attempt[a].phase # "unborn"

(* Every attempt of the process has sequences of its own, all reserved.    *)
SequencesOwned ==
    /\ \A a \in Attempts : Begun(a) =>
          1 <= attempt[a].seq /\ attempt[a].seq + ClaimCount <= Reserved
    /\ \A a, b \in Attempts : Begun(a) /\ Begun(b) /\ attempt[a].seq = attempt[b].seq => a = b

(* A decision of this process names its attempt; one of an earlier process *)
(* lies before every sequence of this one.                                 *)
Placed(d) ==
    /\ d.life <= crashes
    /\ d.seq + ClaimCount <= EndSequence(store.restart)
    /\ d.life = crashes => Begun(d.att) /\ attempt[d.att].seq = d.seq
    /\ d.life < crashes => \A a \in Attempts : Begun(a) => d.seq < attempt[a].seq

DecisionsPlaced == (\A d \in store.decisions : Placed(d)) /\ SequenceNeverReused

LastEffectGen == IF store.effects = <<>> THEN 0 ELSE store.effects[Len(store.effects)].gen

EffectsDecided ==
    /\ store.revision = Len(store.effects)
    /\ store.gen = LastEffectGen
    /\ \A i \in 1 .. Len(store.effects) :
          \E d \in store.decisions : d.seq = store.effects[i].seq

RecordInv ==
    /\ AttemptsCommitted /\ CallsKnow /\ WatermarksOrdered
    /\ SequencesOwned /\ DecisionsPlaced /\ EffectsDecided

-----------------------------------------------------------------------------
(* Sequences and restart records                                           *)

LEMMA EndInWidth ==
    ASSUME NEW r, r.next \in 0 .. MaxUint64, r.exhausted \in BOOLEAN, r.exhausted <=> r.next = 0
    PROVE  EndSequence(r) \in 0 .. MaxUint64
  BY DEF EndSequence

LEMMA RecordEnds == \A r \in RestartType : EndSequence(r) \in Int
  BY DEF EndSequence, RestartType

LEMMA ReservedInWidth == TypeInv => Reserved \in 0 .. MaxUint64
  BY LedgerFacts, EndInWidth DEF LedgerType, Reserved

(* A record that covers another ends no earlier.                           *)
LEMMA CoveringEnds ==
    ASSUME NEW r \in RestartType, NEW p \in RestartType, Covers(r, p)
    PROVE  EndSequence(p) <= EndSequence(r)
  BY DEF Covers, EndSequence, RestartType

LEMMA JoinedEnds ==
    ASSUME TypeInv, WatermarksOrdered, NEW req \in RequestType, Ordered(req), Accepts(req)
    PROVE  /\ Joined(req.target) \in {store.restart, req.target}
           /\ EndSequence(store.restart) <= EndSequence(Joined(req.target))
           /\ EndSequence(req.target) <= EndSequence(Joined(req.target))
<1>1. store.restart \in RestartType /\ req.target \in RestartType
  BY LedgerFacts DEF StoreType, RequestType
<1>2. EndSequence(store.restart) \in Int /\ EndSequence(req.target) \in Int
  BY <1>1 DEF EndSequence, RestartType
<1>3. CASE Covers(store.restart, req.target)
  BY <1>1, <1>2, <1>3, CoveringEnds DEF Joined
<1>4. CASE ~Covers(store.restart, req.target)
  BY <1>2, <1>4 DEF Joined, Accepts, Ordered
<1> QED
  BY <1>3, <1>4

LEMMA NoRequestOrdered == TypeInv => Ordered(NoRequest)
<1> SUFFICES ASSUME TypeInv PROVE Ordered(NoRequest)
  OBVIOUS
<1>1. EndSequence(InitialRestart) = 0 /\ (InitialRestart.exhausted <=> InitialRestart.next = 0)
  BY DEF EndSequence, InitialRestart
<1> QED
  BY <1>1, ReservedInWidth DEF Ordered, Behind, NoRequest

(* What a terminal decision asks the committer to store ends at the last   *)
(* sequence the process has reserved.                                      *)
LEMMA TargetEnds ==
    ASSUME TypeInv, NEW a \in Attempts, NEW out
    PROVE  /\ TargetFor(a, out).exhausted <=> TargetFor(a, out).next = 0
           /\ EndSequence(TargetFor(a, out)) = Reserved
<1>1. TargetFor(a, out).next = ledger.next /\ TargetFor(a, out).exhausted = ledger.exhausted
  BY DEF TargetFor, TerminalRestart
<1> QED
  BY <1>1, LedgerFacts DEF EndSequence, Reserved

-----------------------------------------------------------------------------
(* Steps of goroutines, with their requests                                *)

(* Goroutine u at most lives through a broadcast.                          *)
Waits(u) == Roused(u) /\ thread'[u].req = thread[u].req

StepsTo(t, a, pc, out, req) ==
    /\ thread'[t].att = a /\ thread'[t].pc = pc /\ thread'[t].out = out /\ thread'[t].req = req
    /\ \A u \in Threads \ {t} : Waits(u)

LEMMA OthersWait ==
    ASSUME TypeInv, NEW t \in Threads, NEW call,
           Goto(t, call) \/ \E a \in Attempts : BroadcastAnd(a, t, call)
    PROVE  thread'[t] = call /\ \A u \in Threads \ {t} : Waits(u)
<1>1. thread'[t] = call /\ \A u \in Threads \ {t} : Roused(u)
  BY RousedByGoto
<1>2. thread \in [Threads -> ThreadType]
  BY DEF TypeInv, TypeOK
<1>3. ASSUME NEW u \in Threads \ {t} PROVE thread'[u].req = thread[u].req
  <2>1. CASE Goto(t, call)
    BY <1>2, <1>3, <2>1 DEF Goto
  <2>2. ASSUME NEW a \in Attempts, BroadcastAnd(a, t, call) PROVE thread'[u].req = thread[u].req
    <3>1. thread'[u] = Awake(a)[u]
      BY <1>3, <2>2 DEF BroadcastAnd, Awake
    <3>2. PICK pc \in PCs : Awake(a)[u] = [thread[u] EXCEPT !.pc = pc]
      BY <1>3, AwakeTyped
    <3> QED
      BY <1>2, <1>3, <3>1, <3>2 DEF ThreadType
  <2> QED
    BY <2>1, <2>2
<1> QED
  BY <1>1, <1>3 DEF Waits

LEMMA StepsAt ==
    ASSUME TypeInv, NEW t \in Threads, NEW pc, Goto(t, At(t, pc))
    PROVE  StepsTo(t, thread[t].att, pc, thread[t].out, thread[t].req)
<1>1. /\ At(t, pc).pc = pc /\ At(t, pc).att = thread[t].att
      /\ At(t, pc).out = thread[t].out /\ At(t, pc).req = thread[t].req
  BY CallFacts DEF At, ThreadType
<1> QED
  BY <1>1, OthersWait DEF StepsTo

LEMMA StepsAsking ==
    ASSUME TypeInv, NEW t \in Threads, NEW pc, NEW req, Goto(t, [At(t, pc) EXCEPT !.req = req])
    PROVE  StepsTo(t, thread[t].att, pc, thread[t].out, req)
<1> DEFINE call == [At(t, pc) EXCEPT !.req = req]
<1>1. call.pc = pc /\ call.att = thread[t].att /\ call.out = thread[t].out /\ call.req = req
  BY CallFacts DEF At, ThreadType
<1>2. Goto(t, call)
  OBVIOUS
<1> HIDE DEF call
<1> QED
  BY <1>1, <1>2, OthersWait DEF StepsTo

LEMMA StepsCall ==
    ASSUME TypeInv, NEW t \in Threads, NEW a, NEW pc, NEW out,
           \/ Goto(t, Call(a, pc, out))
           \/ \E waited : Goto(t, [Call(a, pc, out) EXCEPT !.waited = waited])
    PROVE  StepsTo(t, a, pc, out, NoRequest)
<1>1. CASE Goto(t, Call(a, pc, out))
  <2>1. /\ Call(a, pc, out).pc = pc /\ Call(a, pc, out).att = a
        /\ Call(a, pc, out).out = out /\ Call(a, pc, out).req = NoRequest
    BY DEF Call, Idle
  <2> QED
    BY <1>1, <2>1, OthersWait DEF StepsTo
<1>2. ASSUME NEW waited, Goto(t, [Call(a, pc, out) EXCEPT !.waited = waited])
      PROVE  StepsTo(t, a, pc, out, NoRequest)
  <2> DEFINE call == [Call(a, pc, out) EXCEPT !.waited = waited]
  <2>1. call.pc = pc /\ call.att = a /\ call.out = out /\ call.req = NoRequest
    BY DEF Call, Idle
  <2>2. Goto(t, call)
    BY <1>2
  <2> HIDE DEF call
  <2> QED
    BY <2>1, <2>2, OthersWait DEF StepsTo
<1> QED
  BY <1>1, <1>2

LEMMA StepsHome ==
    ASSUME TypeInv, NEW t \in Threads,
           Return(t) \/ \E a \in Attempts : BroadcastAnd(a, t, Idle)
    PROVE  StepsTo(t, NoAttempt, "idle", "none", NoRequest)
<1>1. Idle.pc = "idle" /\ Idle.att = NoAttempt /\ Idle.out = "none" /\ Idle.req = NoRequest
  BY DEF Idle
<1> QED
  BY <1>1, OthersWait DEF StepsTo, Return

-----------------------------------------------------------------------------
(* What a step keeps                                                       *)

Knowing(u) ==
    thread[u].pc # "idle" => Knows(thread[u].pc, thread[u].out, thread[u].req, thread[u].att)

SameRecord ==
    /\ UNCHANGED <<store, crashes>>
    /\ ledger'.next = ledger.next /\ ledger'.exhausted = ledger.exhausted
    /\ ledger'.durable = ledger.durable

(* Attempt b at most closes, and nothing of its terminal commit changes.   *)
Steady(b) ==
    /\ attempt'[b].seq = attempt[b].seq /\ attempt'[b].gen = attempt[b].gen
    /\ attempt'[b].restartCommitted = attempt[b].restartCommitted
    /\ attempt'[b].persistErr = attempt[b].persistErr
    /\ attempt'[b].committing = attempt[b].committing
    /\ \/ attempt'[b].phase = attempt[b].phase
       \/ /\ attempt[b].phase \in {"open", "sealed"}
          /\ attempt'[b].phase \in {"sealed", "cancelling", "publishing"}

(* What goroutine u knows stays true when its attempt's terminal commit    *)
(* moves on without it.                                                    *)
LEMMA KnowledgeKept ==
    ASSUME TypeInv, NEW u \in Threads, thread[u].pc # "idle", Knowing(u), Waits(u),
           NEW b, b = thread[u].att,
           store.decisions \subseteq store'.decisions, crashes' = crashes,
           attempt'[b].seq = attempt[b].seq,
           thread[u].pc = "publish_store" => attempt'[b].gen = attempt[b].gen,
           thread[u].pc \in OwnerPCs \cup DecidingPCs => ~attempt'[b].restartCommitted,
           thread[u].pc \in OwnerPCs \ {"publish_apply"} => ~Decided(b)',
           thread[u].pc = "persist" /\ attempt'[b].restartCommitted /\ ~attempt'[b].committing =>
              attempt[b].restartCommitted /\ ~attempt[b].committing
    PROVE  Knowing(u)'
<1>0. PICK pc, out, req, q :
        pc = thread[u].pc /\ out = thread[u].out /\ req = thread[u].req /\ q = thread'[u].pc
  OBVIOUS
<1>1. /\ pc \in PCs /\ q \in {pc, Woken(pc)} /\ thread'[u].att = b
      /\ thread'[u].out = out /\ thread'[u].req = req
  BY <1>0, CallFacts DEF Waits, Roused, ThreadType
<1>2. /\ q \in OwnerPCs <=> pc \in OwnerPCs
      /\ q # "idle"
      /\ q \in DecidingPCs <=> pc \in DecidingPCs
      /\ q \in RecordPCs <=> pc \in RecordPCs
      /\ q \in {"apply", "finalize"} <=> pc \in {"apply", "finalize"}
      /\ q = "persist" <=> pc = "persist"
      /\ q = "publish_apply" <=> pc = "publish_apply"
      /\ q = "publish_store" <=> pc = "publish_store"
  BY <1>0, <1>1 DEF Woken, PCs, OwnerPCs, PublishPCs, SlotPCs, DecidingPCs, RecordPCs
<1>3. \A outcome : Decision(b, outcome)' = Decision(b, outcome)
  BY DEF Decision
<1>4. Knows(pc, out, req, b)
  BY <1>0 DEF Knowing
<1>5. Knows(q, out, req, b)'
  BY <1>0, <1>1, <1>2, <1>3, <1>4 DEF Knows
<1> QED
  BY <1>0, <1>1, <1>5 DEF Knowing

LEMMA KnowsFacts ==
    ASSUME TypeInv, RecordInv, NEW t \in Threads, thread[t].pc # "idle"
    PROVE  /\ Knowing(t)
           /\ Knows(thread[t].pc, thread[t].out, thread[t].req, thread[t].att)
           /\ Ordered(thread[t].req)
  BY DEF RecordInv, CallsKnow, Knowing, WatermarksOrdered

(* A step that neither decides nor applies a decision.                     *)
LEMMA SteadyStep ==
    ASSUME TypeInv, RecordInv, SameRecord, \A b \in Attempts : Steady(b),
           \A u \in Threads : Waits(u) \/ (Knowing(u)' /\ Ordered(thread'[u].req))
    PROVE  RecordInv'
<1>1. /\ \A b : Decided(b)' <=> Decided(b)
      /\ Reserved' = Reserved
      /\ \A b \in Attempts : \A out : Decision(b, out)' = Decision(b, out)
  BY DEF SameRecord, Steady, Decided, Reserved, EndSequence, Decision
<1>2. AttemptsCommitted'
  <2> SUFFICES ASSUME NEW b \in Attempts PROVE Committed(b)'
    BY DEF AttemptsCommitted
  <2>1. Committed(b) /\ Steady(b)
    BY DEF RecordInv, AttemptsCommitted
  <2>2. CASE attempt'[b].phase = attempt[b].phase
    BY <1>1, <2>1, <2>2 DEF Committed, Steady, SameRecord
  <2>3. CASE attempt[b].phase \in {"open", "sealed"}
             /\ attempt'[b].phase \in {"sealed", "cancelling", "publishing"}
    BY <1>1, <2>1, <2>3 DEF Committed, Steady, SameRecord, ClosingPhases, LivePhases, TerminalPhases
  <2> QED
    BY <2>1, <2>2, <2>3 DEF Steady
<1>3. ASSUME NEW u \in Threads, Waits(u), thread'[u].pc # "idle" PROVE Knowing(u)'
  <2>1. thread[u].pc # "idle"
    BY <1>3, CallFacts, WokenSteps DEF Waits, Roused, ThreadType
  <2>2. thread[u].att \in Attempts /\ Steady(thread[u].att)
    BY <2>1, BusyFacts
  <2>3. Knowing(u) /\ Knows(thread[u].pc, thread[u].out, thread[u].req, thread[u].att)
    BY <2>1, KnowsFacts
  <2> QED
    BY <1>1, <1>3, <2>1, <2>2, <2>3, KnowledgeKept DEF Steady, SameRecord, Knows
<1>4. CallsKnow'
  BY <1>3 DEF CallsKnow, Knowing
<1>5. \A r : Behind(r)' <=> Behind(r)
  BY <1>1 DEF Behind
<1>6. WatermarksOrdered'
  BY <1>5 DEF WatermarksOrdered, RecordInv, Ordered, Waits, SameRecord
<1>7. \A b \in Attempts : Begun(b)' <=> Begun(b)
  BY DEF Begun, Steady
<1>8. SequencesOwned'
  BY <1>1, <1>7 DEF SequencesOwned, RecordInv, Steady
<1>9. DecisionsPlaced'
  <2> SUFFICES ASSUME NEW d \in store.decisions PROVE Placed(d)'
    BY DEF DecisionsPlaced, RecordInv, SequenceNeverReused, SameRecord
  <2>1. Placed(d) /\ d.att \in Attempts
    BY LedgerFacts DEF DecisionsPlaced, RecordInv, StoreType
  <2> QED
    BY <1>7, <2>1 DEF Placed, Steady, SameRecord
<1>10. EffectsDecided'
  BY DEF EffectsDecided, RecordInv, LastEffectGen, SameRecord
<1> QED
  BY <1>2, <1>4, <1>6, <1>8, <1>9, <1>10 DEF RecordInv

(* One goroutine steps, and neither decides nor applies a decision.        *)
LEMMA SteadyMove ==
    ASSUME TypeInv, RecordInv, SameRecord, \A b \in Attempts : Steady(b),
           NEW t \in Threads, NEW a, NEW pc, NEW out, NEW req, StepsTo(t, a, pc, out, req),
           pc # "idle" => Knows(pc, out, req, a)',
           Ordered(req)
    PROVE  RecordInv'
<1>1. Ordered(req)'
  BY DEF Ordered, Behind, Reserved, EndSequence, SameRecord
<1>2. Knowing(t)' /\ Ordered(thread'[t].req)
  BY DEF Knowing, StepsTo
<1> QED
  BY <1>2, SteadyStep DEF StepsTo

(* Steps at which a call knows nothing of the store.                       *)
RestPCs == BystanderPCs \cup {"join_wait", "join_woken"}

LEMMA SteadyFacts ==
    ASSUME SameRecord, NEW b, Steady(b)
    PROVE  /\ Decided(b)' <=> Decided(b)
           /\ \A out : Decision(b, out)' = Decision(b, out)
           /\ store' = store
  BY DEF SameRecord, Steady, Decided, Decision

(* A call rests or returns.                                                *)
LEMMA RestMove ==
    ASSUME TypeInv, RecordInv, SameRecord, \A b \in Attempts : Steady(b),
           NEW t \in Threads, NEW a, NEW pc \in RestPCs, NEW out, NEW req,
           StepsTo(t, a, pc, out, req), Ordered(req)
    PROVE  RecordInv'
<1>1. Knows(pc, out, req, a)'
  BY DEF Knows, RestPCs, BystanderPCs, OwnerPCs, PublishPCs, SlotPCs, DecidingPCs, RecordPCs
<1> QED
  BY <1>1, SteadyMove

(* The owner of an attempt goes on, or persists the outcome it has.        *)
LEMMA OwnerGoesOn ==
    ASSUME TypeInv, RecordInv, SameRecord, \A b \in Attempts : Steady(b),
           NEW t \in Threads, thread[t].pc \in OwnerPCs,
           NEW pc \in (OwnerPCs \ {"publish_store", "publish_apply"}) \cup {"persist"},
           thread[t].pc = "publish_apply" => pc = "persist",
           NEW out, NEW req, StepsTo(t, thread[t].att, pc, out, req), Ordered(req)
    PROVE  RecordInv'
<1>0. PICK a : a = thread[t].att
  OBVIOUS
<1>1. thread[t].pc # "idle" /\ "persist" \notin OwnerPCs \cup DecidingPCs \cup RecordPCs
  BY DEF OwnerPCs, PublishPCs, SlotPCs, DecidingPCs, RecordPCs
<1>2. /\ ~attempt[a].restartCommitted
      /\ thread[t].pc # "publish_apply" => ~Decided(a)
      /\ a \in Attempts /\ Steady(a)
  BY <1>0, <1>1, KnowsFacts, BusyFacts DEF Knows
<1>3. pc \notin RecordPCs \cup {"apply", "finalize", "publish_apply", "publish_store"}
  BY DEF OwnerPCs, PublishPCs, SlotPCs, RecordPCs
<1>4. Knows(pc, out, req, a)'
  BY <1>1, <1>2, <1>3, SteadyFacts DEF Knows, Steady
<1> QED
  BY <1>0, <1>4, SteadyMove

(* A goroutine takes over an attempt that is open or sealed.               *)
LEMMA OwnerBegins ==
    ASSUME TypeInv, RecordInv, SameRecord, \A b \in Attempts : Steady(b),
           NEW t \in Threads, NEW a \in Attempts, attempt[a].phase \in {"open", "sealed"},
           NEW pc \in OwnerPCs \ {"publish_store", "publish_apply"},
           NEW out, NEW req, StepsTo(t, a, pc, out, req), Ordered(req)
    PROVE  RecordInv'
<1>1. ~attempt[a].restartCommitted /\ ~Decided(a) /\ Steady(a)
  BY DEF RecordInv, AttemptsCommitted, Committed, ClosingPhases
<1>2. pc \notin RecordPCs \cup {"apply", "finalize", "publish_apply", "publish_store", "persist"}
  BY DEF OwnerPCs, PublishPCs, SlotPCs, RecordPCs
<1>3. Knows(pc, out, req, a)'
  BY <1>1, <1>2, SteadyFacts DEF Knows, Steady
<1> QED
  BY <1>3, SteadyMove

LEMMA OneSteady ==
    ASSUME TypeInv, NEW a \in Attempts, NEW s, attempt' = [attempt EXCEPT ![a] = s],
           s.seq = attempt[a].seq, s.gen = attempt[a].gen,
           s.restartCommitted = attempt[a].restartCommitted,
           s.persistErr = attempt[a].persistErr, s.committing = attempt[a].committing,
           \/ s.phase = attempt[a].phase
           \/ /\ attempt[a].phase \in {"open", "sealed"}
              /\ s.phase \in {"sealed", "cancelling", "publishing"}
    PROVE  \A b \in Attempts : Steady(b)
  BY AttemptFacts DEF Steady

LEMMA AllSteady == attempt' = attempt => \A b \in Attempts : Steady(b)
  BY DEF Steady

LEMMA StillSame == UNCHANGED <<ledger, store, crashes>> => SameRecord
  BY DEF SameRecord

-----------------------------------------------------------------------------
(* Steps without a goroutine of the ledger                                 *)

LEMMA HandlingRecord ==
    ASSUME TypeInv, RecordInv, NEW a \in Attempts, Handling(a),
           ~ \E k \in Keys, g \in Generations : Begin(a, k, g)
    PROVE  RecordInv'
<1> DEFINE o == attempt[a]
<1>0. attempt \in [Attempts -> AttemptType] /\ o \in AttemptType
  BY AttemptFacts
<1>1. ASSUME NEW p \in Ordinals, Issue(a, p) PROVE \A b \in Attempts : Steady(b)
  <2> DEFINE s == [o EXCEPT !.issued = @ \cup {p}]
  <2>1. attempt' = [attempt EXCEPT ![a] = s]
    BY <1>0, <1>1 DEF Issue
  <2> QED
    BY <1>0, <2>1, OneSteady DEF AttemptType
<1>2. ASSUME NEW p \in Ordinals, ClaimStart(a, p) PROVE \A b \in Attempts : Steady(b)
  <2> DEFINE s == [o EXCEPT !.claim[p] = "in_progress"]
  <2>1. attempt' = [attempt EXCEPT ![a] = s]
    BY <1>0, <1>2 DEF ClaimStart
  <2> QED
    BY <1>0, <2>1, OneSteady DEF AttemptType
<1>3. ASSUME NEW p \in Ordinals, NEW outcome, ClaimFinish(a, p, outcome)
      PROVE  \A b \in Attempts : Steady(b)
  <2> DEFINE s == [o EXCEPT !.claim[p] = outcome]
  <2>1. attempt' = [attempt EXCEPT ![a] = s]
    BY <1>0, <1>3 DEF ClaimFinish
  <2> QED
    BY <1>0, <2>1, OneSteady DEF AttemptType
<1>4. CASE Admit(a)
  <2> DEFINE s == [o EXCEPT !.producer = FALSE, !.admitted = TRUE, !.issued = {}]
  <2>1. attempt' = [attempt EXCEPT ![a] = s]
    BY <1>0, <1>4 DEF Admit
  <2>2. \A b \in Attempts : Steady(b)
    BY <1>0, <2>1, OneSteady DEF AttemptType
  <2>3. \A u \in Threads : Waits(u)
    BY <1>4 DEF Admit, Waits, Roused
  <2> QED
    BY <1>4, <2>2, <2>3, SteadyStep, StillSame DEF Admit
<1>5. CASE Seal(a)
  <2> DEFINE s == [o EXCEPT !.phase = "sealed"]
  <2>1. attempt' = [attempt EXCEPT ![a] = s] /\ o.phase = "open"
    BY <1>0, <1>5 DEF Seal
  <2>2. \A b \in Attempts : Steady(b)
    BY <1>0, <2>1, OneSteady DEF AttemptType
  <2>3. \A u \in Threads : Waits(u)
    BY <1>5 DEF Seal, Waits, Roused
  <2> QED
    BY <1>5, <2>2, <2>3, SteadyStep, StillSame DEF Seal
<1>6. CASE \E p \in Ordinals : Issue(a, p) \/ ClaimStart(a, p)
  <2>1. \A b \in Attempts : Steady(b)
    BY <1>1, <1>2, <1>6
  <2>2. \A u \in Threads : Waits(u)
    BY <1>6 DEF Issue, ClaimStart, Waits, Roused
  <2> QED
    BY <1>6, <2>1, <2>2, SteadyStep, StillSame DEF Issue, ClaimStart
<1>7. ASSUME NEW p \in Ordinals, NEW outcome \in ProducerOutcomes, ClaimFinish(a, p, outcome)
      PROVE  RecordInv'
  <2>1. \A b \in Attempts : Steady(b)
    BY <1>3, <1>7
  <2>2. ASSUME NEW u \in Threads PROVE Waits(u)
    <3>1. thread'[u] = Awake(a)[u]
      BY <1>7 DEF ClaimFinish
    <3>2. PICK pc \in PCs : Awake(a)[u] = [thread[u] EXCEPT !.pc = pc]
      BY AwakeTyped
    <3>3. thread[u] \in ThreadType
      BY CallFacts
    <3> QED
      BY <3>1, <3>2, <3>3, AwakeTyped DEF Waits, Roused, ThreadType
  <2> QED
    BY <1>7, <2>1, <2>2, SteadyStep, StillSame DEF ClaimFinish
<1> QED
  BY <1>4, <1>5, <1>6, <1>7 DEF Handling

-----------------------------------------------------------------------------
(* Calls and cancellation                                                  *)

LEMMA CancelPassRecord ==
    ASSUME TypeInv, RecordInv, NEW t \in Threads, NEW a \in Attempts, NEW waited,
           CancelPass(t, a, waited)
    PROVE  RecordInv'
<1> DEFINE o == attempt[a]
<1>0. /\ attempt \in [Attempts -> AttemptType] /\ o \in AttemptType
      /\ SameRecord /\ Ordered(NoRequest)
  BY AttemptFacts, StillSame, NoRequestOrdered DEF CancelPass
<1>1. CASE attempt' = attempt /\ Return(t)
  BY <1>0, <1>1, AllSteady, StepsHome, RestMove DEF RestPCs, BystanderPCs
<1>2. CASE CancelRetries(t, a, waited) /\ Goto(t, Call(a, "persist", o.outcome))
  <2>0. PICK out : out = o.outcome
    OBVIOUS
  <2>1. attempt' = attempt /\ o.persistErr
    BY <1>2 DEF CancelRetries
  <2>2. o.restartCommitted => o.committing
    BY <2>1 DEF RecordInv, AttemptsCommitted, Committed
  <2>3. Knows("persist", out, NoRequest, a)'
    BY <2>1, <2>2 DEF Knows, OwnerPCs, PublishPCs, SlotPCs, DecidingPCs, RecordPCs
  <2>4. StepsTo(t, a, "persist", out, NoRequest)
    BY <1>2, <2>0, StepsCall
  <2> QED
    BY <1>0, <2>1, <2>3, <2>4, AllSteady, SteadyMove
<1>3. CASE CancelWaits(t, a)
  <2> DEFINE s == [o EXCEPT !.aborted = @ \/ o.phase = "publishing"]
  <2>1. attempt' = [attempt EXCEPT ![a] = s]
    BY <1>0, <1>3 DEF CancelWaits
  <2>2. \A b \in Attempts : Steady(b)
    BY <1>0, <2>1, OneSteady DEF AttemptType
  <2>3. StepsTo(t, a, "cancel_wait", "none", NoRequest)
    BY <1>3, StepsCall DEF CancelWaits
  <2> QED
    BY <1>0, <2>2, <2>3, RestMove DEF RestPCs, BystanderPCs
<1>4. CASE CancelWins(t, a)
  <2>1. o.phase \in {"open", "sealed"}
    BY <1>4 DEF CancelWins
  <2>2. \A b \in Attempts : Steady(b)
    <3> DEFINE s == [o EXCEPT !.phase = "cancelling"]
               u == [o EXCEPT !.phase = "cancelling", !.producer = FALSE]
    <3>1. attempt' = [attempt EXCEPT ![a] = s] \/ attempt' = [attempt EXCEPT ![a] = u]
      BY <1>0, <1>4 DEF CancelWins
    <3>2. CASE attempt' = [attempt EXCEPT ![a] = s]
      BY <1>0, <2>1, <3>2, OneSteady DEF AttemptType
    <3>3. CASE attempt' = [attempt EXCEPT ![a] = u]
      BY <1>0, <2>1, <3>3, OneSteady DEF AttemptType
    <3> QED
      BY <3>1, <3>2, <3>3
  <2>3. PICK pc, out : /\ pc \in {"claims_wait", "drain", "close", "finish_cancel"}
                       /\ Goto(t, Call(a, pc, out))
    BY <1>4 DEF CancelWins, AfterClaims
  <2>4. pc \in OwnerPCs \ {"publish_store", "publish_apply"}
    BY <2>3 DEF OwnerPCs
  <2> QED
    BY <1>0, <2>1, <2>2, <2>3, <2>4, StepsCall, OwnerBegins
<1> QED
  BY <1>1, <1>2, <1>3, <1>4 DEF CancelPass, CancelReturns, CancelRetries

LEMMA CallingRecord ==
    ASSUME TypeInv, RecordInv, NEW t \in Threads, NEW a \in Attempts, Calling(t, a)
    PROVE  RecordInv'
<1> DEFINE o == attempt[a]
<1>0. /\ attempt \in [Attempts -> AttemptType] /\ o \in AttemptType /\ Ordered(NoRequest)
      /\ {"finish_cancel", "drain", "publish_drain"}
           \subseteq OwnerPCs \ {"publish_store", "publish_apply"}
  BY AttemptFacts, NoRequestOrdered DEF OwnerPCs, PublishPCs
<1>1. CASE AdmitCloseFails(t, a)
  <2> DEFINE s == [o EXCEPT !.producer = FALSE, !.phase = "cancelling",
                            !.claim = CancelUnresolved(o.claim)]
  <2>1. attempt' = [attempt EXCEPT ![a] = s] /\ o.phase = "open"
    BY <1>0, <1>1 DEF AdmitCloseFails, Admissible
  <2>2. \A b \in Attempts : Steady(b)
    BY <1>0, <2>1, OneSteady DEF AttemptType
  <2>3. StepsTo(t, a, "finish_cancel", "cancel_failed", NoRequest)
    BY <1>1, StepsCall DEF AdmitCloseFails
  <2>4. SameRecord
    BY <1>1, StillSame DEF AdmitCloseFails
  <2> QED
    BY <1>0, <2>1, <2>2, <2>3, <2>4, OwnerBegins
<1>2. CASE AdmitInvalid(t, a)
  <2> DEFINE s == [o EXCEPT !.producer = FALSE, !.admitted = TRUE,
                            !.issued = {}, !.phase = "cancelling"]
  <2>1. attempt' = [attempt EXCEPT ![a] = s] /\ o.phase = "open"
    BY <1>0, <1>2 DEF AdmitInvalid, Admissible
  <2>2. \A b \in Attempts : Steady(b)
    BY <1>0, <2>1, OneSteady DEF AttemptType
  <2>3. StepsTo(t, a, "drain", "none", NoRequest)
    BY <1>2, StepsCall DEF AdmitInvalid
  <2>4. SameRecord
    BY <1>2, StillSame DEF AdmitInvalid
  <2> QED
    BY <1>0, <2>1, <2>2, <2>3, <2>4, OwnerBegins
<1>3. CASE CancelCall(t, a)
  BY <1>3, CancelPassRecord DEF CancelCall
<1>4. CASE PublishCall(t, a)
  <2> DEFINE s == [o EXCEPT !.phase = "publishing", !.aborted = FALSE]
  <2>1. attempt' = [attempt EXCEPT ![a] = s] /\ o.phase = "sealed"
    BY <1>0, <1>4 DEF PublishCall
  <2>2. \A b \in Attempts : Steady(b)
    BY <1>0, <2>1, OneSteady DEF AttemptType
  <2>3. StepsTo(t, a, "publish_drain", "none", NoRequest)
    BY <1>4, StepsCall DEF PublishCall
  <2>4. SameRecord
    BY <1>4, StillSame DEF PublishCall
  <2> QED
    BY <1>0, <2>1, <2>2, <2>3, <2>4, OwnerBegins
<1> QED
  BY <1>1, <1>2, <1>3, <1>4 DEF Calling

LEMMA CancellingRecord ==
    ASSUME TypeInv, RecordInv, NEW t \in Threads, Cancelling(t)
    PROVE  RecordInv'
<1> DEFINE a == thread[t].att
<1>1. CASE CancelWoken(t)
  <2>1. a \in Attempts
    BY <1>1, BusyFacts DEF CancelWoken
  <2> QED
    BY <1>1, <2>1, CancelPassRecord DEF CancelWoken
<1>2. CASE ClaimsWoken(t) \/ CloseOpen(t) \/ Drain(t) \/ FinishCancellation(t)
  <2>1. thread[t].pc \in OwnerPCs /\ thread[t].pc # "idle" /\ thread[t].pc # "publish_apply"
    BY <1>2 DEF ClaimsWoken, CloseOpen, Drain, FinishCancellation, OwnerPCs
  <2>2. /\ a \in Attempts /\ attempt[a] \in AttemptType /\ attempt \in [Attempts -> AttemptType]
        /\ Ordered(NoRequest) /\ Ordered(thread[t].req)
    BY <2>1, BusyFacts, AttemptFacts, NoRequestOrdered, KnowsFacts
  <2>3. SameRecord
    BY <1>2, StillSame DEF ClaimsWoken, CloseOpen, Drain, FinishCancellation
  <2>4. \A b \in Attempts : Steady(b)
    <3>1. CASE attempt' = attempt
      BY <3>1, AllSteady
    <3>2. CASE ClaimsWoken(t) /\ attempt' # attempt
      <4> DEFINE s == [attempt[a] EXCEPT !.producer = FALSE]
      <4>1. attempt' = [attempt EXCEPT ![a] = s]
        BY <2>2, <3>2 DEF ClaimsWoken
      <4> QED
        BY <2>2, <4>1, OneSteady DEF AttemptType
    <3>3. CASE Drain(t)
      <4> DEFINE s(result) == [attempt[a] EXCEPT !.drain = result]
      <4>1. PICK result \in {"complete", "failed"} : attempt' = [attempt EXCEPT ![a] = s(result)]
        BY <2>2, <3>3 DEF Drain
      <4> QED
        BY <2>2, <4>1, OneSteady DEF AttemptType
    <3>4. CASE FinishCancellation(t)
      <4> DEFINE s(claim) == [attempt[a] EXCEPT !.claim = claim]
      <4>1. PICK claim : attempt' = [attempt EXCEPT ![a] = s(claim)]
        BY <2>2, <3>4 DEF FinishCancellation
      <4> QED
        BY <2>2, <4>1, OneSteady DEF AttemptType
    <3> QED
      BY <1>2, <3>1, <3>2, <3>3, <3>4 DEF CloseOpen
  <2>5. PICK pc, out :
          /\ pc \in {"claims_wait", "close", "drain", "finish_cancel", "persist"}
          /\ Goto(t, At(t, pc)) \/ Goto(t, Call(a, pc, out))
    BY <1>2 DEF ClaimsWoken, CloseOpen, Drain, FinishCancellation, AfterClaims
  <2>6. pc \in (OwnerPCs \ {"publish_store", "publish_apply"}) \cup {"persist"}
    BY <2>5 DEF OwnerPCs
  <2>7. CASE Goto(t, At(t, pc))
    BY <2>1, <2>2, <2>3, <2>4, <2>6, <2>7, StepsAt, OwnerGoesOn
  <2>8. CASE Goto(t, Call(a, pc, out))
    BY <2>1, <2>2, <2>3, <2>4, <2>6, <2>8, StepsCall, OwnerGoesOn
  <2> QED
    BY <2>5, <2>7, <2>8
<1> QED
  BY <1>1, <1>2 DEF Cancelling

-----------------------------------------------------------------------------
(* Publication, without its decision                                       *)

LEMMA SerialSame ==
    ASSUME TypeInv, UNCHANGED <<store, crashes>>,
           ledger' = ledger \/ \E holder : ledger' = [ledger EXCEPT !.serial = holder]
    PROVE  SameRecord
  BY LedgerFacts DEF LedgerType, SameRecord

(* What PublishSnapshot asks for.                                          *)
LEMMA SnapshotKnows ==
    ASSUME TypeInv, RecordInv, NEW a \in Attempts, Begun(a), NEW out, NEW req,
           req.expected = ledger.durable, req.target = TargetFor(a, out)
    PROVE  Ordered(req) /\ attempt[a].seq + ClaimCount <= EndSequence(req.target)
<1>1. Reserved \in Int /\ Behind(ledger.durable)
  BY ReservedInWidth DEF RecordInv, WatermarksOrdered
<1>2. (req.target.exhausted <=> req.target.next = 0) /\ EndSequence(req.target) = Reserved
  BY TargetEnds
<1> QED
  BY <1>1, <1>2 DEF Ordered, Behind, RecordInv, SequencesOwned

LEMMA OwnedPublication ==
    ASSUME TypeInv, LifeInv, RecordInv, NEW t \in Threads, thread[t].pc \in PublishPCs,
           NEW a, a = thread[t].att
    PROVE  /\ thread[t].pc # "idle" /\ thread[t].pc \in OwnerPCs /\ a \in Attempts
           /\ attempt \in [Attempts -> AttemptType] /\ attempt[a] \in AttemptType
           /\ attempt[a].phase = "publishing" /\ Begun(a) /\ attempt[a].gen \in Generations
           /\ ~attempt[a].restartCommitted /\ ~attempt[a].persistErr /\ ~attempt[a].committing
           /\ Knows(thread[t].pc, thread[t].out, thread[t].req, a)
           /\ Ordered(thread[t].req) /\ thread[t].req \in RequestType
           /\ \A u \in Threads \ {t} : thread[u].att = a => thread[u].pc \in BystanderPCs
<1>1. thread[t].pc # "idle" /\ thread[t].pc \in OwnerPCs
  BY DEF PublishPCs, OwnerPCs, SlotPCs
<1>2. a \in Attempts /\ thread[t].req \in RequestType
  BY <1>1, BusyFacts
<1>3. /\ attempt \in [Attempts -> AttemptType] /\ attempt[a] \in AttemptType
      /\ attempt[a].phase = "publishing" /\ ~attempt[a].persistErr /\ ~attempt[a].committing
      /\ \A u \in Threads \ {t} : thread[u].att = a => thread[u].pc \in BystanderPCs
  BY <1>1, <1>2, LifeFacts DEF Fits
<1>4. Begun(a) /\ attempt[a].gen \in Generations
  BY <1>2, <1>3 DEF Begun, RecordInv, AttemptsCommitted, Committed, LivePhases
<1>5. /\ Knows(thread[t].pc, thread[t].out, thread[t].req, a) /\ Ordered(thread[t].req)
      /\ ~attempt[a].restartCommitted
  BY <1>1, KnowsFacts DEF Knows
<1> QED
  BY <1>1, <1>2, <1>3, <1>4, <1>5

LEMMA PublicationSteps ==
    ASSUME TypeInv, LifeInv, RecordInv, NEW t \in Threads,
           \/ PublishDrain(t) \/ TakeSlot(t) \/ LeaveQueueAborted(t) \/ LeaveQueueContext(t)
           \/ Recheck(t) \/ PublishSnapshot(t) \/ StorePublicationFails(t)
           \/ ApplyPublication(t) /\ attempt' = attempt /\ FailPublication(t) /\ Release
    PROVE  RecordInv'
<1> DEFINE a == thread[t].att
<1>1. thread[t].pc \in PublishPCs
  BY DEF PublishDrain, TakeSlot, LeaveQueueAborted, LeaveQueueContext, Recheck,
     PublishSnapshot, StorePublicationFails, ApplyPublication, PublishPCs, SlotPCs
<1>2. /\ thread[t].pc \in OwnerPCs /\ a \in Attempts /\ Begun(a) /\ attempt[a].gen \in Generations
      /\ attempt \in [Attempts -> AttemptType] /\ attempt[a] \in AttemptType
      /\ ~attempt[a].restartCommitted /\ Ordered(thread[t].req) /\ Ordered(NoRequest)
      /\ Knows(thread[t].pc, thread[t].out, thread[t].req, a)
  BY <1>1, OwnedPublication, NoRequestOrdered
<1>3. SameRecord
  BY SerialSame DEF PublishDrain, TakeSlot, LeaveQueueAborted, LeaveQueueContext, Recheck,
     PublishSnapshot, StorePublicationFails, ApplyPublication, Release
<1>4. \A b \in Attempts : Steady(b)
  <2>1. CASE attempt' = attempt
    BY <2>1, AllSteady
  <2>2. CASE PublishDrain(t)
    <3> DEFINE s(result) == [attempt[a] EXCEPT !.drain = result]
    <3>1. PICK result \in {"complete", "failed"} : attempt' = [attempt EXCEPT ![a] = s(result)]
      BY <1>2, <2>2 DEF PublishDrain
    <3> QED
      BY <1>2, <3>1, OneSteady DEF AttemptType
  <2> QED
    BY <2>1, <2>2 DEF TakeSlot, LeaveQueueAborted, LeaveQueueContext, Recheck,
       PublishSnapshot, StorePublicationFails
<1>5. CASE FailPublication(t)
  <2>1. StepsTo(t, a, "persist", "publish_failed", NoRequest)
    BY <1>5, StepsCall DEF FailPublication
  <2> QED
    BY <1>2, <1>3, <1>4, <2>1, OwnerGoesOn
<1>6. ASSUME NEW pc \in {"slot", "recheck", "publish_snapshot"}, Goto(t, At(t, pc)),
             thread[t].pc # "publish_apply"
      PROVE  RecordInv'
  <2>1. pc \in (OwnerPCs \ {"publish_store", "publish_apply"}) \cup {"persist"}
    BY DEF OwnerPCs, PublishPCs, SlotPCs
  <2> QED
    BY <1>2, <1>3, <1>4, <1>6, <2>1, StepsAt, OwnerGoesOn
<1>7. CASE PublishSnapshot(t) /\ ~FailPublication(t)
  <2>1. PICK req : req = [expected |-> ledger.durable, target |-> TargetFor(a, "published"),
                          revision |-> ledger.revision, gen |-> ledger.lastCommitted]
    OBVIOUS
  <2>2. Goto(t, [At(t, "publish_store") EXCEPT !.req = req]) /\ Advances(a)
        /\ thread[t].pc = "publish_snapshot"
    BY <1>7, <2>1 DEF PublishSnapshot
  <2>3. StepsTo(t, a, "publish_store", thread[t].out, req)
    BY <2>2, StepsAsking
  <2>4. Ordered(req) /\ attempt[a].seq + ClaimCount <= EndSequence(req.target)
    BY <1>2, <2>1, SnapshotKnows
  <2>5. attempt[a].gen > req.gen
    <3>1. attempt[a].gen \in 1 .. MaxUint64 /\ req.gen = ledger.lastCommitted
      BY <1>2, <2>1
    <3> QED
      BY <2>2, <3>1 DEF Advances
  <2>6. /\ ~Decided(a) /\ "publish_store" \in OwnerPCs
        /\ "publish_store" \notin {"persist", "apply", "finalize", "publish_apply"}
    BY <1>2, <2>2 DEF Knows, OwnerPCs, PublishPCs, SlotPCs
  <2>7. PICK b, out : b = thread[t].att /\ out = thread[t].out
    OBVIOUS
  <2>8. Steady(b)
    BY <1>2, <1>4, <2>7
  <2>9. Knows("publish_store", out, req, b)'
    BY <1>2, <1>3, <2>4, <2>5, <2>6, <2>7, <2>8, SteadyFacts DEF Knows, Steady
  <2> QED
    BY <1>3, <1>4, <2>3, <2>4, <2>7, <2>9, SteadyMove
<1>8. CASE ~FailPublication(t) /\ ~PublishSnapshot(t)
  <2>1. \E pc \in {"slot", "recheck", "publish_snapshot"} : Goto(t, At(t, pc))
    BY <1>8 DEF PublishDrain, TakeSlot, LeaveQueueAborted, LeaveQueueContext, Recheck,
       StorePublicationFails
  <2>2. thread[t].pc # "publish_apply"
    BY <1>8 DEF PublishDrain, TakeSlot, LeaveQueueAborted, LeaveQueueContext, Recheck,
       StorePublicationFails
  <2> QED
    BY <1>6, <2>1, <2>2
<1> QED
  BY <1>5, <1>7, <1>8

-----------------------------------------------------------------------------
(* The committer decides                                                   *)

(* The store takes a decision on the attempt of goroutine t, which then    *)
(* applies it.                                                             *)
LEMMA DecisionStored ==
    ASSUME TypeInv, RecordInv, NEW t \in Threads, NEW a \in Attempts,
           a = thread[t].att, thread[t].pc \in RecordPCs, Begun(a),
           attempt[a].phase \in ClosingPhases, ~attempt[a].restartCommitted,
           Accepts(thread[t].req), store'.restart = Joined(thread[t].req.target),
           NEW out, NEW stored, stored = Decision(a, out),
           store'.decisions = store.decisions \cup {stored},
           UNCHANGED <<ledger, attempt, crashes>>,
           NEW pc \in {"apply", "publish_apply"},
           StepsTo(t, a, pc, thread[t].out, thread[t].req),
           pc = "apply" => out = thread[t].out,
           pc = "publish_apply" => out = "published",
           \A u \in Threads \ {t} : thread[u].att = a => thread[u].pc \notin OwnerPCs
    PROVE  /\ AttemptsCommitted' /\ CallsKnow' /\ WatermarksOrdered'
           /\ SequencesOwned' /\ DecisionsPlaced'
<1>0. PICK req \in RequestType : req = thread[t].req
  BY CallFacts DEF ThreadType
<1>1. thread[t].pc # "idle" /\ Knows(thread[t].pc, thread[t].out, req, a) /\ Ordered(req)
  BY <1>0, KnowsFacts DEF RecordPCs
<1>2. /\ store'.restart \in {store.restart, req.target}
      /\ EndSequence(store.restart) <= EndSequence(store'.restart)
      /\ EndSequence(req.target) <= EndSequence(store'.restart)
      /\ attempt[a].seq + ClaimCount <= EndSequence(req.target)
  BY <1>0, <1>1, JoinedEnds DEF RecordInv, Knows
<1>3. /\ EndSequence(store.restart) \in Int /\ EndSequence(store'.restart) \in Int
      /\ EndSequence(req.target) \in Int /\ ClaimCount \in Int
      /\ \A b \in Attempts : attempt[b].seq \in Int
      /\ \A d \in store.decisions : d.seq \in Int /\ d.att \in Attempts
      /\ crashes \in Int
  <2>1. store.restart \in RestartType /\ req.target \in RestartType /\ crashes \in Int
    BY LedgerFacts DEF StoreType, RequestType
  <2>2. \A b \in Attempts : attempt[b].seq \in Int
    BY AttemptFacts DEF AttemptType
  <2>3. \A d \in store.decisions : d.seq \in Int /\ d.att \in Attempts
    BY LedgerFacts DEF StoreType
  <2> QED
    BY <1>2, <2>1, <2>2, <2>3, RecordEnds
<1>4. stored.seq = attempt[a].seq /\ stored.life = crashes /\ stored.att = a
  BY DEF Decision
<1>5. /\ \A b \in Attempts \ {a} : Decided(b)' <=> Decided(b)
      /\ \A b, outcome : Decision(b, outcome)' = Decision(b, outcome)
      /\ \A b : Begun(b)' <=> Begun(b)
      /\ Reserved' = Reserved
  BY <1>4 DEF Decided, Decision, Begun, Reserved, EndSequence
<1>6. AttemptsCommitted'
  <2> SUFFICES ASSUME NEW b \in Attempts PROVE Committed(b)'
    BY DEF AttemptsCommitted
  <2>1. Committed(b)
    BY DEF RecordInv, AttemptsCommitted
  <2>2. attempt[b].phase \in {"open", "sealed"} => b # a
    BY DEF ClosingPhases
  <2> QED
    BY <1>5, <2>1, <2>2 DEF Committed
<1>7. CallsKnow'
  <2>1. ASSUME NEW u \in Threads \ {t}, thread'[u].pc # "idle" PROVE Knowing(u)'
    <3>1. Waits(u)
      BY DEF StepsTo
    <3>2. thread[u].pc # "idle"
      BY <2>1, <3>1, CallFacts, WokenSteps DEF Waits, Roused, ThreadType
    <3>3. PICK b \in Attempts : b = thread[u].att
      BY <3>2, BusyFacts
    <3>4. Knowing(u) /\ Knows(thread[u].pc, thread[u].out, thread[u].req, b)
      BY <3>2, <3>3, KnowsFacts
    <3>5. thread[u].pc \in OwnerPCs \ {"publish_apply"} => ~Decided(b)'
      BY <1>5, <3>3, <3>4 DEF Knows
    <3>6. thread[u].pc \in OwnerPCs \cup DecidingPCs => ~attempt'[b].restartCommitted
      BY <3>4 DEF Knows
    <3> QED
      BY <3>1, <3>2, <3>3, <3>4, <3>5, <3>6, KnowledgeKept
  <2>2. PICK mine : mine = thread[t].out
    OBVIOUS
  <2>3. Knows(pc, mine, req, a)'
    BY <1>5, <2>2 DEF Knows, OwnerPCs, PublishPCs, SlotPCs, DecidingPCs, RecordPCs
  <2>4. Knowing(t)'
    BY <1>0, <2>2, <2>3 DEF Knowing, StepsTo
  <2> QED
    BY <2>1, <2>4 DEF CallsKnow, Knowing
<1>8. WatermarksOrdered'
  <2>1. \A r : Behind(r)' <=> Behind(r)
    BY <1>5 DEF Behind
  <2>2. Behind(store'.restart)
    BY <1>1, <1>2 DEF RecordInv, WatermarksOrdered, Ordered
  <2>3. \A u \in Threads : thread'[u].req = thread[u].req
    BY DEF StepsTo, Waits
  <2> QED
    BY <2>1, <2>2, <2>3 DEF WatermarksOrdered, RecordInv, Ordered
<1>9. SequencesOwned'
  BY <1>5 DEF SequencesOwned, RecordInv
<1>10. \A d \in store'.decisions : Placed(d)'
  <2>1. ASSUME NEW d \in store.decisions PROVE Placed(d)'
    <3>1. Placed(d)
      BY DEF RecordInv, DecisionsPlaced
    <3> QED
      BY <1>2, <1>3, <1>5, <3>1 DEF Placed
  <2>2. Placed(stored)'
    BY <1>2, <1>3, <1>4, <1>5 DEF Placed
  <2> QED
    BY <2>1, <2>2
<1>11. SequenceNeverReused'
  <2>1. ASSUME NEW d \in store.decisions, d.seq = stored.seq
        PROVE  d.life = stored.life /\ d.att = stored.att
    <3>1. Placed(d) /\ d.att \in Attempts
      BY <1>3 DEF RecordInv, DecisionsPlaced
    <3>2. d.life = crashes
      <4>1. d.life \in Int
        BY LedgerFacts DEF StoreType
      <4> QED
        BY <1>3, <1>4, <2>1, <3>1, <4>1 DEF Placed
    <3> QED
      BY <1>4, <2>1, <3>1, <3>2 DEF Placed, RecordInv, SequencesOwned
  <2> QED
    BY <2>1 DEF SequenceNeverReused, RecordInv, DecisionsPlaced
<1> QED
  BY <1>6, <1>7, <1>8, <1>9, <1>10, <1>11 DEF DecisionsPlaced

LEMMA StoreTerminalRecord ==
    ASSUME TypeInv, OneCommitDriver, LifeInv, RecordInv, NEW t \in Threads, StoreTerminal(t)
    PROVE  RecordInv'
<1>a. PICK a \in Attempts : a = thread[t].att
  BY BusyFacts DEF StoreTerminal
<1>0. PICK out, stored : a = thread[t].att /\ out = thread[t].out /\ stored = Decision(a, out)
  BY <1>a
<1>1. /\ thread[t].pc \in RecordPCs /\ thread[t].pc = "store"
      /\ Accepts(thread[t].req) /\ UNCHANGED <<ledger, attempt, crashes>>
      /\ StepsTo(t, a, "apply", thread[t].out, thread[t].req)
  BY <1>0, StepsAt DEF StoreTerminal, RecordPCs
<1>2. /\ store'.restart = Joined(thread[t].req.target)
      /\ store'.decisions = store.decisions \cup {stored}
      /\ store'.revision = store.revision /\ store'.gen = store.gen
      /\ store'.effects = store.effects
  BY <1>0, LedgerFacts DEF StoreTerminal, StoreType
<1>3. /\ attempt[a].phase \in ClosingPhases
      /\ \A u \in Threads \ {t} : thread[u].att = a => thread[u].pc \notin OwnerPCs
  BY <1>0, <1>1, DriverFacts DEF Fits, CommitPCs
<1>4. Begun(a) /\ ~attempt[a].restartCommitted
  BY <1>0, <1>1, <1>3, KnowsFacts DEF Begun, ClosingPhases, Knows, DecidingPCs
<1>5. /\ AttemptsCommitted' /\ CallsKnow' /\ WatermarksOrdered'
      /\ SequencesOwned' /\ DecisionsPlaced'
  BY <1>0, <1>1, <1>2, <1>3, <1>4, DecisionStored
<1>6. EffectsDecided'
  BY <1>2 DEF EffectsDecided, LastEffectGen, RecordInv
<1> QED
  BY <1>5, <1>6 DEF RecordInv

LEMMA Appended ==
    ASSUME NEW S, NEW s \in Seq(S), NEW e \in S
    PROVE  /\ Len(Append(s, e)) = Len(s) + 1 /\ Len(s) \in Nat
           /\ Append(s, e)[Len(s) + 1] = e
           /\ \A i \in 1 .. Len(s) : Append(s, e)[i] = s[i]
           /\ Append(s, e) # <<>>
<1>1. Len(Append(s, e)) = Len(s) + 1 /\ Len(s) \in Nat /\ Append(s, e)[Len(s) + 1] = e
  OBVIOUS
<1>2. \A i \in 1 .. Len(s) : Append(s, e)[i] = s[i]
  OBVIOUS
<1>3. Append(s, e) # <<>>
  BY <1>1
<1> QED
  BY <1>1, <1>2, <1>3

(* What one accepted CommitPublication leaves in the store.                *)
LEMMA PublicationIs ==
    ASSUME TypeInv, LifeInv, RecordInv, NEW t \in Threads, StorePublication(t)
    PROVE  \E a \in Attempts :
              /\ a = thread[t].att /\ Begun(a) /\ attempt[a].gen \in Generations
              /\ attempt[a].gen > store.gen /\ ~Decided(a)
              /\ store'.revision = Len(store.effects) + 1
              /\ store'.gen = attempt[a].gen
              /\ store'.restart = Joined(thread[t].req.target)
              /\ store'.effects = Append(store.effects, [id |-> Len(store.effects) + 1,
                                                         gen |-> attempt[a].gen,
                                                         seq |-> attempt[a].seq])
              /\ store'.decisions = store.decisions \cup {Decision(a, "published")}
<1> DEFINE a == thread[t].att
<1>1. thread[t].pc = "publish_store" /\ thread[t].pc \in PublishPCs
  BY DEF StorePublication, PublishPCs, SlotPCs
<1>2. /\ a \in Attempts /\ Begun(a) /\ attempt[a].gen \in Generations
      /\ Knows(thread[t].pc, thread[t].out, thread[t].req, a)
      /\ thread[t].pc \in OwnerPCs
  BY <1>1, OwnedPublication
<1>3. store.revision = thread[t].req.revision /\ store.gen = thread[t].req.gen
  BY DEF StorePublication
<1>4. ~Decided(a) /\ attempt[a].gen > store.gen
  BY <1>1, <1>2, <1>3 DEF Knows
<1>5. store.revision = Len(store.effects)
  BY DEF RecordInv, EffectsDecided
<1>6. /\ store'.revision = Len(store.effects) + 1
      /\ store'.gen = attempt[a].gen
      /\ store'.restart = Joined(thread[t].req.target)
      /\ store'.effects = Append(store.effects, [id |-> Len(store.effects) + 1,
                                                 gen |-> attempt[a].gen,
                                                 seq |-> attempt[a].seq])
      /\ store'.decisions = store.decisions \cup {Decision(a, "published")}
  <2>1. DOMAIN store = {"revision", "gen", "restart", "effects", "decisions"}
    BY LedgerFacts DEF StoreType
  <2> QED
    BY <1>3, <1>5, <2>1 DEF StorePublication
<1> QED
  BY <1>2, <1>4, <1>6

LEMMA StorePublicationRecord ==
    ASSUME TypeInv, LifeInv, RecordInv, NEW t \in Threads, StorePublication(t)
    PROVE  RecordInv'
<1>0. PICK a \in Attempts :
        /\ a = thread[t].att /\ Begun(a)
        /\ store'.revision = Len(store.effects) + 1
        /\ store'.gen = attempt[a].gen
        /\ store'.restart = Joined(thread[t].req.target)
        /\ store'.effects = Append(store.effects, [id |-> Len(store.effects) + 1,
                                                   gen |-> attempt[a].gen,
                                                   seq |-> attempt[a].seq])
        /\ store'.decisions = store.decisions \cup {Decision(a, "published")}
  BY PublicationIs
<1>1. /\ thread[t].pc \in RecordPCs /\ thread[t].pc \in PublishPCs
      /\ Accepts(thread[t].req) /\ UNCHANGED <<ledger, attempt, crashes>>
      /\ StepsTo(t, a, "publish_apply", thread[t].out, thread[t].req)
  BY <1>0, StepsAt DEF StorePublication, RecordPCs, PublishPCs, SlotPCs
<1>2. /\ attempt[a].phase \in ClosingPhases /\ ~attempt[a].restartCommitted
      /\ \A u \in Threads \ {t} : thread[u].att = a => thread[u].pc \notin OwnerPCs
      /\ attempt[a] \in AttemptType
  BY <1>0, <1>1, OwnedPublication
     DEF ClosingPhases, BystanderPCs, OwnerPCs, PublishPCs, SlotPCs
<1>3. PICK stored : stored = Decision(a, "published")
  OBVIOUS
<1>4. /\ AttemptsCommitted' /\ CallsKnow' /\ WatermarksOrdered'
      /\ SequencesOwned' /\ DecisionsPlaced'
  BY <1>0, <1>1, <1>2, <1>3, DecisionStored
<1>5. EffectsDecided'
  <2>0. PICK e : e = [id |-> Len(store.effects) + 1, gen |-> attempt[a].gen,
                      seq |-> attempt[a].seq]
    OBVIOUS
  <2>1. PICK S : store.effects \in Seq(S) /\ e \in S /\ store'.effects = Append(store.effects, e)
    <3>1. /\ store.effects \in Seq([id : Nat, gen : Nat, seq : Nat])
          /\ e \in [id : Nat, gen : Nat, seq : Nat]
          /\ store'.effects = Append(store.effects, e)
      BY <1>0, <1>2, <2>0, LedgerFacts DEF StoreType, AttemptType
    <3> QED
      BY <3>1
  <2>2. /\ Len(store'.effects) = Len(store.effects) + 1
        /\ store'.effects[Len(store.effects) + 1] = e
        /\ \A i \in 1 .. Len(store.effects) : store'.effects[i] = store.effects[i]
        /\ store'.effects # <<>> /\ Len(store.effects) \in Nat
    BY <2>1, Appended
  <2>3. LastEffectGen' = e.gen
    BY <2>2 DEF LastEffectGen
  <2>4. \A i \in 1 .. Len(store'.effects) :
          \E d \in store'.decisions : d.seq = store'.effects[i].seq
    BY <1>0, <1>3, <2>0, <2>2 DEF RecordInv, EffectsDecided, Decision
  <2> QED
    BY <1>0, <2>0, <2>2, <2>3, <2>4 DEF EffectsDecided
<1> QED
  BY <1>4, <1>5 DEF RecordInv

-----------------------------------------------------------------------------
(* A terminal commit goes on                                               *)

(* What the calls other than t's know of attempt a allows it to become s.  *)
Spares(t, a, s) ==
    \A u \in Threads \ {t} : thread[u].att = a /\ thread[u].pc # "idle" =>
        /\ thread[u].pc \in OwnerPCs => s.gen = attempt[a].gen
        /\ thread[u].pc \in OwnerPCs \cup DecidingPCs => ~s.restartCommitted
        /\ thread[u].pc = "persist" /\ s.restartCommitted /\ ~s.committing =>
              attempt[a].restartCommitted /\ ~attempt[a].committing

(* The call of goroutine t moves its attempt a on to s.                    *)
LEMMA CommitStep ==
    ASSUME TypeInv, RecordInv, NEW t \in Threads, NEW a \in Attempts, NEW s,
           attempt' = [attempt EXCEPT ![a] = s], UNCHANGED <<store, crashes>>,
           ledger'.next = ledger.next, ledger'.exhausted = ledger.exhausted,
           Behind(ledger'.durable),
           Begun(a), s.phase # "unborn", s.seq = attempt[a].seq, Committed(a)',
           NEW att, NEW pc, NEW out, NEW req, StepsTo(t, att, pc, out, req), Ordered(req),
           pc # "idle" => Knows(pc, out, req, att)',
           Spares(t, a, s)
    PROVE  RecordInv'
<1>1. /\ attempt'[a] = s /\ \A b \in Attempts \ {a} : attempt'[b] = attempt[b]
      /\ \A b : Decided(b)' <=> Decided(b)
      /\ \A b \in Attempts : attempt'[b].seq = attempt[b].seq
      /\ \A b \in Attempts : Begun(b)' <=> Begun(b)
      /\ Reserved' = Reserved
  BY AttemptFacts DEF Decided, Reserved, EndSequence, Begun
<1>2. AttemptsCommitted'
  <2> SUFFICES ASSUME NEW b \in Attempts \ {a} PROVE Committed(b)'
    BY DEF AttemptsCommitted
  <2>1. \A outcome : Decision(b, outcome)' = Decision(b, outcome)
    BY <1>1 DEF Decision
  <2> QED
    BY <1>1, <2>1 DEF RecordInv, AttemptsCommitted, Committed
<1>3. CallsKnow'
  <2>1. ASSUME NEW u \in Threads \ {t}, thread'[u].pc # "idle" PROVE Knowing(u)'
    <3>1. Waits(u)
      BY DEF StepsTo
    <3>2. thread[u].pc # "idle"
      BY <2>1, <3>1, CallFacts, WokenSteps DEF Waits, Roused, ThreadType
    <3>3. PICK b \in Attempts : b = thread[u].att
      BY <3>2, BusyFacts
    <3>4. Knowing(u) /\ Knows(thread[u].pc, thread[u].out, thread[u].req, b)
      BY <3>2, <3>3, KnowsFacts
    <3>5. /\ thread[u].pc \in OwnerPCs \ {"publish_apply"} => ~Decided(b)'
          /\ "publish_store" \in OwnerPCs
      BY <1>1, <3>4 DEF Knows, OwnerPCs, PublishPCs, SlotPCs
    <3>6. /\ thread[u].pc \in OwnerPCs \cup DecidingPCs => ~attempt'[b].restartCommitted
          /\ thread[u].pc = "publish_store" => attempt'[b].gen = attempt[b].gen
          /\ thread[u].pc = "persist" /\ attempt'[b].restartCommitted /\ ~attempt'[b].committing
                => attempt[b].restartCommitted /\ ~attempt[b].committing
      <4>1. CASE b = a
        BY <1>1, <3>2, <3>3, <3>5, <4>1 DEF Spares
      <4>2. CASE b # a
        BY <1>1, <3>4, <4>2 DEF Knows
      <4> QED
        BY <4>1, <4>2
    <3> QED
      BY <1>1, <3>1, <3>2, <3>3, <3>4, <3>5, <3>6, KnowledgeKept
  <2>2. Knowing(t)'
    BY DEF Knowing, StepsTo
  <2> QED
    BY <2>1, <2>2 DEF CallsKnow, Knowing
<1>4. WatermarksOrdered'
  <2>1. \A r : Behind(r)' <=> Behind(r)
    BY <1>1 DEF Behind
  <2>2. \A u \in Threads : Ordered(thread'[u].req)
    BY DEF StepsTo, Waits, RecordInv, WatermarksOrdered
  <2> QED
    BY <2>1, <2>2 DEF WatermarksOrdered, RecordInv, Ordered
<1>5. SequencesOwned'
  BY <1>1 DEF SequencesOwned, RecordInv
<1>6. DecisionsPlaced'
  <2> SUFFICES ASSUME NEW d \in store.decisions PROVE Placed(d)'
    BY DEF DecisionsPlaced, RecordInv, SequenceNeverReused
  <2>1. Placed(d) /\ d.att \in Attempts
    BY LedgerFacts DEF DecisionsPlaced, RecordInv, StoreType
  <2> QED
    BY <1>1, <2>1 DEF Placed
<1>7. EffectsDecided'
  BY DEF EffectsDecided, RecordInv, LastEffectGen
<1> QED
  BY <1>2, <1>3, <1>4, <1>5, <1>6, <1>7 DEF RecordInv

LEMMA PersistRecord ==
    ASSUME TypeInv, OneCommitDriver, LifeInv, RecordInv, NEW t \in Threads, Persist(t)
    PROVE  RecordInv'
<1>a. PICK a \in Attempts : a = thread[t].att
  BY BusyFacts DEF Persist
<1>0. PICK out, req : a = thread[t].att /\ out = thread[t].out /\ req = thread[t].req
  BY <1>a
<1> DEFINE o == attempt[a]
           s == [o EXCEPT !.outcome = out, !.committing = TRUE]
<1>1. /\ o \in AttemptType /\ attempt \in [Attempts -> AttemptType]
      /\ thread[t].pc = "persist" /\ thread[t].pc # "idle"
      /\ Ordered(req) /\ Ordered(NoRequest)
      /\ Knows("persist", out, req, a) /\ Committed(a)
      /\ UNCHANGED <<ledger, store, crashes>>
  BY <1>0, AttemptFacts, KnowsFacts, NoRequestOrdered
     DEF Persist, RecordInv, AttemptsCommitted
<1>2. CASE attempt' = attempt
  <2>1. Return(t) \/ Goto(t, At(t, "join_wait")) \/ (o.committing /\ s = o)
    <3>1. CASE ~ (Return(t) \/ Goto(t, At(t, "join_wait")))
      <4>1. attempt'[a] = s /\ s.committing
        BY <1>0, <1>1, <3>1 DEF Persist, AttemptType
      <4> QED
        BY <1>2, <4>1
    <3> QED
      BY <3>1
  <2>2. CASE Return(t)
    BY <1>1, <1>2, <2>2, AllSteady, StillSame, StepsHome, RestMove DEF RestPCs, BystanderPCs
  <2>3. CASE Goto(t, At(t, "join_wait"))
    BY <1>0, <1>1, <1>2, <2>3, AllSteady, StillSame, StepsAt, RestMove DEF RestPCs
  <2>4. CASE o.committing /\ ~Return(t) /\ ~Goto(t, At(t, "join_wait"))
    BY <1>0, <2>4 DEF Persist
  <2> QED
    BY <2>1, <2>2, <2>3, <2>4
<1>3. CASE attempt' # attempt
  <2>1. /\ attempt' = [attempt EXCEPT ![a] = s]
        /\ o.phase \in ClosingPhases /\ ~o.committing
    BY <1>0, <1>1, <1>3 DEF Persist, ClosingPhases
  <2>2. PICK pc : /\ pc = IF o.restartCommitted THEN "finalize" ELSE "commit"
                  /\ Goto(t, At(t, pc))
    BY <1>0, <1>3 DEF Persist
  <2>3. StepsTo(t, a, pc, out, req)
    BY <1>0, <2>2, StepsAt
  <2>4. /\ s.seq = o.seq /\ s.gen = o.gen /\ s.phase = o.phase /\ s.committing
        /\ s.restartCommitted = o.restartCommitted /\ s.persistErr = o.persistErr
    BY <1>1 DEF AttemptType
  <2>5. attempt'[a] = s
    BY <1>1, <2>1
  <2> HIDE DEF s
  <2>6. Decided(a)' <=> Decided(a)
    BY <1>1 DEF Decided
  <2>7. \A outcome : Decision(a, outcome)' = Decision(a, outcome)
    BY <1>1, <2>4, <2>5 DEF Decision
  <2>8. Committed(a)'
    BY <1>1, <2>4, <2>5, <2>6, <2>7 DEF Committed
  <2>9. Knows(pc, out, req, a)'
    BY <1>1, <2>1, <2>2, <2>4, <2>5, <2>7
       DEF Knows, OwnerPCs, PublishPCs, SlotPCs, DecidingPCs, RecordPCs
  <2>10. Spares(t, a, s)
    BY <1>0, <2>4, KnowsFacts DEF Knows, Spares
  <2>11. Begun(a) /\ s.phase # "unborn" /\ Behind(ledger'.durable)
    BY <1>1, <2>1, <2>4 DEF Begun, ClosingPhases, RecordInv, WatermarksOrdered
  <2>12. /\ UNCHANGED <<store, crashes>>
         /\ ledger'.next = ledger.next /\ ledger'.exhausted = ledger.exhausted
    BY <1>1
  <2> QED
    BY <1>1, <2>1, <2>3, <2>4, <2>8, <2>9, <2>10, <2>11, <2>12, CommitStep
<1> QED
  BY <1>2, <1>3

LEMMA CommitFailsRecord ==
    ASSUME TypeInv, OneCommitDriver, LifeInv, RecordInv, NEW t \in Threads, CommitFails(t)
    PROVE  RecordInv'
<1>0. PICK a \in Attempts : a = thread[t].att
  BY BusyFacts DEF CommitFails
<1> DEFINE o == attempt[a]
           s == [o EXCEPT !.committing = FALSE, !.persistErr = TRUE]
<1>1. /\ o \in AttemptType /\ attempt \in [Attempts -> AttemptType]
      /\ thread[t].pc = "commit_failed" /\ o.phase \in ClosingPhases
      /\ Ordered(NoRequest) /\ Committed(a) /\ ~o.restartCommitted
      /\ UNCHANGED <<ledger, store, crashes>>
  BY <1>0, AttemptFacts, KnowsFacts, NoRequestOrdered, DriverFacts
     DEF CommitFails, RecordInv, AttemptsCommitted, Knows, DecidingPCs, Fits, CommitPCs
<1>2. attempt' = [attempt EXCEPT ![a] = s] /\ StepsTo(t, NoAttempt, "idle", "none", NoRequest)
  BY <1>0, <1>1, StepsHome DEF CommitFails
<1>3. /\ s.seq = o.seq /\ s.gen = o.gen /\ s.phase = o.phase /\ s.restartCommitted = FALSE
      /\ s.phase # "unborn" /\ Begun(a)
  BY <1>1 DEF AttemptType, Begun, ClosingPhases
<1>4. attempt'[a] = s
  BY <1>1, <1>2
<1> HIDE DEF s
<1>5. (Decided(a)' <=> Decided(a)) /\ \A outcome : Decision(a, outcome)' = Decision(a, outcome)
  BY <1>1, <1>3, <1>4 DEF Decided, Decision
<1>6. Committed(a)'
  BY <1>1, <1>3, <1>4, <1>5 DEF Committed
<1>7. /\ Behind(ledger'.durable)
      /\ ledger'.next = ledger.next /\ ledger'.exhausted = ledger.exhausted
      /\ UNCHANGED <<store, crashes>>
  BY <1>1 DEF RecordInv, WatermarksOrdered
<1>8. Spares(t, a, s)
  BY <1>0, <1>3, KnowsFacts DEF Knows, Spares
<1> QED
  BY <1>1, <1>2, <1>3, <1>6, <1>7, <1>8, CommitStep

LEMMA FinalizeRecord ==
    ASSUME LedgerInv, RecordInv, NEW t \in Threads, Finalize(t)
    PROVE  RecordInv'
<1>0. TypeInv /\ OneCommitDriver /\ LifeInv
  BY DEF LedgerInv
<1>b. PICK a \in Attempts : a = thread[t].att
  BY <1>0, BusyFacts DEF Finalize
<1>a. PICK out : a = thread[t].att /\ out = thread[t].out
  BY <1>b
<1> DEFINE o == attempt[a]
           s == Finalized(o, out)
<1>1. /\ o \in AttemptType /\ attempt \in [Attempts -> AttemptType]
      /\ thread[t].pc = "finalize" /\ o.phase \in ClosingPhases /\ out \in TerminalPhases
      /\ Ordered(NoRequest) /\ Decision(a, out) \in store.decisions
      /\ UNCHANGED <<store, crashes>>
      /\ \A u \in Threads \ {t} : thread[u].att = a => thread[u].pc \notin OwnerPCs
  BY <1>0, <1>a, AttemptFacts, KnowsFacts, NoRequestOrdered, DriverFacts
     DEF Finalize, Knows, Fits, CommitPCs
<1>2. Finalizable(a, out)
  BY <1>a, <1>1, LifeGivesAttemptInv DEF LedgerInv, AttemptInv, FinalizeNeverRefused
<1>3. attempt' = [attempt EXCEPT ![a] = s] /\ StepsTo(t, NoAttempt, "idle", "none", NoRequest)
  BY <1>0, <1>a, <1>1, <1>2, StepsHome DEF Finalize
<1>4. /\ s.seq = o.seq /\ s.phase = out /\ s.restartCommitted = FALSE /\ s.phase # "unborn"
      /\ Begun(a)
  BY <1>1 DEF Finalized, Unborn, Begun, ClosingPhases, TerminalPhases
<1>5. attempt'[a] = s
  BY <1>1, <1>3
<1> HIDE DEF s
<1>6. \A outcome : Decision(a, outcome)' = Decision(a, outcome)
  BY <1>1, <1>4, <1>5 DEF Decision
<1>7. Committed(a)'
  BY <1>1, <1>4, <1>5, <1>6 DEF Committed, TerminalPhases, LivePhases
<1>8. /\ Behind(ledger'.durable)
      /\ ledger'.next = ledger.next /\ ledger'.exhausted = ledger.exhausted
  BY <1>0, <1>a, <1>2, LedgerFacts DEF Finalize, LedgerType, RecordInv, WatermarksOrdered
<1>9. Spares(t, a, s)
  BY <1>1, <1>4 DEF Spares
<1>10. UNCHANGED <<store, crashes>>
  BY <1>1
<1> QED
  BY <1>0, <1>1, <1>3, <1>4, <1>7, <1>8, <1>9, <1>10, CommitStep

(* No call but t's decides on attempt a, or is about to.                   *)
DecidedBy(t, a) ==
    \A u \in Threads \ {t} : thread[u].att = a =>
        /\ thread[u].pc \notin OwnerPCs \cup DecidingPCs
        /\ thread[u].pc = "persist" => attempt[a].committing

(* The ledger takes over what the store decided on the attempt of t.       *)
LEMMA Applied ==
    ASSUME TypeInv, RecordInv, NEW t \in Threads, thread[t].pc # "idle",
           NEW a \in Attempts, a = thread[t].att, attempt[a].phase \in ClosingPhases,
           attempt[a].persistErr => attempt[a].committing,
           NEW s, s = [attempt[a] EXCEPT !.restartCommitted = TRUE],
           attempt' = [attempt EXCEPT ![a] = s], UNCHANGED <<store, crashes>>,
           ledger'.next = ledger.next, ledger'.exhausted = ledger.exhausted,
           ledger'.durable \in {ledger.durable, thread[t].req.target},
           NEW pc \in {"finalize", "persist"}, NEW out, Decision(a, out) \in store.decisions,
           NEW req, StepsTo(t, a, pc, out, req), Ordered(req),
           DecidedBy(t, a)
    PROVE  RecordInv'
<1>1. /\ attempt[a] \in AttemptType /\ attempt \in [Attempts -> AttemptType]
      /\ Committed(a) /\ Ordered(thread[t].req) /\ attempt'[a] = s
  BY AttemptFacts, KnowsFacts DEF RecordInv, AttemptsCommitted
<1>2. /\ s.seq = attempt[a].seq /\ s.gen = attempt[a].gen /\ s.phase = attempt[a].phase
      /\ s.committing = attempt[a].committing /\ s.persistErr = attempt[a].persistErr
      /\ s.restartCommitted = TRUE
  BY <1>1 DEF AttemptType
<1>3. s.phase # "unborn" /\ Begun(a)
  BY <1>2 DEF Begun, ClosingPhases
<1>4. (Decided(a)' <=> Decided(a)) /\ \A outcome : Decision(a, outcome)' = Decision(a, outcome)
  BY <1>1, <1>2 DEF Decided, Decision
<1>5. Committed(a)'
  BY <1>1, <1>2, <1>4 DEF Committed
<1>6. Knows(pc, out, req, a)'
  BY <1>4 DEF Knows, OwnerPCs, PublishPCs, SlotPCs, DecidingPCs, RecordPCs
<1>7. Behind(ledger'.durable)
  BY <1>1 DEF RecordInv, WatermarksOrdered, Ordered
<1>8. Spares(t, a, s)
  BY <1>2 DEF Spares, DecidedBy
<1>9. /\ UNCHANGED <<store, crashes>>
      /\ ledger'.next = ledger.next /\ ledger'.exhausted = ledger.exhausted
      /\ attempt' = [attempt EXCEPT ![a] = s]
      /\ StepsTo(t, a, pc, out, req) /\ Ordered(req)
  OBVIOUS
<1> QED
  BY <1>2, <1>3, <1>5, <1>6, <1>7, <1>8, <1>9, CommitStep

LEMMA CommittingRecord ==
    ASSUME LedgerInv, RecordInv, NEW t \in Threads, Committing(t)
    PROVE  RecordInv'
<1>0. TypeInv /\ OneCommitDriver /\ LifeInv
  BY DEF LedgerInv
<1> DEFINE a == thread[t].att
<1>1. CASE Persist(t) \/ StoreTerminal(t) \/ CommitFails(t) \/ Finalize(t)
  BY <1>0, <1>1, PersistRecord, StoreTerminalRecord, CommitFailsRecord, FinalizeRecord
<1>2. CASE JoinWoken(t)
  <2>1. thread[t].pc # "idle" /\ attempt' = attempt /\ SameRecord
    BY <1>2, StillSame DEF JoinWoken
  <2>2. Ordered(thread[t].req) /\ Ordered(NoRequest)
    BY <1>0, <2>1, KnowsFacts, NoRequestOrdered
  <2>3. CASE Return(t)
    BY <1>0, <2>1, <2>2, <2>3, AllSteady, StepsHome, RestMove DEF RestPCs, BystanderPCs
  <2>4. CASE Goto(t, At(t, "join_wait"))
    BY <1>0, <2>1, <2>2, <2>4, AllSteady, StepsAt, RestMove DEF RestPCs
  <2> QED
    BY <1>2, <2>3, <2>4 DEF JoinWoken
(* The commit is refused, fails, or has been overtaken.                    *)
<1>3. ASSUME Goto(t, At(t, "commit_failed")), attempt' = attempt, SameRecord,
             thread[t].pc \in DecidingPCs
      PROVE  RecordInv'
  <2>0. PICK b, out, req : b = a /\ out = thread[t].out /\ req = thread[t].req
    OBVIOUS
  <2>1. thread[t].pc # "idle"
    BY <1>3 DEF DecidingPCs
  <2>2. b \in Attempts /\ Steady(b) /\ Ordered(req) /\ ~attempt[b].restartCommitted
    BY <1>0, <1>3, <2>0, <2>1, KnowsFacts, BusyFacts, AllSteady DEF Knows
  <2>3. Knows("commit_failed", out, req, b)'
    BY <2>2 DEF Steady, Knows, OwnerPCs, PublishPCs, SlotPCs, RecordPCs
  <2>4. StepsTo(t, b, "commit_failed", out, req)
    BY <1>0, <1>3, <2>0, StepsAt
  <2> QED
    BY <1>0, <1>3, <2>2, <2>3, <2>4, AllSteady, SteadyMove
<1>4. CASE StoreTerminalFails(t)
  BY <1>3, <1>4, StillSame DEF StoreTerminalFails, DecidingPCs
<1>5. CASE CommitSnapshot(t)
  <2>0. thread[t].pc = "commit" /\ attempt' = attempt /\ SameRecord
    BY <1>5, StillSame DEF CommitSnapshot
  <2>1. CASE Goto(t, At(t, "commit_failed"))
    BY <1>3, <2>0, <2>1 DEF DecidingPCs
  <2>2. CASE ~Goto(t, At(t, "commit_failed"))
    <3>0. PICK b, out, req :
            /\ b = a /\ out = thread[t].out
            /\ req = [NoRequest EXCEPT !.expected = ledger.durable, !.target = TargetFor(b, out)]
      OBVIOUS
    <3>1. Goto(t, [At(t, "store") EXCEPT !.req = req])
      BY <1>5, <2>2, <3>0 DEF CommitSnapshot
    <3>2. req.expected = ledger.durable /\ req.target = TargetFor(b, out)
      BY <3>0 DEF NoRequest
    <3>3. b \in Attempts /\ attempt[b].phase \in ClosingPhases
      BY <1>0, <2>0, <3>0, DriverFacts DEF Fits, CommitPCs
    <3>4. ~attempt[b].restartCommitted /\ Steady(b)
      BY <1>0, <2>0, <3>0, <3>3, KnowsFacts, AllSteady DEF Knows, DecidingPCs
    <3>5. Ordered(req) /\ attempt[b].seq + ClaimCount <= EndSequence(req.target)
      BY <1>0, <3>2, <3>3, SnapshotKnows DEF Begun, ClosingPhases
    <3>6. Knows("store", out, req, b)'
      BY <3>4, <3>5 DEF Steady, Knows, OwnerPCs, PublishPCs, SlotPCs
    <3>7. StepsTo(t, b, "store", out, req)
      BY <1>0, <3>0, <3>1, StepsAsking
    <3> QED
      BY <1>0, <2>0, <3>5, <3>6, <3>7, AllSteady, SteadyMove
  <2> QED
    BY <2>1, <2>2
<1>6. CASE ApplyTerminal(t)
  <2>0. thread[t].pc = "apply" /\ UNCHANGED <<store, crashes>>
    BY <1>6 DEF ApplyTerminal
  <2>1. CASE Goto(t, At(t, "commit_failed")) /\ UNCHANGED <<ledger, attempt>>
    BY <1>3, <2>0, <2>1, StillSame DEF DecidingPCs
  <2>2. CASE ~ (Goto(t, At(t, "commit_failed")) /\ UNCHANGED <<ledger, attempt>>)
    <3>0. PICK b, out, req : b = a /\ out = thread[t].out /\ req = thread[t].req
      OBVIOUS
    <3>1. /\ ledger' = [ledger EXCEPT !.durable =
                IF Covered(req) THEN ledger.durable ELSE req.target]
          /\ Goto(t, At(t, "finalize"))
      BY <1>6, <2>2, <3>0 DEF ApplyTerminal
    <3>2. /\ ledger'.next = ledger.next /\ ledger'.exhausted = ledger.exhausted
          /\ ledger'.durable \in {ledger.durable, req.target}
      BY <1>0, <3>1, LedgerFacts DEF LedgerType
    <3>3. /\ b \in Attempts /\ attempt[b] \in AttemptType /\ attempt \in [Attempts -> AttemptType]
          /\ attempt[b].phase \in ClosingPhases /\ attempt[b].committing
          /\ DecidedBy(t, b)
      BY <1>0, <2>0, <3>0, DriverFacts DEF Fits, CommitPCs, DecidingPCs, DecidedBy
    <3>4. Decision(b, out) \in store.decisions /\ Ordered(req)
      BY <1>0, <2>0, <3>0, KnowsFacts DEF Knows
    <3>5. PICK s : /\ s = [attempt[b] EXCEPT !.restartCommitted = TRUE]
                   /\ attempt' = [attempt EXCEPT ![b] = s]
      BY <1>6, <2>2, <3>0, <3>3 DEF ApplyTerminal
    <3>6. StepsTo(t, b, "finalize", out, req) /\ thread[t].pc # "idle"
      BY <1>0, <2>0, <3>0, <3>1, StepsAt
    <3> QED
      BY <1>0, <2>0, <3>0, <3>2, <3>3, <3>4, <3>5, <3>6, Applied
  <2> QED
    BY <2>1, <2>2
<1> QED
  BY <1>1, <1>2, <1>4, <1>5, <1>6 DEF Committing

LEMMA PublishingRecord ==
    ASSUME TypeInv, LifeInv, RecordInv, NEW t \in Threads,
           Publishing(t) \/ PublicationCallback(t) \/ LeaveQueueContext(t)
    PROVE  RecordInv'
<1>1. CASE ApplyPublication(t)
  <2>0. PICK a, req : a = thread[t].att /\ req = thread[t].req
    OBVIOUS
  <2>1. thread[t].pc \in PublishPCs /\ thread[t].pc = "publish_apply"
        /\ UNCHANGED <<store, crashes>>
    BY <1>1 DEF ApplyPublication, PublishPCs, SlotPCs
  <2>2. CASE FailPublication(t) /\ Release /\ attempt' = attempt
    BY <1>1, <2>2, PublicationSteps
  <2>3. CASE ~ (FailPublication(t) /\ Release /\ attempt' = attempt)
    <3>1. /\ thread[t].pc # "idle" /\ a \in Attempts
          /\ attempt \in [Attempts -> AttemptType] /\ attempt[a] \in AttemptType
          /\ attempt[a].phase \in ClosingPhases /\ ~attempt[a].persistErr
          /\ Decision(a, "published") \in store.decisions
          /\ \A u \in Threads \ {t} : thread[u].att = a =>
                thread[u].pc \notin OwnerPCs \cup DecidingPCs \cup {"persist"}
      BY <2>0, <2>1, OwnedPublication
         DEF Knows, ClosingPhases, BystanderPCs, OwnerPCs, PublishPCs, SlotPCs, DecidingPCs
    <3>2. /\ ledger' = [ledger EXCEPT
                !.revision = req.revision + 1,
                !.lastCommitted = attempt[a].gen,
                !.durable = IF Covered(req) THEN ledger.durable ELSE req.target,
                !.serial = NoThread]
          /\ Goto(t, Call(a, "persist", "published"))
      BY <1>1, <2>0, <2>3 DEF ApplyPublication
    <3>3. /\ ledger'.next = ledger.next /\ ledger'.exhausted = ledger.exhausted
          /\ ledger'.durable \in {ledger.durable, req.target}
      BY <3>2, LedgerFacts DEF LedgerType
    <3>4. PICK s : /\ s = [attempt[a] EXCEPT !.restartCommitted = TRUE]
                   /\ attempt' = [attempt EXCEPT ![a] = s]
      BY <1>1, <2>0, <2>3, <3>1 DEF ApplyPublication
    <3>5. StepsTo(t, a, "persist", "published", NoRequest) /\ Ordered(NoRequest)
      BY <3>2, StepsCall, NoRequestOrdered
    <3>6. DecidedBy(t, a)
      BY <3>1 DEF DecidedBy
    <3>7. ledger'.durable \in {ledger.durable, thread[t].req.target}
      BY <2>0, <3>3
    <3> QED
      BY <2>0, <2>1, <3>1, <3>3, <3>4, <3>5, <3>6, <3>7, Applied
  <2> QED
    BY <2>2, <2>3
<1>2. CASE StorePublication(t)
  BY <1>2, StorePublicationRecord
<1> QED
  BY <1>1, <1>2, PublicationSteps DEF Publishing, PublicationCallback

-----------------------------------------------------------------------------
(* Attempts begin and processes restart                                    *)

LEMMA BeginRecord ==
    ASSUME TypeInv, LifeInv, RecordInv,
           NEW a \in Attempts, NEW k \in Keys, NEW g \in Generations, Begin(a, k, g)
    PROVE  RecordInv'
<1> DEFINE s == [Unborn EXCEPT !.phase = "open", !.key = k, !.gen = g, !.seq = ledger.next,
                               !.producer = TRUE]
<1>1. /\ attempt \in [Attempts -> AttemptType] /\ ledger \in LedgerType
      /\ attempt' = [attempt EXCEPT ![a] = s] /\ ~Begun(a)
      /\ UNCHANGED <<thread, store, crashes>>
  BY LedgerFacts, AttemptFacts DEF Begin, Begun
<1>2. /\ s.phase = "open" /\ s.gen = g /\ s.seq = ledger.next
      /\ s.restartCommitted = FALSE /\ s.persistErr = FALSE
  BY DEF Unborn
<1>3. attempt'[a] = s /\ \A b \in Attempts \ {a} : attempt'[b] = attempt[b]
  BY <1>1
<1> HIDE DEF s
<1>4. /\ Begun(a)' /\ \A b \in Attempts \ {a} : Begun(b)' <=> Begun(b)
      /\ \A b : Decided(b)' <=> Decided(b)
      /\ \A b \in Attempts \ {a} : \A out : Decision(b, out)' = Decision(b, out)
  BY <1>1, <1>2, <1>3 DEF Begun, Decided, Decision
<1>5. /\ ledger.next \in Int /\ ledger.next >= 1 /\ ClaimCount \in Int /\ ClaimCount >= 1
      /\ Reserved = ledger.next - 1
      /\ Reserved' = ledger.next + ClaimCount
      /\ ledger'.durable = ledger.durable
  <2>1. /\ ledger'.next = NextAfterBatch(ledger.next, ClaimCount)
        /\ ledger'.exhausted = ExhaustedAfterBatch(ledger.next, ClaimCount)
        /\ ledger'.durable = ledger.durable
    BY <1>1 DEF Begin, LedgerType
  <2>2. ledger.next \in Nat /\ ledger.next # 0 /\ ~ledger.exhausted
    BY <1>1 DEF Begin, BatchAvailable, LedgerType
  <2>3. ClaimCount \in Int /\ ClaimCount >= 1 /\ MaxUint64 \in Int
    OBVIOUS
  <2>4. Reserved = ledger.next - 1
    BY <2>2 DEF Reserved, EndSequence
  <2>5. CASE ledger.next + ClaimCount = MaxUint64
    <3>1. ledger'.exhausted
      BY <2>1, <2>5 DEF ExhaustedAfterBatch
    <3>2. Reserved' = MaxUint64
      BY <3>1 DEF Reserved, EndSequence
    <3> QED
      BY <2>1, <2>2, <2>3, <2>4, <2>5, <3>2
  <2>6. CASE ledger.next + ClaimCount # MaxUint64
    <3>1. ledger'.next = ledger.next + ClaimCount + 1 /\ ~ledger'.exhausted
      BY <2>1, <2>6 DEF NextAfterBatch, ExhaustedAfterBatch
    <3>2. Reserved' = (ledger.next + ClaimCount + 1) - 1
      BY <3>1 DEF Reserved, EndSequence
    <3> QED
      BY <2>1, <2>2, <2>3, <2>4, <3>2
  <2> QED
    BY <2>5, <2>6
<1>6. \A d \in store.decisions : Placed(d) /\ d.att \in Attempts /\ d.seq \in Int
  BY LedgerFacts DEF RecordInv, DecisionsPlaced, StoreType
<1>7. AttemptsCommitted'
  <2>1. ~Decided(a)
    BY <1>1, <1>6 DEF Decided, Placed
  <2>2. Committed(a)'
    BY <1>2, <1>3, <1>4, <2>1 DEF Committed, TerminalPhases
  <2>3. ASSUME NEW b \in Attempts \ {a} PROVE Committed(b)'
    BY <1>1, <1>3, <1>4 DEF Committed, RecordInv, AttemptsCommitted
  <2> QED
    BY <2>2, <2>3 DEF AttemptsCommitted
<1>8. CallsKnow'
  <2>1. ASSUME NEW u \in Threads, thread[u].pc # "idle" PROVE Knowing(u)'
    <3>0. PICK pc, out, req : pc = thread[u].pc /\ out = thread[u].out /\ req = thread[u].req
      OBVIOUS
    <3>1. PICK b \in Attempts : b = thread[u].att
      BY <2>1, BusyFacts
    <3>2. b # a /\ Knows(pc, out, req, b)
      BY <1>1, <2>1, <3>0, <3>1, LifeFacts, KnowsFacts
         DEF Fits, Begun, ClosingPhases, TerminalPhases
    <3>3. Knows(pc, out, req, b)'
      BY <1>1, <1>3, <1>4, <3>2 DEF Knows
    <3> QED
      BY <1>1, <3>0, <3>1, <3>3 DEF Knowing
  <2> QED
    BY <1>1, <2>1 DEF CallsKnow, Knowing
<1>9. /\ EndSequence(store.restart) <= Reserved /\ EndSequence(store.restart) \in Int
      /\ \A r \in RestartType : Behind(r) => Behind(r)'
  <2>1. \A r \in RestartType : EndSequence(r) \in Int
    BY RecordEnds
  <2>2. store.restart \in RestartType
    BY LedgerFacts DEF StoreType
  <2> QED
    BY <1>5, <2>1, <2>2 DEF Behind, RecordInv, WatermarksOrdered
<1>10. WatermarksOrdered'
  <2>1. /\ store.restart \in RestartType /\ ledger.durable \in RestartType
        /\ \A u \in Threads : thread[u].req.target \in RestartType
    BY <1>1, LedgerFacts, CallFacts DEF StoreType, LedgerType, ThreadType, RequestType
  <2> QED
    BY <1>1, <1>5, <1>9, <2>1 DEF WatermarksOrdered, RecordInv, Ordered
<1>11. SequencesOwned'
  <2>1. ASSUME NEW b \in Attempts \ {a}, Begun(b)
        PROVE  /\ 1 <= attempt[b].seq /\ attempt[b].seq + ClaimCount <= Reserved
               /\ attempt[b].seq \in Int /\ attempt[b].seq < ledger.next
    BY <1>1, <1>5, <2>1 DEF RecordInv, SequencesOwned, AttemptType
  <2> QED
    BY <1>2, <1>3, <1>4, <1>5, <2>1 DEF SequencesOwned, RecordInv
<1>12. DecisionsPlaced'
  <2>1. ASSUME NEW d \in store.decisions PROVE Placed(d)'
    <3>1. d.seq < ledger.next
      BY <1>5, <1>6, <1>9, <2>1 DEF Placed
    <3>2. d.life = crashes => d.att # a
      BY <1>1, <1>6 DEF Placed
    <3> QED
      BY <1>1, <1>2, <1>3, <1>4, <1>6, <3>1, <3>2 DEF Placed
  <2> QED
    BY <1>1, <2>1 DEF DecisionsPlaced, RecordInv, SequenceNeverReused
<1>13. EffectsDecided'
  BY <1>1 DEF EffectsDecided, RecordInv, LastEffectGen
<1> QED
  BY <1>7, <1>8, <1>10, <1>11, <1>12, <1>13 DEF RecordInv

(* A process that starts has no attempt, no call, and reserves nothing.    *)
LEMMA Started ==
    ASSUME TypeInv, WatermarksOrdered,
           attempt' = [b \in Attempts |-> Unborn], thread' = [u \in Threads |-> Idle],
           ledger'.durable = store.restart, ledger'.next = store.restart.next,
           ledger'.exhausted = store.restart.exhausted, store' = store
    PROVE  AttemptsCommitted' /\ CallsKnow' /\ WatermarksOrdered' /\ SequencesOwned'
<1>1. Unborn.phase = "unborn" /\ Unborn.restartCommitted = FALSE
  BY DEF Unborn
<1>2. /\ EndSequence(InitialRestart) = 0
      /\ InitialRestart.exhausted <=> InitialRestart.next = 0
  BY DEF EndSequence, InitialRestart
<1>3. /\ EndSequence(store.restart) \in 0 .. MaxUint64
      /\ store.restart.exhausted <=> store.restart.next = 0
      /\ Reserved' = EndSequence(store.restart)
  <2>1. store.restart \in RestartType
    BY LedgerFacts DEF StoreType
  <2> QED
    BY <2>1, EndInWidth DEF WatermarksOrdered, Behind, RestartType, Reserved, EndSequence
<1>4. WatermarksOrdered'
  BY <1>2, <1>3 DEF WatermarksOrdered, Behind, Ordered, Idle, NoRequest
<1>5. AttemptsCommitted'
  BY <1>1 DEF AttemptsCommitted, Committed, LivePhases, TerminalPhases
<1> QED
  BY <1>1, <1>4, <1>5 DEF CallsKnow, SequencesOwned, Begun, Idle

LEMMA CrashRecord ==
    ASSUME TypeInv, RecordInv, Crash
    PROVE  RecordInv'
<1>1. /\ ledger'.durable = store.restart /\ ledger'.next = store.restart.next
      /\ ledger'.exhausted = store.restart.exhausted
      /\ store' = store /\ crashes' = crashes + 1 /\ crashes \in Int
  BY LedgerFacts DEF Crash, NewLedger
<1>2. AttemptsCommitted' /\ CallsKnow' /\ WatermarksOrdered' /\ SequencesOwned'
  BY <1>1, Started DEF Crash, RecordInv
<1>3. DecisionsPlaced'
  <2>1. \A b \in Attempts : ~Begun(b)'
    BY DEF Crash, Begun, Unborn
  <2>2. \A d \in store.decisions : d.life \in Int
    BY LedgerFacts DEF StoreType
  <2> QED
    BY <1>1, <2>1, <2>2 DEF RecordInv, DecisionsPlaced, SequenceNeverReused, Placed
<1>4. EffectsDecided'
  BY <1>1 DEF EffectsDecided, RecordInv, LastEffectGen
<1> QED
  BY <1>2, <1>3, <1>4 DEF RecordInv

LEMMA InitRecord == Init => RecordInv
<1> SUFFICES ASSUME Init PROVE RecordInv
  OBVIOUS
<1>1. /\ ledger.durable = InitialRestart /\ ledger.next = 1 /\ ledger.exhausted = FALSE
      /\ store.restart = InitialRestart /\ store.decisions = {} /\ store.effects = <<>>
      /\ store.revision = 0 /\ store.gen = 0
      /\ \A b \in Attempts : attempt[b] = Unborn
      /\ \A u \in Threads : thread[u] = Idle
  BY DEF Init, NewLedger, InitialRestart
<1>2. Unborn.phase = "unborn" /\ Unborn.restartCommitted = FALSE
  BY DEF Unborn
<1>3. AttemptsCommitted
  BY <1>1, <1>2 DEF AttemptsCommitted, Committed, LivePhases, TerminalPhases
<1>4. CallsKnow /\ SequencesOwned
  BY <1>1, <1>2 DEF CallsKnow, SequencesOwned, Begun, Idle
<1>5. WatermarksOrdered
  <2>1. EndSequence(InitialRestart) = 0 /\ Reserved = 0
    BY <1>1 DEF EndSequence, InitialRestart, Reserved
  <2>2. \A u \in Threads : thread[u].req.target = InitialRestart
                           /\ thread[u].req.expected = InitialRestart
    BY <1>1 DEF Idle, NoRequest
  <2>3. InitialRestart.exhausted <=> InitialRestart.next = 0
    BY DEF InitialRestart
  <2> QED
    BY <1>1, <2>1, <2>2, <2>3 DEF WatermarksOrdered, Behind, Ordered
<1>6. DecisionsPlaced /\ EffectsDecided
  BY <1>1 DEF DecisionsPlaced, SequenceNeverReused, EffectsDecided, LastEffectGen
<1> QED
  BY <1>3, <1>4, <1>5, <1>6 DEF RecordInv

LEMMA RecordStep == LedgerInv /\ RecordInv /\ [Next]_vars => RecordInv'
<1> SUFFICES ASSUME LedgerInv, RecordInv, [Next]_vars PROVE RecordInv'
  OBVIOUS
<1>0. TypeInv /\ OneCommitDriver /\ LifeInv
  BY DEF LedgerInv
<1>1. CASE UNCHANGED vars
  BY <1>0, <1>1, SteadyStep, AllSteady, StillSame DEF vars, Waits, Roused
<1>2. ASSUME NEW t \in Threads, Committing(t) PROVE RecordInv'
  BY <1>2, CommittingRecord
<1>3. ASSUME NEW t \in Threads, Cancelling(t) PROVE RecordInv'
  BY <1>0, <1>3, CancellingRecord
<1>4. ASSUME NEW t \in Threads, Publishing(t) \/ PublicationCallback(t) \/ LeaveQueueContext(t)
      PROVE  RecordInv'
  BY <1>0, <1>4, PublishingRecord
<1>5. ASSUME NEW t \in Threads, NEW a \in Attempts, Calling(t, a) PROVE RecordInv'
  BY <1>0, <1>5, CallingRecord
<1>6. ASSUME NEW a \in Attempts, Handling(a) PROVE RecordInv'
  BY <1>0, <1>6, HandlingRecord, BeginRecord
<1>7. CASE Crash
  BY <1>0, <1>7, CrashRecord
<1> QED
  BY <1>1, <1>2, <1>3, <1>4, <1>5, <1>6, <1>7 DEF Next

LEMMA RecordInvariant == Spec => [](LedgerInv /\ RecordInv)
<1>1. Init => RecordInv
  BY InitRecord
<1> QED
  BY <1>1, RecordStep, LedgerInvariant, PTL DEF Spec

-----------------------------------------------------------------------------
(* What the store keeps                                                    *)

(* An attempt shows a terminal phase (Cancel and Publish return it, its    *)
(* key and capacity are free) only when the committer holds that very      *)
(* outcome and a watermark past every sequence of the attempt's batch.     *)
(* The committer keeps its contract here: an error changed nothing.        *)
THEOREM TerminalPhaseIsDurable == Spec => []TerminalIsDurable
<1>1. RecordInv => TerminalIsDurable
  <2> SUFFICES ASSUME RecordInv, NEW a \in Attempts, attempt[a].phase \in TerminalPhases
               PROVE  /\ Decision(a, attempt[a].phase) \in store.decisions
                      /\ attempt[a].seq + ClaimCount <= EndSequence(store.restart)
    BY DEF TerminalIsDurable
  <2>1. PICK d \in store.decisions : d = Decision(a, attempt[a].phase)
    BY DEF RecordInv, AttemptsCommitted, Committed
  <2>2. d.seq = attempt[a].seq /\ Placed(d)
    BY <2>1 DEF Decision, RecordInv, DecisionsPlaced
  <2> QED
    BY <2>1, <2>2 DEF Placed
<1> QED
  BY <1>1, RecordInvariant, PTL

(* No terminal sequence that reached the store is ever given to a second   *)
(* attempt, of this process or of a later one, although a crash forgets    *)
(* every sequence reserved for an attempt still alive.                     *)
THEOREM SequencesNeverReused == Spec => []SequenceNeverReused
<1>1. RecordInv => SequenceNeverReused
  BY DEF RecordInv, DecisionsPlaced
<1> QED
  BY <1>1, RecordInvariant, PTL

-----------------------------------------------------------------------------
(* The durable record                                                      *)

LEMMA StoreSteps ==
    ASSUME [Next]_vars, store' # store
    PROVE  \E t \in Threads : StoreTerminal(t) \/ StorePublication(t)
<1>1. CASE UNCHANGED vars \/ Crash \/ \E a \in Attempts : Handling(a)
  BY <1>1 DEF vars, Crash, Handling, Begin, Issue, ClaimStart, ClaimFinish, Admit, Seal
<1>2. ASSUME NEW t \in Threads, Cancelling(t) \/ \E a \in Attempts : Calling(t, a)
      PROVE  FALSE
  BY <1>2 DEF Cancelling, CancelWoken, CancelPass, ClaimsWoken, CloseOpen, Drain,
     FinishCancellation, Calling, AdmitCloseFails, AdmitInvalid, CancelCall, PublishCall
<1>3. ASSUME NEW t \in Threads, Committing(t) PROVE StoreTerminal(t)
  BY <1>3 DEF Committing, Persist, JoinWoken, CommitSnapshot, StoreTerminalFails,
     ApplyTerminal, CommitFails, Finalize
<1>4. ASSUME NEW t \in Threads, Publishing(t) \/ PublicationCallback(t) \/ LeaveQueueContext(t)
      PROVE  StorePublication(t)
  BY <1>4 DEF Publishing, PublishDrain, TakeSlot, LeaveQueueAborted, Recheck, PublishSnapshot,
     ApplyPublication, PublicationCallback, StorePublicationFails, LeaveQueueContext
<1> QED
  BY <1>1, <1>2, <1>3, <1>4 DEF Next

(* An accepted request moves the durable watermark up, within the width.   *)
LEMMA WatermarkMovesUp ==
    ASSUME TypeInv, RecordInv, NEW req \in RequestType, Ordered(req), Accepts(req),
           store'.restart = Joined(req.target)
    PROVE  /\ EndSequence(store.restart) \in 0 .. MaxUint64
           /\ EndSequence(store'.restart) \in EndSequence(store.restart) .. MaxUint64
           /\ EndSequence(req.target) <= EndSequence(store'.restart)
<1>1. store.restart \in RestartType /\ req.target \in RestartType
  BY LedgerFacts DEF StoreType, RequestType
<1>2. /\ Joined(req.target) \in {store.restart, req.target}
      /\ EndSequence(store.restart) <= EndSequence(store'.restart)
      /\ EndSequence(req.target) <= EndSequence(store'.restart)
  BY JoinedEnds DEF RecordInv
<1>3. \A r \in {store.restart, req.target} : EndSequence(r) \in 0 .. MaxUint64
  BY <1>1, EndInWidth DEF RestartType, Ordered, Behind, RecordInv, WatermarksOrdered
<1> QED
  BY <1>2, <1>3

LEMMA TerminalCloses ==
    ASSUME TypeInv, RecordInv, NEW t \in Threads, StoreTerminal(t)
    PROVE  [Record!Next]_<<store.effects, EndSequence(store.restart)>>
<1>1. /\ thread[t].pc # "idle" /\ Accepts(thread[t].req)
      /\ store'.restart = Joined(thread[t].req.target) /\ store'.effects = store.effects
  BY LedgerFacts DEF StoreTerminal, StoreType
<1>2. /\ EndSequence(store.restart) \in 0 .. MaxUint64
      /\ EndSequence(store'.restart) \in EndSequence(store.restart) .. MaxUint64
  BY <1>1, KnowsFacts, BusyFacts, WatermarkMovesUp
<1>3. CASE EndSequence(store'.restart) = EndSequence(store.restart)
  BY <1>1, <1>3
<1>4. CASE EndSequence(store'.restart) # EndSequence(store.restart)
  <2>1. Record!Close
    BY <1>1, <1>2, <1>4 DEF Record!Close
  <2> QED
    BY <2>1 DEF Record!Next
<1> QED
  BY <1>3, <1>4

LEMMA PublicationPublishes ==
    ASSUME TypeInv, LifeInv, RecordInv, NEW t \in Threads, StorePublication(t)
    PROVE  Record!Next
<1>0. PICK a \in Attempts :
        /\ a = thread[t].att /\ Begun(a) /\ attempt[a].gen \in Generations
        /\ attempt[a].gen > store.gen /\ ~Decided(a)
        /\ store'.restart = Joined(thread[t].req.target)
        /\ store'.effects = Append(store.effects, [id |-> Len(store.effects) + 1,
                                                   gen |-> attempt[a].gen,
                                                   seq |-> attempt[a].seq])
  BY PublicationIs
<1> DEFINE seq == attempt[a].seq
<1>1. /\ thread[t].pc = "publish_store" /\ thread[t].pc # "idle" /\ Accepts(thread[t].req)
      /\ thread[t].req \in RequestType /\ Ordered(thread[t].req)
      /\ seq + ClaimCount <= EndSequence(thread[t].req.target)
  BY <1>0, KnowsFacts, BusyFacts DEF StorePublication, Knows, RecordPCs
<1>2. /\ EndSequence(store.restart) \in 0 .. MaxUint64
      /\ EndSequence(store'.restart) \in EndSequence(store.restart) .. MaxUint64
      /\ EndSequence(thread[t].req.target) <= EndSequence(store'.restart)
  BY <1>0, <1>1, WatermarkMovesUp
<1>3. seq \in 1 .. MaxUint64 /\ seq + ClaimCount <= EndSequence(store'.restart)
  <2>1. seq \in Int /\ 1 <= seq /\ EndSequence(thread[t].req.target) \in Int
    BY <1>0, <1>1, AttemptFacts, RecordEnds
       DEF AttemptType, RequestType, RecordInv, SequencesOwned
  <2> QED
    BY <1>1, <1>2, <2>1
<1>4. attempt[a].gen > Record!LastGeneration
  BY <1>0 DEF Record!LastGeneration, LastEffectGen, RecordInv, EffectsDecided
<1>5. Record!Fresh(seq)
  <2> SUFFICES ASSUME NEW i \in 1 .. Len(store.effects), store.effects[i].seq = seq
               PROVE  FALSE
    BY DEF Record!Fresh
  <2>1. PICK d \in store.decisions : d.seq = seq
    BY DEF RecordInv, EffectsDecided
  <2>2. Placed(d) /\ d.att \in Attempts /\ d.life \in Int /\ crashes \in Int
    BY LedgerFacts DEF RecordInv, DecisionsPlaced, StoreType
  <2>3. CASE d.life = crashes
    <3>1. d.att = a
      BY <1>0, <2>1, <2>2, <2>3 DEF Placed, RecordInv, SequencesOwned
    <3> QED
      BY <1>0, <2>3, <3>1 DEF Decided
  <2>4. CASE d.life < crashes
    BY <1>0, <1>3, <2>1, <2>2, <2>4 DEF Placed
  <2> QED
    BY <2>2, <2>3, <2>4 DEF Placed
<1>6. Record!Publish(attempt[a].gen, seq)
  BY <1>0, <1>2, <1>3, <1>4, <1>5 DEF Record!Publish
<1> QED
  BY <1>0, <1>3, <1>6 DEF Record!Next

(* Over any number of crashes and committer failures the record the        *)
(* committer keeps is the one DurableRecord specifies: consecutive sample  *)
(* ids, strictly increasing generations, a fresh terminal sequence for     *)
(* each publication, and a watermark that covers it and never moves down.  *)
THEOREM LedgerImplementsRecord == Spec => RecordSpec
<1>1. Init => Record!Init
  BY DEF Init, Record!Init, InitialRestart, EndSequence
<1>2. LedgerInv /\ RecordInv /\ [Next]_vars
        => [Record!Next]_<<store.effects, EndSequence(store.restart)>>
  <2> SUFFICES ASSUME LedgerInv, RecordInv, [Next]_vars
               PROVE  [Record!Next]_<<store.effects, EndSequence(store.restart)>>
    OBVIOUS
  <2>1. CASE store' = store
    BY <2>1
  <2>2. CASE store' # store
    BY <2>2, StoreSteps, TerminalCloses, PublicationPublishes DEF LedgerInv
  <2> QED
    BY <2>1, <2>2
<1> QED
  BY <1>1, <1>2, RecordInvariant, PTL DEF Spec, RecordSpec, Record!Spec
=============================================================================
