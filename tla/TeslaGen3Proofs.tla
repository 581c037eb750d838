--------------------------- MODULE TeslaGen3Proofs ---------------------------
(***************************************************************************)
(* Theorems about the Tesla Gen3 read acquisition, for any number of       *)
(* callers, operations, attempts, endpoints and activations: a ready       *)
(* lifecycle can be used, an epoch belongs to one generation of one        *)
(* endpoint, no endpoint is left open, no request is let through for       *)
(* anyone but its owner, and no late value becomes last known good.        *)
(***************************************************************************)
EXTENDS MCTeslaGen3, FiniteSetTheorems, WellFoundedInduction, TLAPS

USE TeslaGen3Assumption

-----------------------------------------------------------------------------
(* Shapes                                                                  *)

States == {"stopped", "activating", "ready", "recovering", "unavailable", "closed"}
Kinds == {"none", "start", "restart", "acquire", "poll"}
Contexts == {"live", "deadline", "cancelled"}
Follows == {"none", "configure", "release", "unavailable", "retire", "recover"}

PCs == {"idle", "start", "retire", "close_retired", "configure", "open", "install",
        "unavailable", "activate", "observe", "commit_ready", "poll", "attempt", "plan", "send",
        "in_flight", "clear_plan", "publish", "outcome", "recorded", "retire_owned", "recover",
        "recover_wire", "recovered", "release"}

AcqFields == {"state", "busy", "closed", "endpoint", "instance", "epoch", "epochGeneration",
              "lastGeneration", "plan"}

IsAcq(s) ==
    /\ DOMAIN s = AcqFields
    /\ s.state \in States /\ s.busy \in BOOLEAN /\ s.closed \in BOOLEAN
    /\ s.endpoint \in Endpoints \cup {NoEndpoint}
    /\ s.instance \in Endpoints \cup {NoEndpoint}
    /\ s.epoch \in Nat /\ s.epochGeneration \in Nat /\ s.lastGeneration \in Nat

CallFields == {"pc", "kind", "next", "attempt", "ctx", "ep", "epoch", "follow", "record",
               "result"}

IsCall(k) ==
    /\ DOMAIN k = CallFields
    /\ k.pc \in PCs /\ k.kind \in Kinds /\ k.ctx \in Contexts /\ k.follow \in Follows
    /\ k.ep \in Endpoints \cup {NoEndpoint} /\ k.epoch \in Nat

IsWire(w) ==
    /\ DOMAIN w = {"status", "fenced", "generation"}
    /\ w.status \in {"unopened", "open", "closed"} /\ w.fenced \in BOOLEAN
    /\ w.generation \in Nat \ {0}

IsAdmitted(a) == a \in [epoch : Nat, ep : Endpoints, generation : Nat \ {0}]

Typed ==
    /\ IsAcq(acq)
    /\ DOMAIN call = Callers /\ \A c \in Callers : IsCall(call[c])
    /\ DOMAIN wire = Endpoints /\ \A e \in Endpoints : IsWire(wire[e])
    /\ \A a \in admitted : IsAdmitted(a)
    /\ closing \in Endpoints \cup {NoEndpoint}
    /\ DOMAIN retained = Operations
    /\ \A op \in Operations : DOMAIN retained[op] = {"good", "attempted"}

-----------------------------------------------------------------------------
(* The call in the slot                                                    *)

(* Steps at which the owned endpoint is the one the call exchanges with,   *)
(* those at which nothing is owned, those at which a fresh or recovered    *)
(* generation is to be activated, and those at which a plan is bound.      *)
OwnerPCs == {"plan", "send", "in_flight", "clear_plan", "publish", "retire_owned", "recover",
             "recover_wire", "recovered"}
ReadyPCs == {"plan", "send", "in_flight", "clear_plan", "publish"}
SentPCs == {"recover", "recover_wire", "recovered"}
EmptyPCs == {"close_retired", "configure", "open", "install"}
FreshPCs == {"activate", "observe", "commit_ready"}
PlannedPCs == {"send", "in_flight", "clear_plan"}
HoldingPCs == {"install", "close_retired"}

(* What the call c has in its hands is what the lifecycle owns, unless it  *)
(* was closed.                                                             *)
OwnerFits(c) ==
    /\ call[c].pc \in OwnerPCs =>
          call[c].ep \in Endpoints /\ (acq.closed \/ acq.endpoint = call[c].ep)
    /\ call[c].pc \in EmptyPCs => acq.endpoint = NoEndpoint
    /\ call[c].pc \in FreshPCs \cup {"recovered"} =>
          acq.closed \/ (acq.endpoint # NoEndpoint /\ Usable(acq.endpoint))
    /\ call[c].pc = "close_retired" =>
          /\ call[c].ep \in Endpoints
          /\ call[c].follow \in {"configure", "unavailable"} \/ (call[c].follow = "release" /\ acq.closed)
    /\ call[c].pc = "start" => call[c].follow = "configure"
    /\ call[c].pc = "retire" => call[c].follow \in {"configure", "unavailable"}
    /\ call[c].pc = "open" => acq.closed \/ acq.instance = NextEndpoint
    /\ call[c].pc = "install" =>
          /\ call[c].ep \in Endpoints /\ call[c].ep # closing /\ Usable(call[c].ep)
          /\ acq.closed \/ acq.instance = call[c].ep
          /\ \A a \in admitted : a.ep # call[c].ep

(* ... and so is what it knows of the epoch and the generation.            *)
EpochFits(c) ==
    /\ call[c].pc \in ReadyPCs => acq.closed \/ acq.state = "ready"
    /\ call[c].pc \in SentPCs \cup {"in_flight"} => acq.closed \/ acq.epochGeneration # 0
    /\ call[c].pc \in FreshPCs => acq.closed \/ acq.epochGeneration = 0
    /\ call[c].pc \in {"observe", "commit_ready"} => call[c].epoch = acq.epoch + 1
    /\ call[c].pc = "send" => acq.closed \/ call[c].epoch = acq.epoch
    /\ call[c].pc \in {"recover_wire", "recovered"} => acq.state # "ready"
    /\ call[c].pc \in {"clear_plan", "publish"} =>
          /\ call[c].follow \in {"none", "retire", "recover"}
          /\ call[c].follow = "recover" => acq.closed \/ acq.epochGeneration # 0
          /\ call[c].record.state = "ack" =>
                /\ call[c].follow = "none" /\ call[c].record.ep = call[c].ep
                /\ call[c].record.generation = wire[call[c].ep].generation
                /\ "state" \in DOMAIN call[c].record

-----------------------------------------------------------------------------
(* What is true of the endpoints and of the admission                      *)

(* The owned endpoint is open and the admission is bound to it, after      *)
(* Close nothing is owned, and every open endpoint is in someone's hands.  *)
Owning(c) ==
    /\ acq.closed => acq.state = "closed" /\ acq.endpoint = NoEndpoint
    /\ acq.endpoint # NoEndpoint =>
          wire[acq.endpoint].status = "open" /\ acq.instance = acq.endpoint
    /\ closing # NoEndpoint => acq.closed /\ wire[closing].status # "unopened"
    /\ \A e \in Endpoints : wire[e].status = "open" =>
          \/ e \in {acq.endpoint, closing}
          \/ call[c].ep = e /\ call[c].pc \in HoldingPCs

(* Steps at which a lifecycle that is still called ready may own nothing   *)
(* it can use.                                                             *)
Unsettled(c) ==
    \/ call[c].pc \in EmptyPCs \cup FreshPCs \cup SentPCs
    \/ call[c].pc \in {"retire", "retire_owned", "unavailable"}
    \/ call[c].pc \in {"clear_plan", "publish"} /\ call[c].follow = "recover"

Settled(c) ==
    acq.state = "ready" /\ ~Unsettled(c) => acq.endpoint # NoEndpoint /\ Usable(acq.endpoint)

(* A plan is bound only during an exchange.                                *)
PlanHeld(c) == acq.plan # NoPlan => call[c].pc \in PlannedPCs

(* What was let through on the owned endpoint is not past the generation   *)
(* of this epoch, and what was let through in this epoch is of it.         *)
Bounded(a) ==
    acq.endpoint = a.ep =>
        IF acq.epochGeneration = 0 THEN a.generation =< acq.lastGeneration
        ELSE /\ a.generation =< acq.epochGeneration
             /\ a.epoch < acq.epoch => a.generation < acq.epochGeneration

Present(c, a) ==
    acq.state = "ready" /\ acq.endpoint # NoEndpoint /\ a.epoch = acq.epoch
    /\ call[c].pc # "activate"
    => a.ep = acq.endpoint /\ a.generation = acq.epochGeneration

Admissions(c) ==
    \A a \in admitted :
        /\ a.epoch =< acq.epoch /\ wire[a.ep].status # "unopened"
        /\ Bounded(a) /\ Present(c, a)

(* Single flight: all calls but c's are idle, and the rest of the state is *)
(* what c's call makes of it.                                              *)
InSlot(c) ==
    /\ \A d \in Callers \ {c} : call[d].pc = "idle"
    /\ acq.busy <=> call[c].pc # "idle"
    /\ OwnerFits(c) /\ EpochFits(c) /\ Owning(c) /\ Settled(c) /\ PlanHeld(c) /\ Admissions(c)

TeslaInv == Typed /\ OneGenerationPerEpoch /\ \E c \in Callers : InSlot(c)

-----------------------------------------------------------------------------
(* The next endpoint to open                                               *)

LEMMA LeastEndpoint ==
    ASSUME NEW S \in SUBSET Endpoints, S # {}
    PROVE  \E e \in S : \A f \in S : e <= f
<1>1. PICK x \in S : TRUE
  OBVIOUS
<1>2. S \subseteq Nat
  BY DEF Endpoints
<1>3. PICK y \in S : \A z \in S : ~(<<z, y>> \in OpToRel(<, Nat))
  BY <1>1, <1>2, NatLessThanWellFounded, WFMin
<1>4. ASSUME NEW z \in S PROVE y <= z
  <2>1. z \in Nat /\ y \in Nat
    BY <1>2
  <2>2. <<z, y>> \in Nat \X Nat /\ <<z, y>>[1] = z /\ <<z, y>>[2] = y
    BY <2>1
  <2>3. ~(z < y)
    BY <1>3, <2>2 DEF OpToRel
  <2> QED
    BY <2>1, <2>3
<1> QED
  BY <1>4

LEMMA NextIsUnopened ==
    /\ NextEndpoint \in Endpoints \cup {NoEndpoint}
    /\ NextEndpoint # NoEndpoint => wire[NextEndpoint].status = "unopened"
<1> DEFINE unopened == {e \in Endpoints : wire[e].status = "unopened"}
<1>1. CASE unopened = {}
  BY <1>1 DEF NextEndpoint
<1>2. CASE unopened # {}
  <2>1. \E e \in unopened : \A f \in unopened : e <= f
    BY <1>2, LeastEndpoint
  <2>2. NextEndpoint = CHOOSE e \in unopened : \A f \in unopened : e <= f
    BY <1>2 DEF NextEndpoint
  <2>3. NextEndpoint \in unopened
    <3> HIDE DEF unopened
    <3> QED
      BY <2>1, <2>2
  <2> QED
    BY <2>3
<1> QED
  BY <1>1, <1>2

-----------------------------------------------------------------------------
(* Steps of the call in the slot                                           *)

(* Only the call of c moves.                                               *)
Moves(c) ==
    /\ DOMAIN call' = Callers /\ IsCall(call'[c])
    /\ \A d \in Callers \ {c} : call'[d] = call[d]

LEMMA MovesBy ==
    ASSUME Typed, NEW c \in Callers, NEW k, IsCall(k), call' = [call EXCEPT ![c] = k]
    PROVE  Moves(c) /\ call'[c] = k
BY DEF Typed, Moves

LEMMA GotoMoves ==
    ASSUME Typed, NEW c \in Callers, NEW pc \in PCs, Goto(c, pc)
    PROVE  /\ Moves(c)
           /\ call'[c].pc = pc /\ call'[c].ep = call[c].ep /\ call'[c].epoch = call[c].epoch
           /\ call'[c].follow = call[c].follow /\ call'[c].record = call[c].record
           /\ call'[c].kind = call[c].kind
BY DEF Typed, Moves, Goto, IsCall, CallFields

LEMMA IdleIsCall ==
    /\ IsCall(Idle) /\ Idle.pc = "idle" /\ Idle.kind = "none" /\ Idle.follow = "none"
    /\ Idle.ep = NoEndpoint /\ Idle.epoch = 0
BY DEF Idle, IsCall, CallFields, PCs, Kinds, Contexts, Follows

LEMMA ReturningMoves ==
    ASSUME Typed, NEW c \in Callers, NEW result, Returning(c, result)
    PROVE  /\ Moves(c)
           /\ call'[c].pc = "release" /\ call'[c].follow = "none"
<1>1. PICK k : k = [Idle EXCEPT !.pc = "release", !.kind = call[c].kind, !.result = result]
  OBVIOUS
<1>2. IsCall(k) /\ k.pc = "release" /\ k.follow = "none"
  <2> HIDE DEF Idle
  <2> QED
    BY <1>1, IdleIsCall DEF IsCall, CallFields, PCs, Typed
<1>3. call' = [call EXCEPT ![c] = k]
  BY <1>1 DEF Returning
<1> QED
  BY <1>2, <1>3, MovesBy

(* What is left of the invariant when a step of c moves its call and       *)
(* nothing else that matters.                                              *)
Quiet == UNCHANGED <<acq, wire, closing, admitted>>

RetainedTyped ==
    DOMAIN retained = Operations /\ \A op \in Operations : DOMAIN retained[op] = {"good", "attempted"}

LEMMA QuietStep ==
    ASSUME Typed, NEW c \in Callers, InSlot(c), Quiet, RetainedTyped', Moves(c),
           call[c].pc # "idle", call'[c].pc # "idle",
           OwnerFits(c)', EpochFits(c)',
           call[c].pc \in HoldingPCs =>
               call'[c].pc \in HoldingPCs /\ call'[c].ep = call[c].ep,
           acq.state = "ready" /\ Unsettled(c) => Unsettled(c)',
           call[c].pc \in PlannedPCs => call'[c].pc \in PlannedPCs,
           acq.state = "ready" /\ call[c].pc = "activate" => call'[c].pc = "activate"
    PROVE  Typed' /\ InSlot(c)'
<1>1. Typed'
  BY DEF Typed, Moves, Quiet, RetainedTyped, IsAcq
<1>2. (\A d \in Callers \ {c} : call[d].pc = "idle")' /\ (acq.busy <=> call[c].pc # "idle")'
  BY DEF InSlot, Moves, Quiet
<1>3. Owning(c)'
  BY DEF InSlot, Owning, Quiet
<1>4. Settled(c)'
  <2>1. acq' = acq /\ wire' = wire
    BY DEF Quiet
  <2>2. acq.state = "ready" /\ ~Unsettled(c)' => ~Unsettled(c)
    OBVIOUS
  <2> QED
    BY <2>1, <2>2 DEF InSlot, Settled, Usable
<1>5. PlanHeld(c)'
  BY DEF InSlot, PlanHeld, Quiet
<1>6. Admissions(c)'
  BY DEF InSlot, Admissions, Bounded, Present, Quiet
<1> QED
  BY <1>1, <1>2, <1>3, <1>4, <1>5, <1>6 DEF InSlot

(* A step to where the call knows nothing of the lifecycle.                *)
RestPCs == {"unavailable", "poll", "attempt", "outcome", "recorded", "release"}

LEMMA RestStep ==
    ASSUME Typed, NEW c \in Callers, InSlot(c), Quiet, RetainedTyped', Moves(c),
           call'[c].pc \in RestPCs,
           call[c].pc \notin HoldingPCs \cup PlannedPCs \cup {"idle"},
           acq.state = "ready" =>
               call[c].pc # "activate" /\ (Unsettled(c) => call'[c].pc = "unavailable")
    PROVE  Typed' /\ InSlot(c)'
<1>1. OwnerFits(c)' /\ EpochFits(c)'
  BY DEF RestPCs, OwnerFits, EpochFits, OwnerPCs, EmptyPCs, FreshPCs, ReadyPCs, SentPCs
<1>2. call'[c].pc # "idle" /\ (call'[c].pc = "unavailable" => Unsettled(c)')
  BY DEF RestPCs, Unsettled
<1> QED
  BY <1>1, <1>2, QuietStep DEF HoldingPCs, PlannedPCs

LEMMA ActivationFailsMoves ==
    ASSUME Typed, NEW c \in Callers, ActivationFails(c)
    PROVE  Moves(c) /\ call'[c].pc \in {"retire", "unavailable"} /\ call'[c].follow = "unavailable"
BY DEF Typed, Moves, ActivationFails, IsCall, CallFields, PCs, Follows

LEMMA GivesUpActivation ==
    ASSUME Typed, NEW c \in Callers, InSlot(c), Quiet, RetainedTyped', ActivationFails(c),
           call[c].pc \in FreshPCs, call[c].pc = "activate" => acq.closed
    PROVE  Typed' /\ InSlot(c)'
<1>1. Moves(c) /\ call'[c].pc \in {"retire", "unavailable"} /\ call'[c].follow = "unavailable"
  BY ActivationFailsMoves
<1>2. OwnerFits(c)' /\ EpochFits(c)'
  BY <1>1 DEF OwnerFits, EpochFits, OwnerPCs, EmptyPCs, FreshPCs, ReadyPCs, SentPCs
<1>3. Unsettled(c)' /\ call[c].pc # "idle" /\ call'[c].pc # "idle"
      /\ call[c].pc \notin HoldingPCs \cup PlannedPCs
  BY <1>1 DEF Unsettled, FreshPCs, HoldingPCs, PlannedPCs
<1>4. acq.state = "ready" => call[c].pc # "activate"
  BY DEF InSlot, Owning
<1> QED
  BY <1>1, <1>2, <1>3, <1>4, QuietStep

LEMMA StartChecksKept ==
    ASSUME Typed, NEW c \in Callers, InSlot(c), StartChecks(c)
    PROVE  Typed' /\ InSlot(c)'
<1>1. call[c].pc = "start" /\ Quiet /\ RetainedTyped'
  BY DEF StartChecks, Quiet, RetainedTyped, Typed
<1>2. CASE Goto(c, "retire")
  <2>1. Moves(c) /\ call'[c].pc = "retire" /\ call'[c].follow = call[c].follow
    BY <1>2, GotoMoves DEF PCs
  <2>2. call[c].follow = "configure"
    BY <1>1 DEF InSlot, OwnerFits
  <2>3. OwnerFits(c)' /\ EpochFits(c)' /\ Unsettled(c)'
    BY <2>1, <2>2 DEF OwnerFits, EpochFits, OwnerPCs, EmptyPCs, FreshPCs, ReadyPCs, SentPCs,
                      Unsettled
  <2> QED
    BY <1>1, <2>1, <2>3, QuietStep DEF HoldingPCs, PlannedPCs
<1>3. CASE Returning(c, "failed")
  BY <1>1, <1>3, ReturningMoves, RestStep
     DEF RestPCs, HoldingPCs, PlannedPCs, Unsettled, EmptyPCs, FreshPCs, SentPCs
<1> QED
  BY <1>2, <1>3 DEF StartChecks

LEMMA OpenFailsKept ==
    ASSUME Typed, NEW c \in Callers, InSlot(c), OpenFails(c)
    PROVE  Typed' /\ InSlot(c)'
<1>1. call[c].pc = "open" /\ Quiet /\ RetainedTyped'
  BY DEF OpenFails, Quiet, RetainedTyped, Typed
<1>2. Moves(c) /\ call'[c].pc = "unavailable"
  BY GotoMoves DEF OpenFails, PCs
<1> QED
  BY <1>1, <1>2, RestStep DEF RestPCs, HoldingPCs, PlannedPCs

LEMMA WitnessKept ==
    ASSUME Typed, NEW c \in Callers, InSlot(c), WitnessConfirms(c) \/ WitnessFails(c)
    PROVE  Typed' /\ InSlot(c)'
<1>1. call[c].pc = "observe" /\ Quiet /\ RetainedTyped'
  BY DEF WitnessConfirms, WitnessFails, Quiet, RetainedTyped, Typed
<1>2. CASE WitnessConfirms(c)
  <2>1. Moves(c) /\ call'[c].pc = "commit_ready" /\ call'[c].epoch = call[c].epoch
    BY <1>2, GotoMoves DEF WitnessConfirms, PCs
  <2>2. OwnerFits(c)'
    BY <1>1, <2>1 DEF InSlot, OwnerFits, OwnerPCs, EmptyPCs, FreshPCs, Quiet, Usable
  <2>3. EpochFits(c)'
    BY <1>1, <2>1 DEF InSlot, EpochFits, ReadyPCs, SentPCs, FreshPCs, Quiet
  <2>4. Unsettled(c)'
    BY <2>1 DEF Unsettled, FreshPCs
  <2> QED
    BY <1>1, <2>1, <2>2, <2>3, <2>4, QuietStep DEF HoldingPCs, PlannedPCs
<1>3. CASE WitnessFails(c)
  BY <1>1, <1>3, GivesUpActivation DEF WitnessFails, FreshPCs
<1> QED
  BY <1>2, <1>3

LEMMA RecoverFailsKept ==
    ASSUME Typed, NEW c \in Callers, InSlot(c), RecoverFails(c)
    PROVE  Typed' /\ InSlot(c)'
<1>1. call[c].pc = "recover_wire" /\ Quiet /\ RetainedTyped'
  BY DEF RecoverFails, Quiet, RetainedTyped, Typed
<1>2. Moves(c) /\ call'[c].pc = "unavailable"
  BY GotoMoves DEF RecoverFails, PCs
<1> QED
  BY <1>1, <1>2, RestStep DEF RestPCs, HoldingPCs, PlannedPCs

LEMMA AttemptBeginsKept ==
    ASSUME Typed, NEW c \in Callers, InSlot(c), AttemptBegins(c)
    PROVE  Typed' /\ InSlot(c)'
<1>1. call[c].pc = "attempt" /\ Quiet /\ RetainedTyped'
  BY DEF AttemptBegins, Quiet, RetainedTyped, Typed
<1>2. ~Unsettled(c) /\ call[c].pc \notin HoldingPCs \cup PlannedPCs \cup {"idle", "activate"}
  BY <1>1 DEF Unsettled, HoldingPCs, PlannedPCs, EmptyPCs, FreshPCs, SentPCs
<1>3. \/ \E result : Returning(c, result)
      \/ Goto(c, "recorded")
      \/ /\ ~acq.closed /\ acq.state = "ready" /\ acq.endpoint # NoEndpoint
         /\ call' = [call EXCEPT ![c].pc = "plan", ![c].ep = acq.endpoint]
  BY DEF AttemptBegins
<1>4. CASE \E result : Returning(c, result)
  <2>1. Moves(c) /\ call'[c].pc \in RestPCs
    BY <1>4, ReturningMoves DEF RestPCs
  <2> QED
    BY <1>1, <1>2, <2>1, RestStep
<1>5. CASE Goto(c, "recorded")
  <2>1. Moves(c) /\ call'[c].pc \in RestPCs
    BY <1>5, GotoMoves DEF RestPCs, PCs
  <2> QED
    BY <1>1, <1>2, <2>1, RestStep
<1>6. CASE /\ ~acq.closed /\ acq.state = "ready" /\ acq.endpoint # NoEndpoint
           /\ call' = [call EXCEPT ![c].pc = "plan", ![c].ep = acq.endpoint]
  <2>1. Moves(c) /\ call'[c].pc = "plan" /\ call'[c].ep = acq.endpoint
    BY <1>6 DEF Typed, Moves, IsCall, IsAcq, CallFields, PCs
  <2>2. OwnerFits(c)' /\ EpochFits(c)'
    BY <1>1, <1>6, <2>1 DEF OwnerFits, EpochFits, OwnerPCs, EmptyPCs, FreshPCs, ReadyPCs, SentPCs,
                            Quiet, Typed, IsAcq
  <2> QED
    BY <1>1, <1>2, <2>1, <2>2, QuietStep
<1> QED
  BY <1>3, <1>4, <1>5, <1>6

(* What an exchange concluded goes to publication unless a step before it  *)
(* says otherwise.                                                         *)
LEMMA ConcludeMoves ==
    ASSUME Typed, NEW c \in Callers, NEW state, NEW follow \in Follows,
           Conclude(c, state, follow)
    PROVE  /\ Moves(c) /\ call'[c].pc = "clear_plan" /\ call'[c].follow = follow
           /\ call'[c].ep = call[c].ep
           /\ call'[c].record.state = state /\ call'[c].record.ep = call[c].ep
           /\ call'[c].record.generation = wire[call[c].ep].generation
           /\ "state" \in DOMAIN call'[c].record
BY DEF Typed, Moves, Conclude, Concluded, Record, IsCall, CallFields, PCs

LEMMA RespondsKept ==
    ASSUME Typed, NEW c \in Callers, InSlot(c),
           RespondsException(c) \/ \E content \in {"value", "application_error", "undecodable"} :
                                      Responds(c, content)
    PROVE  Typed' /\ InSlot(c)'
<1>1. call[c].pc = "in_flight" /\ Quiet /\ RetainedTyped'
  BY DEF Responds, RespondsException, Quiet, RetainedTyped, Typed
<1>2. \/ Conclude(c, "indeterminate", "none") \/ Conclude(c, "indeterminate", "retire")
      \/ Conclude(c, "rejected", "none") \/ Conclude(c, "ack", "none")
  BY DEF Responds, RespondsException
<1>3. PICK state \in {"indeterminate", "rejected", "ack"}, follow \in {"none", "retire"} :
         Conclude(c, state, follow) /\ (state = "ack" => follow = "none")
  BY <1>2
<1>4. /\ Moves(c) /\ call'[c].pc = "clear_plan" /\ call'[c].follow = follow
      /\ call'[c].ep = call[c].ep
      /\ call'[c].record.state = state /\ call'[c].record.ep = call[c].ep
      /\ call'[c].record.generation = wire[call[c].ep].generation
      /\ "state" \in DOMAIN call'[c].record
  BY <1>3, ConcludeMoves DEF Follows
<1>5. OwnerFits(c)'
  BY <1>1, <1>4 DEF InSlot, OwnerFits, OwnerPCs, EmptyPCs, FreshPCs, Quiet
<1>6. EpochFits(c)'
  BY <1>1, <1>3, <1>4 DEF InSlot, EpochFits, ReadyPCs, SentPCs, FreshPCs, Quiet
<1>7. ~Unsettled(c)
  BY <1>1 DEF Unsettled, EmptyPCs, FreshPCs, SentPCs
<1> QED
  BY <1>1, <1>4, <1>5, <1>6, <1>7, QuietStep DEF HoldingPCs, PlannedPCs

LEMMA PublishKept ==
    ASSUME Typed, NEW c \in Callers, InSlot(c), Publish(c)
    PROVE  Typed' /\ InSlot(c)'
<1>1. call[c].pc = "publish" /\ Quiet
  BY DEF Publish, Quiet
<1>2. RetainedTyped'
  BY DEF Publish, Retain, RetainedTyped, Typed
<1> DEFINE pc == CASE call[c].follow = "recover" -> "recover"
                   [] call[c].follow = "retire" -> "retire_owned"
                   [] OTHER -> "outcome"
<1>3. PICK record : call' = [call EXCEPT ![c].record = record, ![c].pc = pc]
  BY DEF Publish
<1>4. /\ pc \in {"recover", "retire_owned", "outcome"}
      /\ pc = "recover" <=> call[c].follow = "recover"
  <2>1. CASE call[c].follow = "recover"
    BY <2>1
  <2>2. CASE call[c].follow = "retire"
    BY <2>2
  <2>3. CASE call[c].follow \notin {"retire", "recover"}
    BY <2>3
  <2> QED
    BY <2>1, <2>2, <2>3
<1> HIDE DEF pc
<1>5. /\ Moves(c) /\ call'[c].pc = pc /\ call'[c].ep = call[c].ep
      /\ call'[c].follow = call[c].follow
  BY <1>3, <1>4 DEF Typed, Moves, IsCall, CallFields, PCs
<1>6. OwnerFits(c)'
  BY <1>1, <1>4, <1>5 DEF InSlot, OwnerFits, OwnerPCs, EmptyPCs, FreshPCs, Quiet
<1>7. EpochFits(c)'
  BY <1>1, <1>4, <1>5 DEF InSlot, EpochFits, ReadyPCs, SentPCs, FreshPCs, Quiet
<1>8. Unsettled(c) => Unsettled(c)'
  BY <1>1, <1>4, <1>5 DEF Unsettled, EmptyPCs, FreshPCs, SentPCs
<1> QED
  BY <1>1, <1>2, <1>4, <1>5, <1>6, <1>7, <1>8, QuietStep DEF HoldingPCs, PlannedPCs

LEMMA OutcomeKept ==
    ASSUME Typed, NEW c \in Callers, InSlot(c), Outcome(c)
    PROVE  Typed' /\ InSlot(c)'
<1>1. call[c].pc = "outcome" /\ Quiet /\ RetainedTyped'
  BY DEF Outcome, Quiet, RetainedTyped, Typed
<1>2. Moves(c) /\ call'[c].pc \in {"recorded", "attempt"}
  <2>1. CASE Goto(c, "recorded")
    BY <2>1, GotoMoves DEF PCs
  <2>2. CASE ~Goto(c, "recorded")
    BY <2>2 DEF Outcome, Typed, Moves, IsCall, CallFields, PCs, Follows
  <2> QED
    BY <2>1, <2>2
<1> QED
  BY <1>1, <1>2, RestStep DEF RestPCs, HoldingPCs, PlannedPCs, Unsettled, EmptyPCs, FreshPCs, SentPCs

LEMMA RecordedKept ==
    ASSUME Typed, NEW c \in Callers, InSlot(c), Recorded(c)
    PROVE  Typed' /\ InSlot(c)'
<1>1. call[c].pc = "recorded" /\ Quiet /\ RetainedTyped'
  BY DEF Recorded, Quiet, RetainedTyped, Typed
<1>2. Moves(c) /\ call'[c].pc \in {"poll", "release"}
  <2>1. CASE Returning(c, "ok")
    BY <2>1, ReturningMoves
  <2>2. CASE ~Returning(c, "ok")
    <3>1. PICK k : k = [Idle EXCEPT !.pc = "poll", !.kind = "poll", !.next = call[c].next + 1]
      OBVIOUS
    <3>2. IsCall(k) /\ k.pc = "poll"
      <4> HIDE DEF Idle
      <4> QED
        BY <3>1, IdleIsCall DEF IsCall, CallFields, PCs, Kinds
    <3>3. call' = [call EXCEPT ![c] = k]
      BY <2>2, <3>1 DEF Recorded
    <3> QED
      BY <3>2, <3>3, MovesBy
  <2> QED
    BY <2>1, <2>2
<1> QED
  BY <1>1, <1>2, RestStep DEF RestPCs, HoldingPCs, PlannedPCs, Unsettled, EmptyPCs, FreshPCs, SentPCs

LEMMA RetireOwnedKept ==
    ASSUME Typed, NEW c \in Callers, InSlot(c), RetireOwned(c)
    PROVE  Typed' /\ InSlot(c)'
<1>1. call[c].pc = "retire_owned" /\ Quiet /\ RetainedTyped'
  BY DEF RetireOwned, Quiet, RetainedTyped, Typed
<1>2. Moves(c) /\ call'[c].pc \in {"retire", "unavailable"} /\ call'[c].follow = "unavailable"
  BY DEF RetireOwned, Typed, Moves, IsCall, CallFields, PCs, Follows
<1>3. OwnerFits(c)' /\ EpochFits(c)' /\ Unsettled(c)'
  BY <1>2 DEF OwnerFits, EpochFits, OwnerPCs, EmptyPCs, FreshPCs, ReadyPCs, SentPCs, Unsettled
<1> QED
  BY <1>1, <1>2, <1>3, QuietStep DEF HoldingPCs, PlannedPCs

LEMMA PollKept ==
    ASSUME Typed, NEW c \in Callers, InSlot(c),
           PollEnds(c) \/ \E expired \in SUBSET {"good", "last"}, fresh \in BOOLEAN :
                             Poll(c, expired, fresh)
    PROVE  Typed' /\ InSlot(c)'
<1>1. call[c].pc = "poll" /\ Quiet
  BY DEF Poll, PollEnds, Quiet
<1>2. RetainedTyped'
  BY DEF Poll, PollEnds, Discard, RetainedTyped, Typed
<1>3. Moves(c) /\ call'[c].pc \in RestPCs
  <2>1. CASE PollEnds(c)
    BY <2>1, ReturningMoves DEF PollEnds, RestPCs
  <2>2. CASE \E expired \in SUBSET {"good", "last"}, fresh \in BOOLEAN : Poll(c, expired, fresh)
    <3>1. \/ call' = [call EXCEPT ![c].next = @ + 1]
          \/ call' = [call EXCEPT ![c].pc = "attempt", ![c].attempt = 1]
      BY <2>2 DEF Poll
    <3> QED
      BY <1>1, <3>1 DEF Typed, Moves, IsCall, CallFields, PCs, RestPCs
  <2> QED
    BY <2>1, <2>2
<1> QED
  BY <1>1, <1>2, <1>3, RestStep DEF HoldingPCs, PlannedPCs, Unsettled, EmptyPCs, FreshPCs, SentPCs

LEMMA ContextEndsKept ==
    ASSUME Typed, NEW c \in Callers, InSlot(c), NEW how \in {"deadline", "cancelled"},
           ContextEnds(c, how)
    PROVE  Typed' /\ InSlot(c)'
<1>1. call[c].pc # "idle" /\ Quiet /\ RetainedTyped'
  BY DEF ContextEnds, Quiet, RetainedTyped, Typed
<1>2. /\ Moves(c) /\ call'[c].pc = call[c].pc /\ call'[c].ep = call[c].ep
      /\ call'[c].epoch = call[c].epoch /\ call'[c].follow = call[c].follow
      /\ call'[c].record = call[c].record
  BY DEF ContextEnds, Typed, Moves, IsCall, CallFields, Contexts
<1>3. OwnerFits(c)'
  BY <1>1, <1>2 DEF InSlot, OwnerFits, Usable, Quiet, NextEndpoint
<1>4. EpochFits(c)'
  BY <1>1, <1>2 DEF InSlot, EpochFits, Quiet
<1>5. Unsettled(c) => Unsettled(c)'
  BY <1>2 DEF Unsettled
<1> QED
  BY <1>1, <1>2, <1>3, <1>4, <1>5, QuietStep

-----------------------------------------------------------------------------
(* Steps of the call in the slot that change the lifecycle or an endpoint  *)

(* The parts of the invariant together; busy says that the call goes on.   *)
LEMMA LoudStep ==
    ASSUME Typed, NEW c \in Callers, InSlot(c), Moves(c),
           IsAcq(acq)', acq'.busy <=> call'[c].pc # "idle",
           OwnerFits(c)', EpochFits(c)', Owning(c)', Settled(c)', PlanHeld(c)', Admissions(c)'
    PROVE  InSlot(c)'
BY DEF InSlot, Moves

LEMMA RestFits ==
    ASSUME NEW c, call[c].pc \in RestPCs \cup {"idle"}
    PROVE  OwnerFits(c) /\ EpochFits(c)
BY DEF RestPCs, OwnerFits, EpochFits, OwnerPCs, EmptyPCs, FreshPCs, ReadyPCs, SentPCs

LEMMA ForgottenFields ==
    ASSUME NEW s, IsAcq(s)
    PROVE  LET t == Forgotten(s) IN
           /\ IsAcq(t) /\ t.endpoint = NoEndpoint /\ t.plan = NoPlan
           /\ t.state = s.state /\ t.closed = s.closed /\ t.busy = s.busy /\ t.epoch = s.epoch
           /\ t.epochGeneration = s.epochGeneration
BY DEF Forgotten, IsAcq, AcqFields

LEMMA WithStateFields ==
    ASSUME NEW s, IsAcq(s), NEW state \in States
    PROVE  LET t == WithState(s, state) IN
           /\ IsAcq(t) /\ t.endpoint = s.endpoint /\ t.instance = s.instance /\ t.plan = s.plan
           /\ t.closed = s.closed /\ t.busy = s.busy /\ t.epoch = s.epoch
           /\ t.epochGeneration = s.epochGeneration /\ t.lastGeneration = s.lastGeneration
           /\ t.state = IF s.closed THEN s.state ELSE state
BY DEF WithState, IsAcq, AcqFields

LEMMA NotAnEndpoint == NoEndpoint \notin Endpoints
BY DEF Endpoints

(* Without an owned endpoint the admissions bound nothing.                 *)
LEMMA NothingOwned ==
    ASSUME NEW c, Admissions(c), \A a \in admitted : IsAdmitted(a),
           UNCHANGED admitted, acq'.endpoint = NoEndpoint, acq'.epoch = acq.epoch,
           \A a \in admitted : wire'[a.ep].status # "unopened"
    PROVE  Admissions(c)'
<1>1. ASSUME NEW a \in admitted
      PROVE  a.epoch =< acq'.epoch /\ wire'[a.ep].status # "unopened" /\ acq'.endpoint # a.ep
  BY NotAnEndpoint DEF Admissions, IsAdmitted
<1>2. ASSUME NEW a \in admitted PROVE Bounded(a)' /\ Present(c, a)'
  BY <1>1 DEF Bounded, Present
<1> QED
  BY <1>1, <1>2 DEF Admissions

LEMMA RetireEndpointKept ==
    ASSUME Typed, NEW c \in Callers, InSlot(c), RetireEndpoint(c)
    PROVE  Typed' /\ InSlot(c)'
<1>1. /\ call[c].pc = "retire" /\ call[c].follow \in {"configure", "unavailable"}
      /\ UNCHANGED <<wire, closing, admitted, retained>> /\ IsAcq(acq)
  BY DEF RetireEndpoint, InSlot, OwnerFits, Typed
<1>2. /\ IsAcq(acq') /\ acq'.endpoint = NoEndpoint /\ acq'.plan = NoPlan
      /\ acq'.state = acq.state /\ acq'.closed = acq.closed /\ acq'.busy = acq.busy
      /\ acq'.epoch = acq.epoch
  BY <1>1, ForgottenFields DEF RetireEndpoint
<1>3. /\ Moves(c) /\ call'[c].ep = acq.endpoint /\ call'[c].follow = call[c].follow
      /\ call'[c].pc = IF acq.endpoint = NoEndpoint THEN call[c].follow ELSE "close_retired"
  BY <1>1 DEF RetireEndpoint, Typed, Moves, IsCall, IsAcq, CallFields, PCs
<1>4. Typed'
  BY <1>1, <1>2, <1>3 DEF Typed, Moves
<1>5. OwnerFits(c)' /\ EpochFits(c)'
  BY <1>1, <1>2, <1>3 DEF OwnerFits, EpochFits, OwnerPCs, EmptyPCs, FreshPCs, ReadyPCs, SentPCs,
                          IsAcq
<1>6. Owning(c)'
  BY <1>1, <1>2, <1>3 DEF InSlot, Owning, HoldingPCs
<1>7. Settled(c)' /\ PlanHeld(c)'
  BY <1>1, <1>2, <1>3 DEF Settled, PlanHeld, Unsettled, EmptyPCs
<1>8. Admissions(c)'
  BY <1>1, <1>2, NothingOwned DEF InSlot, Admissions, Typed
<1>9. acq'.busy <=> call'[c].pc # "idle"
  BY <1>1, <1>2, <1>3 DEF InSlot
<1> QED
  BY <1>2, <1>3, <1>4, <1>5, <1>6, <1>7, <1>8, <1>9, LoudStep

LEMMA CloseRetiredKept ==
    ASSUME Typed, NEW c \in Callers, InSlot(c), CloseRetired(c)
    PROVE  Typed' /\ InSlot(c)'
<1>1. /\ call[c].pc = "close_retired" /\ call[c].ep \in Endpoints
      /\ call[c].follow \in {"configure", "unavailable"} \/ (call[c].follow = "release" /\ acq.closed)
      /\ acq.endpoint = NoEndpoint
      /\ UNCHANGED <<acq, closing, admitted, retained>>
  BY DEF CloseRetired, InSlot, OwnerFits, EmptyPCs
<1>2. /\ Moves(c) /\ call'[c].pc = call[c].follow
  BY <1>1, GotoMoves DEF CloseRetired, PCs
<1>3. /\ DOMAIN wire' = Endpoints /\ wire'[call[c].ep].status = "closed"
      /\ IsWire(wire'[call[c].ep])
      /\ \A e \in Endpoints \ {call[c].ep} : wire'[e] = wire[e]
  <2>1. PICK e \in Endpoints : e = call[c].ep
    BY <1>1
  <2>2. /\ wire' = [wire EXCEPT ![e].status = "closed", ![e].fenced = TRUE]
        /\ DOMAIN wire = Endpoints /\ IsWire(wire[e])
    BY <2>1 DEF CloseRetired, CloseEndpoint, Typed
  <2>3. PICK w : w = [wire[e] EXCEPT !.status = "closed", !.fenced = TRUE]
    OBVIOUS
  <2>4. wire' = [wire EXCEPT ![e] = w]
    BY <2>2, <2>3
  <2>5. w.status = "closed" /\ IsWire(w)
    BY <2>2, <2>3 DEF IsWire
  <2> QED
    BY <2>1, <2>2, <2>4, <2>5
<1>4. Typed'
  BY <1>1, <1>2, <1>3 DEF Typed, Moves, IsAcq
<1>5. OwnerFits(c)' /\ EpochFits(c)'
  BY <1>1, <1>2 DEF OwnerFits, EpochFits, OwnerPCs, EmptyPCs, FreshPCs, ReadyPCs, SentPCs
<1>6. Owning(c)'
  BY <1>1, <1>2, <1>3 DEF InSlot, Owning, Typed, IsAcq
<1>7. Settled(c)'
  BY <1>1, <1>2 DEF InSlot, Owning, Settled, Unsettled, EmptyPCs
<1>8. PlanHeld(c)'
  BY <1>1 DEF InSlot, PlanHeld, PlannedPCs
<1>9. Admissions(c)'
  <2>1. ASSUME NEW a \in admitted PROVE wire'[a.ep].status # "unopened"
    BY <1>3 DEF InSlot, Admissions, Typed, IsAdmitted
  <2> QED
    BY <1>1, <2>1, NothingOwned DEF InSlot, Typed
<1>10. acq'.busy <=> call'[c].pc # "idle"
  BY <1>1, <1>2 DEF InSlot
<1> QED
  BY <1>2, <1>4, <1>5, <1>6, <1>7, <1>8, <1>9, <1>10, LoudStep DEF Typed

LEMMA ConfigureKept ==
    ASSUME Typed, NEW c \in Callers, InSlot(c), Configure(c)
    PROVE  Typed' /\ InSlot(c)'
<1>1. /\ call[c].pc = "configure" /\ acq.endpoint = NoEndpoint /\ acq.plan = NoPlan
      /\ UNCHANGED <<wire, closing, admitted, retained>> /\ IsAcq(acq)
  BY DEF Configure, InSlot, OwnerFits, EmptyPCs, PlanHeld, PlannedPCs, Typed
<1>2. /\ IsAcq(acq') /\ acq'.endpoint = NoEndpoint /\ acq'.plan = NoPlan
      /\ acq'.state = acq.state /\ acq'.closed = acq.closed /\ acq'.busy = acq.busy
      /\ acq'.epoch = acq.epoch /\ acq'.instance = NextEndpoint
  BY <1>1, NextIsUnopened DEF Configure, IsAcq, AcqFields
<1>3. Moves(c) /\ call'[c].pc = "open"
  BY GotoMoves DEF Configure, PCs
<1>4. Typed'
  BY <1>1, <1>2, <1>3 DEF Typed, Moves
<1>5. OwnerFits(c)' /\ EpochFits(c)'
  BY <1>1, <1>2, <1>3 DEF OwnerFits, EpochFits, OwnerPCs, EmptyPCs, FreshPCs, ReadyPCs, SentPCs,
                          NextEndpoint
<1>6. Owning(c)'
  BY <1>1, <1>2, <1>3 DEF InSlot, Owning, HoldingPCs
<1>7. Settled(c)' /\ PlanHeld(c)'
  BY <1>1, <1>2, <1>3 DEF Settled, PlanHeld, Unsettled, EmptyPCs
<1>8. Admissions(c)'
  BY <1>1, <1>2, NothingOwned DEF InSlot, Admissions, Typed
<1>9. acq'.busy <=> call'[c].pc # "idle"
  BY <1>1, <1>2, <1>3 DEF InSlot
<1> QED
  BY <1>2, <1>3, <1>4, <1>5, <1>6, <1>7, <1>8, <1>9, LoudStep

LEMMA OpenSucceedsKept ==
    ASSUME Typed, NEW c \in Callers, InSlot(c), OpenSucceeds(c)
    PROVE  Typed' /\ InSlot(c)'
<1> DEFINE n == NextEndpoint
<1>1. /\ call[c].pc = "open" /\ acq.endpoint = NoEndpoint
      /\ n \in Endpoints /\ wire[n].status = "unopened"
      /\ acq.closed \/ acq.instance = n
      /\ UNCHANGED <<acq, closing, admitted, retained>>
  BY NextIsUnopened DEF OpenSucceeds, InSlot, OwnerFits, EmptyPCs
<1>2. /\ DOMAIN wire' = Endpoints
      /\ wire'[n] = [status |-> "open", fenced |-> FALSE, generation |-> 1]
      /\ \A e \in Endpoints \ {n} : wire'[e] = wire[e]
  BY <1>1 DEF OpenSucceeds, Typed
<1>3. Moves(c) /\ call'[c].pc = "install" /\ call'[c].ep = n
  <2> HIDE DEF n
  <2>1. call' = [call EXCEPT ![c].pc = "install", ![c].ep = n]
    BY DEF OpenSucceeds, n
  <2> QED
    BY <1>1, <2>1 DEF Typed, Moves, IsCall, CallFields, PCs
<1> HIDE DEF n
<1>4. IsWire(wire'[n]) /\ wire'[n].status = "open" /\ ~wire'[n].fenced
  BY <1>2 DEF IsWire
<1>5. Typed'
  BY <1>1, <1>2, <1>3, <1>4 DEF Typed, Moves, IsAcq
<1>6. (\A a \in admitted : a.ep # n) /\ n # closing
  BY <1>1, NotAnEndpoint DEF InSlot, Admissions, Owning
<1>7. OwnerFits(c)' /\ EpochFits(c)'
  BY <1>1, <1>3, <1>4, <1>6 DEF OwnerFits, EpochFits, OwnerPCs, EmptyPCs, FreshPCs, ReadyPCs,
                                SentPCs, Usable
<1>8. Owning(c)'
  BY <1>1, <1>2, <1>3, <1>6, NotAnEndpoint DEF InSlot, Owning, HoldingPCs, Typed
<1>9. Settled(c)' /\ PlanHeld(c)'
  BY <1>1, <1>3 DEF InSlot, Settled, PlanHeld, Unsettled, EmptyPCs, PlannedPCs
<1>10. Admissions(c)'
  <2>1. ASSUME NEW a \in admitted PROVE wire'[a.ep].status # "unopened"
    BY <1>2, <1>6 DEF InSlot, Admissions, Typed, IsAdmitted
  <2> QED
    BY <1>1, <2>1, NothingOwned DEF InSlot, Typed
<1>11. acq'.busy <=> call'[c].pc # "idle"
  BY <1>1, <1>3 DEF InSlot
<1> QED
  BY <1>3, <1>5, <1>7, <1>8, <1>9, <1>10, <1>11, LoudStep DEF Typed

LEMMA InstallKept ==
    ASSUME Typed, NEW c \in Callers, InSlot(c), Install(c)
    PROVE  Typed' /\ InSlot(c)'
<1> DEFINE n == call[c].ep
<1>1. /\ call[c].pc = "install" /\ acq.endpoint = NoEndpoint
      /\ n \in Endpoints /\ Usable(n) /\ (acq.closed \/ acq.instance = n)
      /\ \A a \in admitted : a.ep # n
      /\ UNCHANGED <<wire, closing, admitted, retained>> /\ IsAcq(acq)
  BY DEF Install, InSlot, OwnerFits, EmptyPCs, Typed
<1>2. CASE acq.closed
  <2>1. Quiet /\ RetainedTyped'
    BY <1>1, <1>2 DEF Install, Quiet, Typed, RetainedTyped
  <2>2. /\ Moves(c) /\ call'[c].pc = "close_retired" /\ call'[c].ep = n
        /\ call'[c].follow = "release"
    <3>1. call' = [call EXCEPT ![c].pc = "close_retired", ![c].follow = "release",
                               ![c].result = "closed"]
      BY <1>2 DEF Install
    <3> QED
      BY <3>1 DEF Typed, Moves, IsCall, CallFields, PCs, Follows
  <2> HIDE DEF n
  <2>3. acq' = acq
    BY <2>1 DEF Quiet
  <2>4. OwnerFits(c)'
    BY <1>1, <1>2, <2>2, <2>3 DEF OwnerFits, OwnerPCs, EmptyPCs, FreshPCs
  <2>5. EpochFits(c)' /\ Unsettled(c)'
    BY <2>2 DEF EpochFits, FreshPCs, ReadyPCs, SentPCs, EmptyPCs, Unsettled
  <2>6. call'[c].ep = call[c].ep
    BY <2>2 DEF n
  <2> QED
    BY <1>1, <2>1, <2>2, <2>4, <2>5, <2>6, QuietStep DEF HoldingPCs, PlannedPCs
<1>3. CASE ~acq.closed
  <2>1. /\ IsAcq(acq') /\ acq'.endpoint = n /\ acq'.instance = n /\ acq'.epochGeneration = 0
        /\ ~acq'.closed /\ acq'.busy = acq.busy /\ acq'.epoch = acq.epoch /\ acq'.plan = acq.plan
    <3>1. acq' = [acq EXCEPT !.endpoint = n, !.lastGeneration = 0, !.epochGeneration = 0]
      BY <1>3 DEF Install
    <3> HIDE DEF n
    <3> QED
      BY <1>1, <1>3, <3>1 DEF IsAcq, AcqFields
  <2>2. Moves(c) /\ call'[c].pc = "activate"
    BY <1>3, GotoMoves DEF Install, PCs
  <2>3. Typed'
    BY <1>1, <2>1, <2>2 DEF Typed, Moves
  <2>4. n # NoEndpoint /\ wire[n].status = "open" /\ ~wire[n].fenced
    BY <1>1, NotAnEndpoint DEF Usable
  <2> HIDE DEF n
  <2>5. OwnerFits(c)' /\ EpochFits(c)'
    BY <1>1, <2>1, <2>2, <2>4 DEF OwnerFits, EpochFits, OwnerPCs, EmptyPCs, FreshPCs, ReadyPCs,
                                  SentPCs, Usable
  <2>6. Owning(c)'
    BY <1>1, <1>3, <2>1, <2>4 DEF n, InSlot, Owning, HoldingPCs
  <2>7. Settled(c)' /\ PlanHeld(c)'
    BY <1>1, <2>1, <2>2 DEF InSlot, Settled, PlanHeld, Unsettled, FreshPCs, PlannedPCs
  <2>8. Admissions(c)'
    BY <1>1, <2>1, <2>2 DEF InSlot, Admissions, Bounded, Present
  <2>9. acq'.busy <=> call'[c].pc # "idle"
    BY <1>1, <2>1, <2>2 DEF InSlot
  <2> QED
    BY <2>1, <2>2, <2>3, <2>5, <2>6, <2>7, <2>8, <2>9, LoudStep
<1> QED
  BY <1>2, <1>3 DEF Typed, IsAcq

LEMMA BecomeUnavailableKept ==
    ASSUME Typed, NEW c \in Callers, InSlot(c), BecomeUnavailable(c)
    PROVE  Typed' /\ InSlot(c)'
<1>1. /\ call[c].pc = "unavailable" /\ UNCHANGED <<wire, closing, admitted, retained>>
      /\ IsAcq(acq)
  BY DEF BecomeUnavailable, Typed
<1>2. /\ IsAcq(acq') /\ acq'.endpoint = acq.endpoint /\ acq'.instance = acq.instance
      /\ acq'.plan = acq.plan /\ acq'.closed = acq.closed /\ acq'.busy = acq.busy
      /\ acq'.epoch = acq.epoch /\ acq'.epochGeneration = acq.epochGeneration
      /\ acq'.lastGeneration = acq.lastGeneration
      /\ acq'.state = IF acq.closed THEN acq.state ELSE "unavailable"
  BY <1>1, WithStateFields DEF BecomeUnavailable, States
<1>3. Moves(c) /\ call'[c].pc \in {"release", "recorded"}
  BY GotoMoves, ReturningMoves DEF BecomeUnavailable, PCs
<1>4. Typed'
  BY <1>1, <1>2, <1>3 DEF Typed, Moves
<1>5. OwnerFits(c)' /\ EpochFits(c)'
  BY <1>3 DEF OwnerFits, EpochFits, OwnerPCs, EmptyPCs, FreshPCs, ReadyPCs, SentPCs
<1>6. Owning(c)' /\ acq'.state # "ready"
  BY <1>1, <1>2 DEF InSlot, Owning, HoldingPCs
<1>7. Settled(c)' /\ PlanHeld(c)'
  BY <1>1, <1>2, <1>6 DEF InSlot, Settled, PlanHeld, PlannedPCs
<1>8. Admissions(c)'
  BY <1>1, <1>2, <1>6 DEF InSlot, Admissions, Bounded, Present
<1>9. acq'.busy <=> call'[c].pc # "idle"
  BY <1>1, <1>2, <1>3 DEF InSlot
<1> QED
  BY <1>2, <1>3, <1>4, <1>5, <1>6, <1>7, <1>8, <1>9, LoudStep

LEMMA ActivateBeginsKept ==
    ASSUME Typed, NEW c \in Callers, InSlot(c), ActivateBegins(c)
    PROVE  Typed' /\ InSlot(c)'
<1>1. /\ call[c].pc = "activate" /\ UNCHANGED <<wire, closing, admitted, retained>>
      /\ IsAcq(acq)
  BY DEF ActivateBegins, Typed
<1>2. CASE acq.closed
  BY <1>1, <1>2, GivesUpActivation DEF ActivateBegins, Quiet, Typed, RetainedTyped, FreshPCs
<1>3. CASE ~acq.closed
  <2>1. /\ IsAcq(acq') /\ acq'.endpoint = acq.endpoint /\ acq'.instance = acq.instance
        /\ acq'.plan = acq.plan /\ acq'.closed = acq.closed /\ acq'.busy = acq.busy
        /\ acq'.epoch = acq.epoch /\ acq'.epochGeneration = acq.epochGeneration
        /\ acq'.lastGeneration = acq.lastGeneration /\ acq'.state = "activating"
    BY <1>1, <1>3 DEF ActivateBegins, IsAcq, AcqFields, States
  <2>2. Moves(c) /\ call'[c].pc = "observe" /\ call'[c].epoch = acq.epoch + 1
    <3>1. call' = [call EXCEPT ![c].pc = "observe", ![c].epoch = acq.epoch + 1]
      BY <1>3 DEF ActivateBegins
    <3> QED
      BY <1>1, <3>1 DEF Typed, Moves, IsCall, IsAcq, CallFields, PCs
  <2>3. Typed'
    BY <1>1, <2>1, <2>2 DEF Typed, Moves
  <2>4. OwnerFits(c)'
    BY <1>1, <2>1, <2>2 DEF InSlot, OwnerFits, OwnerPCs, EmptyPCs, FreshPCs, Usable
  <2>5. EpochFits(c)'
    BY <1>1, <2>1, <2>2 DEF InSlot, EpochFits, ReadyPCs, SentPCs, FreshPCs
  <2>6. Owning(c)'
    BY <1>1, <1>3, <2>1 DEF InSlot, Owning, HoldingPCs
  <2>7. Settled(c)' /\ PlanHeld(c)'
    BY <1>1, <2>1, <2>2 DEF InSlot, Settled, PlanHeld, PlannedPCs
  <2>8. Admissions(c)'
    BY <1>1, <2>1 DEF InSlot, Admissions, Bounded, Present
  <2>9. acq'.busy <=> call'[c].pc # "idle"
    BY <1>1, <2>1, <2>2 DEF InSlot
  <2> QED
    BY <2>1, <2>2, <2>3, <2>4, <2>5, <2>6, <2>7, <2>8, <2>9, LoudStep
<1> QED
  BY <1>2, <1>3 DEF Typed, IsAcq

LEMMA CommitReadyKept ==
    ASSUME Typed, NEW c \in Callers, InSlot(c), CommitReady(c)
    PROVE  Typed' /\ InSlot(c)'
<1>1. /\ call[c].pc = "commit_ready" /\ UNCHANGED <<wire, closing, admitted, retained>>
      /\ IsAcq(acq)
  BY DEF CommitReady, Typed
<1>2. CASE ActivationFails(c) /\ UNCHANGED acq
  BY <1>1, <1>2, GivesUpActivation DEF Quiet, Typed, RetainedTyped, FreshPCs
<1>3. CASE ~(ActivationFails(c) /\ UNCHANGED acq)
  <2>1. /\ ~acq.closed
        /\ acq' = [acq EXCEPT !.epoch = call[c].epoch, !.state = "ready"]
        /\ IF Starting(c) THEN Returning(c, "ok") ELSE Goto(c, "outcome")
    BY <1>3 DEF CommitReady
  <2>2. call[c].epoch = acq.epoch + 1
    BY <1>1 DEF InSlot, EpochFits
  <2>3. /\ IsAcq(acq') /\ acq'.endpoint = acq.endpoint /\ acq'.instance = acq.instance
        /\ acq'.plan = acq.plan /\ acq'.closed = acq.closed /\ acq'.busy = acq.busy
        /\ acq'.epoch = acq.epoch + 1 /\ acq'.epochGeneration = acq.epochGeneration
        /\ acq'.lastGeneration = acq.lastGeneration
    BY <1>1, <2>1, <2>2 DEF IsAcq, AcqFields, States
  <2>4. Moves(c) /\ call'[c].pc \in {"release", "outcome"}
    BY <2>1, GotoMoves, ReturningMoves DEF PCs
  <2>5. Typed'
    BY <1>1, <2>3, <2>4 DEF Typed, Moves
  <2>6. OwnerFits(c)' /\ EpochFits(c)'
    BY <2>4 DEF OwnerFits, EpochFits, OwnerPCs, EmptyPCs, FreshPCs, ReadyPCs, SentPCs
  <2>7. Owning(c)'
    BY <1>1, <2>1, <2>3 DEF InSlot, Owning, HoldingPCs
  <2>8. acq.endpoint # NoEndpoint /\ Usable(acq.endpoint) /\ acq.epochGeneration = 0
    BY <1>1, <2>1 DEF InSlot, OwnerFits, EpochFits, FreshPCs
  <2>9. Settled(c)' /\ PlanHeld(c)'
    BY <1>1, <2>3, <2>8 DEF InSlot, Settled, PlanHeld, PlannedPCs, Usable
  <2>10. Admissions(c)'
    <3>1. ASSUME NEW a \in admitted
          PROVE  /\ a.epoch \in Nat /\ a.epoch =< acq.epoch /\ wire[a.ep].status # "unopened"
                 /\ Bounded(a)
      BY DEF InSlot, Admissions, Typed, IsAdmitted
    <3>2. ASSUME NEW a \in admitted
          PROVE  a.epoch =< acq'.epoch /\ a.epoch # acq'.epoch /\ Bounded(a)'
      BY <1>1, <2>3, <2>8, <3>1 DEF Bounded, IsAcq
    <3> QED
      BY <1>1, <3>1, <3>2 DEF Admissions, Present
  <2>11. acq'.busy <=> call'[c].pc # "idle"
    BY <1>1, <2>3, <2>4 DEF InSlot
  <2> QED
    BY <2>3, <2>4, <2>5, <2>6, <2>7, <2>9, <2>10, <2>11, LoudStep
<1> QED
  BY <1>2, <1>3

LEMMA PlanKept ==
    ASSUME Typed, NEW c \in Callers, InSlot(c), Plan(c)
    PROVE  Typed' /\ InSlot(c)'
<1>1. /\ call[c].pc = "plan" /\ UNCHANGED <<wire, closing, admitted, retained>> /\ IsAcq(acq)
  BY DEF Plan, Typed
<1>2. /\ IsAcq(acq') /\ acq'.endpoint = acq.endpoint /\ acq'.instance = acq.instance
      /\ acq'.state = acq.state /\ acq'.closed = acq.closed /\ acq'.busy = acq.busy
      /\ acq'.epoch = acq.epoch /\ acq'.epochGeneration = acq.epochGeneration
      /\ acq'.lastGeneration = acq.lastGeneration
  BY <1>1 DEF Plan, IsAcq, AcqFields
<1>3. /\ Moves(c) /\ call'[c].pc = "send" /\ call'[c].ep = call[c].ep
      /\ call'[c].epoch = acq.epoch
  BY <1>1 DEF Plan, Typed, Moves, IsCall, IsAcq, CallFields, PCs
<1>4. Typed'
  BY <1>1, <1>2, <1>3 DEF Typed, Moves
<1>5. OwnerFits(c)'
  BY <1>1, <1>2, <1>3 DEF InSlot, OwnerFits, OwnerPCs, EmptyPCs, FreshPCs
<1>6. EpochFits(c)'
  BY <1>1, <1>2, <1>3 DEF InSlot, EpochFits, ReadyPCs, SentPCs, FreshPCs
<1>7. Owning(c)'
  BY <1>1, <1>2 DEF InSlot, Owning, HoldingPCs
<1>8. Settled(c)' /\ PlanHeld(c)'
  <2>1. ~Unsettled(c)
    BY <1>1 DEF Unsettled, EmptyPCs, FreshPCs, SentPCs
  <2> QED
    BY <1>1, <1>2, <1>3, <2>1 DEF InSlot, Settled, PlanHeld, PlannedPCs, Usable
<1>9. Admissions(c)'
  BY <1>1, <1>2 DEF InSlot, Admissions, Bounded, Present
<1>10. acq'.busy <=> call'[c].pc # "idle"
  BY <1>1, <1>2, <1>3 DEF InSlot
<1> QED
  BY <1>2, <1>3, <1>4, <1>5, <1>6, <1>7, <1>8, <1>9, <1>10, LoudStep

LEMMA ClearPlanKept ==
    ASSUME Typed, NEW c \in Callers, InSlot(c), ClearPlan(c)
    PROVE  Typed' /\ InSlot(c)'
<1>1. /\ call[c].pc = "clear_plan" /\ UNCHANGED <<wire, closing, admitted, retained>>
      /\ IsAcq(acq)
  BY DEF ClearPlan, Typed
<1>2. /\ IsAcq(acq') /\ acq'.endpoint = acq.endpoint /\ acq'.instance = acq.instance
      /\ acq'.state = acq.state /\ acq'.closed = acq.closed /\ acq'.busy = acq.busy
      /\ acq'.epoch = acq.epoch /\ acq'.epochGeneration = acq.epochGeneration
      /\ acq'.lastGeneration = acq.lastGeneration /\ acq'.plan = NoPlan
  BY <1>1 DEF ClearPlan, IsAcq, AcqFields
<1>3. /\ Moves(c) /\ call'[c].pc = "publish" /\ call'[c].ep = call[c].ep
      /\ call'[c].follow = call[c].follow /\ call'[c].record = call[c].record
  BY GotoMoves DEF ClearPlan, PCs
<1>4. Typed'
  BY <1>1, <1>2, <1>3 DEF Typed, Moves
<1>5. OwnerFits(c)'
  BY <1>1, <1>2, <1>3 DEF InSlot, OwnerFits, OwnerPCs, EmptyPCs, FreshPCs
<1>6. EpochFits(c)'
  BY <1>1, <1>2, <1>3 DEF InSlot, EpochFits, ReadyPCs, SentPCs, FreshPCs
<1>7. Owning(c)'
  BY <1>1, <1>2 DEF InSlot, Owning, HoldingPCs
<1>8. Settled(c)' /\ PlanHeld(c)'
  <2>1. Unsettled(c) => Unsettled(c)'
    BY <1>1, <1>3 DEF Unsettled, EmptyPCs, FreshPCs, SentPCs
  <2> QED
    BY <1>1, <1>2, <2>1 DEF InSlot, Settled, PlanHeld, Usable
<1>9. Admissions(c)'
  BY <1>1, <1>2 DEF InSlot, Admissions, Bounded, Present
<1>10. acq'.busy <=> call'[c].pc # "idle"
  BY <1>1, <1>2, <1>3 DEF InSlot
<1> QED
  BY <1>2, <1>3, <1>4, <1>5, <1>6, <1>7, <1>8, <1>9, <1>10, LoudStep

(* A request that is let through takes the generation of its endpoint for  *)
(* the rest of the epoch.                                                  *)
LetThrough(c) ==
    LET e == call[c].ep IN
    /\ acq' = [acq EXCEPT !.epochGeneration = wire[e].generation]
    /\ admitted' = admitted \cup
           {[epoch |-> acq.epoch, ep |-> e, generation |-> wire[e].generation]}

LEMMA SendCases ==
    ASSUME Typed, NEW c \in Callers, InSlot(c), Send(c)
    PROVE  /\ call[c].pc = "send" /\ UNCHANGED <<wire, closing, retained>>
           /\ \/ /\ Conclude(c, "no_send", "none")
                 /\ UNCHANGED <<acq, admitted>>
              \/ /\ Goto(c, "in_flight") /\ LetThrough(c)
                 /\ Usable(call[c].ep) /\ Admits(call[c].ep, Operation(c))
                 /\ ~acq.closed /\ acq.state = "ready" /\ acq.endpoint = call[c].ep
                 /\ call[c].epoch = acq.epoch
<1>1. call[c].pc = "send" /\ UNCHANGED <<wire, closing, retained>>
  BY DEF Send
<1>2. CASE Usable(call[c].ep) /\ Admits(call[c].ep, Operation(c))
  <2>1. Goto(c, "in_flight") /\ LetThrough(c)
    BY <1>2 DEF Send, Consult, LetThrough
  <2>2. ~acq.closed /\ acq.state = "ready"
    BY <1>2 DEF Admits
  <2>3. acq.endpoint = call[c].ep /\ call[c].epoch = acq.epoch
    BY <1>1, <2>2 DEF InSlot, OwnerFits, EpochFits, OwnerPCs
  <2> QED
    BY <1>1, <1>2, <2>1, <2>2, <2>3
<1>3. CASE ~(Usable(call[c].ep) /\ Admits(call[c].ep, Operation(c)))
  <2>1. Conclude(c, "no_send", "none") /\ UNCHANGED <<acq, admitted>>
    BY <1>3 DEF Send, Consult
  <2> QED
    BY <1>1, <2>1
<1> QED
  BY <1>2, <1>3

(* What was let through before on that endpoint is of a generation before, *)
(* or is of this epoch and the same.                                       *)
LEMMA LetThroughBounds ==
    ASSUME Typed, NEW c \in Callers, InSlot(c), call[c].pc = "send",
           acq.state = "ready", acq.endpoint = call[c].ep, acq.endpoint \in Endpoints,
           Admits(call[c].ep, Operation(c)), NEW a \in admitted
    PROVE  LET g == wire[call[c].ep].generation IN
           /\ g \in Nat \ {0} /\ IsAdmitted(a) /\ a.epoch =< acq.epoch
           /\ a.epoch = acq.epoch => a.ep = call[c].ep /\ a.generation = g
           /\ a.epoch < acq.epoch /\ a.ep = call[c].ep => a.generation < g
<1> DEFINE g == wire[call[c].ep].generation
<1>1. /\ g \in Nat \ {0} /\ IsAdmitted(a) /\ a.epoch =< acq.epoch /\ Bounded(a) /\ Present(c, a)
      /\ acq.lastGeneration \in Nat /\ acq.epochGeneration \in Nat /\ acq.epoch \in Nat
  BY DEF InSlot, Typed, Admissions, IsAcq, IsWire
<1>2. IF acq.epochGeneration = 0 THEN g > acq.lastGeneration ELSE g = acq.epochGeneration
  BY DEF Admits
<1>3. acq.endpoint # NoEndpoint
  BY NotAnEndpoint
<1> HIDE DEF g
<1>4. a.epoch = acq.epoch => a.ep = call[c].ep /\ a.generation = g
  BY <1>1, <1>2, <1>3 DEF Present, IsAdmitted
<1>5. a.epoch < acq.epoch /\ a.ep = call[c].ep => a.generation < g
  BY <1>1, <1>2 DEF Bounded, IsAdmitted
<1> QED
  BY <1>1, <1>4, <1>5 DEF g

LEMMA SendKept ==
    ASSUME Typed, NEW c \in Callers, InSlot(c), Send(c)
    PROVE  Typed' /\ InSlot(c)'
<1>1. call[c].pc = "send" /\ UNCHANGED <<wire, closing, retained>>
  BY SendCases
<1>2. CASE Conclude(c, "no_send", "none") /\ UNCHANGED <<acq, admitted>>
  <2>1. /\ Moves(c) /\ call'[c].pc = "clear_plan" /\ call'[c].follow = "none"
        /\ call'[c].ep = call[c].ep /\ call'[c].record.state = "no_send"
    BY <1>2, ConcludeMoves DEF Follows
  <2>2. Quiet /\ RetainedTyped'
    BY <1>1, <1>2 DEF Quiet, RetainedTyped, Typed
  <2>3. OwnerFits(c)'
    BY <1>1, <2>1, <2>2 DEF InSlot, OwnerFits, OwnerPCs, EmptyPCs, FreshPCs, Quiet
  <2>4. EpochFits(c)'
    BY <1>1, <2>1, <2>2 DEF InSlot, EpochFits, ReadyPCs, SentPCs, FreshPCs, Quiet
  <2>5. ~Unsettled(c)
    BY <1>1 DEF Unsettled, EmptyPCs, FreshPCs, SentPCs
  <2> QED
    BY <1>1, <2>1, <2>2, <2>3, <2>4, <2>5, QuietStep DEF HoldingPCs, PlannedPCs
<1>3. CASE /\ Goto(c, "in_flight") /\ LetThrough(c)
           /\ Usable(call[c].ep) /\ Admits(call[c].ep, Operation(c))
           /\ ~acq.closed /\ acq.state = "ready" /\ acq.endpoint = call[c].ep
           /\ call[c].epoch = acq.epoch
  <2> DEFINE g == wire[call[c].ep].generation
             n == [epoch |-> acq.epoch, ep |-> call[c].ep, generation |-> g]
  <2>1. call[c].ep \in Endpoints /\ g \in Nat \ {0} /\ IsAcq(acq)
    BY <1>1 DEF InSlot, OwnerFits, OwnerPCs, Typed, IsWire
  <2>2. acq' = [acq EXCEPT !.epochGeneration = g] /\ admitted' = admitted \cup {n}
    BY <1>3 DEF LetThrough
  <2>3. PICK m : /\ m.epoch = acq.epoch /\ m.ep = call[c].ep /\ m.generation = g
                 /\ IsAdmitted(m) /\ admitted' = admitted \cup {m}
    <3>1. IsAdmitted(n)
      BY <2>1 DEF IsAdmitted, IsAcq
    <3>2. n.epoch = acq.epoch /\ n.ep = call[c].ep /\ n.generation = g
      OBVIOUS
    <3> HIDE DEF n
    <3> QED
      BY <2>2, <3>1, <3>2
  <2>4. ASSUME NEW a \in admitted
        PROVE  /\ IsAdmitted(a) /\ a.epoch =< acq.epoch
               /\ a.epoch = acq.epoch => a.ep = call[c].ep /\ a.generation = g
               /\ a.epoch < acq.epoch /\ a.ep = call[c].ep => a.generation < g
    BY <1>1, <1>3, <2>1, LetThroughBounds
  <2> HIDE DEF g, n
  <2>5. /\ IsAcq(acq') /\ acq'.endpoint = acq.endpoint /\ acq'.instance = acq.instance
        /\ acq'.state = acq.state /\ acq'.closed = acq.closed /\ acq'.busy = acq.busy
        /\ acq'.epoch = acq.epoch /\ acq'.epochGeneration = g /\ acq'.plan = acq.plan
    BY <2>1, <2>2 DEF IsAcq, AcqFields
  <2>6. Moves(c) /\ call'[c].pc = "in_flight" /\ call'[c].ep = call[c].ep
    BY <1>3, GotoMoves DEF PCs
  <2>7. Typed'
    BY <1>1, <2>3, <2>5, <2>6 DEF Typed, Moves
  <2>8. OwnerFits(c)'
    BY <1>3, <2>1, <2>5, <2>6 DEF OwnerFits, OwnerPCs, EmptyPCs, FreshPCs
  <2>9. EpochFits(c)'
    BY <1>3, <2>1, <2>5, <2>6 DEF EpochFits, ReadyPCs, SentPCs, FreshPCs
  <2>10. Owning(c)'
    BY <1>1, <2>5 DEF InSlot, Owning, HoldingPCs
  <2>11. Settled(c)' /\ PlanHeld(c)'
    BY <1>1, <1>3, <2>1, <2>5, <2>6, NotAnEndpoint DEF Settled, PlanHeld, PlannedPCs, Usable
  <2>12. Admissions(c)'
    <3>1. ASSUME NEW a \in admitted PROVE wire'[a.ep].status # "unopened"
      BY <1>1 DEF InSlot, Admissions
    <3>2. wire'[m.ep].status # "unopened"
      BY <1>1, <1>3, <2>3 DEF Usable
    <3>3. ASSUME NEW a \in admitted PROVE Bounded(a)' /\ Present(c, a)'
      BY <1>3, <2>1, <2>4, <2>5 DEF Bounded, Present, IsAdmitted, IsAcq
    <3>4. m.epoch =< acq'.epoch /\ Bounded(m)' /\ Present(c, m)'
      BY <1>3, <2>1, <2>3, <2>5 DEF Bounded, Present, IsAcq
    <3> QED
      BY <2>3, <2>4, <2>5, <3>1, <3>2, <3>3, <3>4 DEF Admissions
  <2>13. acq'.busy <=> call'[c].pc # "idle"
    BY <1>1, <2>5, <2>6 DEF InSlot
  <2> QED
    BY <2>5, <2>6, <2>7, <2>8, <2>9, <2>10, <2>11, <2>12, <2>13, LoudStep
<1> QED
  BY <1>2, <1>3, SendCases

(* An epoch keeps to one generation, and a later one on the same endpoint  *)
(* goes past it.                                                           *)
LEMMA SendKeepsEpochs ==
    ASSUME Typed, NEW c \in Callers, InSlot(c), Send(c), OneGenerationPerEpoch
    PROVE  OneGenerationPerEpoch'
<1>1. CASE UNCHANGED admitted
  BY <1>1 DEF OneGenerationPerEpoch
<1>2. CASE ~UNCHANGED admitted
  <2> DEFINE g == wire[call[c].ep].generation
             n == [epoch |-> acq.epoch, ep |-> call[c].ep, generation |-> g]
  <2>1. /\ call[c].pc = "send" /\ LetThrough(c) /\ Usable(call[c].ep)
        /\ Admits(call[c].ep, Operation(c))
        /\ ~acq.closed /\ acq.state = "ready" /\ acq.endpoint = call[c].ep
    BY <1>2, SendCases
  <2>2. call[c].ep \in Endpoints
    BY <2>1 DEF InSlot, OwnerFits, OwnerPCs
  <2>3. ASSUME NEW a \in admitted
        PROVE  /\ IsAdmitted(a) /\ a.epoch =< acq.epoch
               /\ a.epoch = acq.epoch => a.ep = call[c].ep /\ a.generation = g
               /\ a.epoch < acq.epoch /\ a.ep = call[c].ep => a.generation < g
    BY <2>1, <2>2, LetThroughBounds
  <2>4. admitted' = admitted \cup {n} /\ acq.epoch \in Nat
    BY <2>1 DEF LetThrough, Typed, IsAcq
  <2>5. n.epoch = acq.epoch /\ n.ep = call[c].ep /\ n.generation = g
    OBVIOUS
  <2>6. ASSUME NEW a \in admitted
        PROVE  /\ a.epoch = n.epoch => a = n
               /\ ~(n.epoch < a.epoch)
               /\ a.epoch < n.epoch /\ a.ep = n.ep => a.generation < n.generation
    BY <2>3, <2>4 DEF IsAdmitted
  <2> HIDE DEF n
  <2>7. \A a, b \in admitted :
           /\ a.epoch = b.epoch => a = b
           /\ a.epoch < b.epoch /\ a.ep = b.ep => a.generation < b.generation
    BY DEF OneGenerationPerEpoch
  <2>8. ~(n.epoch < n.epoch)
    BY <2>4, <2>5
  <2> QED
    BY <2>4, <2>6, <2>7, <2>8 DEF OneGenerationPerEpoch
<1> QED
  BY <1>1, <1>2

LEMMA ExchangeFailsKept ==
    ASSUME Typed, NEW c \in Callers, InSlot(c), NEW state \in {"timeout", "indeterminate"},
           ExchangeFails(c, state)
    PROVE  Typed' /\ InSlot(c)'
<1>1. /\ call[c].pc = "in_flight" /\ call[c].ep \in Endpoints
      /\ UNCHANGED <<acq, closing, admitted, retained>>
  BY DEF ExchangeFails, InSlot, OwnerFits, OwnerPCs
<1>2. /\ DOMAIN wire' = Endpoints
      /\ \A e \in Endpoints : IsWire(wire'[e]) /\ wire'[e].status = wire[e].status
  BY <1>1 DEF ExchangeFails, Typed, IsWire
<1>3. /\ Moves(c) /\ call'[c].pc = "clear_plan" /\ call'[c].follow = "recover"
      /\ call'[c].ep = call[c].ep /\ call'[c].record.state # "ack"
  BY ConcludeMoves DEF ExchangeFails, Follows
<1>4. Typed'
  BY <1>1, <1>2, <1>3 DEF Typed, Moves, IsAcq
<1>5. OwnerFits(c)'
  BY <1>1, <1>3 DEF InSlot, OwnerFits, OwnerPCs, EmptyPCs, FreshPCs
<1>6. EpochFits(c)'
  BY <1>1, <1>3 DEF InSlot, EpochFits, ReadyPCs, SentPCs, FreshPCs
<1>7. Owning(c)'
  BY <1>1, <1>2, <1>3 DEF InSlot, Owning, HoldingPCs, Typed, IsAcq
<1>8. Settled(c)' /\ PlanHeld(c)'
  BY <1>3 DEF Settled, PlanHeld, PlannedPCs, Unsettled
<1>9. Admissions(c)'
  <2>1. ASSUME NEW a \in admitted PROVE wire'[a.ep].status # "unopened"
    BY <1>2 DEF InSlot, Admissions, Typed, IsAdmitted
  <2> QED
    BY <1>1, <2>1 DEF InSlot, Admissions, Bounded, Present
<1>10. acq'.busy <=> call'[c].pc # "idle"
  BY <1>1, <1>3 DEF InSlot
<1> QED
  BY <1>3, <1>4, <1>5, <1>6, <1>7, <1>8, <1>9, <1>10, LoudStep DEF Typed

LEMMA RecoverBeginsKept ==
    ASSUME Typed, NEW c \in Callers, InSlot(c), RecoverBegins(c)
    PROVE  Typed' /\ InSlot(c)'
<1>1. /\ call[c].pc = "recover" /\ (acq.closed \/ acq.endpoint = call[c].ep)
      /\ UNCHANGED <<wire, closing, admitted, retained>> /\ IsAcq(acq)
  BY DEF RecoverBegins, InSlot, OwnerFits, OwnerPCs, Typed
<1>2. CASE acq.closed
  <2>1. Quiet /\ RetainedTyped' /\ acq.state # "ready"
    BY <1>2 DEF RecoverBegins, Quiet, Typed, RetainedTyped, InSlot, Owning
  <2>2. Moves(c) /\ call'[c].pc = "recorded"
    BY <1>2, GotoMoves DEF RecoverBegins, PCs
  <2> QED
    BY <1>1, <2>1, <2>2, RestStep DEF RestPCs, HoldingPCs, PlannedPCs
<1>3. CASE ~acq.closed
  <2>1. /\ IsAcq(acq') /\ acq'.endpoint = acq.endpoint /\ acq'.instance = acq.instance
        /\ acq'.plan = acq.plan /\ acq'.closed = acq.closed /\ acq'.busy = acq.busy
        /\ acq'.epoch = acq.epoch /\ acq'.epochGeneration = acq.epochGeneration
        /\ acq'.lastGeneration = acq.lastGeneration /\ acq'.state = "recovering"
    BY <1>1, <1>3 DEF RecoverBegins, IsAcq, AcqFields, States
  <2>2. Moves(c) /\ call'[c].pc = "recover_wire" /\ call'[c].ep = call[c].ep
    BY <1>1, <1>3, GotoMoves DEF RecoverBegins, PCs
  <2>3. Typed'
    BY <1>1, <2>1, <2>2 DEF Typed, Moves
  <2>4. OwnerFits(c)'
    BY <1>1, <2>1, <2>2 DEF InSlot, OwnerFits, OwnerPCs, EmptyPCs, FreshPCs
  <2>5. EpochFits(c)'
    BY <1>1, <2>1, <2>2 DEF InSlot, EpochFits, ReadyPCs, SentPCs, FreshPCs
  <2>6. Owning(c)'
    BY <1>1, <1>3, <2>1 DEF InSlot, Owning, HoldingPCs
  <2>7. Settled(c)' /\ PlanHeld(c)'
    BY <1>1, <2>1, <2>2 DEF InSlot, Settled, PlanHeld, PlannedPCs
  <2>8. Admissions(c)'
    BY <1>1, <2>1 DEF InSlot, Admissions, Bounded, Present
  <2>9. acq'.busy <=> call'[c].pc # "idle"
    BY <1>1, <2>1, <2>2 DEF InSlot
  <2> QED
    BY <2>1, <2>2, <2>3, <2>4, <2>5, <2>6, <2>7, <2>8, <2>9, LoudStep
<1> QED
  BY <1>2, <1>3 DEF Typed, IsAcq

LEMMA RecoverSucceedsKept ==
    ASSUME Typed, NEW c \in Callers, InSlot(c), RecoverSucceeds(c)
    PROVE  Typed' /\ InSlot(c)'
<1> DEFINE e == call[c].ep
<1>1. /\ call[c].pc = "recover_wire" /\ e \in Endpoints /\ wire[e].status = "open"
      /\ acq.closed \/ acq.endpoint = e
      /\ UNCHANGED <<acq, closing, admitted, retained>>
  BY DEF RecoverSucceeds, InSlot, OwnerFits, OwnerPCs
<1>2. /\ DOMAIN wire' = Endpoints /\ IsWire(wire'[e])
      /\ wire'[e].status = "open" /\ ~wire'[e].fenced
      /\ \A f \in Endpoints \ {e} : wire'[f] = wire[f]
  <2>1. wire' = [wire EXCEPT ![e].fenced = FALSE, ![e].generation = @ + 1]
    BY DEF RecoverSucceeds
  <2> HIDE DEF e
  <2> QED
    BY <1>1, <2>1 DEF Typed, IsWire
<1>3. Moves(c) /\ call'[c].pc = "recovered" /\ call'[c].ep = e
  BY GotoMoves DEF RecoverSucceeds, PCs
<1> HIDE DEF e
<1>4. Typed'
  BY <1>1, <1>2, <1>3 DEF Typed, Moves, IsAcq
<1>5. OwnerFits(c)'
  BY <1>1, <1>2, <1>3, NotAnEndpoint DEF OwnerFits, OwnerPCs, EmptyPCs, FreshPCs, Usable
<1>6. EpochFits(c)'
  BY <1>1, <1>3 DEF InSlot, EpochFits, ReadyPCs, SentPCs, FreshPCs
<1>7. \A f \in Endpoints : wire'[f].status = wire[f].status
  BY <1>1, <1>2
<1>8. Owning(c)'
  BY <1>1, <1>7 DEF InSlot, Owning, HoldingPCs, Typed, IsAcq
<1>9. Settled(c)' /\ PlanHeld(c)'
  BY <1>1, <1>3 DEF InSlot, Settled, PlanHeld, PlannedPCs, Unsettled, SentPCs
<1>10. Admissions(c)'
  <2>1. ASSUME NEW a \in admitted PROVE wire'[a.ep].status # "unopened"
    BY <1>7 DEF InSlot, Admissions, Typed, IsAdmitted
  <2> QED
    BY <1>1, <2>1 DEF InSlot, Admissions, Bounded, Present
<1>11. acq'.busy <=> call'[c].pc # "idle"
  BY <1>1, <1>3 DEF InSlot
<1> QED
  BY <1>3, <1>4, <1>5, <1>6, <1>8, <1>9, <1>10, <1>11, LoudStep DEF Typed

LEMMA RecoveredKept ==
    ASSUME Typed, NEW c \in Callers, InSlot(c), Recovered(c)
    PROVE  Typed' /\ InSlot(c)'
<1>1. /\ call[c].pc = "recovered" /\ UNCHANGED <<wire, closing, admitted, retained>>
      /\ IsAcq(acq)
  BY DEF Recovered, Typed
<1>2. /\ IsAcq(acq') /\ acq'.endpoint = acq.endpoint /\ acq'.instance = acq.instance
      /\ acq'.plan = acq.plan /\ acq'.closed = acq.closed /\ acq'.busy = acq.busy
      /\ acq'.epoch = acq.epoch /\ acq'.epochGeneration = 0
      /\ acq'.lastGeneration = acq.epochGeneration /\ acq'.state = acq.state
  BY <1>1 DEF Recovered, IsAcq, AcqFields
<1>3. Moves(c) /\ call'[c].pc = "activate"
  BY GotoMoves DEF Recovered, PCs
<1>4. Typed'
  BY <1>1, <1>2, <1>3 DEF Typed, Moves
<1>5. OwnerFits(c)'
  BY <1>1, <1>2, <1>3 DEF InSlot, OwnerFits, OwnerPCs, EmptyPCs, FreshPCs, Usable
<1>6. EpochFits(c)'
  BY <1>1, <1>2, <1>3 DEF EpochFits, ReadyPCs, SentPCs, FreshPCs
<1>7. Owning(c)'
  BY <1>1, <1>2 DEF InSlot, Owning, HoldingPCs
<1>8. Settled(c)' /\ PlanHeld(c)'
  BY <1>1, <1>2, <1>3 DEF InSlot, Settled, PlanHeld, PlannedPCs, Unsettled, FreshPCs
<1>9. Admissions(c)'
  <2>1. acq.endpoint # NoEndpoint => acq.epochGeneration # 0
    BY <1>1 DEF InSlot, EpochFits, SentPCs, Owning
  <2>2. ASSUME NEW a \in admitted PROVE Bounded(a)'
    BY <1>2, <2>1, NotAnEndpoint DEF InSlot, Admissions, Bounded, Typed, IsAdmitted
  <2> QED
    BY <1>1, <1>2, <1>3, <2>2 DEF InSlot, Admissions, Present
<1>10. acq'.busy <=> call'[c].pc # "idle"
  BY <1>1, <1>2, <1>3 DEF InSlot
<1> QED
  BY <1>2, <1>3, <1>4, <1>5, <1>6, <1>7, <1>8, <1>9, <1>10, LoudStep

-----------------------------------------------------------------------------
(* Taking and giving back the slot                                         *)

(* While nobody holds the slot, every call is as good as another.          *)
LEMMA FreeSlot ==
    ASSUME Typed, NEW d \in Callers, InSlot(d), call[d].pc = "idle", NEW c \in Callers
    PROVE  InSlot(c) /\ call[c].pc = "idle"
<1>1. call[c].pc = "idle" /\ \A b \in Callers \ {c} : call[b].pc = "idle"
  BY DEF InSlot
<1>2. OwnerFits(c) /\ EpochFits(c)
  BY <1>1, RestFits
<1>3. Owning(c) /\ PlanHeld(c)
  BY <1>1 DEF InSlot, Owning, PlanHeld, HoldingPCs, PlannedPCs
<1>4. ~Unsettled(d)
  BY DEF Unsettled, EmptyPCs, FreshPCs, SentPCs
<1>5. Settled(c)
  BY <1>4 DEF InSlot, Settled
<1>6. Admissions(c)
  BY DEF InSlot, Admissions, Present
<1>7. acq.busy <=> call[c].pc # "idle"
  BY <1>1 DEF InSlot
<1> QED
  BY <1>1, <1>2, <1>3, <1>5, <1>6, <1>7 DEF InSlot

EntryKinds == {"start", "restart", "acquire", "poll"}

LEMMA EnterKept ==
    ASSUME Typed, NEW c \in Callers, InSlot(c), call[c].pc = "idle",
           NEW kind \in EntryKinds, NEW i, Enter(c, kind, i),
           UNCHANGED <<wire, closing, admitted, retained>>
    PROVE  Typed' /\ InSlot(c)'
<1>1. /\ IsAcq(acq') /\ acq'.endpoint = acq.endpoint /\ acq'.instance = acq.instance
      /\ acq'.plan = acq.plan /\ acq'.closed = acq.closed /\ acq'.busy = TRUE
      /\ acq'.epoch = acq.epoch /\ acq'.epochGeneration = acq.epochGeneration
      /\ acq'.lastGeneration = acq.lastGeneration /\ acq'.state = acq.state
  BY DEF Enter, Typed, IsAcq, AcqFields
<1>2. FirstStep(kind) \in {"start", "retire", "attempt", "poll"}
  BY DEF FirstStep, EntryKinds
<1>3. /\ Moves(c) /\ call'[c].pc \in {"start", "retire", "attempt", "poll"}
      /\ call'[c].follow = "configure"
  <2>1. PICK k : k = [Idle EXCEPT !.pc = FirstStep(kind), !.kind = kind, !.next = i,
                                  !.follow = "configure"]
    OBVIOUS
  <2>2. IsCall(k) /\ k.pc = FirstStep(kind) /\ k.follow = "configure"
    <3> HIDE DEF Idle, FirstStep
    <3> QED
      BY <1>2, <2>1, IdleIsCall DEF IsCall, CallFields, PCs, Kinds, Follows, EntryKinds
  <2>3. call' = [call EXCEPT ![c] = k]
    BY <2>1 DEF Enter
  <2> QED
    BY <1>2, <2>2, <2>3, MovesBy
<1>4. Typed'
  BY <1>1, <1>3 DEF Typed, Moves
<1>5. OwnerFits(c)' /\ EpochFits(c)'
  BY <1>3 DEF OwnerFits, EpochFits, OwnerPCs, EmptyPCs, FreshPCs, ReadyPCs, SentPCs
<1>6. Owning(c)' /\ PlanHeld(c)'
  BY <1>1 DEF InSlot, Owning, PlanHeld, HoldingPCs, PlannedPCs
<1>7. Settled(c)'
  <2>1. ~Unsettled(c)
    BY DEF Unsettled, EmptyPCs, FreshPCs, SentPCs
  <2> QED
    BY <1>1, <2>1 DEF InSlot, Settled, Usable
<1>8. Admissions(c)'
  BY <1>1 DEF InSlot, Admissions, Bounded, Present
<1>9. acq'.busy <=> call'[c].pc # "idle"
  BY <1>1, <1>3
<1> QED
  BY <1>1, <1>3, <1>4, <1>5, <1>6, <1>7, <1>8, <1>9, LoudStep

LEMMA ReleaseKept ==
    ASSUME Typed, NEW c \in Callers, InSlot(c), Release(c)
    PROVE  Typed' /\ InSlot(c)'
<1>1. call[c].pc = "release" /\ UNCHANGED <<wire, closing, admitted, retained>>
  BY DEF Release
<1>2. /\ IsAcq(acq') /\ acq'.endpoint = acq.endpoint /\ acq'.instance = acq.instance
      /\ acq'.plan = acq.plan /\ acq'.closed = acq.closed /\ acq'.busy = FALSE
      /\ acq'.epoch = acq.epoch /\ acq'.epochGeneration = acq.epochGeneration
      /\ acq'.lastGeneration = acq.lastGeneration /\ acq'.state = acq.state
  BY DEF Release, Typed, IsAcq, AcqFields
<1>3. Moves(c) /\ call'[c].pc = "idle"
  <2>1. PICK k : k = IF c = Runner THEN [Idle EXCEPT !.result = call[c].result] ELSE Idle
    OBVIOUS
  <2>2. IsCall(k) /\ k.pc = "idle"
    <3> HIDE DEF Idle
    <3> QED
      BY <2>1, IdleIsCall DEF IsCall, CallFields
  <2>3. call' = [call EXCEPT ![c] = k]
    BY <2>1 DEF Release
  <2> QED
    BY <2>2, <2>3, MovesBy
<1>4. Typed'
  BY <1>1, <1>2, <1>3 DEF Typed, Moves
<1>5. OwnerFits(c)' /\ EpochFits(c)'
  BY <1>3 DEF OwnerFits, EpochFits, OwnerPCs, EmptyPCs, FreshPCs, ReadyPCs, SentPCs
<1>6. Owning(c)' /\ PlanHeld(c)'
  BY <1>1, <1>2 DEF InSlot, Owning, PlanHeld, HoldingPCs, PlannedPCs
<1>7. Settled(c)'
  <2>1. ~Unsettled(c)
    BY <1>1 DEF Unsettled, EmptyPCs, FreshPCs, SentPCs
  <2> QED
    BY <1>1, <1>2, <2>1 DEF InSlot, Settled, Usable
<1>8. Admissions(c)'
  BY <1>1, <1>2 DEF InSlot, Admissions, Bounded, Present
<1>9. acq'.busy <=> call'[c].pc # "idle"
  BY <1>2, <1>3
<1> QED
  BY <1>2, <1>3, <1>4, <1>5, <1>6, <1>7, <1>8, <1>9, LoudStep

-----------------------------------------------------------------------------
(* Close, and what others do at any moment                                 *)

LEMMA CloseKept ==
    ASSUME Typed, NEW c \in Callers, InSlot(c), Close
    PROVE  Typed' /\ InSlot(c)'
<1>1. ~acq.closed /\ closing' = acq.endpoint /\ UNCHANGED <<wire, call, admitted, retained>>
      /\ IsAcq(acq)
  BY DEF Close, Typed
<1>2. /\ IsAcq(acq') /\ acq'.endpoint = NoEndpoint /\ acq'.plan = NoPlan
      /\ acq'.closed = TRUE /\ acq'.state = "closed" /\ acq'.busy = acq.busy
      /\ acq'.epoch = acq.epoch
  <2>1. PICK t : t = Forgotten(acq)
    OBVIOUS
  <2>2. IsAcq(t) /\ t.endpoint = NoEndpoint /\ t.plan = NoPlan /\ t.busy = acq.busy
        /\ t.epoch = acq.epoch
    BY <1>1, <2>1, ForgottenFields
  <2>3. acq' = [t EXCEPT !.closed = TRUE, !.state = "closed"]
    BY <2>1 DEF Close
  <2> QED
    BY <2>2, <2>3 DEF IsAcq, AcqFields, States
<1>3. Typed'
  BY <1>1, <1>2 DEF Typed, IsAcq
<1>4. OwnerFits(c)'
  BY <1>1, <1>2, NotAnEndpoint DEF InSlot, OwnerFits, EmptyPCs, Usable, NextEndpoint
<1>5. EpochFits(c)'
  BY <1>1, <1>2 DEF InSlot, EpochFits
<1>6. Owning(c)'
  <2>1. closing = NoEndpoint
    BY <1>1 DEF InSlot, Owning
  <2> QED
    BY <1>1, <1>2, <2>1, NotAnEndpoint DEF InSlot, Owning
<1>7. Settled(c)' /\ PlanHeld(c)'
  BY <1>2 DEF Settled, PlanHeld
<1>8. Admissions(c)'
  BY <1>1, <1>2, NothingOwned DEF InSlot, Typed, Admissions
<1>9. (\A d \in Callers \ {c} : call[d].pc = "idle")' /\ (acq.busy <=> call[c].pc # "idle")'
  BY <1>1, <1>2 DEF InSlot
<1> QED
  BY <1>3, <1>4, <1>5, <1>6, <1>7, <1>8, <1>9 DEF InSlot

LEMMA CloseEndsKept ==
    ASSUME Typed, NEW c \in Callers, InSlot(c), CloseEnds
    PROVE  Typed' /\ InSlot(c)'
<1>1. /\ closing \in Endpoints /\ closing' = NoEndpoint /\ acq.closed
      /\ acq.endpoint = NoEndpoint /\ acq.state = "closed"
      /\ UNCHANGED <<acq, call, admitted, retained>>
  BY DEF CloseEnds, Typed, InSlot, Owning
<1>2. /\ DOMAIN wire' = Endpoints /\ IsWire(wire'[closing])
      /\ wire'[closing].status = "closed" /\ wire'[closing].generation = wire[closing].generation
      /\ \A e \in Endpoints \ {closing} : wire'[e] = wire[e]
  BY <1>1 DEF CloseEnds, CloseEndpoint, Typed, IsWire
<1>3. Typed'
  BY <1>1, <1>2 DEF Typed, IsAcq
<1>4. OwnerFits(c)'
  <2>1. call[c].pc = "install" =>
            /\ call[c].ep \in Endpoints \ {closing} /\ Usable(call[c].ep)
            /\ \A a \in admitted : a.ep # call[c].ep
    BY DEF InSlot, OwnerFits
  <2>2. call[c].pc = "install" => Usable(call[c].ep)'
    BY <1>1, <1>2, <2>1 DEF Usable
  <2> QED
    BY <1>1, <2>1, <2>2, NotAnEndpoint DEF InSlot, OwnerFits
<1>5. EpochFits(c)'
  <2>1. \A e \in Endpoints : wire'[e].generation = wire[e].generation
    BY <1>1, <1>2
  <2>2. call[c].pc \in {"clear_plan", "publish"} => call[c].ep \in Endpoints
    BY DEF InSlot, OwnerFits, OwnerPCs
  <2> QED
    BY <1>1, <2>1, <2>2 DEF InSlot, EpochFits
<1>6. Owning(c)'
  BY <1>1, <1>2 DEF InSlot, Owning
<1>7. Settled(c)' /\ PlanHeld(c)'
  BY <1>1 DEF InSlot, Settled, PlanHeld, Unsettled, PlannedPCs
<1>8. Admissions(c)'
  <2>1. ASSUME NEW a \in admitted PROVE wire'[a.ep].status # "unopened"
    BY <1>1, <1>2 DEF InSlot, Admissions, Typed, IsAdmitted
  <2> QED
    BY <1>1, <2>1, NothingOwned DEF InSlot, Typed
<1>9. (\A d \in Callers \ {c} : call[d].pc = "idle")' /\ (acq.busy <=> call[c].pc # "idle")'
  BY <1>1 DEF InSlot
<1> QED
  BY <1>3, <1>4, <1>5, <1>6, <1>7, <1>8, <1>9 DEF InSlot

(* The admission of a retired endpoint denies whatever it is asked: a plan *)
(* is bound to the owned endpoint, which is open.                          *)
LEMMA RetiredIsDenied ==
    ASSUME Typed, NEW c \in Callers, InSlot(c), NEW e \in Endpoints, NEW op,
           RetiredConsults(e, op)
    PROVE  UNCHANGED vars
<1>1. ASSUME Admits(e, op) PROVE FALSE
  <2>1. ~acq.closed /\ acq.plan # NoPlan /\ acq.instance = e
    BY <1>1 DEF Admits
  <2>2. call[c].pc \in PlannedPCs
    BY <2>1 DEF InSlot, PlanHeld
  <2>3. acq.endpoint = call[c].ep /\ call[c].ep \in Endpoints
    BY <2>1, <2>2 DEF InSlot, OwnerFits, PlannedPCs, OwnerPCs
  <2>4. wire[acq.endpoint].status = "open" /\ acq.instance = acq.endpoint
    BY <2>3, NotAnEndpoint DEF InSlot, Owning
  <2> QED
    BY <2>1, <2>4 DEF RetiredConsults, Closed
<1> QED
  BY <1>1 DEF RetiredConsults, Consult, vars

LEMMA QuietKept ==
    ASSUME Typed, NEW c \in Callers, InSlot(c), UNCHANGED <<acq, call, wire, closing, admitted>>,
           RetainedTyped'
    PROVE  Typed' /\ InSlot(c)'
<1>1. Typed'
  BY DEF Typed, IsAcq, RetainedTyped
<1>2. OwnerFits(c)' /\ EpochFits(c)'
  BY DEF InSlot, OwnerFits, EpochFits, Usable, NextEndpoint
<1>3. Owning(c)' /\ Settled(c)' /\ PlanHeld(c)'
  BY DEF InSlot, Owning, Settled, PlanHeld, Unsettled, Usable
<1>4. Admissions(c)'
  BY DEF InSlot, Admissions, Bounded, Present
<1> QED
  BY <1>1, <1>2, <1>3, <1>4 DEF InSlot

-----------------------------------------------------------------------------
(* Every behaviour                                                         *)

LEMMA InitHolds == Init => TeslaInv
<1> SUFFICES ASSUME Init PROVE TeslaInv
  OBVIOUS
<1>1. IsAcq(acq) /\ ~acq.closed /\ ~acq.busy /\ acq.endpoint = NoEndpoint /\ acq.plan = NoPlan
      /\ acq.state # "ready"
  BY DEF Init, NewAcquisition, IsAcq, AcqFields, States
<1>2. DOMAIN call = Callers /\ \A c \in Callers : IsCall(call[c]) /\ call[c].pc = "idle"
  <2> HIDE DEF Idle
  <2> QED
    BY IdleIsCall DEF Init
<1>3. DOMAIN wire = Endpoints
      /\ \A e \in Endpoints : IsWire(wire[e]) /\ wire[e].status = "unopened"
  <2>1. PICK w : w = [status |-> "unopened", fenced |-> FALSE, generation |-> 1]
    OBVIOUS
  <2>2. IsWire(w) /\ w.status = "unopened"
    BY <2>1 DEF IsWire
  <2>3. wire = [e \in Endpoints |-> w]
    BY <2>1 DEF Init
  <2> QED
    BY <2>2, <2>3
<1>4. admitted = {} /\ closing = NoEndpoint
      /\ DOMAIN retained = Operations
      /\ \A op \in Operations : DOMAIN retained[op] = {"good", "attempted"}
  BY DEF Init
<1>5. Typed
  BY <1>1, <1>2, <1>3, <1>4 DEF Typed
<1>6. OneGenerationPerEpoch
  BY <1>4 DEF OneGenerationPerEpoch
<1>7. OwnerFits(Runner) /\ EpochFits(Runner)
  BY <1>2, RestFits
<1>8. Owning(Runner) /\ Settled(Runner) /\ PlanHeld(Runner) /\ Admissions(Runner)
  BY <1>1, <1>3, <1>4 DEF Owning, Settled, PlanHeld, Admissions
<1>9. InSlot(Runner)
  BY <1>1, <1>2, <1>7, <1>8 DEF InSlot
<1> QED
  BY <1>5, <1>6, <1>9 DEF TeslaInv

(* Whoever makes a step of a call holds the slot.                          *)
LEMMA StepsInSlot ==
    ASSUME TeslaInv, NEW d \in Callers,
           Step(d) \/ \E how \in {"deadline", "cancelled"} : ContextEnds(d, how)
    PROVE  InSlot(d)
<1>1. PICK c \in Callers : InSlot(c)
  BY DEF TeslaInv
<1>2. call[d].pc # "idle"
  BY DEF Step, StartChecks, RetireEndpoint, CloseRetired, Configure, OpenSucceeds, OpenFails,
     Install, BecomeUnavailable, ActivateBegins, WitnessConfirms, WitnessFails, CommitReady,
     AttemptBegins, Plan, Send, Responds, RespondsException, ExchangeFails, ClearPlan, Publish,
     Outcome, Recorded, RetireOwned, RecoverBegins, RecoverSucceeds, RecoverFails, Recovered,
     Poll, PollEnds, Release, ContextEnds
<1> QED
  BY <1>1, <1>2 DEF InSlot

LEMMA StepKept ==
    ASSUME TeslaInv, NEW c \in Callers, Step(c)
    PROVE  Typed' /\ InSlot(c)'
<1>1. Typed /\ InSlot(c)
  BY StepsInSlot DEF TeslaInv
<1>2. CASE StartChecks(c) \/ RetireEndpoint(c) \/ CloseRetired(c) \/ Configure(c)
           \/ OpenSucceeds(c) \/ OpenFails(c) \/ Install(c) \/ BecomeUnavailable(c)
  BY <1>1, <1>2, StartChecksKept, RetireEndpointKept, CloseRetiredKept, ConfigureKept,
     OpenSucceedsKept, OpenFailsKept, InstallKept, BecomeUnavailableKept
<1>3. CASE ActivateBegins(c) \/ WitnessConfirms(c) \/ WitnessFails(c) \/ CommitReady(c)
           \/ AttemptBegins(c) \/ Plan(c) \/ Send(c)
  BY <1>1, <1>3, ActivateBeginsKept, WitnessKept, CommitReadyKept, AttemptBeginsKept, PlanKept,
     SendKept
<1>4. CASE \/ RespondsException(c)
           \/ \E content \in {"value", "application_error", "undecodable"} : Responds(c, content)
           \/ \E state \in {"timeout", "indeterminate"} : ExchangeFails(c, state)
           \/ ClearPlan(c) \/ Publish(c) \/ Outcome(c) \/ Recorded(c)
  BY <1>1, <1>4, RespondsKept, ExchangeFailsKept, ClearPlanKept, PublishKept, OutcomeKept,
     RecordedKept
<1>5. CASE RetireOwned(c) \/ RecoverBegins(c) \/ RecoverSucceeds(c) \/ RecoverFails(c)
           \/ Recovered(c)
  BY <1>1, <1>5, RetireOwnedKept, RecoverBeginsKept, RecoverSucceedsKept, RecoverFailsKept,
     RecoveredKept
<1>6. CASE \/ \E expired \in SUBSET {"good", "last"}, fresh \in BOOLEAN : Poll(c, expired, fresh)
           \/ PollEnds(c) \/ Release(c)
  BY <1>1, <1>6, PollKept, ReleaseKept
<1> QED
  BY <1>2, <1>3, <1>4, <1>5, <1>6 DEF Step

(* What is let through is let through by a send, of an operation the       *)
(* admission knows.                                                        *)
LEMMA AdmittedBySend ==
    ASSUME TeslaInv, [Next]_vars, admitted' # admitted
    PROVE  \E c \in Callers : InSlot(c) /\ Send(c)
<1>1. CASE UNCHANGED vars
  BY <1>1 DEF vars
<1>2. ASSUME NEW c \in Callers, Step(c) PROVE \E d \in Callers : InSlot(d) /\ Send(d)
  <2>1. InSlot(c)
    BY <1>2, StepsInSlot
  <2>2. Send(c)
    BY <1>2 DEF Step, StartChecks, RetireEndpoint, CloseRetired, Configure, OpenSucceeds,
       OpenFails, Install, BecomeUnavailable, ActivateBegins, WitnessConfirms, WitnessFails,
       CommitReady, AttemptBegins, Plan, Responds, RespondsException, ExchangeFails, ClearPlan,
       Publish, Outcome, Recorded, RetireOwned, RecoverBegins, RecoverSucceeds, RecoverFails,
       Recovered, Poll, PollEnds, Release
  <2> QED
    BY <2>1, <2>2
<1>3. ASSUME NEW e \in Endpoints, NEW op \in Operations, RetiredConsults(e, op) PROVE FALSE
  BY <1>3, RetiredIsDenied DEF TeslaInv, vars
<1>4. CASE \/ \E c \in Callers, kind \in {"start", "restart", "poll"} : Begin(c, kind, 1)
           \/ \E c \in Callers, i \in DOMAIN Polled : Begin(c, "acquire", i)
           \/ \E c \in Callers, how \in {"deadline", "cancelled"} : ContextEnds(c, how)
           \/ \E op \in Operations, expired \in SUBSET {"good", "last"} : ReadRetained(op, expired)
           \/ Running \/ RunCancelled \/ Close \/ CloseEnds
  BY <1>4 DEF Begin, ContextEnds, ReadRetained, Running, RunPolls, RunHandles, RunRestarted,
     RunTicks, RunCancelled, Close, CloseEnds
<1> QED
  BY <1>1, <1>2, <1>3, <1>4 DEF Next

LEMMA EpochsKept ==
    ASSUME TeslaInv, [Next]_vars
    PROVE  OneGenerationPerEpoch'
<1>1. CASE UNCHANGED admitted
  BY <1>1 DEF TeslaInv, OneGenerationPerEpoch
<1>2. CASE admitted' # admitted
  BY <1>2, AdmittedBySend, SendKeepsEpochs DEF TeslaInv
<1> QED
  BY <1>1, <1>2

LEMMA NextKept ==
    ASSUME TeslaInv, [Next]_vars
    PROVE  Typed' /\ \E c \in Callers : InSlot(c)'
<1>1. PICK d \in Callers : InSlot(d)
  BY DEF TeslaInv
<1>2. Typed /\ (~acq.busy => call[d].pc = "idle")
  BY <1>1 DEF TeslaInv, InSlot
<1>3. CASE UNCHANGED vars
  BY <1>1, <1>2, <1>3, QuietKept DEF vars, RetainedTyped, Typed
<1>4. ASSUME NEW c \in Callers, Step(c) PROVE Typed' /\ InSlot(c)'
  BY <1>4, StepKept
<1>5. ASSUME NEW c \in Callers, NEW kind \in EntryKinds, NEW i, Reserves, Enter(c, kind, i),
             UNCHANGED <<retained, wire, closing, admitted>>
      PROVE  Typed' /\ InSlot(c)'
  <2>1. InSlot(c) /\ call[c].pc = "idle"
    BY <1>1, <1>2, <1>5, FreeSlot DEF Reserves
  <2> QED
    BY <1>2, <1>5, <2>1, EnterKept
<1>6. ASSUME NEW c \in Callers, NEW kind \in EntryKinds, NEW i, Begin(c, kind, i)
      PROVE  Typed' /\ InSlot(c)'
  BY <1>5, <1>6 DEF Begin
<1>7. ASSUME NEW c \in Callers, NEW how \in {"deadline", "cancelled"}, ContextEnds(c, how)
      PROVE  Typed' /\ InSlot(c)'
  BY <1>2, <1>7, StepsInSlot, ContextEndsKept
<1>8. ASSUME NEW op \in Operations, NEW expired, ReadRetained(op, expired)
      PROVE  Typed' /\ InSlot(d)'
  <2>1. RetainedTyped'
    BY <1>2, <1>8 DEF ReadRetained, Discard, RetainedTyped, Typed
  <2> QED
    BY <1>1, <1>2, <1>8, <2>1, QuietKept DEF ReadRetained
<1>9. ASSUME NEW e \in Endpoints, NEW op \in Operations, RetiredConsults(e, op)
      PROVE  Typed' /\ InSlot(d)'
  BY <1>1, <1>2, <1>3, <1>9, RetiredIsDenied, QuietKept DEF vars, RetainedTyped, Typed
<1>10. CASE Running \/ RunCancelled
  <2>1. CASE UNCHANGED <<acq, call>>
    BY <1>1, <1>2, <1>10, <2>1, QuietKept DEF Running, RunPolls, RunHandles, RunRestarted,
       RunTicks, RunCancelled, RetainedTyped, Typed, Enter
  <2>2. CASE ~UNCHANGED <<acq, call>>
    <3>1. \E kind \in {"poll", "restart"} : Reserves /\ Enter(Runner, kind, 1)
      BY <1>10, <2>2 DEF Running, RunPolls, RunHandles, RunRestarted, RunTicks, RunCancelled
    <3>2. UNCHANGED <<retained, wire, closing, admitted>>
      BY <1>10 DEF Running, RunPolls, RunHandles, RunRestarted, RunTicks, RunCancelled
    <3> QED
      BY <1>5, <3>1, <3>2 DEF EntryKinds
  <2> QED
    BY <2>1, <2>2
<1>11. CASE Close \/ CloseEnds
  BY <1>1, <1>2, <1>11, CloseKept, CloseEndsKept
<1> QED
  BY <1>3, <1>4, <1>6, <1>7, <1>8, <1>9, <1>10, <1>11 DEF Next, EntryKinds

(* The invariant is one of the specification.                              *)
LEMMA TeslaInvariant == Spec => []TeslaInv
<1>1. TeslaInv /\ [Next]_vars => TeslaInv'
  BY NextKept, EpochsKept DEF TeslaInv
<1> QED
  BY InitHolds, <1>1, PTL DEF Spec

-----------------------------------------------------------------------------
(* What it says                                                            *)

LEMMA HeldEndpoints ==
    ASSUME TeslaInv
    PROVE  EndpointInv
<1>1. PICK c \in Callers : InSlot(c)
  BY DEF TeslaInv
<1>2. Typed /\ OneGenerationPerEpoch
  BY DEF TeslaInv
<1>3. ReadyIsUsable
  <2>1. ~acq.busy => ~Unsettled(c)
    BY <1>1 DEF InSlot, Unsettled, EmptyPCs, FreshPCs, SentPCs
  <2> QED
    BY <1>1, <2>1 DEF InSlot, Settled, ReadyIsUsable
<1> DEFINE open == {e \in Endpoints : wire[e].status = "open"}
<1>4. \A e \in open : \/ e \in {acq.endpoint, closing}
                      \/ call[c].ep = e /\ call[c].pc \in {"install", "close_retired"}
  BY <1>1 DEF InSlot, Owning, HoldingPCs
<1>5. \E x : open \ {closing} \subseteq {x}
  <2>1. CASE call[c].pc \in HoldingPCs
    <3>1. acq.endpoint = NoEndpoint
      BY <1>1, <2>1 DEF InSlot, OwnerFits, EmptyPCs, HoldingPCs
    <3>2. open \ {closing} \subseteq {call[c].ep}
      BY <1>4, <3>1, NotAnEndpoint
    <3> QED
      BY <3>2
  <2>2. CASE call[c].pc \notin HoldingPCs
    <3>1. open \ {closing} \subseteq {acq.endpoint}
      BY <1>4, <2>2 DEF HoldingPCs
    <3> QED
      BY <3>1
  <2> QED
    BY <2>1, <2>2
<1>6. Cardinality(open \ {closing}) <= 1
  <2>1. PICK x : open \ {closing} \subseteq {x}
    BY <1>5
  <2>2. IsFiniteSet({x}) /\ Cardinality({x}) = 1
    BY FS_Singleton
  <2>3. /\ Cardinality(open \ {closing}) \in Nat
        /\ Cardinality(open \ {closing}) <= Cardinality({x})
    <3> HIDE DEF open
    <3> QED
      BY <2>1, <2>2, FS_Subset, FS_CardinalityType
  <2> QED
    BY <2>2, <2>3
<1>7. NoLeak
  BY <1>4, <1>6 DEF NoLeak
<1> QED
  BY <1>2, <1>3, <1>7 DEF EndpointInv

(* However calls, Run, Close and late consultations interleave: a ready    *)
(* lifecycle nobody is working on owns an open endpoint that is not        *)
(* fenced; an epoch admits sends of one generation of one endpoint; and    *)
(* there is never a second open endpoint, or one nobody is left to close.  *)
THEOREM EndpointsAreHeld == Spec => []EndpointInv
<1>1. TeslaInv => EndpointInv
  BY HeldEndpoints
<1> QED
  BY <1>1, TeslaInvariant, PTL

LEMMA AdmittedStep ==
    ASSUME TeslaInv, [Next]_vars, admitted' # admitted
    PROVE  \E c \in Callers :
              /\ call[c].pc = "send"
              /\ acq.endpoint = call[c].ep
              /\ admitted' \ admitted \subseteq
                    {[epoch |-> call[c].epoch, ep |-> acq.endpoint,
                      generation |-> wire[acq.endpoint].generation]}
<1>1. PICK c \in Callers : InSlot(c) /\ Send(c)
  BY AdmittedBySend
<1>2. /\ call[c].pc = "send" /\ LetThrough(c)
      /\ acq.endpoint = call[c].ep /\ call[c].epoch = acq.epoch
  BY <1>1, SendCases DEF TeslaInv
<1> QED
  BY <1>2 DEF LetThrough

(* A request is let through only for the call in the slot, in its epoch    *)
(* and on the endpoint the lifecycle owns; the admission of an endpoint    *)
(* that was retired, closed or replaced denies every request.              *)
THEOREM OnlyTheOwnerIsAdmitted == Spec => AdmittedIsOwned
<1>1. TeslaInv /\ [Next]_vars =>
        [admitted' # admitted =>
            \E c \in Callers :
                /\ call[c].pc = "send"
                /\ acq.endpoint = call[c].ep
                /\ admitted' \ admitted \subseteq
                      {[epoch |-> call[c].epoch, ep |-> acq.endpoint,
                        generation |-> wire[acq.endpoint].generation]}]_vars
  BY AdmittedStep
<1> QED
  BY <1>1, TeslaInvariant, PTL DEF Spec, AdmittedIsOwned

(* A record becomes last known good only by a publication that still owns  *)
(* the endpoint and the epoch it was acquired in.                          *)
LEMMA GoodByPublish ==
    ASSUME TeslaInv, [Next]_vars, NEW op \in Operations,
           retained'[op].good # retained[op].good, retained'[op].good # NoRecord
    PROVE  \E c \in Callers :
              /\ InSlot(c) /\ call[c].pc = "publish"
              /\ call[c].record.state = "ack" /\ Owned(call[c].record)
              /\ retained'[op].good = call[c].record
<1>1. Typed /\ retained' # retained
  BY DEF TeslaInv
<1>2. ASSUME NEW p, NEW expired, Discard(p, expired) PROVE FALSE
  <2>1. p # op => retained'[op] = retained[op]
    BY <1>1, <1>2 DEF Discard, Typed
  <2>2. p = op => retained'[op].good = IF "good" \in expired THEN NoRecord ELSE retained[op].good
    BY <1>1, <1>2 DEF Discard, Typed
  <2> QED
    BY <2>1, <2>2
<1>3. ASSUME NEW c \in Callers, Step(c) PROVE InSlot(c) /\ Publish(c)
  <2>1. ASSUME NEW expired, NEW fresh, Poll(c, expired, fresh) PROVE FALSE
    BY <1>2, <2>1 DEF Poll
  <2>2. Publish(c)
    BY <1>1, <1>3, <2>1 DEF Step, StartChecks, RetireEndpoint, CloseRetired, Configure,
       OpenSucceeds, OpenFails, Install, BecomeUnavailable, ActivateBegins, WitnessConfirms,
       WitnessFails, CommitReady, AttemptBegins, Plan, Send, Responds, RespondsException,
       ExchangeFails, ClearPlan, Outcome, Recorded, RetireOwned, RecoverBegins, RecoverSucceeds,
       RecoverFails, Recovered, PollEnds, Release
  <2> QED
    BY <1>3, <2>2, StepsInSlot
<1>4. \E c \in Callers : Step(c)
  <2>1. ASSUME NEW p, NEW expired, ReadRetained(p, expired) PROVE FALSE
    BY <1>2, <2>1 DEF ReadRetained
  <2> QED
    BY <1>1, <2>1 DEF Next, Begin, ContextEnds, RetiredConsults, Running, RunPolls, RunHandles,
       RunRestarted, RunTicks, RunCancelled, Close, CloseEnds, vars
<1>5. PICK c \in Callers : InSlot(c) /\ Publish(c)
  BY <1>3, <1>4
<1> DEFINE read == call[c].record
<1>6. call[c].pc = "publish" /\ (read.state = "ack" => "state" \in DOMAIN read)
  BY <1>5 DEF Publish, InSlot, EpochFits
<1>7. PICK record :
         /\ record = IF read.state = "ack" /\ ~Owned(read)
                     THEN [read EXCEPT !.state = "indeterminate"] ELSE read
         /\ Retain(Operation(c), record)
  BY <1>5 DEF Publish
<1> HIDE DEF read
<1>8. op = Operation(c)
  BY <1>1, <1>7 DEF Retain, Typed
<1>9. retained'[op].good = IF record.state = "ack" THEN record ELSE retained[op].good
  BY <1>1, <1>7, <1>8 DEF Retain, Typed
<1>10. record.state = "ack" /\ retained'[op].good = record
  BY <1>9
<1>11. read.state = "ack" /\ Owned(read) /\ record = read
  <2>1. CASE read.state = "ack" /\ ~Owned(read)
    <3>1. record.state = "indeterminate"
      BY <1>6, <1>7, <2>1
    <3> QED
      BY <1>10, <3>1
  <2>2. CASE ~(read.state = "ack" /\ ~Owned(read))
    BY <1>7, <1>10, <2>2
  <2> QED
    BY <2>1, <2>2
<1> QED
  BY <1>5, <1>6, <1>10, <1>11 DEF read

LEMMA GoodIsLiveStep ==
    ASSUME TeslaInv, [Next]_vars, NEW op \in Operations,
           NEW good \in {retained'[op].good} \ {NoRecord},
           retained[op].good = NoRecord \/ retained[op].good.epoch # good.epoch
    PROVE  /\ ~acq.closed
           /\ Usable(good.ep) /\ wire[good.ep].generation = good.generation
<1>1. retained'[op].good # retained[op].good /\ retained'[op].good # NoRecord
  OBVIOUS
<1>2. PICK c \in Callers :
         /\ InSlot(c) /\ call[c].pc = "publish"
         /\ call[c].record.state = "ack" /\ Owned(call[c].record)
         /\ retained'[op].good = call[c].record
  BY <1>1, GoodByPublish
<1>3. /\ ~acq.closed /\ acq.state = "ready" /\ acq.endpoint = good.ep
      /\ good = call[c].record
  BY <1>2 DEF Owned
<1>4. /\ call[c].follow = "none" /\ good.ep = call[c].ep
      /\ good.generation = wire[good.ep].generation
  BY <1>2, <1>3 DEF InSlot, EpochFits
<1>5. ~Unsettled(c)
  BY <1>2, <1>4 DEF Unsettled, EmptyPCs, FreshPCs, SentPCs
<1> QED
  BY <1>2, <1>3, <1>4, <1>5 DEF InSlot, Settled

(* A value becomes last known good of its epoch only while the lifecycle   *)
(* is open and the endpoint and generation that delivered it are live:     *)
(* never after Close, retirement, recovery or fencing, whatever happened   *)
(* between the answer and its publication.                                 *)
THEOREM LateValuesAreNotGood == Spec => LastGoodIsLive
<1>1. TeslaInv /\ [Next]_vars =>
        [\A op \in Operations : \A good \in {retained'[op].good} \ {NoRecord} :
            retained[op].good = NoRecord \/ retained[op].good.epoch # good.epoch =>
                /\ ~acq.closed
                /\ Usable(good.ep) /\ wire[good.ep].generation = good.generation]_vars
  BY GoodIsLiveStep
<1> QED
  BY <1>1, TeslaInvariant, PTL DEF Spec, LastGoodIsLive
====
