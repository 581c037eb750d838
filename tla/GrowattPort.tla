----------------------------- MODULE GrowattPort -----------------------------
(***************************************************************************)
(* The Growatt aggregate port (I23): a private native owner that retains   *)
(* the last success (GrowattAggregateRetention, driven by the offline      *)
(* cycle) and the envelope the port publishes from it.  The native owner's *)
(* lock is held for one operation, the port's for reservation and          *)
(* settlement; both are free while the supplier and the clock are called.  *)
(* src/growatt_aggregate_retention.go, src/growatt_aggregate_offline_      *)
(* provider.go, src/growatt_aggregate_provider_port.go,                    *)
(* src/growatt_diagnostic_commit.go                                        *)
(***************************************************************************)
EXTENDS SuppliedPort

Ticks == 0..MaxTick

(* Contexts differ in source, epoch, unit, function, revision or identity; *)
(* in context 0 the identity is not known.                                 *)
Contexts == {0, 1, 2}

(* The native owner: attempt, its context, deadline and outcome, the last  *)
(* success and whether it still applies.  (Cycle numbers are attempts.)    *)
NewNative ==
  [tick |-> 0, attempt |-> 0, context |-> 0, deadline |-> 0, outcome |-> "none",
   success |-> 0, successContext |-> 0, applicable |-> FALSE]

NewEnvelope == [state |-> "absent", success |-> 0, link |-> 0, diagnostic |-> 0]

NewOwner ==
  [native |-> NewNative, busy |-> FALSE, retired |-> FALSE, generation |-> 0,
   deadline |-> 0, tick |-> 0, published |-> NewEnvelope]

(* GrowattAggregateRetention.advance; the caller has checked the order.    *)
Advanced(n, now) ==
  [n EXCEPT !.tick = now,
            !.outcome = IF @ = "pending" /\ now >= n.deadline THEN "incomplete" ELSE @]

State(n) ==
  CASE n.success = 0 -> "absent"
    [] n.success # 0 /\ ~n.applicable -> "invalidated"
    [] n.success # 0 /\ n.applicable /\ n.outcome = "success" -> "current"
    [] OTHER -> "retained"

NativeBegin(a, context, now, deadline) ==
  LET kept == context # 0 /\ (owner.native.success # 0 => context = owner.native.successContext)
  IN  [owner.native EXCEPT
         !.tick = now, !.attempt = a, !.context = context, !.deadline = deadline,
         !.outcome = "pending", !.applicable = @ /\ kept]

(* The callback of a cycle that is not the latest, or with a time before   *)
(* the native owner's, changes nothing.                                    *)
Accepts(c) == calls[c].attempt = owner.native.attempt /\ calls[c].ticket >= owner.native.tick

Failed(n) == IF n.outcome = "pending" THEN [n EXCEPT !.outcome = "failed"] ELSE n
Conflicting(n) == IF n.outcome = "pending"
                  THEN [n EXCEPT !.outcome = "failed", !.applicable = FALSE] ELSE n
Succeeded(n) == [n EXCEPT !.outcome = "success", !.success = n.attempt,
                          !.successContext = n.context, !.applicable = TRUE]

---------------------------------------------------------------------------

(* I23Refresh reserves the port.  The generation is consumed here.         *)
Reserve(c) ==
  /\ Idle(c) /\ ~owner.retired /\ ~owner.busy /\ MayBegin
  /\ owner' = [owner EXCEPT !.busy = TRUE, !.generation = NextAttempt]
  /\ calls' = [calls EXCEPT ![c].pc = "reserved", ![c].attempt = NextAttempt]
  /\ Begun({})
  /\ UNCHANGED family

(* Cycle is refused: the context ended, or native Begin rejects the times  *)
(* or the cycle number.  frozen keeps the request's deadline.              *)
CycleRefused(c) ==
  /\ At(c, "reserved")
  /\ \E deadline \in Ticks :
       calls' = [calls EXCEPT ![c].pc = "settle", ![c].frozen = deadline,
                              ![c].result = "error"]
  /\ Over({calls[c].attempt})
  /\ UNCHANGED <<family, owner>>

CycleBegins(c) ==
  /\ At(c, "reserved") /\ ~Ended(calls[c].attempt)
  /\ \E context \in Contexts, now \in owner.native.tick..MaxTick, deadline \in Ticks :
       /\ now < deadline
       /\ owner' = [owner EXCEPT !.native = NativeBegin(calls[c].attempt, context, now, deadline)]
       /\ \/ /\ context # 0
             /\ calls' = [calls EXCEPT ![c].pc = "supplier", ![c].frozen = deadline]
          \/ \E later \in Ticks :
               calls' = [calls EXCEPT ![c].pc = "close", ![c].frozen = deadline,
                                      ![c].ticket = later, ![c].result = "failed"]
  /\ UNCHANGED <<family, trace>>

(* The supplier returned, the clock is read, and the context looked at.    *)
SupplierReturns(c) ==
  /\ At(c, "supplier")
  /\ \E now \in Ticks, result \in {"failed", "conflict", "complete"} :
       /\ result # "failed" => ~Ended(calls[c].attempt)
       /\ calls' = [calls EXCEPT ![c].pc = "close", ![c].ticket = now, ![c].result = result]
  /\ UNCHANGED <<family, owner, trace>>

(* Native Fail or Complete.  Complete evidence that contradicts the cycle  *)
(* fails it and invalidates the last success as well.                      *)
CycleCloses(c) ==
  /\ At(c, "close")
  /\ LET n == Advanced(owner.native, calls[c].ticket)
         good == Accepts(c) /\ calls[c].result = "complete" /\ n.outcome = "pending"
     IN  /\ owner' = IF ~Accepts(c) THEN owner
                     ELSE [owner EXCEPT !.native =
                             IF good THEN Succeeded(n)
                             ELSE IF calls[c].result = "conflict" THEN Conflicting(n)
                             ELSE Failed(n)]
         /\ calls' = [calls EXCEPT ![c].pc = "settle",
                                   ![c].result = IF good THEN "success" ELSE "error"]
  /\ UNCHANGED <<family, trace>>

Quiet(o) == [o EXCEPT !.retired = TRUE, !.published.diagnostic = 0]

(* The envelope after this cycle: a success is linked to its generation,   *)
(* with a diagnostic only while it is before every deadline and clock and  *)
(* the diagnostic check admits it; anything else keeps the old link.       *)
Envelope(n, c, now, admitted) ==
  LET success == calls[c].result = "success"
      link == IF success THEN calls[c].attempt ELSE owner.published.link
      timely == now < calls[c].frozen /\ owner.tick < calls[c].frozen /\ now >= owner.tick
  IN  [state |-> State(n), success |-> n.success, link |-> link,
       diagnostic |-> IF success /\ timely /\ admitted THEN link ELSE 0]

(* The end of I23Refresh.  A success that cannot be shown any more, for    *)
(* its context ended or the clock went back, retires the port for good.    *)
Settle(c) ==
  /\ At(c, "settle")
  /\ \E now \in Ticks, admitted \in BOOLEAN :
       LET free == [owner EXCEPT !.busy = FALSE]
           n == Advanced(owner.native, now)
           hidden == Ended(calls[c].attempt) /\ calls[c].result = "success"
           quiet == owner.retired \/ hidden \/ now < owner.native.tick
       IN  /\ owner' =
                IF quiet THEN (IF owner.retired THEN free ELSE Quiet(free))
                ELSE [free EXCEPT !.native = n,
                                  !.tick = IF now > @ THEN now ELSE @,
                                  !.deadline = calls[c].frozen,
                                  !.published = Envelope(n, c, now, admitted)]
           /\ IF quiet THEN Retired ELSE Done(calls[c].attempt)
  /\ Returns(c)
  /\ UNCHANGED family

(* A panic cancels the work's context and leaves the port busy.            *)
SupplierPanics(c) ==
  /\ At(c, "supplier") /\ Returns(c) /\ Done(calls[c].attempt)
  /\ UNCHANGED <<family, owner>>

(* Faulty variant: a diagnostic hidden one tick after its deadline.        *)
AdvanceLate ==
  /\ ~owner.retired
  /\ \E now \in Ticks :
       /\ now > owner.tick /\ now >= owner.native.tick
       /\ owner' = [owner EXCEPT !.native = Advanced(@, now), !.tick = now,
                      !.published.diagnostic = IF now > owner.deadline THEN 0 ELSE @]
       /\ Over({})
  /\ UNCHANGED <<family, calls>>

(* I23Advance: native work may be closed by it, diagnostics expire.        *)
Advance ==
  /\ ~owner.retired
  /\ \E now \in Ticks :
       /\ now > owner.tick /\ now >= owner.native.tick
       /\ owner' = [owner EXCEPT !.native = Advanced(@, now), !.tick = now,
                      !.published.diagnostic = IF now >= owner.deadline THEN 0 ELSE @]
       /\ Over(IF owner.native.outcome = "pending" /\ now >= owner.native.deadline
               THEN {owner.native.attempt} ELSE {})
  /\ UNCHANGED <<family, calls>>

Retire ==
  /\ ~owner.retired
  /\ owner' = Quiet(owner)
  /\ trace' = [trace EXCEPT !.over = AllBegun, !.retired = TRUE,
                 !.ended = @ \cup {calls[c].attempt : c \in {d \in Callers : ~Idle(d)}}]
  /\ UNCHANGED <<family, calls>>

Record == owner.published.success
Usable == owner.published.state \in {"current", "retained"}
Busy == owner.busy

Init == InitPort("growatt", NewOwner)

Call(c) == CycleRefused(c) \/ CycleBegins(c) \/ SupplierReturns(c) \/ CycleCloses(c) \/ Settle(c)

Next ==
  /\ family = "growatt"
  /\ \/ \E c \in Callers : Reserve(c) \/ Call(c) \/ SupplierPanics(c)
     \/ Advance \/ Retire
     \/ ContextEnds({"reserved", "supplier", "close", "settle"})

=============================================================================
