--------------------------- MODULE SmartloggerPort ---------------------------
(***************************************************************************)
(* The SmartLogger inventory port (I17) over the offline cycle and the     *)
(* inventory commit owner.  Two locks: the port's (i17Mu), held across the *)
(* whole of I17Retire, and the owner's, held for one operation each.       *)
(* src/smartlogger_inventory_commit.go, src/smartlogger_offline_provider.go*)
(* src/smartlogger_provider_port.go                                        *)
(***************************************************************************)
EXTENDS SuppliedPort

(* The generation the port was built for.                                  *)
BuiltFor == 1

(* locked: i17Mu is held by I17Retire between its two calls of the owner.  *)
(* shut: the owner is closed; results: the outcome of each attempt.        *)
NewOwner ==
  [busy |-> FALSE, closed |-> FALSE, locked |-> FALSE, shut |-> FALSE,
   generation |-> BuiltFor, active |-> 0, last |-> 0, lastGeneration |-> 0,
   results |-> [a \in Attempts |-> "none"]]

Finished(o, a, outcome) ==
  IF a = 0 \/ o.results[a] # "none" THEN o
  ELSE [o EXCEPT !.results[a] = outcome, !.active = IF @ = a THEN 0 ELSE @]

Refresh(c) ==
  /\ Idle(c) /\ ~owner.locked /\ ~owner.closed /\ ~owner.busy /\ MayBegin
  /\ owner' = [owner EXCEPT !.busy = TRUE]
  /\ calls' = [calls EXCEPT ![c].pc = "reserved", ![c].attempt = NextAttempt]
  /\ Begun({})
  /\ UNCHANGED family

(* Cycle: the context, then the owner's Begin.  A deadline that is past or *)
(* too far refuses.                                                        *)
BeginRefused(c) ==
  /\ At(c, "reserved") /\ Goes(c, "leaving")
  /\ Over({calls[c].attempt})
  /\ UNCHANGED <<family, owner>>

BeginAttempt(c) ==
  /\ At(c, "reserved") /\ ~Ended(calls[c].attempt)
  /\ ~owner.shut /\ owner.active = 0
  /\ owner' = [owner EXCEPT !.active = calls[c].attempt]
  /\ calls' = [calls EXCEPT ![c].pc = "begun", ![c].frozen = owner.generation]
  /\ UNCHANGED <<family, trace>>

(* Faulty variant: the reader is not wrapped.                              *)
EnterReaderUnwrapped(c) ==
  /\ At(c, "begun") /\ ~owner.locked /\ Goes(c, "supplier")
  /\ UNCHANGED <<family, owner, trace>>

(* The wrapped reader: a port closed meanwhile does not call its supplier. *)
EnterReader(c) ==
  /\ At(c, "begun") /\ ~owner.locked
  /\ calls' = IF owner.closed
              THEN [calls EXCEPT ![c].pc = "answered", ![c].result = "failed"]
              ELSE [calls EXCEPT ![c].pc = "supplier"]
  /\ UNCHANGED <<family, owner, trace>>

(* The supplier returned; only a context that is cancelled asks for the    *)
(* attempt's cancellation, any other failure commits nothing.              *)
ReaderReturns(c) ==
  /\ At(c, "supplier")
  /\ \E result \in {"complete", "failed", "cancelled"} :
       /\ result = "complete" => ~Ended(calls[c].attempt)
       /\ result = "cancelled" => Ended(calls[c].attempt)
       /\ calls' = [calls EXCEPT ![c].pc = "answered", ![c].result = result]
  /\ UNCHANGED <<family, owner, trace>>

(* Attempt.Commit and Attempt.Cancel.  A complete input may still fail the *)
(* owner's own validation or the deadline.                                 *)
Finish(c) ==
  /\ At(c, "answered")
  /\ LET a == calls[c].attempt
         fits == owner.results[a] = "none" /\ ~owner.shut /\ owner.active = a
                 /\ owner.generation = calls[c].frozen
     IN  /\ \/ owner' = Finished(owner, a, IF calls[c].result = "cancelled" THEN "cancelled"
                                           ELSE "failed")
            \/ /\ calls[c].result = "complete" /\ fits
               /\ owner' = [Finished(owner, a, "complete") EXCEPT
                              !.last = a, !.lastGeneration = calls[c].frozen]
         /\ Over({a})
  /\ Goes(c, "leaving")
  /\ UNCHANGED family

(* The deferred release of the slot.                                       *)
Leave(c) ==
  /\ At(c, "leaving") /\ ~owner.locked
  /\ owner' = [owner EXCEPT !.busy = FALSE]
  /\ Returns(c)
  /\ UNCHANGED <<family, trace>>

(* A panic runs the deferred release only; the owner's attempt stays open. *)
ReaderPanics(c) ==
  /\ At(c, "supplier") /\ Goes(c, "leaving") /\ Over({calls[c].attempt})
  /\ UNCHANGED <<family, owner>>

(* I17Retire: the owner moves to the successor context ...                 *)
RetireOwner ==
  /\ ~owner.locked /\ ~owner.closed /\ ~owner.shut
  /\ \E next \in (owner.generation + 1)..MaxGeneration :
       owner' = [Finished(owner, owner.active, "retired") EXCEPT
                   !.generation = next, !.locked = TRUE]
  /\ Over(AllBegun)
  /\ UNCHANGED <<family, calls>>

(* Faulty variant: a retirement that forgets to unlock.                    *)
ShutLocked(o) == [Finished(o, o.active, "closed") EXCEPT !.closed = TRUE, !.shut = TRUE]

Shut(o) == [Finished(o, o.active, "closed") EXCEPT
              !.closed = TRUE, !.shut = TRUE, !.locked = FALSE]

(* ... and then the port and the owner close for good.                     *)
RetirePort ==
  /\ owner.locked /\ owner' = Shut(owner) /\ Retired
  /\ UNCHANGED <<family, calls>>

ClosePort ==
  /\ ~owner.locked /\ ~owner.closed /\ owner' = Shut(owner) /\ Retired
  /\ UNCHANGED <<family, calls>>

Record == owner.last
Usable == owner.last # 0 /\ ~owner.shut /\ owner.lastGeneration = owner.generation
Busy == owner.busy

Init == InitPort("smartlogger", NewOwner)

Call(c) ==
  BeginRefused(c) \/ BeginAttempt(c) \/ EnterReader(c) \/ ReaderReturns(c) \/ Finish(c) \/ Leave(c)

Next ==
  /\ family = "smartlogger"
  /\ \/ \E c \in Callers : Refresh(c) \/ Call(c) \/ ReaderPanics(c)
     \/ RetireOwner \/ RetirePort \/ ClosePort
     \/ ContextEnds({"reserved", "begun", "supplier"})

=============================================================================
