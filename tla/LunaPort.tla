------------------------------ MODULE LunaPort ------------------------------
(***************************************************************************)
(* The LUNA port (I15): one supplied cycle at a time over the reducer of   *)
(* optional documentary state.  The port admits observations of its own    *)
(* binding and policy only, so of the reducer's result the status and the  *)
(* evaluation time are kept; its history and its identity changes belong   *)
(* to callers that use it without the port.                                *)
(* src/luna_optional_state.go, src/luna_provider_port.go                   *)
(***************************************************************************)
EXTENDS SuppliedPort

(* The policy's deadline: no observation may be evaluated at it or later.  *)
Deadline == MaxTick

Events == {"presence", "inventory", "failure"}

NewOwner ==
  [busy |-> FALSE, retired |-> FALSE, evaluatedAt |-> 0, status |-> "unknown", receipt |-> 0]

(* ReduceLunaOptionalState on an admitted observation: presence without    *)
(* evidence counts as inventory, malformed evidence as a failure.          *)
Reduced(status, event) ==
  CASE event = "presence" -> "present"
    [] event = "failure" /\ status # "unknown" -> "temporarily unreadable"
    [] OTHER -> "unknown"

Cycle(c) ==
  /\ Idle(c) /\ ~owner.retired /\ ~owner.busy /\ MayBegin
  /\ \E started \in owner.evaluatedAt..(Deadline - 1) :
       calls' = [calls EXCEPT ![c].pc = "supplier", ![c].attempt = NextAttempt,
                              ![c].frozen = started]
  /\ owner' = [owner EXCEPT !.busy = TRUE]
  /\ Begun({})
  /\ UNCHANGED family

(* The supplier returned and the lock is taken again: an error, an ended   *)
(* context, retirement or an observation that is not of the request's      *)
(* binding, policy, start or bounds is refused whole.                      *)
Refused(c) ==
  /\ At(c, "supplier") /\ Goes(c, "leaving") /\ Over({calls[c].attempt})
  /\ UNCHANGED <<family, owner>>

Admitted(c) ==
  /\ At(c, "supplier") /\ ~owner.retired /\ ~Ended(calls[c].attempt)
  /\ \E event \in Events, now \in calls[c].frozen..(Deadline - 1) :
       owner' = [owner EXCEPT !.status = Reduced(@, event), !.evaluatedAt = now,
                              !.receipt = calls[c].attempt]
  /\ Goes(c, "leaving") /\ Over({calls[c].attempt})
  /\ UNCHANGED family

(* The deferred release, after the lock of the publication was dropped; a  *)
(* supplier that panics reaches it by way of  Refused .                    *)
Leave(c) ==
  /\ At(c, "leaving")
  /\ owner' = [owner EXCEPT !.busy = FALSE]
  /\ Returns(c)
  /\ UNCHANGED <<family, trace>>

(* Retirement keeps what is published.                                     *)
Retire ==
  /\ ~owner.retired
  /\ owner' = [owner EXCEPT !.retired = TRUE]
  /\ Retired
  /\ UNCHANGED <<family, calls>>

Record == owner.receipt
Usable == owner.status = "present"
Busy == owner.busy

Init == InitPort("luna", NewOwner)

Call(c) == Refused(c) \/ Admitted(c) \/ Leave(c)

Next ==
  /\ family = "luna"
  /\ \/ \E c \in Callers : Cycle(c) \/ Call(c)
     \/ Retire
     \/ ContextEnds({"supplier"})

=============================================================================
