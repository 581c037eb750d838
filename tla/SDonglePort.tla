---------------------------- MODULE SDonglePort ----------------------------
(***************************************************************************)
(* The SDongle port (I21): one bounded lookup at a time of a frozen route, *)
(* decided by DecideSDongleRoute, whose outcomes are told apart only by    *)
(* the state they publish.  The result of a refresh carries the history    *)
(* that was frozen when it began.                                          *)
(* src/sdongle_offline_provider.go, src/sdongle_provider_port.go           *)
(***************************************************************************)
EXTENDS SuppliedPort

(* state and retained are the latest result; retained is 0 also for the    *)
(* history a port may be built with.                                       *)
NewOwner == [busy |-> FALSE, retired |-> FALSE, state |-> "blocked", retained |-> 0]

Blocked(o) == [o EXCEPT !.state = "blocked"]

Refresh(c) ==
  /\ Idle(c) /\ ~owner.retired /\ ~owner.busy /\ MayBegin
  /\ owner' = [owner EXCEPT !.busy = TRUE]
  /\ calls' = [calls EXCEPT ![c].pc = "supplier", ![c].attempt = NextAttempt,
                            ![c].frozen = owner.retained]
  /\ Begun({})
  /\ UNCHANGED family

(* The latest result when the lookup could not be used: an error or a      *)
(* misfit, a route that is refused, or one that is withheld.               *)
Kept(c, state) == [owner EXCEPT !.state = state, !.retained = calls[c].frozen]

(* The lookup returned and the lock is taken again: a retired port keeps   *)
(* its result, an ended context blocks whatever was decided.               *)
Publish(c) ==
  /\ At(c, "supplier")
  /\ \/ owner.retired /\ UNCHANGED owner
     \/ ~owner.retired /\ Ended(calls[c].attempt) /\ owner' = Blocked(owner)
     \/ /\ ~owner.retired /\ ~Ended(calls[c].attempt)
        /\ \/ \E state \in {"blocked", "denied"} : owner' = Kept(c, state)
           \/ owner' = [owner EXCEPT !.state = "ready", !.retained = calls[c].attempt]
  /\ Goes(c, "leaving") /\ Over({calls[c].attempt})
  /\ UNCHANGED family

LookupPanics(c) ==
  /\ At(c, "supplier") /\ Goes(c, "leaving") /\ Over({calls[c].attempt})
  /\ UNCHANGED <<family, owner>>

(* The deferred release: only now may the next refresh begin.              *)
Leave(c) ==
  /\ At(c, "leaving")
  /\ owner' = [owner EXCEPT !.busy = FALSE]
  /\ Returns(c)
  /\ UNCHANGED <<family, trace>>

(* Retirement blocks the result and cancels the lookup in flight.          *)
Retire ==
  /\ ~owner.retired
  /\ owner' = [Blocked(owner) EXCEPT !.retired = TRUE]
  /\ trace' = [trace EXCEPT !.over = AllBegun, !.retired = TRUE,
                 !.ended = @ \cup {calls[c].attempt : c \in {d \in Callers : ~Idle(d)}}]
  /\ UNCHANGED <<family, calls>>

Record == owner.retained
Usable == owner.state = "ready"
Busy == owner.busy

Init == InitPort("sdongle", NewOwner)

Call(c) == Publish(c) \/ Leave(c)

Next ==
  /\ family = "sdongle"
  /\ \/ \E c \in Callers : Refresh(c) \/ Call(c) \/ LookupPanics(c)
     \/ Retire
     \/ ContextEnds({"supplier"})

=============================================================================
