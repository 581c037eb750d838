----------------------------- MODULE FroniusPort -----------------------------
(***************************************************************************)
(* The Fronius port: the retained commit owner with its single-use tokens, *)
(* the offline cycle around it and the adapter (I25) whose lock is dropped *)
(* for the reader alone, so every step between two readers is atomic.      *)
(* src/fronius_retained_commit.go, src/fronius_offline_provider.go,        *)
(* src/fronius_provider_port.go                                            *)
(***************************************************************************)
EXTENDS SuppliedPort

(* Key 0 is one whose source is not known; it is also the zero value.      *)
Keys == {0, 1, 2}

(* active: the token whose cycle is open; latest: the latest attempt, 0    *)
(* when its Begin was refused; envelope: the attempt that was committed.   *)
NewOwner == [retired |-> FALSE, active |-> 0, key |-> 0, envelope |-> 0,
               latest |-> 0, outcome |-> "none"]

CheckLifetime == ~owner.retired

(* The start of Begin: it ends the active cycle, and a changed key drops   *)
(* the history even if the attempt is refused further down.                *)
Fenced(key) ==
  [owner EXCEPT !.envelope = IF key # owner.key THEN 0 ELSE @, !.key = key,
                !.active = 0, !.latest = 0, !.outcome = "failed"]

RunRefused(key) ==
  /\ CheckLifetime
  /\ owner' = IF key = 0 THEN [Fenced(key) EXCEPT !.envelope = 0] ELSE Fenced(key)
  /\ Over(AllBegun)
  /\ UNCHANGED <<family, calls>>

(* Begin accepts.  A request over the bounds fails without a reader.       *)
Run(c, key) ==
  /\ CheckLifetime /\ Idle(c) /\ key # 0 /\ MayBegin
  /\ \/ /\ owner' = [Fenced(key) EXCEPT !.active = NextAttempt,
                       !.latest = NextAttempt, !.outcome = "pending"]
        /\ calls' = [calls EXCEPT ![c].pc = "supplier", ![c].attempt = NextAttempt]
        /\ Begun(AllBegun)
     \/ /\ owner' = [Fenced(key) EXCEPT !.latest = NextAttempt]
        /\ Begun(AllBegun \cup {NextAttempt})
        /\ UNCHANGED calls
  /\ UNCHANGED family

(* checkActive, then the cycle closes with the outcome.                    *)
Closed(token, outcome) ==
  IF owner.active # token THEN owner
  ELSE [owner EXCEPT !.active = 0,
                     !.outcome = IF Ended(token) THEN "cancelled" ELSE outcome]

Commit(token) ==
  /\ owner.active = token /\ ~Ended(token)
  /\ owner' = [owner EXCEPT !.envelope = token, !.active = 0, !.outcome = "succeeded"]

(* The reader returned: an ended context cancels, an error, another        *)
(* attempt's result, an excess or an invalid observation fails the cycle.  *)
RunReturns(c) ==
  /\ At(c, "supplier")
  /\ LET token == calls[c].attempt
     IN  /\ \/ owner' = Closed(token, IF Ended(token) THEN "cancelled" ELSE "failed")
            \/ Commit(token)
         /\ Over({token})
  /\ Returns(c)
  /\ UNCHANGED family

(* The reader panicked: the lock is taken again and the panic goes on; the *)
(* cycle stays open until something closes it.                             *)
RunPanics(c) ==
  /\ At(c, "supplier") /\ Returns(c) /\ Over({calls[c].attempt})
  /\ UNCHANGED <<family, owner>>

CancelRun(token) ==
  /\ CheckLifetime /\ owner.active = token
  /\ owner' = Closed(token, "cancelled") /\ Over({token})
  /\ UNCHANGED <<family, calls>>

Retire ==
  /\ CheckLifetime
  /\ owner' = [(IF owner.active = 0 THEN owner ELSE Closed(owner.active, "cancelled"))
                 EXCEPT !.retired = TRUE]
  /\ Retired
  /\ UNCHANGED <<family, calls>>

(* Reading the view closes a cycle whose context has ended.                *)
View ==
  /\ owner.active # 0 /\ Ended(owner.active)
  /\ owner' = Closed(owner.active, "cancelled") /\ Over({owner.active})
  /\ UNCHANGED <<family, calls>>

Record == owner.envelope
Usable == owner.envelope # 0 /\ owner.outcome = "succeeded"
Busy == FALSE

Init == InitPort("fronius", NewOwner)

Call(c) == RunReturns(c)

Next ==
  /\ family = "fronius"
  /\ \/ \E key \in Keys : RunRefused(key)
     \/ \E c \in Callers, key \in Keys : Run(c, key)
     \/ \E c \in Callers : RunReturns(c) \/ RunPanics(c)
     \/ \E token \in AllBegun : CancelRun(token)
     \/ Retire \/ View
     \/ ContextEnds({"supplier"})

=============================================================================
