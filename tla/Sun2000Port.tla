---------------------------- MODULE Sun2000Port ----------------------------
(***************************************************************************)
(* The SUN2000 port (I13): one supplied documentary record at a time,      *)
(* published only for the identity it was asked for.  Replacement and      *)
(* retirement drop the record at once, with a callback still out.          *)
(* src/sun2000_provider_port.go                                            *)
(***************************************************************************)
EXTENDS SuppliedPort

(* generation stands for the identity: a replacement always increases it.  *)
NewOwner == [busy |-> FALSE, retired |-> FALSE, generation |-> 1, last |-> 0]

Cycle(c) ==
  /\ Idle(c) /\ ~owner.retired /\ ~owner.busy /\ MayBegin
  /\ owner' = [owner EXCEPT !.busy = TRUE]
  /\ calls' = [calls EXCEPT ![c].pc = "supplier", ![c].attempt = NextAttempt,
                            ![c].frozen = owner.generation]
  /\ Begun({})
  /\ UNCHANGED family

(* The supplier returned, its record was parsed, and the lock is taken     *)
(* again.  A panic of the supplier refuses too.                            *)
Refused(c) ==
  /\ At(c, "supplier") /\ Goes(c, "leaving") /\ Over({calls[c].attempt})
  /\ UNCHANGED <<family, owner>>

Accepted(c) ==
  /\ At(c, "supplier") /\ ~Ended(calls[c].attempt)
  /\ ~owner.retired /\ owner.generation = calls[c].frozen
  /\ owner' = [owner EXCEPT !.last = calls[c].attempt]
  /\ Goes(c, "leaving") /\ Over({calls[c].attempt})
  /\ UNCHANGED family

Leave(c) ==
  /\ At(c, "leaving")
  /\ owner' = [owner EXCEPT !.busy = FALSE]
  /\ Returns(c)
  /\ UNCHANGED <<family, trace>>

Replace ==
  /\ ~owner.retired
  /\ \E next \in (owner.generation + 1)..MaxGeneration :
       owner' = [owner EXCEPT !.generation = next, !.last = 0]
  /\ Over(AllBegun)
  /\ UNCHANGED <<family, calls>>

Retire ==
  /\ ~owner.retired
  /\ owner' = [owner EXCEPT !.retired = TRUE, !.last = 0]
  /\ Retired
  /\ UNCHANGED <<family, calls>>

Record == owner.last
Usable == owner.last # 0
Busy == owner.busy

Init == InitPort("sun2000", NewOwner)

Call(c) == Refused(c) \/ Accepted(c) \/ Leave(c)

Next ==
  /\ family = "sun2000"
  /\ \/ \E c \in Callers : Cycle(c) \/ Call(c)
     \/ Replace \/ Retire
     \/ ContextEnds({"supplier"})

=============================================================================
