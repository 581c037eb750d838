---------------------------- MODULE OutBackPort ----------------------------
(***************************************************************************)
(* The OutBack port (I27): an adapter that admits one cycle at a time over *)
(* the native offline provider, whose own lock is dropped for the          *)
(* supplier.  The adapter's generation follows the native one under the    *)
(* adapter's lock, which every snapshot takes: one field stands for both.  *)
(* src/outback_offline_provider.go, src/outback_provider_port.go           *)
(***************************************************************************)
EXTENDS SuppliedPort

Sources == {1, 2}

(* record is the attempt of the retained record, recordGeneration and      *)
(* recordSource are what it was imported for, complete its own extent.     *)
NewOwner ==
  [busy |-> FALSE, retired |-> FALSE, generation |-> 1, source |-> 1, attempt |-> 0,
   status |-> "idle", record |-> 0, recordGeneration |-> 0, recordSource |-> 0,
   complete |-> FALSE]

(* The contexts that Replace and Retire cancel.                            *)
Cancelled == {calls[c].attempt : c \in {d \in Callers : At(d, "supplier")}}

(* Faulty variant: an adapter without its TryLock.                         *)
CycleOverlapping(c) ==
  /\ Idle(c) /\ ~owner.retired /\ MayBegin
  /\ owner' = [owner EXCEPT !.busy = TRUE, !.attempt = NextAttempt, !.status = "running"]
  /\ calls' = [calls EXCEPT ![c].pc = "supplier", ![c].attempt = NextAttempt,
                            ![c].frozen = owner.generation]
  /\ Begun(AllBegun)
  /\ UNCHANGED family

Cycle(c) ==
  /\ Idle(c) /\ ~owner.busy /\ ~owner.retired /\ MayBegin
  /\ owner' = [owner EXCEPT !.busy = TRUE, !.attempt = NextAttempt, !.status = "running"]
  /\ calls' = [calls EXCEPT ![c].pc = "supplier", ![c].attempt = NextAttempt,
                            ![c].frozen = owner.generation]
  /\ Begun({})
  /\ UNCHANGED family

Superseded(c) ==
  owner.retired \/ owner.generation # calls[c].frozen \/ owner.attempt # calls[c].attempt

(* An incomplete record does not take the place of a complete one.         *)
Imported(c, complete) ==
  LET tried == [owner EXCEPT !.status = IF complete THEN "imported" ELSE "incomplete"]
  IN  IF ~complete /\ owner.record # 0 /\ owner.complete THEN tried
      ELSE [tried EXCEPT !.record = calls[c].attempt, !.complete = complete,
                         !.recordGeneration = calls[c].frozen, !.recordSource = owner.source]

(* The supplier returned and the native lock is taken again.               *)
Publish(c) ==
  /\ At(c, "supplier")
  /\ \/ Superseded(c) /\ UNCHANGED owner
     \/ /\ ~Superseded(c)
        /\ owner' = [owner EXCEPT !.status = IF Ended(calls[c].attempt) THEN "canceled"
                                             ELSE "failed"]
     \/ /\ ~Superseded(c) /\ ~Ended(calls[c].attempt)
        /\ \E complete \in BOOLEAN : owner' = Imported(c, complete)
  /\ Goes(c, "leaving") /\ Over({calls[c].attempt})
  /\ UNCHANGED family

SupplierPanics(c) ==
  /\ At(c, "supplier") /\ Goes(c, "leaving") /\ Over({calls[c].attempt})
  /\ UNCHANGED <<family, owner>>

Leave(c) ==
  /\ At(c, "leaving")
  /\ owner' = [owner EXCEPT !.busy = FALSE]
  /\ Returns(c)
  /\ UNCHANGED <<family, trace>>

(* Even for an equal source the generation advances.                       *)
Replace ==
  /\ ~owner.retired /\ owner.generation < MaxGeneration
  /\ \E source \in Sources :
       owner' = [owner EXCEPT !.generation = @ + 1, !.source = source, !.status = "idle"]
  /\ trace' = [trace EXCEPT !.over = AllBegun, !.ended = @ \cup Cancelled]
  /\ UNCHANGED <<family, calls>>

Retire ==
  /\ ~owner.retired
  /\ owner' = [owner EXCEPT !.retired = TRUE, !.status = "retired"]
  /\ trace' = [trace EXCEPT !.over = AllBegun, !.ended = @ \cup Cancelled, !.retired = TRUE]
  /\ UNCHANGED <<family, calls>>

(* Snapshot for the provider's own current source.                         *)
Record == owner.record
Usable ==
  /\ ~owner.retired /\ owner.record # 0
  /\ owner.recordSource = owner.source /\ owner.recordGeneration = owner.generation
Busy == owner.busy

Init == InitPort("outback", NewOwner)

Call(c) == Publish(c) \/ Leave(c)

Next ==
  /\ family = "outback"
  /\ \/ \E c \in Callers : Cycle(c) \/ Call(c) \/ SupplierPanics(c)
     \/ Replace \/ Retire
     \/ ContextEnds({"supplier"})

=============================================================================
