------------------------------ MODULE EmmaPort ------------------------------
(***************************************************************************)
(* The EMMA port (I19) over the offline cycle and the identity transaction.*)
(* Refreshes may overlap; each holds a ticket of the port and, once it is  *)
(* past the native preflight, a ticket of the native provider.  The end of *)
(* a refresh's context is turned into a cancelled native context whenever  *)
(* its clock is read.  Contexts given to SetContext are new, as the port   *)
(* asks its callers for; deadlines are the transaction's choice to reject. *)
(* src/emma_identity_transaction.go, src/emma_offline_provider.go,         *)
(* src/emma_provider_port.go                                               *)
(***************************************************************************)
EXTENDS SuppliedPort

Parents == {1, 2}

(* latest is the published result, of which the attempt's context, whether *)
(* it committed, and the retained identity (an attempt) are kept.          *)
(* sequence: the refresh that holds the port's ticket, 0 when a            *)
(* replacement took it; cycle: the refresh with the newest native ticket.  *)
EmptyResult == [context |-> 0, committed |-> FALSE, retained |-> 0]

NewOwner ==
  [retired |-> FALSE, parent |-> 1, generation |-> 1, cancelled |-> FALSE,
   sequence |-> 0, cycle |-> 0, latest |-> EmptyResult]

Current(c) == calls[c].frozen = owner.generation

Refresh(c) ==
  /\ Idle(c) /\ ~owner.retired /\ MayBegin
  /\ owner' = [owner EXCEPT !.sequence = NextAttempt]
  /\ calls' = [calls EXCEPT ![c].pc = "before", ![c].attempt = NextAttempt,
                            ![c].frozen = owner.generation, ![c].ticket = owner.parent]
  /\ Begun({})
  /\ UNCHANGED family

(* The clock of a refresh: its context is sampled, and a refresh that has  *)
(* ended cancels the current context while it holds the port's ticket.     *)
Sampled(c) ==
  IF Ended(calls[c].attempt) /\ calls[c].attempt = owner.sequence /\ Current(c)
  THEN [owner EXCEPT !.cancelled = TRUE] ELSE owner

Before(c) ==
  /\ At(c, "before") /\ owner' = Sampled(c) /\ Goes(c, "preflight")
  /\ UNCHANGED <<family, trace>>

Matches(c) == Current(c) /\ ~owner.cancelled

PreflightRefuses(c) ==
  /\ At(c, "preflight") /\ Returns(c) /\ Done(calls[c].attempt)
  /\ UNCHANGED <<family, owner>>

PreflightPasses(c) ==
  /\ At(c, "preflight") /\ Matches(c)
  /\ owner' = [owner EXCEPT !.cycle = calls[c].attempt]
  /\ Goes(c, "supplier")
  /\ Over({owner.cycle} \ {0})
  /\ UNCHANGED family

ReaderReturns(c) ==
  /\ At(c, "supplier")
  /\ \E result \in {"complete", "unavailable"} :
       calls' = [calls EXCEPT ![c].pc = "after", ![c].result = result]
  /\ UNCHANGED <<family, owner, trace>>

(* result "cancelled": the completion clock saw that the refresh ended.    *)
After(c) ==
  /\ At(c, "after") /\ owner' = Sampled(c)
  /\ calls' = [calls EXCEPT ![c].pc = "commit",
                 ![c].result = IF @ = "complete" /\ Ended(calls[c].attempt)
                               THEN "cancelled" ELSE @]
  /\ UNCHANGED <<family, trace>>

Complete(c) == calls[c].result \in {"complete", "cancelled"}

(* EmmaIdentityAttempt.Commit under the native lock: a call that no longer *)
(* holds the native ticket, or whose parent (kept as its ticket) was       *)
(* replaced, publishes nothing at all.                                     *)
CommitRejects(c) ==
  /\ At(c, "commit")
  /\ owner' = IF calls[c].attempt = owner.cycle /\ calls[c].ticket = owner.parent
              THEN [owner EXCEPT !.latest = [context |-> calls[c].frozen, committed |-> FALSE,
                                             retained |-> @.retained]]
              ELSE owner
  /\ Done(calls[c].attempt) /\ Returns(c)
  /\ UNCHANGED family

(* Faulty variant: a commit that does not look at its native ticket.       *)
CommitUnticketed(c) ==
  /\ At(c, "commit") /\ Complete(c) /\ Matches(c)
  /\ owner' = [owner EXCEPT !.latest = [context |-> calls[c].frozen, committed |-> TRUE,
                                        retained |-> calls[c].attempt]]
  /\ Done(calls[c].attempt) /\ Returns(c)
  /\ UNCHANGED family

CommitPublishes(c) ==
  /\ At(c, "commit") /\ Complete(c)
  /\ calls[c].attempt = owner.cycle /\ Matches(c)
  /\ owner' = [owner EXCEPT !.latest = [context |-> calls[c].frozen, committed |-> TRUE,
                                        retained |-> calls[c].attempt]]
  /\ Done(calls[c].attempt) /\ Returns(c)
  /\ UNCHANGED family

ReaderPanics(c) ==
  /\ At(c, "supplier") /\ Returns(c) /\ Done(calls[c].attempt)
  /\ UNCHANGED <<family, owner>>

(* A new context; a new parent starts with an empty history.               *)
SetContext ==
  /\ ~owner.retired /\ owner.generation < MaxGeneration
  /\ \E parent \in Parents :
       owner' = [owner EXCEPT
                   !.sequence = 0, !.parent = parent, !.generation = @ + 1,
                   !.cancelled = FALSE,
                   !.latest = IF parent = owner.parent THEN @ ELSE EmptyResult]
  /\ Over(AllBegun)
  /\ UNCHANGED <<family, calls>>

Retire ==
  /\ ~owner.retired
  /\ owner' = [owner EXCEPT !.retired = TRUE, !.sequence = 0, !.cancelled = TRUE]
  /\ Retired
  /\ UNCHANGED <<family, calls>>

Record == owner.latest.retained
Usable == ~owner.retired /\ ~owner.cancelled /\ owner.latest.committed
          /\ owner.latest.context = owner.generation
Busy == FALSE

Init == InitPort("emma", NewOwner)

Call(c) == Before(c) \/ PreflightRefuses(c) \/ PreflightPasses(c) \/ ReaderReturns(c)
           \/ After(c) \/ CommitRejects(c) \/ CommitPublishes(c)

Next ==
  /\ family = "emma"
  /\ \/ \E c \in Callers : Refresh(c) \/ Call(c) \/ ReaderPanics(c)
     \/ SetContext \/ Retire
     \/ ContextEnds({})

=============================================================================
