-------------------------- MODULE MCHuaweiProvider --------------------------
(***************************************************************************)
(* What the Huawei read-only providers must keep, checked for both paths   *)
(* with every interleaving of one refresh with Stop, Reconnect and Close.  *)
(***************************************************************************)
EXTENDS HuaweiProvider

ChildSteps == {"model", "identifier", "software", "firmware", "group"}

OnWire == Reading /\ run.mode = "wire"

(* At most one connection is bound, and no read goes out on a connection   *)
(* while an earlier one has not been released: a Reconnect or a Stop that  *)
(* waits for the old session's Close keeps every cycle off the new one.    *)
OneConnection ==
  /\ \A g, h \in DOMAIN sessions :
       sessions[g] = "bound" /\ sessions[h] = "bound" => g = h
  /\ OnWire => \A g \in 1 .. run.session - 1 : sessions[g] \notin {"bound", "closing"}

(* An identified gateway was identified, and matched, on the connection    *)
(* that is bound now: no cycle that ran over a Stop or a Reconnect leaves  *)
(* an identity behind.                                                     *)
IdentityIsBound ==
  store.identified =>
    /\ core.started /\ store.identityGeneration = core.generation
    /\ store.verdict = "match" /\ ~store.gatewayFenced

(* A cycle that emits a reading of a child emits one the gateway and the   *)
(* child still own: the last evaluated tuple matched the card, and every   *)
(* kept group was read after the child was last withheld.                  *)
EmittedReadingIsOwned ==
  returned.cycle # 0 => \A u \in Units :
    LET c == store.children[u]
        reading == returned.out.children[u].reading
    IN  reading # NoReading =>
          /\ store.verdict = "match" /\ c.identity
          /\ \A g \in Groups : reading[g] # 0 => reading[g] >= c.since

(* A child reported current was admitted after the latest identification   *)
(* of the gateway, on the connection of the cycle, and every group that    *)
(* was not refused carries words of this cycle.                            *)
CurrentIsFresh ==
  returned.cycle # 0 => \A u \in Units :
    LET c == store.children[u]
        observed == returned.out.children[u]
    IN  observed.evidence = "current" =>
          /\ returned.out.outcome = "complete"
          /\ c.generation = returned.generation
          /\ store.identityGeneration = returned.generation
          /\ c.admittedAt >= store.identifiedAt
          /\ \A g \in Groups \ c.refused : observed.reading[g] = returned.cycle

(* A group that got exception 3 is never sent again, whatever became of    *)
(* the cycle that learned it: committed, cancelled or fenced.              *)
RefusedNeverSent ==
  OnWire /\ run.step = "group" => <<run.unit, run.group>> \notin refusals

(* docs/huawei-readonly-providers.md: none after the first failure, then   *)
(* 1, 2, 4, 8 and at most 10 cycles.                                       *)
DocumentedWait(failures) ==
  IF failures = 0 THEN 0
  ELSE IF failures > 5 THEN 10 ELSE <<0, 1, 2, 4, 8>>[failures]

(* A child backs off for exactly the documented cycles: it is read in none *)
(* of them unless the gateway was identified again, and it is reported as  *)
(* backing off in no later one.                                            *)
BackoffIsExact ==
  /\ OnWire /\ run.step \in ChildSteps =>
       LET c == store.children[run.unit]
       IN  \/ run.cycle > c.failedAt + DocumentedWait(c.failures)
           \/ run.state.identifiedAt > c.failedAt
  /\ returned.cycle # 0 => \A u \in Units :
       LET c == store.children[u]
       IN  returned.out.children[u].reason = "backoff" =>
             returned.cycle <= c.failedAt + DocumentedWait(c.failures)

(* Every refresh returns, whatever the session answers and whoever stops,  *)
(* reconnects or closes the provider meanwhile.                            *)
RefreshReturns == core.busy ~> ~core.busy

(* The comment on refresh: a fenced cycle sends nothing further.           *)
FencedSendsNothing == [][Send => ~Fenced(run)]_vars

===========================================================================
