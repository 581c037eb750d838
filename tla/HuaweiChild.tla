---------------------------- MODULE HuaweiChild ----------------------------
(***************************************************************************)
(* What a cycle of a Huawei read-only provider does to one routed child:   *)
(* its admission at the routed unit, the reads of its monitoring groups,   *)
(* its back-off, its withhold, and how the cycle reports it.               *)
(* src/huawei_readonly_provider.go.  The operators work on the run, the    *)
(* cycle's private copy of the state; those that choose return the set of  *)
(* runs the cycle may go on as.                                            *)
(*                                                                         *)
(* Each path admits one monitoring profile with one model, so an identity  *)
(* that is bound again is the same identity: a child's reading moves to    *)
(* history only when the child is withheld.                                *)
(***************************************************************************)
EXTENDS HuaweiProviderCore, FiniteSetsExt

---------------------------------------------------------------------------
(* One child. *)

(* Faulty variant: a withheld child keeps its reading.                     *)
KeepingFence(c) == [c EXCEPT !.failures = 0, !.skipUntil = 0]

Fence(c) == [c EXCEPT !.reading = NoReading, !.failures = 0, !.skipUntil = 0]

Withhold(c) ==
  [Fence(c) EXCEPT !.definitive = TRUE, !.identity = FALSE, !.since = 0]

(* Faulty variant: the generation the child was identified on survives.    *)
LaxIdentificationEvent(c) == [c EXCEPT !.definitive = FALSE, !.skipUntil = 0]

IdentificationEvent(c) ==
  [c EXCEPT !.definitive = FALSE, !.generation = 0, !.skipUntil = 0]

BindIdentity(c, r) ==
  [c EXCEPT !.identity = TRUE, !.generation = r.generation, !.definitive = FALSE,
            !.since = IF c.identity THEN @ ELSE r.cycle, !.admittedAt = r.cycle]

(* A wait that doubles from one cycle, no more once it is ten or over, and *)
(* is cut to ten: 1, 2, 4, 8, 10.                                          *)
Doubled(steps) == Min({10, 2 ^ Min({steps, 4})})

(* None after the first failure, and then the doubled waits.               *)
ChildBackoff(failures) == IF failures < 2 THEN 0 ELSE Doubled(failures - 2)

(* Faulty variant: the strict comparison of the skip check is forgotten.   *)
ShortSkipUntil(cycle, failures) ==
  IF ChildBackoff(failures) = 0 THEN cycle ELSE cycle + ChildBackoff(failures)

ChildSkipUntil(cycle, failures) ==
  IF ChildBackoff(failures) = 0 THEN cycle ELSE cycle + ChildBackoff(failures) + 1

EndpointBackoff(failures) == Doubled(failures - 1)

FailedRead(c, cycle) ==
  [c EXCEPT !.failures = @ + 1, !.skipUntil = ChildSkipUntil(cycle, c.failures + 1),
            !.failedAt = cycle]

(* RetainHuaweiSUN2000Monitoring over the groups answered in this cycle.   *)
Retain(reading, answered, cycle) ==
  [g \in Groups |-> IF g \in answered THEN cycle
                    ELSE IF reading = NoReading THEN 0 ELSE reading[g]]

(* huaweiProviderState.child: the child of a unit, met now at the latest.  *)
Meet(s, u) ==
  IF s.children[u].known THEN s
  ELSE [s EXCEPT !.children[u] = [NewChild EXCEPT !.known = TRUE, !.refused = s.carried[u]],
                 !.carried[u] = {}]

---------------------------------------------------------------------------
(* How the cycle reports a child. *)

(* childObservation.                                                       *)
Observe(r, u, evidence, reason) ==
  LET c == r.state.children[u]
  IN  [r EXCEPT !.out.children[u] =
         [evidence |-> evidence, reason |-> reason,
          reading |-> IF evidence # "withheld" /\ c.identity THEN c.reading
                      ELSE NoReading]]

StaleOrWithheld(c) ==
  IF c.identity /\ c.reading # NoReading THEN "stale" ELSE "withheld"

(* staleChildren: the children were not read in this cycle.                *)
StaleChildren(r, withheld) ==
  LET silent(c) == \/ withheld \/ r.state.gatewayFenced
                   \/ ~c.identity \/ c.reading = NoReading \/ c.ineligible
  IN  [r EXCEPT !.out.children = [u \in Units |->
         LET c == r.state.children[u]
         IN  IF ~c.known THEN Unseen
             ELSE [evidence |-> IF silent(c) THEN "withheld" ELSE "stale",
                   reason |-> "gateway",
                   reading |-> IF silent(c) THEN NoReading ELSE c.reading]]]

---------------------------------------------------------------------------
(* The end of a cycle, and of one child's part in it. *)

Finish(r, outcome) == [r EXCEPT !.step = "done", !.out.outcome = outcome]

(* The cycle goes on with the next child, or is complete.                  *)
Onward(r) == [r EXCEPT !.step = "route"]

(* A cycle that ends without its children, the endpoint backing off when a *)
(* read failed rather than being refused.                                  *)
EndpointFailed(r) ==
  LET failures == r.state.endpointFailures + 1
  IN  [r EXCEPT !.state.endpointFailures = failures,
                !.out.wait = EndpointBackoff(failures)]

---------------------------------------------------------------------------
(* Admission and monitoring. *)

(* monitorChild: the next group of the plan that is not refused, or the    *)
(* merged reading.                                                         *)
Monitored(r) ==
  LET c == r.state.children[r.unit]
      read == [c EXCEPT !.reading = Retain(c.reading, r.answered, r.cycle)]
      after == CASE r.reason = "read" -> [read EXCEPT !.failures = 0, !.skipUntil = 0]
                 [] r.reason = "exception" -> read
                 [] r.reason = "failed" -> FailedRead(read, r.cycle)
  IN  Onward(Observe([r EXCEPT !.state.children[r.unit] = after], r.unit,
                     IF r.reason = "read" THEN "current" ELSE "stale", r.reason))

NextGroup(r) ==
  LET pending == {g \in Groups : g > r.group /\ g \notin r.state.children[r.unit].refused}
  IN  IF pending = {} THEN Monitored(r)
      ELSE [Exchange(r, "group") EXCEPT !.group = Min(pending)]

Monitor(r) ==
  NextGroup([r EXCEPT !.group = 0, !.answered = {}, !.reason = "read"])

AfterGroup(r, result) ==
  CASE result = "answered" -> {NextGroup([r EXCEPT !.answered = @ \cup {r.group}])}
    [] result = "exception" -> {NextGroup([r EXCEPT !.reason = "exception"])}
    [] result = "refused" ->
         {NextGroup([r EXCEPT !.state.children[r.unit].refused = @ \cup {r.group},
                              !.reason = "exception"])}
    [] result = "failed" -> {Monitored([r EXCEPT !.reason = "failed"])}

(* childAdmissionRead: what an admission read that did not answer does.    *)
AdmissionStopped(r, result) ==
  LET c == r.state.children[r.unit]
      failed == FailedRead(c, r.cycle)
  IN  IF result = "failed"
      THEN Onward(Observe([r EXCEPT !.state.children[r.unit] = failed], r.unit,
                          StaleOrWithheld(failed), "failed"))
      ELSE Onward(Observe([r EXCEPT !.state.children[r.unit] = Withhold(c)], r.unit,
                          "withheld", "definitive"))

(* bindChildSelection: the selection admits the child or withholds it.     *)
Admitted(r) ==
  Monitor([r EXCEPT !.state.children[r.unit] = BindIdentity(@, r)])

Refused(r) ==
  Onward(Observe([r EXCEPT !.state.children[r.unit] = Withhold(@)], r.unit,
                 "withheld", "definitive"))

(* The identity words, one request at a time, and the selection over them. *)
AfterAdmission(r, result) ==
  IF result # "answered" THEN {AdmissionStopped(r, result)}
  ELSE CASE r.step = "model" -> {Exchange(r, "identifier"), Refused(r)}
         [] r.step = "identifier" -> {Exchange(r, "software")}
         [] r.step = "software" -> {Exchange(r, "firmware")}
         [] r.step = "firmware" -> {Admitted(r), Refused(r)}

(* A child that is read: its admission on this connection, if it has none, *)
(* then its groups.                                                        *)
ReadChild(r, admission) ==
  LET c == r.state.children[r.unit]
  IN  IF c.identity /\ c.generation = r.generation
      THEN Monitor(r) ELSE Exchange(r, admission)

(* A child that is withheld or backing off is not read.                    *)
ServeChild(r, admission) ==
  LET c == r.state.children[r.unit]
  IN  CASE c.definitive -> Onward(Observe(r, r.unit, "withheld", "definitive"))
        [] ~c.definitive /\ c.skipUntil > r.cycle ->
             Onward(Observe(r, r.unit, StaleOrWithheld(c), "backoff"))
        [] OTHER -> ReadChild(r, admission)

===========================================================================
