--------------------------- MODULE HuaweiProvider ---------------------------
(***************************************************************************)
(* A Huawei read-only provider: the shared core with the cycle of its path *)
(* (huaweiProviderCore.run), one refresh of which runs while other callers *)
(* start, stop, reconnect and close the provider.  The SmartLogger's cycle:*)
(* the change counter as guard, the bracketed inventory that identifies    *)
(* the gateway, and the routing of the listed and allowed units.  The      *)
(* S-Dongle's: the search sequence as guard and as bracket of the observed *)
(* card's tuple, and the one observed child.                               *)
(* src/huawei_readonly_provider.go,                                        *)
(* src/huawei_smartlogger_readonly_provider.go and                         *)
(* src/huawei_sdongle_readonly_provider.go                                 *)
(***************************************************************************)
EXTENDS HuaweiChild

---------------------------------------------------------------------------
(* The SmartLogger. *)

Guarded(s, generation) ==
  s.identified /\ ~s.reidentify /\ s.identityGeneration = generation

SmartLoggerFirst(r) ==
  Exchange(r, IF Guarded(r.state, r.generation) THEN "guard" ELSE "before")

(* readSmartLoggerChildren up to its loop: children that are neither       *)
(* listed nor allowed any more are ineligible.                             *)
RoutedUnits(s) == {u \in Units : s.listing[u] # "absent" \/ u \in Allowed}

ReadChildren(r) ==
  Onward([r EXCEPT
    !.unit = 0,
    !.state.children = [u \in Units |->
       IF @[u].known /\ u \notin RoutedUnits(r.state)
       THEN [@[u] EXCEPT !.ineligible = TRUE] ELSE @[u]]])

(* One iteration of the loop.                                              *)
RouteChild(r, u) ==
  LET s == Meet(r.state, u)
      class == s.listing[u]
      eligible == class # "absent" /\ (u \in Allowed => class = "sun2000")
      met == [r EXCEPT !.unit = u,
                       !.state = [s EXCEPT !.children[u].ineligible = ~eligible]]
  IN  CASE class = "absent" -> Onward(Observe(met, u, "withheld", "not_listed"))
        [] class # "absent" /\ u \notin Allowed ->
             Onward(Observe(met, u, "withheld", "not_allowlisted"))
        [] u \in Allowed /\ class = "other" ->
             Onward(Observe(met, u, "withheld", "no_class_contract"))
        [] u \in Allowed /\ class = "sun2000" -> ServeChild(met, "model")

SmartLoggerRoute(r) ==
  LET pending == {u \in RoutedUnits(r.state) : u > r.unit}
  IN  IF pending = {} THEN Finish(r, "complete") ELSE RouteChild(r, Min(pending))

---------------------------------------------------------------------------
(* The guard. *)

AfterGuard(r, result) ==
  LET lost == [r EXCEPT !.state.reidentify = TRUE, !.state.gateway = "unconfirmed"]
      held == [r EXCEPT !.state.endpointFailures = 0, !.state.gateway = "identified"]
      changed == [r EXCEPT !.state.reidentify = TRUE]
      stale(x) == Finish(StaleChildren(x, FALSE), "incomplete")
  IN  CASE result = "answered" -> {ReadChildren(held), stale(changed)}
        [] result = "exception" -> {stale(lost)}
        [] result = "failed" -> {stale(EndpointFailed(lost))}

---------------------------------------------------------------------------
(* The identification. *)

GatewayFailed(r, result) ==
  LET lost == [r EXCEPT !.state.identified = FALSE, !.state.gateway = "insufficient"]
  IN  Finish(StaleChildren(IF result = "failed" THEN EndpointFailed(lost) ELSE lost, FALSE),
             "insufficient")

(* The third unstable listing makes the endpoint wait ten cycles.          *)
ListingUnstable(r) ==
  LET third == r.state.unstable + 1 >= 3
      counted == [r EXCEPT !.state.unstable = IF third THEN 0 ELSE @ + 1,
                           !.out.wait = IF third THEN 10 ELSE @]
  IN  Finish(StaleChildren(counted, FALSE), "incomplete")

(* A tuple outside the observed card withholds the whole instance.         *)
GatewayMismatch(r) ==
  LET fenced == [r EXCEPT !.state.identified = FALSE, !.state.gatewayFenced = TRUE,
                          !.state.gateway = "insufficient", !.state.verdict = "mismatch"]
  IN  Finish(StaleChildren(fenced, TRUE), "insufficient")

GatewayIdentified(r, listing) ==
  LET s == r.state
      event(c) == IF c.known THEN IdentificationEvent(c) ELSE c
  IN  ReadChildren([r EXCEPT
        !.state = [s EXCEPT
           !.unstable = 0, !.endpointFailures = 0, !.identified = TRUE,
           !.identityGeneration = r.generation, !.reidentify = FALSE,
           !.gatewayFenced = FALSE, !.gateway = "identified", !.listing = listing,
           !.children = [u \in Units |-> event(s.children[u])],
           !.verdict = "match", !.identifiedAt = r.cycle]])

(* The replies an identification read may bring, with what they carry: a   *)
(* page may have a successor, the counter may differ, the reply may come   *)
(* after the card's deadline, and the tuple may match the card or not.     *)
(* "over" is a read that the deadline did not let start.                   *)
AfterIdentification(r, result) ==
  CASE result = "over" -> {ListingUnstable(r)}
    [] r.step = "basic" /\ result # "over" ->
         {ListingUnstable(r), GatewayMismatch(r)} \cup
           {GatewayIdentified(r, listing) : listing \in [Units -> {"absent", "sun2000", "other"}]}
    [] r.step # "basic" /\ result \in {"exception", "failed"} ->
         {GatewayFailed(r, result)}
    [] r.step = "before" /\ result = "answered" -> {Exchange(r, "inventory")}
    [] r.step = "inventory" /\ result = "answered" ->
         {ListingUnstable(r), Exchange(r, "after")} \cup
           IF r.count + 1 < MaxPages
           THEN {[Exchange(r, "inventory") EXCEPT !.count = @ + 1]} ELSE {}
    [] r.step = "after" /\ result = "answered" ->
         {ListingUnstable(r), Exchange(r, "basic")}

-----------------------------------------------------------------------------
(* The S-Dongle.                                                           *)

(* The reads of the tuple after the first search sequence.  The gateway's  *)
(* basic identification must be refused; a refused software read ends the  *)
(* identification; any other refused read leaves a tuple the card rejects. *)
TupleReads ==
  <<"basic", "search_status", "protocol", "capacity", "software", "child_model",
    "child_basic", "child_inventory", "search_after">>

Identifying(s, generation) ==
  ~(s.identified /\ ~s.reidentify /\ s.identityGeneration = generation)

SDongleRoute(r) == Finish(r, "complete")

SDongleMismatch(r) ==
  LET fenced == [r EXCEPT !.state.identified = FALSE, !.state.reidentify = TRUE,
                          !.state.gatewayFenced = TRUE, !.state.gateway = "insufficient",
                          !.state.verdict = "mismatch"]
  IN  Finish(StaleChildren(fenced, TRUE), "insufficient")

(* A match is an identification event; the admission follows it with no    *)
(* back-off.                                                               *)
SDongleIdentified(r) ==
  LET s == Meet(r.state, ChildUnit)
  IN  Exchange([r EXCEPT
        !.unit = ChildUnit,
        !.state = [s EXCEPT
          !.endpointFailures = 0, !.identified = TRUE,
          !.identityGeneration = r.generation, !.reidentify = FALSE,
          !.gatewayFenced = FALSE, !.gateway = "identified",
          !.children[ChildUnit] = IdentificationEvent(@),
          !.verdict = "match", !.identifiedAt = r.cycle]], "identifier")

SDongleIdentityFailed(r, result) ==
  LET lost == [r EXCEPT !.state.identified = FALSE, !.state.reidentify = TRUE,
                        !.state.gateway = "insufficient"]
  IN  Finish(StaleChildren(IF result = "failed" THEN EndpointFailed(lost) ELSE lost, FALSE),
             "insufficient")

AfterTuple(r, result) ==
  LET read == TupleReads[r.count]
      fits == r.fits /\ result = (IF read = "basic" THEN "exception" ELSE "answered")
      next == [r EXCEPT !.count = @ + 1, !.fits = fits]
  IN  CASE result = "failed" \/ (read = "software" /\ result = "exception") ->
             {SDongleIdentityFailed(r, result)}
        [] result # "failed" /\ read = "search_after" ->
             {SDongleMismatch(r)} \cup IF fits THEN {SDongleIdentified(r)} ELSE {}
        [] OTHER -> {Exchange(next, "tuple")}

(* The search sequence: the guard of an identified gateway, the start of   *)
(* the bracket otherwise.                                                  *)
AfterSearch(r, result) ==
  LET guardFailed(x) ==
        Finish(StaleChildren([x EXCEPT
                 !.state.reidentify = TRUE,
                 !.state.gateway = IF x.state.identified THEN "unconfirmed"
                                   ELSE "insufficient"], FALSE),
               IF x.state.identified THEN "incomplete" ELSE "insufficient")
      held == Meet([r.state EXCEPT !.endpointFailures = 0, !.gateway = "identified"],
                   ChildUnit)
      changed == [r EXCEPT !.state.reidentify = TRUE]
  IN  CASE result = "exception" -> {guardFailed(r)}
        [] result = "failed" -> {guardFailed(EndpointFailed(r))}
        [] result = "answered" /\ Identifying(r.state, r.generation) ->
             {[Exchange(r, "tuple") EXCEPT !.count = 1]}
        [] result = "answered" /\ ~Identifying(r.state, r.generation) ->
             {ServeChild([r EXCEPT !.unit = ChildUnit, !.state = held], "identifier"),
              Finish(StaleChildren(changed, FALSE), "incomplete")}

---------------------------------------------------------------------------
(* One refresh. *)

FirstRead(r) ==
  IF core.path = "smartlogger" THEN SmartLoggerFirst(r) ELSE Exchange(r, "search")

(* What the cycle does with the result of a read, up to its next read.     *)
After(r, result) ==
  CASE r.step = "guard" -> AfterGuard(r, result)
    [] r.step \in {"before", "inventory", "after", "basic"} -> AfterIdentification(r, result)
    [] r.step = "search" -> AfterSearch(r, result)
    [] r.step = "tuple" -> AfterTuple(r, result)
    [] r.step \in {"model", "identifier", "software", "firmware"} -> AfterAdmission(r, result)
    [] r.step = "group" -> AfterGroup(r, result)

BeginRefresh ==
  /\ ~core.closed /\ ~core.busy /\ core.started /\ ~core.early
  /\ core.cycle < MaxCycle
  /\ core' = [core EXCEPT !.busy = TRUE, !.cycle = @ + 1]
  /\ run' = FirstRead(NewRun(store))
  /\ returned' = NoResult
  /\ UNCHANGED <<store, sessions, caller, refusals>>

Reading == run.step \notin {"idle", "route", "done"}

(* The part of exchange() between two attempts: the wait for the gap, the  *)
(* context, the card's deadline and the fence.  The check is not atomic    *)
(* with the request that follows it.                                       *)
Gate ==
  /\ Reading /\ run.mode = "gate"
  /\ \/ Fenced(run) /\ run' = [run EXCEPT !.step = "done", !.err = "fenced"]
     \/ run' = [run EXCEPT !.step = "done", !.err = "cancelled"]
     \/ /\ run.step \in {"inventory", "after"} /\ ~Fenced(run)
        /\ run' \in After(run, "over")
     \/ ~Fenced(run) /\ run' = [run EXCEPT !.mode = "send"]
  /\ UNCHANGED <<core, store, sessions, caller, returned, refusals>>

Send ==
  /\ Reading /\ run.mode = "send"
  /\ run' = [run EXCEPT !.mode = "wire", !.sent = TRUE]
  /\ UNCHANGED <<core, store, sessions, caller, returned, refusals>>

(* Exception 3 is told apart from the other definitive exceptions only     *)
(* where the code does, for a monitoring group.                            *)
Replies(r) ==
  {"answered", "exception", "timeout", "transport"} \cup
    IF r.step = "group" THEN {"refused"} ELSE {}

(* A read that a cancelled context stopped; a refusal that was decoded     *)
(* before is still recorded.                                               *)
Stopped(r, reply) ==
  LET ended == [r EXCEPT !.step = "done", !.err = "cancelled"]
  IN  IF reply = "refused"
      THEN [ended EXCEPT !.state.children[r.unit].refused = @ \cup {r.group}]
      ELSE ended

(* The session answered one attempt.                                       *)
Reply ==
  /\ Reading /\ run.mode = "wire"
  /\ \E reply \in Replies(run) :
       LET attempt == Attempt(run, reply)
       IN  /\ \/ run' = Stopped(run, reply)
              \/ attempt.result = "again" /\ run' = attempt.run
              \/ attempt.result # "again" /\ run' \in After(attempt.run, attempt.result)
           /\ refusals' = IF reply = "refused"
                          THEN refusals \cup {<<run.unit, run.group>>} ELSE refusals
  /\ UNCHANGED <<core, store, sessions, caller, returned>>

(* The cycle goes on with the next child, or ends.                         *)
Route ==
  /\ run.step = "route"
  /\ run' = IF core.path = "smartlogger" THEN SmartLoggerRoute(run) ELSE SDongleRoute(run)
  /\ UNCHANGED <<core, store, sessions, caller, returned, refusals>>

---------------------------------------------------------------------------

Cycle == Gate \/ Send \/ Reply \/ Route \/ EndRefresh

Next == Lifecycle \/ Released \/ Tick \/ BeginRefresh \/ Cycle

(* A read returns or times out, a wait ends, a session's Close returns:    *)
(* the goroutine inside a refresh, a Stop or a Reconnect goes on.          *)
Fairness == WF_vars(Cycle) /\ WF_vars(Released)

Spec == Init /\ [][Next]_vars /\ Fairness

===========================================================================
