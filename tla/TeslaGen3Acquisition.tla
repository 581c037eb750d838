------------------------ MODULE TeslaGen3Acquisition ------------------------
(***************************************************************************)
(* The read acquisition lifecycle of tesla_gen3_read_acquisition.go: one   *)
(* production endpoint, its activation, the single-flight slot, bounded    *)
(* retries with recovery, and the retained records.                        *)
(*                                                                         *)
(* One action is one critical section under acquisition.mu, or one call    *)
(* the code makes without the lock: of the endpoint opener, of the         *)
(* endpoint (ExchangePrivateFunction, Recover, Close) or of the activation *)
(* witness.  A goroutine is a member of Callers; Runner is the one that    *)
(* executes Run.  Close may be called at any moment.                       *)
(*                                                                         *)
(* External: the opener, the witness and the production endpoint.  An      *)
(* endpoint consults the admission it was opened with before it sends,     *)
(* fences its generation on every failure after the send, refuses to send  *)
(* while fenced or closed, and Recover moves a fenced endpoint to a        *)
(* successor generation.                                                   *)
(*                                                                         *)
(* acquisition.instance only ever serves to be compared with the instance  *)
(* an endpoint's admission is bound to, so it is named by that endpoint,   *)
(* and by NoEndpoint when it is bound to none.  Time is a choice, made     *)
(* where the code looks at the clock: which records left their window.     *)
(***************************************************************************)
EXTENDS Naturals, Sequences, FiniteSets

CONSTANTS
    Callers,        \* goroutines calling the lifecycle
    Runner,         \* the caller that executes Run
    Polled,         \* config.Operations, in configured order
    MaxAttempts,    \* config.MaxAttempts
    MaxOpens,       \* bound: endpoints the opener can open
    MaxEpoch,       \* bound: activations the witness can confirm
    MaxCalls,       \* bound: calls of the callers other than Runner
    NoEndpoint, NoRecord, NoPlan

ASSUME TeslaGen3Assumption ==
    /\ IsFiniteSet(Callers) /\ Runner \in Callers
    /\ Len(Polled) > 0
    /\ \A i, j \in DOMAIN Polled : Polled[i] = Polled[j] => i = j
    /\ MaxAttempts \in 1 .. 3
    /\ {MaxOpens, MaxEpoch, MaxCalls} \subseteq Nat
    /\ NoEndpoint \notin 1 .. MaxOpens

VARIABLES
    acq,        \* the mutable fields of TeslaGen3ReadAcquisition
    retained,   \* of every operation: the last good record, and whether there is a last attempt
    call,       \* the call each goroutine is executing
    run,        \* where Run stands in its loop
    calls,      \* calls started by the others
    wire,       \* the production endpoints
    closing,    \* the endpoint Close took and has yet to close
    admitted    \* history: what the admission let through

vars == <<acq, retained, call, run, calls, wire, closing, admitted>>

Endpoints == 1 .. MaxOpens
Operations == {Polled[i] : i \in DOMAIN Polled}

-----------------------------------------------------------------------------
(* State *)

NewAcquisition ==
    [state |-> "stopped", busy |-> FALSE, closed |-> FALSE, endpoint |-> NoEndpoint,
     instance |-> NoEndpoint, epoch |-> 0, epochGeneration |-> 0, lastGeneration |-> 0,
     plan |-> NoPlan]

(* acquisition.retireEndpoint, and what Close shares with it: the endpoint *)
(* is forgotten and no admission is bound to the instance any more.        *)
Forgotten(s) == [s EXCEPT !.endpoint = NoEndpoint, !.instance = NoEndpoint, !.plan = NoPlan]

(* Faulty variant: a late step overwrites the closed state. *)
StateAfterClose(s, state) == [s EXCEPT !.state = state]

(* acquisition.setState *)
WithState(s, state) == IF s.closed THEN s ELSE [s EXCEPT !.state = state]

Idle == [pc |-> "idle", kind |-> "none", next |-> 1, attempt |-> 1, ctx |-> "live",
         ep |-> NoEndpoint, epoch |-> 0, follow |-> "none", record |-> NoRecord, result |-> "ok"]

Goto(c, pc) == call' = [call EXCEPT ![c].pc = pc]
Returning(c, result) == call' = [call EXCEPT ![c] =
    [Idle EXCEPT !.pc = "release", !.kind = call[c].kind, !.result = result]]

(* The operation an acquiring call is at; an Acquire names it by its place. *)
Operation(c) == Polled[call[c].next]

Starting(c) == call[c].kind \in {"start", "restart"}

Closed(e) == wire[e].status = "closed"
Usable(e) == wire[e].status = "open" /\ ~wire[e].fenced

-----------------------------------------------------------------------------
(* The single-flight slot *)

(* acquisition.reserve succeeds. *)
Reserves == ~acq.closed /\ ~acq.busy

(* Where the body of each entry point starts. *)
FirstStep(kind) ==
    CASE kind = "start" -> "start"
      [] kind = "restart" -> "retire"
      [] kind = "acquire" -> "attempt"
      [] kind = "poll" -> "poll"

(* Start, Restart, Acquire, PollOnce: the slot is taken. *)
Enter(c, kind, i) ==
    /\ acq' = [acq EXCEPT !.busy = TRUE]
    /\ call' = [call EXCEPT ![c] =
          [Idle EXCEPT !.pc = FirstStep(kind), !.kind = kind, !.next = i, !.follow = "configure"]]

Begin(c, kind, i) ==
    /\ c # Runner /\ call[c].pc = "idle" /\ calls < MaxCalls
    /\ Reserves
    /\ Enter(c, kind, i)
    /\ calls' = calls + 1
    /\ UNCHANGED <<retained, run, wire, closing, admitted>>

(* acquisition.release *)
Release(c) ==
    /\ call[c].pc = "release"
    /\ acq' = [acq EXCEPT !.busy = FALSE]
    /\ call' = [call EXCEPT ![c] =
          IF c = Runner THEN [Idle EXCEPT !.result = call[c].result] ELSE Idle]
    /\ UNCHANGED <<retained, run, calls, wire, closing, admitted>>

(* The caller's context ends, or the AcquisitionDeadline of acquireLocked; *)
(* it does so, at the latest, where the code looks at the context.         *)
ContextEnds(c, how) ==
    /\ call[c].pc \in {"commit_ready", "recover_wire", "outcome", "recorded"}
    /\ call[c].ctx = "live"
    /\ how = "deadline" => ~Starting(c)
    /\ call' = [call EXCEPT ![c].ctx = how]
    /\ UNCHANGED <<acq, retained, run, calls, wire, closing, admitted>>

-----------------------------------------------------------------------------
(* Start, Restart: startLocked *)

StartChecks(c) ==
    /\ call[c].pc = "start"
    /\ IF acq.state = "stopped" THEN Goto(c, "retire") ELSE Returning(c, "failed")
    /\ UNCHANGED <<acq, retained, run, calls, wire, closing, admitted>>

(* retireEndpoint under the lock; follow says what the caller does next. *)
RetireEndpoint(c) ==
    /\ call[c].pc = "retire"
    /\ acq' = Forgotten(acq)
    /\ call' = [call EXCEPT ![c].ep = acq.endpoint,
          ![c].pc = IF acq.endpoint = NoEndpoint THEN call[c].follow ELSE "close_retired"]
    /\ UNCHANGED <<retained, run, calls, wire, closing, admitted>>

CloseEndpoint(e) == wire' = [wire EXCEPT ![e].status = "closed", ![e].fenced = TRUE]

CloseRetired(c) ==
    /\ call[c].pc = "close_retired"
    /\ CloseEndpoint(call[c].ep)
    /\ Goto(c, call[c].follow)
    /\ UNCHANGED <<acq, retained, run, calls, closing, admitted>>

NextEndpoint ==
    LET unopened == {e \in Endpoints : wire[e].status = "unopened"}
    IN  IF unopened = {} THEN NoEndpoint
        ELSE CHOOSE e \in unopened : \A f \in unopened : e <= f

(* productionConfig binds an admission to a new instance. *)
Configure(c) ==
    /\ call[c].pc = "configure"
    /\ acq' = [acq EXCEPT !.instance = NextEndpoint]
    /\ Goto(c, "open")
    /\ UNCHANGED <<retained, run, calls, wire, closing, admitted>>

OpenSucceeds(c) ==
    /\ call[c].pc = "open" /\ NextEndpoint # NoEndpoint
    /\ wire' = [wire EXCEPT ![NextEndpoint] = [status |-> "open", fenced |-> FALSE, generation |-> 1]]
    /\ call' = [call EXCEPT ![c].pc = "install", ![c].ep = NextEndpoint]
    /\ UNCHANGED <<acq, retained, run, calls, closing, admitted>>

OpenFails(c) ==
    /\ call[c].pc = "open"
    /\ Goto(c, "unavailable")
    /\ UNCHANGED <<acq, retained, run, calls, wire, closing, admitted>>

Install(c) ==
    /\ call[c].pc = "install"
    /\ IF acq.closed
       THEN /\ call' = [call EXCEPT ![c].pc = "close_retired", ![c].follow = "release",
                                    ![c].result = "closed"]
            /\ UNCHANGED acq
       ELSE /\ acq' = [acq EXCEPT !.endpoint = call[c].ep, !.lastGeneration = 0,
                                  !.epochGeneration = 0]
            /\ Goto(c, "activate")
    /\ UNCHANGED <<retained, run, calls, wire, closing, admitted>>

(* acquisition.setState(unavailable), the last step of every failure. *)
BecomeUnavailable(c) ==
    /\ call[c].pc = "unavailable"
    /\ acq' = WithState(acq, "unavailable")
    /\ IF Starting(c) THEN Returning(c, "failed") ELSE Goto(c, "recorded")
    /\ UNCHANGED <<retained, run, calls, wire, closing, admitted>>

-----------------------------------------------------------------------------
(* activate *)

(* startLocked retires the endpoint it just opened; recover keeps it. *)
ActivationFails(c) ==
    call' = [call EXCEPT ![c].follow = "unavailable",
                         ![c].pc = IF Starting(c) THEN "retire" ELSE "unavailable"]

ActivateBegins(c) ==
    /\ call[c].pc = "activate"
    /\ IF acq.closed
       THEN ActivationFails(c) /\ UNCHANGED acq
       ELSE /\ acq' = [acq EXCEPT !.state = "activating"]
            /\ call' = [call EXCEPT ![c].pc = "observe", ![c].epoch = acq.epoch + 1]
    /\ UNCHANGED <<retained, run, calls, wire, closing, admitted>>

(* The exact activation sequence, reported before the deadline. *)
WitnessConfirms(c) ==
    /\ call[c].pc = "observe" /\ call[c].epoch <= MaxEpoch
    /\ Goto(c, "commit_ready")
    /\ UNCHANGED <<acq, retained, run, calls, wire, closing, admitted>>

(* An error, other bytes, or a report at or after the deadline. *)
WitnessFails(c) ==
    /\ call[c].pc = "observe"
    /\ ActivationFails(c)
    /\ UNCHANGED <<acq, retained, run, calls, wire, closing, admitted>>

(* Faulty variant: a recovered endpoint stays in its epoch. *)
CommitSameEpoch(c) ==
    /\ call[c].pc = "commit_ready"
    /\ IF acq.closed \/ call[c].ctx # "live"
       THEN ActivationFails(c) /\ UNCHANGED acq
       ELSE /\ acq' = [acq EXCEPT !.epoch = IF @ = 0 THEN 1 ELSE @, !.state = "ready"]
            /\ IF Starting(c) THEN Returning(c, "ok") ELSE Goto(c, "outcome")
    /\ UNCHANGED <<retained, run, calls, wire, closing, admitted>>

CommitReady(c) ==
    /\ call[c].pc = "commit_ready"
    /\ IF acq.closed \/ call[c].ctx # "live"
       THEN ActivationFails(c) /\ UNCHANGED acq
       ELSE /\ acq' = [acq EXCEPT !.epoch = call[c].epoch, !.state = "ready"]
            /\ IF Starting(c) THEN Returning(c, "ok") ELSE Goto(c, "outcome")
    /\ UNCHANGED <<retained, run, calls, wire, closing, admitted>>

-----------------------------------------------------------------------------
(* acquireLocked and exchange *)

(* The top of the attempt loop. *)
AttemptBegins(c) ==
    LET refuse(result) ==
            IF call[c].attempt = 1 THEN Returning(c, result) ELSE Goto(c, "recorded")
    IN
    /\ call[c].pc = "attempt"
    /\ CASE acq.closed -> refuse("closed")
         [] ~acq.closed /\ (acq.state # "ready" \/ acq.endpoint = NoEndpoint) -> refuse("unavailable")
         [] OTHER -> call' = [call EXCEPT ![c].pc = "plan", ![c].ep = acq.endpoint]
    /\ UNCHANGED <<acq, retained, run, calls, wire, closing, admitted>>

Plan(c) ==
    /\ call[c].pc = "plan"
    /\ acq' = [acq EXCEPT !.plan = [instance |-> acq.instance, operation |-> Operation(c)]]
    /\ call' = [call EXCEPT ![c].pc = "send", ![c].epoch = acq.epoch]
    /\ UNCHANGED <<retained, run, calls, wire, closing, admitted>>

(* Faulty variant: the admission does not know which endpoint it belongs to. *)
AdmitsAnyInstance(e, operation) ==
    /\ ~acq.closed /\ acq.state = "ready" /\ acq.plan # NoPlan
    /\ acq.plan.operation = operation
    /\ IF acq.epochGeneration = 0
       THEN wire[e].generation > acq.lastGeneration
       ELSE wire[e].generation = acq.epochGeneration

(* acquisition.admit, consulted by endpoint e for an operation's request. *)
Admits(e, operation) ==
    /\ ~acq.closed /\ acq.state = "ready" /\ acq.plan # NoPlan
    /\ acq.instance = e /\ acq.plan.instance = e
    /\ acq.plan.operation = operation
    /\ IF acq.epochGeneration = 0
       THEN wire[e].generation > acq.lastGeneration
       ELSE wire[e].generation = acq.epochGeneration

Consult(e, operation) ==
    IF Admits(e, operation)
    THEN /\ acq' = [acq EXCEPT !.epochGeneration = wire[e].generation]
         /\ admitted' = admitted \cup
                {[epoch |-> acq.epoch, ep |-> e, generation |-> wire[e].generation]}
    ELSE UNCHANGED <<acq, admitted>>

(* What exchange learns about the attempt, before publish. *)
Record(c, state) ==
    [state |-> state, epoch |-> call[c].epoch, ep |-> call[c].ep,
     generation |-> wire[call[c].ep].generation]

Concluded(c, state, follow) ==
    [call[c] EXCEPT !.pc = "clear_plan", !.record = Record(c, state), !.follow = follow]

Conclude(c, state, follow) == call' = [call EXCEPT ![c] = Concluded(c, state, follow)]

(* ExchangePrivateFunction up to the send. *)
Send(c) ==
    LET e == call[c].ep
    IN
    /\ call[c].pc = "send"
    /\ IF Usable(e) /\ Admits(e, Operation(c))
       THEN Goto(c, "in_flight") ELSE Conclude(c, "no_send", "none")
    /\ IF Usable(e) THEN Consult(e, Operation(c)) ELSE UNCHANGED <<acq, admitted>>
    /\ UNCHANGED <<retained, run, calls, wire, closing>>

(* The transport delivers a sequence the classifier ended; content is what *)
(* DecodeTeslaFC100OperationSequence makes of it.                          *)
Responds(c, content) ==
    /\ call[c].pc = "in_flight"
    /\ CASE ~Usable(call[c].ep) -> Conclude(c, "indeterminate", "none")
         [] Usable(call[c].ep) /\ content = "undecodable" -> Conclude(c, "indeterminate", "retire")
         [] Usable(call[c].ep) /\ content = "application_error" -> Conclude(c, "rejected", "none")
         [] Usable(call[c].ep) /\ content = "value" -> Conclude(c, "ack", "none")
    /\ UNCHANGED <<acq, retained, run, calls, wire, closing, admitted>>

RespondsException(c) ==
    /\ call[c].pc = "in_flight"
    /\ Conclude(c, "rejected", "none")
    /\ UNCHANGED <<acq, retained, run, calls, wire, closing, admitted>>

(* Every other failure after the send fences the generation. *)
ExchangeFails(c, state) ==
    /\ call[c].pc = "in_flight"
    /\ wire' = [wire EXCEPT ![call[c].ep].fenced = TRUE]
    /\ Conclude(c, state, "recover")
    /\ UNCHANGED <<acq, retained, run, calls, closing, admitted>>

ClearPlan(c) ==
    /\ call[c].pc = "clear_plan"
    /\ acq' = [acq EXCEPT !.plan = NoPlan]
    /\ Goto(c, "publish")
    /\ UNCHANGED <<retained, run, calls, wire, closing, admitted>>

(* Faulty variant: only the epoch decides whether a record is still owned. *)
OwnedByEpoch(record) == acq.epoch = record.epoch

(* The endpoint and epoch the record was acquired in are still owned. *)
Owned(record) ==
    /\ ~acq.closed /\ acq.endpoint = record.ep
    /\ acq.epoch = record.epoch /\ acq.state = "ready"

(* retainLocked *)
Retain(op, record) ==
    retained' = [retained EXCEPT ![op].attempted = TRUE,
                                 ![op].good = IF record.state = "ack" THEN record ELSE @]

Publish(c) ==
    LET read == call[c].record
        record == IF read.state = "ack" /\ ~Owned(read)
                  THEN [read EXCEPT !.state = "indeterminate"] ELSE read
    IN
    /\ call[c].pc = "publish"
    /\ Retain(Operation(c), record)
    /\ call' = [call EXCEPT ![c].record = record,
          ![c].pc = CASE call[c].follow = "recover" -> "recover"
                      [] call[c].follow = "retire" -> "retire_owned"
                      [] OTHER -> "outcome"]
    /\ UNCHANGED <<acq, run, calls, wire, closing, admitted>>

(* The switch on record.State and the check of ctx, after the follow-up. *)
Outcome(c) ==
    /\ call[c].pc = "outcome"
    /\ IF \/ call[c].record.state \in {"ack", "rejected", "no_send"}
          \/ call[c].ctx # "live"
          \/ call[c].attempt = MaxAttempts
       THEN Goto(c, "recorded")
       ELSE call' = [call EXCEPT ![c].pc = "attempt", ![c].attempt = @ + 1,
                ![c].ep = NoEndpoint, ![c].epoch = 0, ![c].follow = "none",
                ![c].record = NoRecord]
    /\ UNCHANGED <<acq, retained, run, calls, wire, closing, admitted>>

(* acquireLocked returns a record: Acquire returns it, PollOnce goes on    *)
(* unless the caller's context ended.                                      *)
Recorded(c) ==
    /\ call[c].pc = "recorded"
    /\ IF call[c].kind = "poll" /\ call[c].ctx # "cancelled"
       THEN call' = [call EXCEPT ![c] = [Idle EXCEPT !.pc = "poll", !.kind = "poll",
                                                     !.next = call[c].next + 1]]
       ELSE Returning(c, "ok")
    /\ UNCHANGED <<acq, retained, run, calls, wire, closing, admitted>>

-----------------------------------------------------------------------------
(* Follow-ups: retireOwned, recover *)

RetireOwned(c) ==
    /\ call[c].pc = "retire_owned"
    /\ call' = [call EXCEPT ![c].follow = "unavailable",
          ![c].pc = IF acq.endpoint = call[c].ep THEN "retire" ELSE "unavailable"]
    /\ UNCHANGED <<acq, retained, run, calls, wire, closing, admitted>>

RecoverBegins(c) ==
    /\ call[c].pc = "recover"
    /\ IF acq.closed \/ acq.endpoint # call[c].ep
       THEN Goto(c, "recorded") /\ UNCHANGED acq
       ELSE Goto(c, "recover_wire") /\ acq' = [acq EXCEPT !.state = "recovering"]
    /\ UNCHANGED <<retained, run, calls, wire, closing, admitted>>

(* endpoint.Recover; an ended context does not start it. *)
RecoverSucceeds(c) ==
    LET e == call[c].ep
    IN
    /\ call[c].pc = "recover_wire" /\ call[c].ctx = "live"
    /\ wire[e].status = "open" /\ wire[e].fenced
    /\ wire' = [wire EXCEPT ![e].fenced = FALSE, ![e].generation = @ + 1]
    /\ Goto(c, "recovered")
    /\ UNCHANGED <<acq, retained, run, calls, closing, admitted>>

RecoverFails(c) ==
    /\ call[c].pc = "recover_wire"
    /\ Goto(c, "unavailable")
    /\ UNCHANGED <<acq, retained, run, calls, wire, closing, admitted>>

Recovered(c) ==
    /\ call[c].pc = "recovered"
    /\ acq' = [acq EXCEPT !.lastGeneration = acq.epochGeneration, !.epochGeneration = 0]
    /\ Goto(c, "activate")
    /\ UNCHANGED <<retained, run, calls, wire, closing, admitted>>

-----------------------------------------------------------------------------
(* Retained, PollOnce, Run *)

(* Retained discards the records older than the retention window. *)
Discard(op, expired) ==
    retained' = [retained EXCEPT ![op].good = IF "good" \in expired THEN NoRecord ELSE @,
                                 ![op].attempted = @ /\ "last" \notin expired]

(* Retained's Current, of a record that is retained. *)
Current(op) ==
    ~acq.closed /\ acq.state = "ready" /\ retained[op].good.epoch = acq.epoch

(* Retained, called by anyone. *)
ReadRetained(op, expired) ==
    /\ Discard(op, expired)
    /\ UNCHANGED <<acq, call, run, calls, wire, closing, admitted>>

(* One iteration of PollOnce: skip a fresh current operation or acquire it. *)
Poll(c, expired, fresh) ==
    LET op == Operation(c)
        skip == retained[op].good # NoRecord /\ "good" \notin expired /\ fresh /\ Current(op)
    IN
    /\ call[c].pc = "poll" /\ call[c].next <= Len(Polled)
    /\ Discard(op, expired)
    /\ call' = IF skip THEN [call EXCEPT ![c].next = @ + 1]
               ELSE [call EXCEPT ![c].pc = "attempt", ![c].attempt = 1]
    /\ UNCHANGED <<acq, run, calls, wire, closing, admitted>>

PollEnds(c) ==
    /\ call[c].pc = "poll" /\ call[c].next > Len(Polled)
    /\ Returning(c, "ok")
    /\ UNCHANGED <<acq, retained, run, calls, wire, closing, admitted>>

(* Run calls PollOnce, at the start and on every tick. *)
RunPolls ==
    /\ run = "polling" /\ call[Runner].pc = "idle"
    /\ IF Reserves
       THEN Enter(Runner, "poll", 1) /\ run' = "polled"
       ELSE /\ run' = IF acq.closed THEN "ended" ELSE "waiting"
            /\ UNCHANGED <<acq, call>>
    /\ UNCHANGED <<retained, calls, wire, closing, admitted>>

(* Faulty variant: Run keeps polling an unavailable lifecycle. *)
RunKeepsPolling ==
    /\ run = "polled" /\ call[Runner].pc = "idle"
    /\ run' = IF call[Runner].result = "closed" THEN "ended" ELSE "waiting"
    /\ UNCHANGED <<acq, retained, call, calls, wire, closing, admitted>>

(* Run looks at what PollOnce returned, and calls Restart on unavailable. *)
RunHandles ==
    /\ run = "polled" /\ call[Runner].pc = "idle"
    /\ IF call[Runner].result = "unavailable" /\ Reserves
       THEN Enter(Runner, "restart", 1) /\ run' = "restarted"
       ELSE /\ run' = IF call[Runner].result = "closed" THEN "ended" ELSE "waiting"
            /\ UNCHANGED <<acq, call>>
    /\ UNCHANGED <<retained, calls, wire, closing, admitted>>

RunRestarted ==
    /\ run = "restarted" /\ call[Runner].pc = "idle"
    /\ run' = "waiting"
    /\ UNCHANGED <<acq, retained, call, calls, wire, closing, admitted>>

RunTicks ==
    /\ run = "waiting"
    /\ run' = "polling"
    /\ UNCHANGED <<acq, retained, call, calls, wire, closing, admitted>>

RunCancelled ==
    /\ run = "waiting"
    /\ run' = "ended"
    /\ UNCHANGED <<acq, retained, call, calls, wire, closing, admitted>>

-----------------------------------------------------------------------------
(* Close *)

Close ==
    /\ ~acq.closed
    /\ acq' = [Forgotten(acq) EXCEPT !.closed = TRUE, !.state = "closed"]
    /\ closing' = acq.endpoint
    /\ UNCHANGED <<retained, call, run, calls, wire, admitted>>

CloseEnds ==
    /\ closing # NoEndpoint
    /\ CloseEndpoint(closing)
    /\ closing' = NoEndpoint
    /\ UNCHANGED <<acq, retained, call, run, calls, admitted>>

(* A retired endpoint asks its admission about some operation's request. *)
RetiredConsults(e, operation) ==
    /\ Closed(e)
    /\ Consult(e, operation)
    /\ UNCHANGED <<retained, call, run, calls, wire, closing>>

-----------------------------------------------------------------------------
(* Behaviour *)

Init ==
    /\ acq = NewAcquisition
    /\ retained = [op \in Operations |-> [good |-> NoRecord, attempted |-> FALSE]]
    /\ call = [c \in Callers |-> Idle]
    /\ run \in {"polling", "ended"}
    /\ calls = 0
    /\ wire = [e \in Endpoints |-> [status |-> "unopened", fenced |-> FALSE, generation |-> 1]]
    /\ closing = NoEndpoint
    /\ admitted = {}

(* The steps of a call in progress. *)
Step(c) ==
    \/ StartChecks(c) \/ RetireEndpoint(c) \/ CloseRetired(c) \/ Configure(c)
    \/ OpenSucceeds(c) \/ OpenFails(c) \/ Install(c) \/ BecomeUnavailable(c)
    \/ ActivateBegins(c) \/ WitnessConfirms(c) \/ WitnessFails(c) \/ CommitReady(c)
    \/ AttemptBegins(c) \/ Plan(c) \/ Send(c)
    \/ \E content \in {"value", "application_error", "undecodable"} : Responds(c, content)
    \/ RespondsException(c)
    \/ \E state \in {"timeout", "indeterminate"} : ExchangeFails(c, state)
    \/ ClearPlan(c) \/ Publish(c) \/ Outcome(c) \/ Recorded(c)
    \/ RetireOwned(c) \/ RecoverBegins(c) \/ RecoverSucceeds(c) \/ RecoverFails(c) \/ Recovered(c)
    \/ \E expired \in SUBSET {"good", "last"}, fresh \in BOOLEAN : Poll(c, expired, fresh)
    \/ PollEnds(c) \/ Release(c)

Running == RunPolls \/ RunHandles \/ RunRestarted \/ RunTicks

Next ==
    \/ \E c \in Callers : Step(c)
    \/ \E c \in Callers, kind \in {"start", "restart", "poll"} : Begin(c, kind, 1)
    \/ \E c \in Callers, i \in DOMAIN Polled : Begin(c, "acquire", i)
    \/ \E c \in Callers, how \in {"deadline", "cancelled"} : ContextEnds(c, how)
    \/ \E op \in Operations, expired \in SUBSET {"good", "last"} : ReadRetained(op, expired)
    \/ \E e \in Endpoints, op \in Operations : RetiredConsults(e, op)
    \/ Running \/ RunCancelled
    \/ Close \/ CloseEnds

(* Every call of the opener, the endpoint and the witness returns: each is *)
(* bounded by a timeout of the configuration.  The ticker ticks.           *)
Fairness ==
    /\ \A c \in Callers : WF_vars(Step(c))
    /\ WF_vars(Running)
    /\ WF_vars(CloseEnds)

Spec == Init /\ [][Next]_vars /\ Fairness
=============================================================================
