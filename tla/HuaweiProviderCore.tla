------------------------- MODULE HuaweiProviderCore -------------------------
(***************************************************************************)
(* The shared core of the Huawei read-only providers: the connection       *)
(* lifecycle (Start, Stop, Reconnect, Close), the refresh that runs one    *)
(* acquisition cycle on a copy of the committed state, the paced exchange  *)
(* with its attempts, and what a cycle does to one routed child.           *)
(* src/huawei_readonly_provider.go.  HuaweiProvider composes it with the   *)
(* cycles of the two paths.                                                *)
(*                                                                         *)
(* A call that the provider makes on its session (a read, a Close) is a    *)
(* step of its own that starts without the lock: every other method may    *)
(* run before it returns.  Words, texts and codes are abstracted to what   *)
(* the control looks at: a reply is answered, refused (exception 3),       *)
(* another definitive exception, a timeout or another failed attempt.  Of  *)
(* the clock only the verdicts remain: the gap has passed, the deadline of *)
(* the inventory is over, the next refresh is still early.                 *)
(***************************************************************************)
EXTENDS Naturals, FiniteSets

CONSTANTS
  Paths,          \* the gateway paths to check, of "smartlogger", "sdongle"
  Units,          \* routed units a listing may name
  Allowed,        \* HuaweiProviderConfig.AllowedUnits
  ChildUnit,      \* the observed child of the S-Dongle card
  LastGroup,      \* a profile's plan reads the groups 1..LastGroup
  MaxAttempts,    \* HuaweiProviderPacing.MaxAttempts
  MaxPages,       \* the inventory pages the SmartLogger card allows
  MaxGeneration,  \* bound: connection generations made before Close
  MaxCycle        \* bound: refreshes admitted

ASSUME CoreAssumption ==
  /\ Paths \subseteq {"smartlogger", "sdongle"}
  /\ Units \subseteq Nat \ {0} /\ Allowed \subseteq Units /\ ChildUnit \in Allowed
  /\ LastGroup \in Nat \ {0} /\ MaxAttempts \in Nat \ {0}
  /\ MaxPages \in Nat \ {0}
  /\ MaxGeneration \in Nat /\ MaxCycle \in Nat

VARIABLES
  core,      \* the fields of huaweiProviderCore but its state
  store,     \* p.state, the committed state of the gateway and its children
  run,       \* the huaweiCycleRun of the refresh in progress
  sessions,  \* what became of the session bound as each generation
  caller,    \* the Stop or Reconnect that waits for a session's Close
  returned,  \* the cycle the latest Refresh returned, if it committed
  refusals   \* history: group reads that ever got exception 3 in time

vars == <<core, store, run, sessions, caller, returned, refusals>>

Groups == 1 .. LastGroup

NoReading == [g \in {} |-> 0]

(* A child no cycle has met.  "reading" gives the cycle that carried each  *)
(* kept group, 0 for a group without words.  Three fields are history: the      *)
(* cycle the present identity was first bound in ("since"), the cycle it   *)
(* was last admitted in, and the cycle of the latest failed read.          *)
NewChild ==
  [known |-> FALSE, identity |-> FALSE, generation |-> 0, definitive |-> FALSE,
   ineligible |-> FALSE, reading |-> NoReading, refused |-> {}, failures |-> 0,
   skipUntil |-> 0, since |-> 0, admittedAt |-> 0, failedAt |-> 0]

(* "verdict" and "identifiedAt" are history: what the latest evaluation of *)
(* the gateway's tuple said, and the cycle of the latest identification.   *)
NewState ==
  [identified |-> FALSE, identityGeneration |-> 0, reidentify |-> FALSE,
   gatewayFenced |-> FALSE, gateway |-> "not_identified", unstable |-> 0,
   endpointFailures |-> 0,
   listing |-> [u \in Units |-> "absent"],
   children |-> [u \in Units |-> NewChild], carried |-> [u \in Units |-> {}],
   verdict |-> "none", identifiedAt |-> 0]

Unseen == [evidence |-> "none", reason |-> "none", reading |-> NoReading]

NewOutput ==
  [outcome |-> "none", wait |-> 0, children |-> [u \in Units |-> Unseen]]

NoRun == [step |-> "idle"]

NoResult == [cycle |-> 0]

Init ==
  /\ \E path \in Paths :
       core = [path |-> path, session |-> 0, generation |-> 0, started |-> FALSE,
               closed |-> FALSE, busy |-> FALSE, closing |-> FALSE, sent |-> FALSE,
               cycle |-> 0, early |-> FALSE, last |-> 0]
  /\ store = NewState
  /\ run = NoRun
  /\ sessions = [g \in 1 .. MaxGeneration |-> "unbound"]
  /\ caller = [op |-> "none", session |-> 0]
  /\ returned = NoResult
  /\ refusals = {}

---------------------------------------------------------------------------
(* The connection lifecycle. *)

Bind(c) ==
  [c EXCEPT !.session = c.generation + 1, !.started = TRUE,
            !.generation = @ + 1, !.sent = FALSE]

Unbind(c) ==
  [c EXCEPT !.session = 0, !.started = FALSE, !.generation = @ + 1]

Bound(s) == [s EXCEPT !.identified = FALSE, !.reidentify = FALSE]

Unbound(s) == [s EXCEPT !.identified = FALSE]

Start ==
  /\ ~core.closed /\ ~core.closing /\ ~core.started
  /\ core.generation < MaxGeneration
  /\ core' = Bind(core)
  /\ store' = Bound(store)
  /\ sessions' = [sessions EXCEPT ![core'.session] = "bound"]
  /\ UNCHANGED <<run, caller, returned, refusals>>

Detach(op) ==
  /\ core' = [Unbind(core) EXCEPT !.closing = TRUE]
  /\ store' = Unbound(store)
  /\ sessions' = [sessions EXCEPT ![core.session] = "closing"]
  /\ caller' = [op |-> op, session |-> core.session]
  /\ UNCHANGED <<run, returned, refusals>>

Stop ==
  /\ ~core.closed /\ ~core.closing /\ core.started
  /\ core.generation < MaxGeneration
  /\ Detach("stop")

(* Faulty variant: Reconnect binds the new session and then closes the old *)
(* one.                                                                    *)
BindingReconnect ==
  /\ ~core.closed /\ ~core.closing
  /\ core.generation + 1 < MaxGeneration
  /\ core.started
  /\ core' = [Bind(Unbind(core)) EXCEPT !.closing = TRUE]
  /\ store' = Bound(Unbound(store))
  /\ sessions' = [sessions EXCEPT ![core.session] = "closing",
                                  ![core'.session] = "bound"]
  /\ caller' = [op |-> "stop", session |-> core.session]
  /\ UNCHANGED <<run, returned, refusals>>

(* Reconnect detaches what is bound and closes it before it binds.         *)
Reconnect ==
  /\ ~core.closed /\ ~core.closing
  /\ core.generation + 1 < MaxGeneration
  /\ \/ core.started /\ Detach("reconnect")
     \/ /\ ~core.started
        /\ core' = [core EXCEPT !.closing = TRUE]
        /\ caller' = [op |-> "reconnect", session |-> 0]
        /\ UNCHANGED <<store, run, sessions, returned, refusals>>

(* The session's Close returned to the Stop or Reconnect that called it.   *)
Released ==
  /\ caller.op # "none"
  /\ LET freed == IF caller.session = 0 THEN sessions
                  ELSE [sessions EXCEPT ![caller.session] = "closed"]
         binds == caller.op = "reconnect" /\ ~core.closed /\ ~core.started
     IN  /\ core' = [IF binds THEN Bind(core) ELSE core EXCEPT !.closing = FALSE]
         /\ store' = IF binds THEN Bound(store) ELSE store
         /\ sessions' = IF binds THEN [freed EXCEPT ![core'.session] = "bound"] ELSE freed
  /\ caller' = [op |-> "none", session |-> 0]
  /\ UNCHANGED <<run, returned, refusals>>

(* Close does not wait for a Stop or Reconnect.  The session it closes is  *)
(* bound to nothing that can start again, so its return is not a step.     *)
Close ==
  /\ ~core.closed
  /\ core' = [Unbind(core) EXCEPT !.closed = TRUE]
  /\ IF core.started
     THEN /\ store' = Unbound(store)
          /\ sessions' = [sessions EXCEPT ![core.session] = "closing"]
     ELSE UNCHANGED <<store, sessions>>
  /\ UNCHANGED <<run, caller, returned, refusals>>

Lifecycle == Start \/ Stop \/ Reconnect \/ Close

---------------------------------------------------------------------------
(* One refresh. *)

Fenced(r) == core.closed \/ core.generation # r.generation

(* Begin one read of the cycle: exchange() up to its first attempt.        *)
Exchange(r, step) ==
  [r EXCEPT !.step = step, !.mode = "gate", !.failed = 0,
            !.allowance = ~r.sent /\ core.path = "sdongle"]

NewRun(state) ==
  [step |-> "", mode |-> "", failed |-> 0, allowance |-> FALSE, session |-> core.session,
   generation |-> core.generation, cycle |-> core.cycle + 1, sent |-> core.sent,
   state |-> state, unit |-> 0, group |-> 0, count |-> 0, fits |-> TRUE,
   answered |-> {}, reason |-> "read", out |-> NewOutput, err |-> "none"]

Again(r) == [r EXCEPT !.mode = "gate"]

(* What the exchange makes of an attempt: the first request of a           *)
(* connection may time out once for nothing; a definitive reply is the     *)
(* read's result; a failed attempt is repeated until they are used up.     *)
Forgiven(r, reply) == reply = "timeout" /\ r.allowance /\ r.failed = 0

Definitive(reply) == reply \in {"answered", "exception", "refused"}

Exhausted(r) == r.failed + 1 >= MaxAttempts

(* Faulty variant: the first request's allowance is never used up.         *)
EndlessAttempt(r, reply) ==
  CASE Definitive(reply) -> [result |-> reply, run |-> r]
    [] Forgiven(r, reply) -> [result |-> "again", run |-> Again(r)]
    [] ~Definitive(reply) /\ ~Forgiven(r, reply) /\ Exhausted(r) ->
         [result |-> "failed", run |-> [r EXCEPT !.failed = @ + 1]]
    [] OTHER ->
         [result |-> "again", run |-> Again([r EXCEPT !.failed = @ + 1])]

Attempt(r, reply) ==
  CASE Definitive(reply) -> [result |-> reply, run |-> r]
    [] Forgiven(r, reply) ->
         [result |-> "again", run |-> Again([r EXCEPT !.allowance = FALSE])]
    [] ~Definitive(reply) /\ ~Forgiven(r, reply) /\ Exhausted(r) ->
         [result |-> "failed", run |-> [r EXCEPT !.failed = @ + 1]]
    [] OTHER ->
         [result |-> "again", run |-> Again([r EXCEPT !.failed = @ + 1])]

(* A known child of s with the refusals "from" learned of it besides.      *)
WithRefusals(s, from, u) ==
  LET c == s.children[u]
  IN  IF c.known THEN [c EXCEPT !.refused = @ \cup from.children[u].refused] ELSE c

(* Faulty variant: only children that are already committed keep them.     *)
KnownOnlyCarry(s, from) ==
  [s EXCEPT !.children = [u \in Units |-> WithRefusals(s, from, u)]]

(* carryRefusals: exception 3 refusals of a cycle that does not commit     *)
(* stay with the committed child, or wait for one.                         *)
CarryRefusals(s, from) ==
  [s EXCEPT
     !.children = [u \in Units |-> WithRefusals(s, from, u)],
     !.carried = [u \in Units |->
        IF s.children[u].known THEN s.carried[u]
        ELSE s.carried[u] \cup from.children[u].refused]]

(* Faulty variant: a cycle is fenced by Close only.                        *)
UnfencedEnd ==
  /\ run.step = "done"
  /\ core' = [core EXCEPT !.busy = FALSE, !.sent = run.sent, !.early = TRUE]
  /\ store' = IF ~core.closed /\ run.err = "none" THEN run.state ELSE store
  /\ returned' = IF ~core.closed /\ run.err = "none"
               THEN [cycle |-> run.cycle, generation |-> run.generation, out |-> run.out]
               ELSE NoResult
  /\ run' = NoRun
  /\ UNCHANGED <<sessions, caller, refusals>>

EndRefresh ==
  /\ run.step = "done"
  /\ LET fenced == core.generation # run.generation
         commits == ~core.closed /\ ~fenced /\ run.err = "none"
         paced == [core EXCEPT !.busy = FALSE, !.sent = run.sent, !.early = TRUE]
     IN  /\ core' = CASE core.closed \/ fenced -> [core EXCEPT !.busy = FALSE]
                      [] commits /\ run.out.outcome = "complete" ->
                           [paced EXCEPT !.last = run.cycle]
                      [] OTHER -> paced
         /\ store' = CASE commits -> run.state
                       [] core.closed -> store
                       [] OTHER -> CarryRefusals(store, run.state)
         /\ returned' = IF commits
                      THEN [cycle |-> run.cycle, generation |-> run.generation,
                            out |-> run.out]
                      ELSE NoResult
  /\ run' = NoRun
  /\ UNCHANGED <<sessions, caller, refusals>>

(* The clock reaches NextRefreshAt.                                        *)
Tick ==
  /\ core.early
  /\ core' = [core EXCEPT !.early = FALSE]
  /\ UNCHANGED <<store, run, sessions, caller, returned, refusals>>

===========================================================================
