-------------------------- MODULE SuppliedPortProofs --------------------------
(***************************************************************************)
(* Theorems about the eight supplied-evidence ports, for every number of   *)
(* callers, attempts, replacements and clock ticks: each port implements   *)
(* FencedPublication, a port that admits one call at a time has one call   *)
(* out, the SmartLogger's supplier is called for the port's own context    *)
(* only, and the Growatt diagnostic follows the evidence it came from.     *)
(***************************************************************************)
EXTENDS SuppliedPorts, FiniteSetTheorems, TLAPS

USE SuppliedPortAssumption

-----------------------------------------------------------------------------
(* The inductive invariants: what is common to the ports, and then, port   *)
(* by port, why an attempt that is over does not publish any more.         *)

CallFields == {"pc", "attempt", "frozen", "ticket", "result"}
IsCall(r) ==
  DOMAIN r = CallFields /\ r.attempt \in Nat /\ r.frozen \in Int /\ r.ticket \in Int
CallsTyped == DOMAIN calls = Callers /\ \A c \in Callers : IsCall(calls[c])
TraceFields == {"begun", "over", "ended", "retired"}

(* A call in flight has an attempt of its own, already begun, and nothing  *)
(* is over that has not begun.                                             *)
Common ==
  /\ CallsTyped
  /\ DOMAIN trace = TraceFields
  /\ trace.begun \in Nat /\ trace.retired \in BOOLEAN
  /\ trace.over \subseteq AllBegun
  /\ \A c \in Callers : ~Idle(c) => calls[c].attempt \in AllBegun
  /\ \A c, d \in Callers :
        ~Idle(c) /\ ~Idle(d) /\ calls[c].attempt = calls[d].attempt => c = d

(* A call that is out is the only one, and the port is busy.               *)
OneOut ==
  /\ \A c \in Callers : ~Idle(c) => owner.busy
  /\ \A c, d \in Callers : ~Idle(c) /\ ~Idle(d) => c = d
BusyIsOut == owner.busy \in BOOLEAN /\ (owner.busy => \E c \in Callers : ~Idle(c))

IsOver(c) == calls[c].attempt \in trace.over
HasEnded(c) == Ended(calls[c].attempt)

Sun2000Inv ==
  /\ family = "sun2000" /\ Common /\ OneOut /\ BusyIsOut
  /\ DOMAIN owner = {"busy", "retired", "generation", "last"}
  /\ owner.generation \in Int
  /\ owner.retired = trace.retired
  /\ \A c \in Callers : At(c, "supplier") =>
        /\ calls[c].frozen <= owner.generation
        /\ IsOver(c) => owner.retired \/ owner.generation # calls[c].frozen \/ HasEnded(c)

SDongleInv ==
  /\ family = "sdongle" /\ Common /\ OneOut /\ BusyIsOut
  /\ DOMAIN owner = {"busy", "retired", "state", "retained"}
  /\ owner.retained \in Int
  /\ owner.retired = trace.retired
  /\ \A c \in Callers : At(c, "supplier") =>
        /\ calls[c].frozen = owner.retained
        /\ IsOver(c) => owner.retired \/ HasEnded(c)

LunaInv ==
  /\ family = "luna" /\ Common /\ OneOut /\ BusyIsOut
  /\ DOMAIN owner = {"busy", "retired", "evaluatedAt", "status", "receipt"}
  /\ owner.evaluatedAt \in Int
  /\ owner.retired = trace.retired
  /\ \A c \in Callers : At(c, "supplier") =>
        /\ calls[c].frozen \in Int
        /\ IsOver(c) => owner.retired \/ HasEnded(c)

OutBackInv ==
  /\ family = "outback" /\ Common /\ OneOut /\ BusyIsOut
  /\ DOMAIN owner = {"busy", "retired", "generation", "source", "attempt", "status",
                     "record", "recordGeneration", "recordSource", "complete"}
  /\ owner.generation \in Int /\ owner.recordGeneration \in Int
  /\ owner.recordGeneration <= owner.generation
  /\ owner.retired = trace.retired
  /\ \A c \in Callers : At(c, "supplier") =>
        /\ calls[c].frozen <= owner.generation
        /\ IsOver(c) => HasEnded(c) \/ OutBack!Superseded(c)

FroniusInv ==
  /\ family = "fronius" /\ Common
  /\ DOMAIN owner = {"retired", "active", "key", "envelope", "latest", "outcome"}
  /\ owner.active \in 0 .. trace.begun
  /\ owner.retired = trace.retired /\ (owner.retired => owner.active = 0)
  /\ \A c \in Callers : At(c, "supplier") /\ owner.active = calls[c].attempt =>
        (IsOver(c) => HasEnded(c))

SmartloggerCall(c) ==
  /\ At(c, "reserved") /\ IsOver(c) => HasEnded(c) \/ owner.locked \/ owner.shut
  /\ At(c, "begun") \/ At(c, "supplier") \/ At(c, "answered") =>
       calls[c].frozen <= owner.generation
  /\ At(c, "begun") =>
       /\ calls[c].frozen = Smartlogger!BuiltFor \/ owner.locked \/ owner.closed
       /\ IsOver(c) => \/ HasEnded(c) \/ owner.shut \/ owner.locked
                       \/ owner.generation # calls[c].frozen
  /\ At(c, "supplier") =>
       /\ calls[c].frozen = Smartlogger!BuiltFor
       /\ IsOver(c) => HasEnded(c) \/ owner.shut \/ owner.generation # calls[c].frozen
  /\ At(c, "answered") /\ calls[c].result = "complete" /\ IsOver(c) =>
       owner.shut \/ owner.generation # calls[c].frozen

SmartloggerInv ==
  /\ family = "smartlogger" /\ Common /\ OneOut /\ BusyIsOut
  /\ DOMAIN owner = {"busy", "closed", "locked", "shut", "generation", "active", "last",
                     "lastGeneration", "results"}
  /\ owner.generation \in Int /\ owner.lastGeneration \in Int
  /\ owner.lastGeneration <= owner.generation
  /\ owner.closed = trace.retired /\ owner.shut = owner.closed
  /\ owner.locked \/ owner.closed \/ owner.generation = Smartlogger!BuiltFor
  /\ \A c \in Callers : SmartloggerCall(c)

GrowattFields ==
  {"native", "busy", "retired", "generation", "deadline", "tick", "published"}
NativeFields ==
  {"tick", "attempt", "context", "deadline", "outcome", "success", "successContext",
   "applicable"}
EnvelopeFields == {"state", "success", "link", "diagnostic"}

GrowattOwner ==
  /\ DOMAIN owner = GrowattFields /\ DOMAIN owner.native = NativeFields
  /\ DOMAIN owner.published = EnvelopeFields
  /\ owner.tick \in Int /\ owner.deadline \in Int /\ owner.native.tick \in Int
  /\ owner.native.applicable \in BOOLEAN
  /\ owner.native.attempt \in 0 .. trace.begun
  /\ owner.native.outcome = "pending" => owner.native.attempt # 0
  /\ owner.retired = trace.retired

(* A call that is to settle a success, which is then in the native owner.  *)
Succeeds(c) == At(c, "settle") /\ calls[c].result = "success"

GrowattCall(c) ==
  /\ At(c, "reserved") => owner.native.attempt # calls[c].attempt
  /\ (At(c, "reserved") \/ At(c, "supplier") \/ At(c, "close")) /\ IsOver(c) =>
       \/ HasEnded(c) \/ owner.retired
       \/ owner.native.attempt = calls[c].attempt /\ owner.native.outcome # "pending"
  /\ Succeeds(c) =>
       /\ owner.native.success = calls[c].attempt
       /\ owner.native.outcome = "success" /\ owner.native.applicable
       /\ IsOver(c) => HasEnded(c) \/ owner.retired

(* Until a success is settled, the envelope shows the native owner's last  *)
(* success, and as usable whenever it still applies.                       *)
EnvelopeIsNative ==
  /\ owner.native.success = owner.published.success
  /\ owner.native.success # 0 /\ owner.native.applicable =>
       owner.published.state \in {"current", "retained"}

GrowattInv ==
  /\ family = "growatt" /\ Common /\ OneOut /\ DiagnosticFollowsBase
  /\ GrowattOwner
  /\ \A c \in Callers : GrowattCall(c)
  /\ owner.retired \/ (\E c \in Callers : Succeeds(c)) \/ EnvelopeIsNative

EmmaCall(c) ==
  ~Idle(c) =>
    /\ calls[c].frozen <= owner.generation
    /\ At(c, "before") \/ At(c, "preflight") => calls[c].attempt # owner.cycle
    /\ IsOver(c) => \/ ~Emma!Current(c) \/ owner.retired
                    \/ /\ ~At(c, "before") /\ ~At(c, "preflight")
                       /\ calls[c].attempt # owner.cycle

EmmaInv ==
  /\ family = "emma" /\ Common
  /\ DOMAIN owner = {"retired", "parent", "generation", "cancelled", "sequence", "cycle",
                     "latest"}
  /\ DOMAIN owner.latest = {"context", "committed", "retained"}
  /\ owner.parent \in Int /\ owner.generation \in Nat /\ owner.latest.context \in Int
  /\ owner.latest.context <= owner.generation
  /\ owner.cycle \in 0 .. trace.begun
  /\ owner.retired = trace.retired /\ (owner.retired => owner.cancelled)
  /\ \A c \in Callers : EmmaCall(c)

PortInv ==
  \/ Sun2000Inv \/ SDongleInv \/ LunaInv \/ OutBackInv
  \/ FroniusInv \/ SmartloggerInv \/ GrowattInv \/ EmmaInv

-----------------------------------------------------------------------------
(* What the steps of the ports have in common                              *)

(* Only the call of c changes; it keeps its attempt, returns, or begins the*)
(* next attempt.                                                           *)
OneCallMoves(c) ==
  /\ CallsTyped'
  /\ \A d \in Callers : d # c => calls'[d] = calls[d]
  /\ \/ calls'[c].pc = "idle"
     \/ ~Idle(c) /\ calls'[c].attempt = calls[c].attempt
     \/ calls'[c].attempt = trace.begun + 1 /\ trace'.begun = trace.begun + 1

TraceGrows ==
  /\ DOMAIN trace' = TraceFields /\ trace'.retired \in BOOLEAN
  /\ trace'.begun \in {trace.begun, trace.begun + 1}
  /\ trace'.over \subseteq 1 .. trace'.begun

(* The record of one call after a step.                                    *)
LEMMA CallSet ==
  ASSUME CallsTyped, NEW c \in Callers, NEW r, IsCall(r), calls' = [calls EXCEPT ![c] = r]
  PROVE  /\ CallsTyped' /\ calls'[c] = r
         /\ \A d \in Callers : d # c => calls'[d] = calls[d]
  BY DEF CallsTyped

LEMMA CallGoes ==
  ASSUME CallsTyped, NEW c \in Callers, NEW p, ~Idle(c), Goes(c, p)
  PROVE  /\ OneCallMoves(c) /\ calls'[c].pc = p
         /\ \A d \in Callers : d # c => calls'[d] = calls[d]
         /\ calls'[c].attempt = calls[c].attempt /\ calls'[c].frozen = calls[c].frozen
         /\ calls'[c].ticket = calls[c].ticket /\ calls'[c].result = calls[c].result
<1> DEFINE r == [calls[c] EXCEPT !.pc = p]
<1>1. /\ IsCall(r) /\ r.pc = p /\ r.attempt = calls[c].attempt
      /\ r.frozen = calls[c].frozen /\ r.ticket = calls[c].ticket
      /\ r.result = calls[c].result
  BY DEF CallsTyped, IsCall, CallFields
<1>2. calls' = [calls EXCEPT ![c] = r]
  BY DEF Goes
<1> HIDE DEF r
<1> QED
  BY <1>1, <1>2, CallSet DEF OneCallMoves

LEMMA CallReturns ==
  ASSUME CallsTyped, NEW c \in Callers, Returns(c)
  PROVE  /\ OneCallMoves(c) /\ calls'[c].pc = "idle"
         /\ \A d \in Callers : d # c => calls'[d] = calls[d]
<1>1. IsCall(NoCall) /\ NoCall.pc = "idle"
  BY DEF NoCall, IsCall, CallFields
<1>2. /\ CallsTyped' /\ calls'[c] = NoCall
      /\ \A d \in Callers : d # c => calls'[d] = calls[d]
  BY <1>1, CallSet DEF Returns
<1> QED
  BY <1>1, <1>2 DEF OneCallMoves

CallIsBegun(c, p, f) ==
  calls' = [calls EXCEPT ![c].pc = p, ![c].attempt = trace.begun + 1, ![c].frozen = f]

LEMMA CallBegins ==
  ASSUME CallsTyped, NEW c \in Callers, NEW p, NEW f \in Int,
         trace.begun \in Nat, trace'.begun = trace.begun + 1, CallIsBegun(c, p, f)
  PROVE  /\ OneCallMoves(c) /\ \A d \in Callers : d # c => calls'[d] = calls[d]
         /\ calls'[c].pc = p /\ calls'[c].attempt = trace.begun + 1 /\ calls'[c].frozen = f
<1> DEFINE r == [calls[c] EXCEPT !.pc = p, !.attempt = trace.begun + 1, !.frozen = f]
<1>1. /\ IsCall(r) /\ r.pc = p /\ r.attempt = trace.begun + 1 /\ r.frozen = f
  BY DEF CallsTyped, IsCall, CallFields
<1>2. calls' = [calls EXCEPT ![c] = r]
  BY DEF CallsTyped, CallIsBegun
<1> HIDE DEF r
<1>3. /\ CallsTyped' /\ calls'[c] = r
      /\ \A d \in Callers : d # c => calls'[d] = calls[d]
  BY <1>1, <1>2, CallSet
<1> QED
  BY <1>1, <1>3 DEF OneCallMoves

(* A call that goes on, whatever it notes.                                 *)
LEMMA CallChanges ==
  ASSUME CallsTyped, NEW c \in Callers, ~Idle(c), NEW r, IsCall(r),
         r.attempt = calls[c].attempt, calls' = [calls EXCEPT ![c] = r]
  PROVE  /\ OneCallMoves(c) /\ \A d \in Callers : d # c => calls'[d] = calls[d]
         /\ calls'[c] = r
  BY CallSet DEF OneCallMoves

(* A call that goes on with something noted.                               *)
CallFreezes(c, p, f) == calls' = [calls EXCEPT ![c].pc = p, ![c].frozen = f]
CallAnswers(c, p, x) == calls' = [calls EXCEPT ![c].pc = p, ![c].result = x]

LEMMA CallIsFrozen ==
  ASSUME CallsTyped, NEW c \in Callers, ~Idle(c), NEW p, NEW f \in Int, CallFreezes(c, p, f)
  PROVE  /\ OneCallMoves(c) /\ \A d \in Callers : d # c => calls'[d] = calls[d]
         /\ calls'[c].pc = p /\ calls'[c].frozen = f /\ calls'[c].result = calls[c].result
         /\ calls'[c].attempt = calls[c].attempt
<1> DEFINE r == [calls[c] EXCEPT !.pc = p, !.frozen = f]
<1>1. calls' = [calls EXCEPT ![c] = r]
  BY DEF CallFreezes, CallsTyped
<1>2. /\ IsCall(r) /\ r.pc = p /\ r.frozen = f /\ r.result = calls[c].result
      /\ r.attempt = calls[c].attempt
  BY DEF CallsTyped, IsCall, CallFields
<1> HIDE DEF r
<1> QED
  BY <1>1, <1>2, CallSet DEF OneCallMoves

LEMMA CallIsAnswered ==
  ASSUME CallsTyped, NEW c \in Callers, ~Idle(c), NEW p, NEW x, CallAnswers(c, p, x)
  PROVE  /\ OneCallMoves(c) /\ \A d \in Callers : d # c => calls'[d] = calls[d]
         /\ calls'[c].pc = p /\ calls'[c].frozen = calls[c].frozen /\ calls'[c].result = x
         /\ calls'[c].attempt = calls[c].attempt
<1> DEFINE r == [calls[c] EXCEPT !.pc = p, !.result = x]
<1>1. calls' = [calls EXCEPT ![c] = r]
  BY DEF CallAnswers, CallsTyped
<1>2. /\ IsCall(r) /\ r.pc = p /\ r.frozen = calls[c].frozen /\ r.result = x
      /\ r.attempt = calls[c].attempt
  BY DEF CallsTyped, IsCall, CallFields
<1> HIDE DEF r
<1> QED
  BY <1>1, <1>2, CallSet DEF OneCallMoves

(* A call that begins and freezes nothing keeps the field as it is.        *)
CallIsReserved(c, p) == calls' = [calls EXCEPT ![c].pc = p, ![c].attempt = trace.begun + 1]

LEMMA ReservedIsBegun ==
  ASSUME CallsTyped, NEW c \in Callers, NEW p, CallIsReserved(c, p)
  PROVE  CallIsBegun(c, p, calls[c].frozen) /\ calls[c].frozen \in Int
<1> DEFINE r == [calls[c] EXCEPT !.pc = p, !.attempt = trace.begun + 1]
           q == [calls[c] EXCEPT !.pc = p, !.attempt = trace.begun + 1, !.frozen = calls[c].frozen]
<1>1. q = r
  BY DEF CallsTyped, IsCall, CallFields
<1>2. calls' = [calls EXCEPT ![c] = r]
  BY DEF CallIsReserved, CallsTyped
<1>3. calls' = [calls EXCEPT ![c] = q]
  BY <1>1, <1>2
<1>4. CallIsBegun(c, p, calls[c].frozen)
  BY <1>3 DEF CallIsBegun, CallsTyped
<1> QED
  BY <1>4 DEF CallsTyped, IsCall

LEMMA CommonHolds ==
  ASSUME Common, NEW c \in Callers, OneCallMoves(c), TraceGrows
  PROVE  Common'
<1>1. /\ CallsTyped' /\ DOMAIN trace' = TraceFields
      /\ trace'.begun \in Nat /\ trace'.retired \in BOOLEAN /\ trace'.over \subseteq AllBegun'
  BY DEF Common, OneCallMoves, TraceGrows, AllBegun
<1>2. ASSUME NEW d \in Callers, ~Idle(d)'
      PROVE  calls'[d].attempt \in AllBegun'
  BY <1>1, <1>2 DEF Common, OneCallMoves, TraceGrows, AllBegun, Idle
<1>3. ASSUME NEW d \in Callers, NEW e \in Callers, ~Idle(d)', ~Idle(e)',
             calls'[d].attempt = calls'[e].attempt
      PROVE  d = e
  BY <1>1, <1>3 DEF Common, OneCallMoves, TraceGrows, AllBegun, Idle
<1> QED
  BY <1>1, <1>2, <1>3 DEF Common

(* A step that leaves the calls alone.                                     *)
LEMMA CommonStays ==
  ASSUME Common, calls' = calls, TraceGrows
  PROVE  Common'
<1>1. PICK c \in Callers : TRUE
  OBVIOUS
<1>2. CASE Idle(c)
  BY <1>2, CommonHolds, <1>1 DEF OneCallMoves, Common, Idle, CallsTyped
<1>3. CASE ~Idle(c)
  BY <1>3, CommonHolds, <1>1 DEF OneCallMoves, Common, CallsTyped
<1> QED
  BY <1>2, <1>3

LEMMA OutMoves ==
  ASSUME OneOut, NEW c \in Callers, ~Idle(c), \A d \in Callers : d # c => calls'[d] = calls[d],
         calls'[c].pc # "idle", owner'.busy = owner.busy
  PROVE  OneOut' /\ (BusyIsOut => BusyIsOut')
  BY DEF OneOut, BusyIsOut, Idle

LEMMA OutBegins ==
  ASSUME OneOut, NEW c \in Callers, ~owner.busy,
         \A d \in Callers : d # c => calls'[d] = calls[d],
         calls'[c].pc # "idle", owner'.busy = TRUE
  PROVE  OneOut' /\ BusyIsOut'
  BY DEF OneOut, BusyIsOut, Idle

LEMMA OutReturns ==
  ASSUME OneOut, NEW c \in Callers, ~Idle(c), \A d \in Callers : d # c => calls'[d] = calls[d],
         calls'[c].pc = "idle"
  PROVE  OneOut' /\ (owner'.busy = FALSE => BusyIsOut')
  BY DEF OneOut, BusyIsOut, Idle

LEMMA OutStays ==
  ASSUME OneOut, calls' = calls, owner'.busy = owner.busy
  PROVE  OneOut' /\ (BusyIsOut => BusyIsOut')
  BY DEF OneOut, BusyIsOut, Idle

(* The context of an attempt ends: nothing else happens to the port.       *)
LEMMA ContextEndsStep ==
  ASSUME Common, NEW H, ContextEnds(H)
  PROVE  /\ UNCHANGED <<family, owner, calls>> /\ TraceGrows
         /\ trace'.begun = trace.begun /\ trace'.retired = trace.retired
         /\ trace.over \subseteq trace'.over /\ trace.ended \subseteq trace'.ended
         /\ \A c \in Callers :
              IsOver(c)' => IsOver(c) \/ (calls[c].pc \in H /\ HasEnded(c)')
<1>1. PICK a \in AllBegun \ trace.ended : EndedAt(a, H)
  BY DEF ContextEnds
<1>2. UNCHANGED <<family, owner, calls>>
  BY DEF ContextEnds
<1>3. CASE \A c \in Callers : calls[c].attempt = a => calls[c].pc \in H
  <2>1. trace' = [trace EXCEPT !.ended = @ \cup {a}, !.over = @ \cup {a}]
    BY <1>1, <1>3 DEF EndedAt
  <2> QED
    BY <1>2, <1>3, <2>1 DEF Common, TraceGrows, TraceFields, AllBegun, IsOver, HasEnded, Ended
<1>4. CASE ~(\A c \in Callers : calls[c].attempt = a => calls[c].pc \in H)
  <2>1. trace' = [trace EXCEPT !.ended = @ \cup {a}, !.over = @]
    BY <1>1, <1>4 DEF EndedAt
  <2> QED
    BY <1>2, <2>1 DEF Common, TraceGrows, TraceFields, AllBegun, IsOver, HasEnded, Ended
<1> QED
  BY <1>3, <1>4

(* The ports that admit one call at a time: a call enters and finds its    *)
(* attempt alive, is over when its supplier is back, leaves, and nothing   *)
(* else touches it.                                                        *)
Exclusively == Common /\ OneOut /\ BusyIsOut

LEMMA CallEnters ==
  ASSUME Exclusively, NEW c \in Callers, NEW p, p # "idle", NEW f \in Int,
         ~owner.busy, owner'.busy = TRUE, CallIsBegun(c, p, f), Begun({})
  PROVE  /\ Exclusively' /\ ~IsOver(c)' /\ \A d \in Callers : ~Idle(d)' => d = c
         /\ calls'[c].pc = p /\ calls'[c].attempt = trace.begun + 1 /\ calls'[c].frozen = f
         /\ trace'.begun = trace.begun + 1 /\ trace'.over = trace.over
         /\ trace'.retired = trace.retired
<1>1. /\ CallsTyped /\ trace.begun \in Nat /\ trace.over \subseteq 1 .. trace.begun
      /\ DOMAIN trace = TraceFields /\ trace.retired \in BOOLEAN
  BY DEF Exclusively, Common, AllBegun
<1>2. /\ trace'.begun = trace.begun + 1 /\ trace'.over = trace.over
      /\ trace'.retired = trace.retired /\ TraceGrows
  BY <1>1 DEF Begun, TraceGrows, TraceFields
<1>3. /\ OneCallMoves(c) /\ \A d \in Callers : d # c => calls'[d] = calls[d]
      /\ calls'[c].pc = p /\ calls'[c].attempt = trace.begun + 1 /\ calls'[c].frozen = f
  BY <1>1, <1>2, CallBegins
<1>4. Exclusively'
  BY <1>2, <1>3, CommonHolds, OutBegins DEF Exclusively
<1>5. ~IsOver(c)'
  BY <1>1, <1>2, <1>3 DEF IsOver
<1>6. \A d \in Callers : ~Idle(d)' => d = c
  BY <1>3, <1>4 DEF Exclusively, OneOut, Idle
<1> QED
  BY <1>2, <1>3, <1>4, <1>5, <1>6

LEMMA CallIsOver ==
  ASSUME Exclusively, NEW c \in Callers, ~Idle(c), owner'.busy = owner.busy,
         Goes(c, "leaving"), Over({calls[c].attempt})
  PROVE  /\ Exclusively' /\ \A d \in Callers : Idle(d)' \/ At(d, "leaving")'
         /\ trace'.begun = trace.begun /\ trace'.over = trace.over \cup {calls[c].attempt}
         /\ trace'.retired = trace.retired /\ calls[c].attempt \in 1 .. trace.begun
<1>1. /\ CallsTyped /\ trace.begun \in Nat /\ trace.over \subseteq 1 .. trace.begun
      /\ DOMAIN trace = TraceFields /\ trace.retired \in BOOLEAN
      /\ calls[c].attempt \in 1 .. trace.begun
  BY DEF Exclusively, Common, AllBegun
<1>2. /\ trace'.begun = trace.begun /\ trace'.over = trace.over \cup {calls[c].attempt}
      /\ trace'.retired = trace.retired /\ TraceGrows
  BY <1>1 DEF Over, TraceGrows, TraceFields
<1>3. /\ OneCallMoves(c) /\ \A d \in Callers : d # c => calls'[d] = calls[d]
      /\ calls'[c].pc = "leaving"
  BY <1>1, CallGoes
<1>4. Exclusively'
  BY <1>1, <1>2, <1>3, CommonHolds, OutMoves DEF Exclusively
<1>5. \A d \in Callers : Idle(d)' \/ At(d, "leaving")'
  BY <1>3, <1>4 DEF Exclusively, OneOut, At, Idle
<1> QED
  BY <1>1, <1>2, <1>4, <1>5

LEMMA CallMovesOn ==
  ASSUME Exclusively, NEW c \in Callers, ~Idle(c), owner'.busy = owner.busy, TraceGrows,
         OneCallMoves(c), \A d \in Callers : d # c => calls'[d] = calls[d], ~Idle(c)'
  PROVE  Exclusively' /\ \A d \in Callers : d # c => Idle(d)'
<1>1. Exclusively'
  BY CommonHolds, OutMoves DEF Exclusively, Idle
<1> QED
  BY <1>1 DEF Exclusively, OneOut

LEMMA CallLeaves ==
  ASSUME Exclusively, NEW c \in Callers, At(c, "leaving"), owner'.busy = FALSE, Returns(c),
         trace' = trace
  PROVE  Exclusively' /\ \A d \in Callers : Idle(d)'
<1>1. CallsTyped /\ ~Idle(c)
  BY DEF Exclusively, Common, At, Idle
<1>2. /\ OneCallMoves(c) /\ calls'[c].pc = "idle"
      /\ \A d \in Callers : d # c => calls'[d] = calls[d]
  BY <1>1, CallReturns
<1>3. TraceGrows
  BY DEF Exclusively, Common, AllBegun, TraceGrows
<1>4. Exclusively'
  BY <1>1, <1>2, <1>3, CommonHolds, OutReturns DEF Exclusively
<1>5. \A d \in Callers : Idle(d)'
  BY <1>4 DEF Exclusively, OneOut
<1> QED
  BY <1>4, <1>5

LEMMA CallsStay ==
  ASSUME Exclusively, calls' = calls, owner'.busy = owner.busy, TraceGrows
  PROVE  Exclusively'
  BY CommonStays, OutStays DEF Exclusively

-----------------------------------------------------------------------------
(* SUN2000                                                                 *)

LEMMA Sun2000Shows ==
  /\ family = "sun2000" => Record = owner.last /\ (Usable <=> owner.last # 0)
  /\ family' = "sun2000" => Record' = owner'.last /\ (Usable' <=> owner'.last # 0)
  BY DEF Record, Usable, Sun2000!Record, Sun2000!Usable

LEMMA Sun2000Step ==
  ASSUME Sun2000Inv, Sun2000!Next
  PROVE  Sun2000Inv' /\ Fenced!Next
<1> USE DEF Exclusively
<1>0. /\ Exclusively /\ family = "sun2000"
      /\ trace.begun \in Nat /\ trace.over \subseteq 1 .. trace.begun
      /\ DOMAIN trace = TraceFields /\ trace.retired \in BOOLEAN
      /\ DOMAIN owner = {"busy", "retired", "generation", "last"}
      /\ owner.generation \in Int /\ owner.retired = trace.retired
  BY DEF Sun2000Inv, Common, AllBegun
<1>1. ASSUME NEW c \in Callers, Sun2000!Cycle(c)
      PROVE  Sun2000Inv' /\ Fenced!Next
  <2>1. /\ ~owner.retired /\ ~owner.busy /\ family' = family /\ Begun({})
        /\ CallIsBegun(c, "supplier", owner.generation)
    BY <1>1 DEF Sun2000!Cycle, Sun2000!NextAttempt, Sun2000!Begun, CallIsBegun, Begun
  <2>2. /\ DOMAIN owner' = DOMAIN owner /\ owner'.busy = TRUE
        /\ owner'.retired = owner.retired /\ owner'.generation = owner.generation
        /\ owner'.last = owner.last
    BY <1>0, <1>1 DEF Sun2000!Cycle
  <2>3. /\ Exclusively' /\ ~IsOver(c)' /\ \A d \in Callers : ~Idle(d)' => d = c
        /\ calls'[c].frozen = owner.generation
        /\ trace'.begun = trace.begun + 1 /\ trace'.over = trace.over
        /\ trace'.retired = trace.retired
    BY <1>0, <2>1, <2>2, CallEnters
  <2>4. Sun2000Inv'
    BY <1>0, <2>1, <2>2, <2>3 DEF Sun2000Inv, At, Idle
  <2>5. Fenced!Begin
    BY <1>0, <2>1, <2>2, <2>3, Sun2000Shows DEF Fenced!Begin, Fenced!Keeps
  <2> QED
    BY <2>4, <2>5 DEF Fenced!Next
<1>2. ASSUME NEW c \in Callers, Sun2000!Refused(c) \/ Sun2000!Accepted(c)
      PROVE  Sun2000Inv' /\ Fenced!Next
  <2>1. /\ At(c, "supplier") /\ family' = family
        /\ Goes(c, "leaving") /\ Over({calls[c].attempt})
        /\ owner' \in {owner, [owner EXCEPT !.last = calls[c].attempt]}
    BY <1>2 DEF Sun2000!Refused, Sun2000!Accepted, Sun2000!At, Sun2000!Goes, Sun2000!Over,
                At, Goes, Over
  <2>2. /\ DOMAIN owner' = DOMAIN owner /\ owner'.busy = owner.busy
        /\ owner'.retired = owner.retired /\ owner'.generation = owner.generation
    BY <1>0, <2>1
  <2>3. /\ Exclusively' /\ \A d \in Callers : Idle(d)' \/ At(d, "leaving")'
        /\ trace'.begun = trace.begun /\ trace'.over = trace.over \cup {calls[c].attempt}
        /\ trace'.retired = trace.retired /\ calls[c].attempt \in 1 .. trace.begun
    BY <1>0, <2>1, <2>2, CallIsOver DEF At, Idle
  <2>4. Sun2000Inv'
    BY <1>0, <2>1, <2>2, <2>3 DEF Sun2000Inv, At, Idle
  <2>5. CASE Sun2000!Refused(c)
    <3>1. Fenced!Fence
      BY <1>0, <2>3, <2>5, Sun2000Shows DEF Sun2000!Refused, Fenced!Fence, Fenced!Keeps
    <3> QED
      BY <2>4, <3>1 DEF Fenced!Next
  <2>6. CASE Sun2000!Accepted(c)
    <3>1. /\ ~HasEnded(c) /\ ~owner.retired /\ owner.generation = calls[c].frozen
          /\ owner'.last = calls[c].attempt
      BY <1>0, <2>6 DEF Sun2000!Accepted, Sun2000!Ended, HasEnded, Ended
    <3>2. ~IsOver(c)
      BY <2>1, <3>1 DEF Sun2000Inv
    <3>3. Fenced!Publish
      BY <1>0, <2>1, <2>3, <3>1, <3>2, Sun2000Shows DEF Fenced!Publish, IsOver
    <3> QED
      BY <2>4, <3>3 DEF Fenced!Next
  <2> QED
    BY <1>2, <2>5, <2>6
<1>3. ASSUME NEW c \in Callers, Sun2000!Leave(c)
      PROVE  Sun2000Inv' /\ Fenced!Next
  <2>1. At(c, "leaving") /\ family' = family /\ trace' = trace /\ Returns(c)
    BY <1>3 DEF Sun2000!Leave, Sun2000!At, Sun2000!Returns, Sun2000!NoCall, NoCall, At, Returns
  <2>2. /\ DOMAIN owner' = DOMAIN owner /\ owner'.busy = FALSE
        /\ owner'.retired = owner.retired /\ owner'.generation = owner.generation
        /\ owner'.last = owner.last
    BY <1>0, <1>3 DEF Sun2000!Leave
  <2>3. Exclusively' /\ \A d \in Callers : Idle(d)'
    BY <1>0, <2>1, <2>2, CallLeaves
  <2>4. Sun2000Inv'
    BY <1>0, <2>1, <2>2, <2>3 DEF Sun2000Inv, At, Idle
  <2>5. Fenced!Fence
    BY <1>0, <2>1, <2>2, Sun2000Shows DEF Fenced!Fence, Fenced!Keeps
  <2> QED
    BY <2>4, <2>5 DEF Fenced!Next
<1>4. ASSUME Sun2000!Replace \/ Sun2000!Retire
      PROVE  Sun2000Inv' /\ Fenced!Next
  <2>1. /\ family' = family /\ calls' = calls /\ ~owner.retired
        /\ DOMAIN owner' = DOMAIN owner /\ owner'.busy = owner.busy /\ owner'.last = 0
        /\ owner'.generation \in Int /\ owner'.retired = trace'.retired /\ TraceGrows
        /\ trace'.begun = trace.begun /\ trace.over \subseteq trace'.over
        /\ \/ owner'.retired /\ owner'.generation = owner.generation
           \/ owner'.generation > owner.generation
    <3>1. CASE Sun2000!Replace
      <4>1. PICK next \in (owner.generation + 1) .. MaxGeneration :
               owner' = [owner EXCEPT !.generation = next, !.last = 0]
        BY <3>1 DEF Sun2000!Replace
      <4>2. trace' = [trace EXCEPT !.over = @ \cup (1 .. trace.begun)]
        BY <3>1 DEF Sun2000!Replace, Sun2000!Over, Sun2000!AllBegun
      <4> QED
        BY <1>0, <3>1, <4>1, <4>2 DEF Sun2000!Replace, TraceGrows, TraceFields
    <3>2. CASE Sun2000!Retire
      BY <1>0, <3>2 DEF Sun2000!Retire, Sun2000!Retired, Sun2000!AllBegun, TraceGrows, TraceFields
    <3> QED
      BY <1>4, <3>1, <3>2
  <2>2. Exclusively'
    BY <1>0, <2>1, CallsStay
  <2>3. \A c \in Callers : At(c, "supplier")' =>
          /\ calls'[c].frozen <= owner'.generation
          /\ owner'.retired \/ owner'.generation # calls'[c].frozen
    BY <1>0, <2>1 DEF Sun2000Inv, At, Common, CallsTyped, IsCall
  <2>4. Sun2000Inv'
    BY <1>0, <2>1, <2>2, <2>3 DEF Sun2000Inv, At, Idle
  <2>5. Fenced!Fence
    BY <1>0, <2>1, Sun2000Shows DEF Fenced!Fence, Fenced!Drops
  <2> QED
    BY <2>4, <2>5 DEF Fenced!Next
<1>5. ASSUME Sun2000!ContextEnds({"supplier"})
      PROVE  Sun2000Inv' /\ Fenced!Next
  <2>1. ContextEnds({"supplier"})
    BY <1>5 DEF Sun2000!ContextEnds, Sun2000!EndedAt, Sun2000!InFlight, Sun2000!AllBegun,
                ContextEnds, EndedAt, InFlight, AllBegun
  <2>2. /\ UNCHANGED <<family, owner, calls>> /\ TraceGrows
        /\ trace'.begun = trace.begun /\ trace'.retired = trace.retired
        /\ trace.over \subseteq trace'.over /\ trace.ended \subseteq trace'.ended
        /\ \A c \in Callers : IsOver(c)' => IsOver(c) \/ HasEnded(c)'
    BY <1>0, <2>1, ContextEndsStep
  <2>3. Exclusively'
    BY <1>0, <2>2, CallsStay
  <2>4. Sun2000Inv'
    BY <2>2, <2>3 DEF Sun2000Inv, At, HasEnded, Ended
  <2>5. Fenced!Fence
    BY <1>0, <2>2, Sun2000Shows DEF Fenced!Fence, Fenced!Keeps
  <2> QED
    BY <2>4, <2>5 DEF Fenced!Next
<1> QED
  BY <1>1, <1>2, <1>3, <1>4, <1>5 DEF Sun2000!Next, Sun2000!Call

-----------------------------------------------------------------------------
(* SDongle                                                                 *)

LEMMA SDongleShows ==
  /\ family = "sdongle" => Record = owner.retained /\ (Usable <=> owner.state = "ready")
  /\ family' = "sdongle" => Record' = owner'.retained /\ (Usable' <=> owner'.state = "ready")
  BY DEF Record, Usable, SDongle!Record, SDongle!Usable

LEMMA SDongleStep ==
  ASSUME SDongleInv, SDongle!Next
  PROVE  SDongleInv' /\ Fenced!Next
<1> USE DEF Exclusively
<1>0. /\ Exclusively /\ family = "sdongle"
      /\ trace.begun \in Nat /\ trace.over \subseteq 1 .. trace.begun
      /\ DOMAIN trace = TraceFields /\ trace.retired \in BOOLEAN
      /\ DOMAIN owner = {"busy", "retired", "state", "retained"}
      /\ owner.retained \in Int /\ owner.retired = trace.retired
  BY DEF SDongleInv, Common, AllBegun
<1>1. ASSUME NEW c \in Callers, SDongle!Refresh(c)
      PROVE  SDongleInv' /\ Fenced!Next
  <2>1. /\ ~owner.retired /\ ~owner.busy /\ family' = family /\ Begun({})
        /\ CallIsBegun(c, "supplier", owner.retained)
    BY <1>1 DEF SDongle!Refresh, SDongle!NextAttempt, SDongle!Begun, CallIsBegun, Begun
  <2>2. /\ DOMAIN owner' = DOMAIN owner /\ owner'.busy = TRUE
        /\ owner'.retired = owner.retired /\ owner'.state = owner.state
        /\ owner'.retained = owner.retained
    BY <1>0, <1>1 DEF SDongle!Refresh
  <2>3. /\ Exclusively' /\ ~IsOver(c)' /\ \A d \in Callers : ~Idle(d)' => d = c
        /\ calls'[c].frozen = owner.retained
        /\ trace'.begun = trace.begun + 1 /\ trace'.over = trace.over
        /\ trace'.retired = trace.retired
    BY <1>0, <2>1, <2>2, CallEnters
  <2>4. SDongleInv'
    BY <1>0, <2>1, <2>2, <2>3 DEF SDongleInv, At, Idle
  <2>5. Fenced!Begin
    BY <1>0, <2>1, <2>2, <2>3, SDongleShows DEF Fenced!Begin, Fenced!Keeps
  <2> QED
    BY <2>4, <2>5 DEF Fenced!Next
<1>2. ASSUME NEW c \in Callers, SDongle!Publish(c) \/ SDongle!LookupPanics(c)
      PROVE  SDongleInv' /\ Fenced!Next
  <2>1. /\ At(c, "supplier") /\ family' = family
        /\ Goes(c, "leaving") /\ Over({calls[c].attempt})
        /\ calls[c].frozen = owner.retained
    BY <1>2 DEF SDongle!Publish, SDongle!LookupPanics, SDongle!At, SDongle!Goes, SDongle!Over,
                At, Goes, Over, SDongleInv
  (* The result is blocked or denied with the record kept, or is ready.    *)
  <2>2. \/ owner' = owner
        \/ \E state \in {"blocked", "denied"} : owner' = [owner EXCEPT !.state = state]
        \/ \E state \in {"blocked", "denied"} :
             owner' = [owner EXCEPT !.state = state, !.retained = calls[c].frozen]
        \/ /\ ~owner.retired /\ ~HasEnded(c)
           /\ owner' = [owner EXCEPT !.state = "ready", !.retained = calls[c].attempt]
    BY <1>2 DEF SDongle!Publish, SDongle!LookupPanics, SDongle!Blocked, SDongle!Kept,
                SDongle!Ended, HasEnded, Ended
  <2>3. /\ DOMAIN owner' = DOMAIN owner /\ owner'.busy = owner.busy
        /\ owner'.retired = owner.retired
        /\ \/ /\ owner'.retained = owner.retained
              /\ owner'.state = "ready" => owner.state = "ready"
           \/ ~owner.retired /\ ~HasEnded(c) /\ owner'.retained = calls[c].attempt
    BY <1>0, <2>1, <2>2
  <2>4. /\ Exclusively' /\ \A d \in Callers : Idle(d)' \/ At(d, "leaving")'
        /\ trace'.begun = trace.begun /\ trace'.over = trace.over \cup {calls[c].attempt}
        /\ trace'.retired = trace.retired /\ calls[c].attempt \in 1 .. trace.begun
    BY <1>0, <2>1, <2>3, CallIsOver DEF At, Idle
  <2>5. SDongleInv'
    BY <1>0, <2>1, <2>3, <2>4 DEF SDongleInv, At, Idle
  <2>6. CASE owner'.retained = owner.retained /\ (owner'.state = "ready" => owner.state = "ready")
    <3>1. Fenced!Fence
      BY <1>0, <2>1, <2>4, <2>6, SDongleShows DEF Fenced!Fence, Fenced!Keeps
    <3> QED
      BY <2>5, <3>1 DEF Fenced!Next
  <2>7. CASE ~owner.retired /\ ~HasEnded(c) /\ owner'.retained = calls[c].attempt
    <3>1. ~IsOver(c)
      BY <2>1, <2>7 DEF SDongleInv
    <3>2. Fenced!Publish
      BY <1>0, <2>1, <2>4, <2>7, <3>1, SDongleShows DEF Fenced!Publish, IsOver
    <3> QED
      BY <2>5, <3>2 DEF Fenced!Next
  <2> QED
    BY <2>3, <2>6, <2>7
<1>3. ASSUME NEW c \in Callers, SDongle!Leave(c)
      PROVE  SDongleInv' /\ Fenced!Next
  <2>1. At(c, "leaving") /\ family' = family /\ trace' = trace /\ Returns(c)
    BY <1>3 DEF SDongle!Leave, SDongle!At, SDongle!Returns, SDongle!NoCall, NoCall, At, Returns
  <2>2. /\ DOMAIN owner' = DOMAIN owner /\ owner'.busy = FALSE
        /\ owner'.retired = owner.retired /\ owner'.state = owner.state
        /\ owner'.retained = owner.retained
    BY <1>0, <1>3 DEF SDongle!Leave
  <2>3. Exclusively' /\ \A d \in Callers : Idle(d)'
    BY <1>0, <2>1, <2>2, CallLeaves
  <2>4. SDongleInv'
    BY <1>0, <2>1, <2>2, <2>3 DEF SDongleInv, At, Idle
  <2>5. Fenced!Fence
    BY <1>0, <2>1, <2>2, SDongleShows DEF Fenced!Fence, Fenced!Keeps
  <2> QED
    BY <2>4, <2>5 DEF Fenced!Next
<1>4. ASSUME SDongle!Retire
      PROVE  SDongleInv' /\ Fenced!Next
  <2>1. PICK E : trace' = [trace EXCEPT !.over = 1 .. trace.begun, !.retired = TRUE, !.ended = E]
    BY <1>4 DEF SDongle!Retire, SDongle!AllBegun
  <2>2. /\ family' = family /\ calls' = calls /\ TraceGrows
        /\ trace'.retired = TRUE /\ trace'.begun = trace.begun
        /\ trace.over \subseteq trace'.over
    BY <1>0, <1>4, <2>1 DEF SDongle!Retire, TraceGrows, TraceFields
  <2>3. /\ DOMAIN owner' = DOMAIN owner /\ owner'.busy = owner.busy
        /\ owner'.retired = TRUE /\ owner'.state = "blocked" /\ owner'.retained = owner.retained
    BY <1>0, <1>4 DEF SDongle!Retire, SDongle!Blocked
  <2>4. Exclusively'
    BY <1>0, <2>2, <2>3, CallsStay
  <2>5. SDongleInv'
    BY <1>0, <2>2, <2>3, <2>4 DEF SDongleInv, At
  <2>6. Fenced!Fence
    BY <1>0, <2>2, <2>3, SDongleShows DEF Fenced!Fence, Fenced!Keeps
  <2> QED
    BY <2>5, <2>6 DEF Fenced!Next
<1>5. ASSUME SDongle!ContextEnds({"supplier"})
      PROVE  SDongleInv' /\ Fenced!Next
  <2>1. ContextEnds({"supplier"})
    BY <1>5 DEF SDongle!ContextEnds, SDongle!EndedAt, SDongle!InFlight, SDongle!AllBegun,
                ContextEnds, EndedAt, InFlight, AllBegun
  <2>2. /\ UNCHANGED <<family, owner, calls>> /\ TraceGrows
        /\ trace'.begun = trace.begun /\ trace'.retired = trace.retired
        /\ trace.over \subseteq trace'.over /\ trace.ended \subseteq trace'.ended
        /\ \A c \in Callers : IsOver(c)' => IsOver(c) \/ HasEnded(c)'
    BY <1>0, <2>1, ContextEndsStep
  <2>3. Exclusively'
    BY <1>0, <2>2, CallsStay
  <2>4. SDongleInv'
    BY <2>2, <2>3 DEF SDongleInv, At, HasEnded, Ended
  <2>5. Fenced!Fence
    BY <1>0, <2>2, SDongleShows DEF Fenced!Fence, Fenced!Keeps
  <2> QED
    BY <2>4, <2>5 DEF Fenced!Next
<1> QED
  BY <1>1, <1>2, <1>3, <1>4, <1>5 DEF SDongle!Next, SDongle!Call

-----------------------------------------------------------------------------
(* LUNA                                                                    *)

LEMMA LunaShows ==
  /\ family = "luna" => Record = owner.receipt /\ (Usable <=> owner.status = "present")
  /\ family' = "luna" => Record' = owner'.receipt /\ (Usable' <=> owner'.status = "present")
  BY DEF Record, Usable, Luna!Record, Luna!Usable

LEMMA LunaStep ==
  ASSUME LunaInv, Luna!Next
  PROVE  LunaInv' /\ Fenced!Next
<1> USE DEF Exclusively
<1>0. /\ Exclusively /\ family = "luna"
      /\ trace.begun \in Nat /\ trace.over \subseteq 1 .. trace.begun
      /\ DOMAIN trace = TraceFields /\ trace.retired \in BOOLEAN
      /\ DOMAIN owner = {"busy", "retired", "evaluatedAt", "status", "receipt"}
      /\ owner.evaluatedAt \in Int /\ owner.retired = trace.retired
  BY DEF LunaInv, Common, AllBegun
<1>1. ASSUME NEW c \in Callers, Luna!Cycle(c)
      PROVE  LunaInv' /\ Fenced!Next
  <2>1. PICK started \in owner.evaluatedAt .. (MaxTick - 1) :
               CallIsBegun(c, "supplier", started)
    BY <1>1 DEF Luna!Cycle, Luna!NextAttempt, Luna!Deadline, CallIsBegun
  <2>2. /\ ~owner.retired /\ ~owner.busy /\ family' = family /\ Begun({}) /\ started \in Int
    BY <1>0, <1>1 DEF Luna!Cycle, Luna!Begun, Begun
  <2>3. /\ DOMAIN owner' = DOMAIN owner /\ owner'.busy = TRUE
        /\ owner'.retired = owner.retired /\ owner'.evaluatedAt = owner.evaluatedAt
        /\ owner'.status = owner.status /\ owner'.receipt = owner.receipt
    BY <1>0, <1>1 DEF Luna!Cycle
  <2>4. /\ Exclusively' /\ ~IsOver(c)' /\ \A d \in Callers : ~Idle(d)' => d = c
        /\ calls'[c].frozen \in Int
        /\ trace'.begun = trace.begun + 1 /\ trace'.over = trace.over
        /\ trace'.retired = trace.retired
    BY <1>0, <2>1, <2>2, <2>3, CallEnters
  <2>5. LunaInv'
    BY <1>0, <2>2, <2>3, <2>4 DEF LunaInv, At, Idle
  <2>6. Fenced!Begin
    BY <1>0, <2>2, <2>3, <2>4, LunaShows DEF Fenced!Begin, Fenced!Keeps
  <2> QED
    BY <2>5, <2>6 DEF Fenced!Next
<1>2. ASSUME NEW c \in Callers, Luna!Refused(c) \/ Luna!Admitted(c)
      PROVE  LunaInv' /\ Fenced!Next
  <2>1. /\ At(c, "supplier") /\ family' = family
        /\ Goes(c, "leaving") /\ Over({calls[c].attempt}) /\ calls[c].frozen \in Int
    BY <1>2 DEF Luna!Refused, Luna!Admitted, Luna!At, Luna!Goes, Luna!Over, At, Goes, Over,
                LunaInv
  <2>2. \/ owner' = owner
        \/ /\ ~owner.retired /\ ~HasEnded(c)
           /\ \E status : \E now \in Int :
                owner' = [owner EXCEPT !.status = status, !.evaluatedAt = now,
                                       !.receipt = calls[c].attempt]
    <3>1. CASE Luna!Admitted(c)
      <4>1. PICK event \in Luna!Events, now \in calls[c].frozen .. (MaxTick - 1) :
               owner' = [owner EXCEPT !.status = Luna!Reduced(@, event), !.evaluatedAt = now,
                                      !.receipt = calls[c].attempt]
        BY <3>1 DEF Luna!Admitted, Luna!Deadline
      <4>2. now \in Int
        BY <2>1
      <4> QED
        BY <3>1, <4>1, <4>2 DEF Luna!Admitted, Luna!Ended, HasEnded, Ended
    <3> QED
      BY <1>2, <3>1 DEF Luna!Refused
  <2>3. /\ DOMAIN owner' = DOMAIN owner /\ owner'.busy = owner.busy
        /\ owner'.retired = owner.retired /\ owner'.evaluatedAt \in Int
        /\ \/ owner' = owner
           \/ ~owner.retired /\ ~HasEnded(c) /\ owner'.receipt = calls[c].attempt
    BY <1>0, <2>2
  <2>4. /\ Exclusively' /\ \A d \in Callers : Idle(d)' \/ At(d, "leaving")'
        /\ trace'.begun = trace.begun /\ trace'.over = trace.over \cup {calls[c].attempt}
        /\ trace'.retired = trace.retired /\ calls[c].attempt \in 1 .. trace.begun
    BY <1>0, <2>1, <2>3, CallIsOver DEF At, Idle
  <2>5. LunaInv'
    BY <1>0, <2>1, <2>3, <2>4 DEF LunaInv, At, Idle
  <2>6. CASE owner' = owner
    <3>1. Fenced!Fence
      BY <1>0, <2>1, <2>4, <2>6, LunaShows DEF Fenced!Fence, Fenced!Keeps
    <3> QED
      BY <2>5, <3>1 DEF Fenced!Next
  <2>7. CASE ~owner.retired /\ ~HasEnded(c) /\ owner'.receipt = calls[c].attempt
    <3>1. ~IsOver(c)
      BY <2>1, <2>7 DEF LunaInv
    <3>2. Fenced!Publish
      BY <1>0, <2>1, <2>4, <2>7, <3>1, LunaShows DEF Fenced!Publish, IsOver
    <3> QED
      BY <2>5, <3>2 DEF Fenced!Next
  <2> QED
    BY <2>3, <2>6, <2>7
<1>3. ASSUME NEW c \in Callers, Luna!Leave(c)
      PROVE  LunaInv' /\ Fenced!Next
  <2>1. At(c, "leaving") /\ family' = family /\ trace' = trace /\ Returns(c)
    BY <1>3 DEF Luna!Leave, Luna!At, Luna!Returns, Luna!NoCall, NoCall, At, Returns
  <2>2. /\ DOMAIN owner' = DOMAIN owner /\ owner'.busy = FALSE
        /\ owner'.retired = owner.retired /\ owner'.evaluatedAt = owner.evaluatedAt
        /\ owner'.status = owner.status /\ owner'.receipt = owner.receipt
    BY <1>0, <1>3 DEF Luna!Leave
  <2>3. Exclusively' /\ \A d \in Callers : Idle(d)'
    BY <1>0, <2>1, <2>2, CallLeaves
  <2>4. LunaInv'
    BY <1>0, <2>1, <2>2, <2>3 DEF LunaInv, At, Idle
  <2>5. Fenced!Fence
    BY <1>0, <2>1, <2>2, LunaShows DEF Fenced!Fence, Fenced!Keeps
  <2> QED
    BY <2>4, <2>5 DEF Fenced!Next
<1>4. ASSUME Luna!Retire
      PROVE  LunaInv' /\ Fenced!Next
  <2>1. /\ family' = family /\ calls' = calls /\ TraceGrows
        /\ trace'.retired = TRUE /\ trace'.begun = trace.begun
        /\ trace.over \subseteq trace'.over
    BY <1>0, <1>4 DEF Luna!Retire, Luna!Retired, Luna!AllBegun, TraceGrows, TraceFields
  <2>2. /\ DOMAIN owner' = DOMAIN owner /\ owner'.busy = owner.busy
        /\ owner'.retired = TRUE /\ owner'.evaluatedAt = owner.evaluatedAt
        /\ owner'.status = owner.status /\ owner'.receipt = owner.receipt
    BY <1>0, <1>4 DEF Luna!Retire
  <2>3. Exclusively'
    BY <1>0, <2>1, <2>2, CallsStay
  <2>4. LunaInv'
    BY <1>0, <2>1, <2>2, <2>3 DEF LunaInv, At
  <2>5. Fenced!Fence
    BY <1>0, <2>1, <2>2, LunaShows DEF Fenced!Fence, Fenced!Keeps
  <2> QED
    BY <2>4, <2>5 DEF Fenced!Next
<1>5. ASSUME Luna!ContextEnds({"supplier"})
      PROVE  LunaInv' /\ Fenced!Next
  <2>1. ContextEnds({"supplier"})
    BY <1>5 DEF Luna!ContextEnds, Luna!EndedAt, Luna!InFlight, Luna!AllBegun,
                ContextEnds, EndedAt, InFlight, AllBegun
  <2>2. /\ UNCHANGED <<family, owner, calls>> /\ TraceGrows
        /\ trace'.begun = trace.begun /\ trace'.retired = trace.retired
        /\ trace.over \subseteq trace'.over /\ trace.ended \subseteq trace'.ended
        /\ \A c \in Callers : IsOver(c)' => IsOver(c) \/ HasEnded(c)'
    BY <1>0, <2>1, ContextEndsStep
  <2>3. Exclusively'
    BY <1>0, <2>2, CallsStay
  <2>4. LunaInv'
    BY <2>2, <2>3 DEF LunaInv, At, HasEnded, Ended
  <2>5. Fenced!Fence
    BY <1>0, <2>2, LunaShows DEF Fenced!Fence, Fenced!Keeps
  <2> QED
    BY <2>4, <2>5 DEF Fenced!Next
<1> QED
  BY <1>1, <1>2, <1>3, <1>4, <1>5 DEF Luna!Next, Luna!Call

-----------------------------------------------------------------------------
(* OutBack                                                                 *)

(* What is shown of the retained record depends on these fields only.      *)
OutBackShown(o) ==
  <<o.retired, o.record, o.recordSource, o.source, o.recordGeneration, o.generation>>

LEMMA OutBackShows ==
  ASSUME family = "outback", family' = family
  PROVE  /\ Record = owner.record /\ Record' = owner'.record
         /\ Usable <=> /\ ~owner.retired /\ owner.record # 0
                       /\ owner.recordSource = owner.source
                       /\ owner.recordGeneration = owner.generation
         /\ Usable' <=> /\ ~owner'.retired /\ owner'.record # 0
                        /\ owner'.recordSource = owner'.source
                        /\ owner'.recordGeneration = owner'.generation
  BY DEF Record, Usable, OutBack!Record, OutBack!Usable

LEMMA OutBackStep ==
  ASSUME OutBackInv, OutBack!Next
  PROVE  OutBackInv' /\ Fenced!Next
<1> USE DEF Exclusively
<1>0. /\ Exclusively /\ family = "outback"
      /\ trace.begun \in Nat /\ trace.over \subseteq 1 .. trace.begun
      /\ DOMAIN trace = TraceFields /\ trace.retired \in BOOLEAN
      /\ DOMAIN owner = {"busy", "retired", "generation", "source", "attempt", "status",
                         "record", "recordGeneration", "recordSource", "complete"}
      /\ owner.generation \in Int /\ owner.recordGeneration \in Int
      /\ owner.recordGeneration <= owner.generation /\ owner.retired = trace.retired
  BY DEF OutBackInv, Common, AllBegun
<1>1. ASSUME NEW c \in Callers, OutBack!Cycle(c)
      PROVE  OutBackInv' /\ Fenced!Next
  <2>1. /\ ~owner.retired /\ ~owner.busy /\ family' = family /\ Begun({})
        /\ CallIsBegun(c, "supplier", owner.generation)
    BY <1>1 DEF OutBack!Cycle, OutBack!NextAttempt, OutBack!Begun, CallIsBegun, Begun
  <2>2. /\ DOMAIN owner' = DOMAIN owner /\ owner'.busy = TRUE
        /\ owner'.generation = owner.generation
        /\ owner'.recordGeneration = owner.recordGeneration
        /\ OutBackShown(owner') = OutBackShown(owner)
    BY <1>0, <1>1 DEF OutBack!Cycle, OutBackShown
  <2>3. /\ Exclusively' /\ ~IsOver(c)' /\ \A d \in Callers : ~Idle(d)' => d = c
        /\ calls'[c].frozen = owner.generation
        /\ trace'.begun = trace.begun + 1 /\ trace'.over = trace.over
        /\ trace'.retired = trace.retired
    BY <1>0, <2>1, <2>2, CallEnters
  <2>4. OutBackInv'
    BY <1>0, <2>1, <2>2, <2>3 DEF OutBackInv, OutBackShown, At, Idle
  <2>5. Fenced!Begin
    BY <1>0, <2>1, <2>2, <2>3, OutBackShows DEF OutBackShown, Fenced!Begin, Fenced!Keeps
  <2> QED
    BY <2>4, <2>5 DEF Fenced!Next
<1>2. ASSUME NEW c \in Callers, OutBack!Publish(c) \/ OutBack!SupplierPanics(c)
      PROVE  OutBackInv' /\ Fenced!Next
  <2>1. /\ At(c, "supplier") /\ family' = family
        /\ Goes(c, "leaving") /\ Over({calls[c].attempt})
        /\ calls[c].frozen <= owner.generation /\ calls[c].frozen \in Int
    BY <1>0, <1>2 DEF OutBack!Publish, OutBack!SupplierPanics, OutBack!At, OutBack!Goes,
                OutBack!Over,
                At, Goes, Over, OutBackInv, Common, CallsTyped, IsCall
  (* The record is kept, or is the one that was imported for this attempt. *)
  <2>2. \/ owner' = owner \/ \E status : owner' = [owner EXCEPT !.status = status]
        \/ /\ ~OutBack!Superseded(c) /\ ~HasEnded(c)
           /\ \E status, complete :
                owner' = [owner EXCEPT !.status = status, !.record = calls[c].attempt,
                            !.complete = complete, !.recordGeneration = calls[c].frozen,
                            !.recordSource = owner.source]
    <3>1. CASE /\ ~OutBack!Superseded(c)
               /\ owner' = [owner EXCEPT !.status = IF OutBack!Ended(calls[c].attempt)
                                                    THEN "canceled" ELSE "failed"]
      BY <3>1
    <3>2. CASE /\ ~OutBack!Superseded(c) /\ ~OutBack!Ended(calls[c].attempt)
               /\ \E complete \in BOOLEAN : owner' = OutBack!Imported(c, complete)
      <4>1. PICK complete \in BOOLEAN : owner' = OutBack!Imported(c, complete)
        BY <3>2
      <4>2. ~HasEnded(c)
        BY <3>2 DEF OutBack!Ended, HasEnded, Ended
      <4> DEFINE status == IF complete THEN "imported" ELSE "incomplete"
      <4>3. CASE ~complete /\ owner.record # 0 /\ owner.complete
        <5>1. owner' = [owner EXCEPT !.status = status]
          BY <4>1, <4>3 DEF OutBack!Imported
        <5> QED
          BY <5>1
      <4>4. CASE ~(~complete /\ owner.record # 0 /\ owner.complete)
        <5>1. owner' = [[owner EXCEPT !.status = status] EXCEPT
                          !.record = calls[c].attempt, !.complete = complete,
                          !.recordGeneration = calls[c].frozen, !.recordSource = owner.source]
          BY <4>1, <4>4 DEF OutBack!Imported
        <5>2. owner' = [owner EXCEPT !.status = status, !.record = calls[c].attempt,
                          !.complete = complete, !.recordGeneration = calls[c].frozen,
                          !.recordSource = owner.source]
          BY <5>1
        <5> HIDE DEF status
        <5> QED
          BY <3>2, <4>2, <5>2
      <4> QED
        BY <4>3, <4>4
    <3> QED
      BY <1>2, <3>1, <3>2 DEF OutBack!Publish, OutBack!SupplierPanics
  <2>3. /\ DOMAIN owner' = DOMAIN owner /\ owner'.busy = owner.busy
        /\ owner'.retired = owner.retired /\ owner'.generation = owner.generation
        /\ \/ /\ OutBackShown(owner') = OutBackShown(owner)
              /\ owner'.recordGeneration = owner.recordGeneration
           \/ /\ ~OutBack!Superseded(c) /\ ~HasEnded(c)
              /\ owner'.record = calls[c].attempt /\ owner'.recordGeneration = calls[c].frozen
    BY <1>0, <2>1, <2>2 DEF OutBackShown
  <2>4. /\ Exclusively' /\ \A d \in Callers : Idle(d)' \/ At(d, "leaving")'
        /\ trace'.begun = trace.begun /\ trace'.over = trace.over \cup {calls[c].attempt}
        /\ trace'.retired = trace.retired /\ calls[c].attempt \in 1 .. trace.begun
    BY <1>0, <2>1, <2>3, CallIsOver DEF At, Idle
  <2>5. OutBackInv'
    <3>1. owner'.recordGeneration \in Int /\ owner'.recordGeneration <= owner'.generation
      BY <1>0, <2>1, <2>3
    <3> QED
      BY <1>0, <2>1, <2>3, <2>4, <3>1 DEF OutBackInv, At, Idle
  <2>6. CASE OutBackShown(owner') = OutBackShown(owner)
    <3>1. Fenced!Fence
      BY <1>0, <2>1, <2>4, <2>6, OutBackShows DEF OutBackShown, Fenced!Fence, Fenced!Keeps
    <3> QED
      BY <2>5, <3>1 DEF Fenced!Next
  <2>7. CASE ~OutBack!Superseded(c) /\ ~HasEnded(c) /\ owner'.record = calls[c].attempt
    <3>1. ~IsOver(c)
      BY <2>1, <2>7 DEF OutBackInv
    <3>2. ~owner.retired
      BY <2>7 DEF OutBack!Superseded
    <3>3. Fenced!Publish
      BY <1>0, <2>1, <2>4, <2>7, <3>1, <3>2, OutBackShows DEF Fenced!Publish, IsOver
    <3> QED
      BY <2>5, <3>3 DEF Fenced!Next
  <2> QED
    BY <2>3, <2>6, <2>7
<1>3. ASSUME NEW c \in Callers, OutBack!Leave(c)
      PROVE  OutBackInv' /\ Fenced!Next
  <2>1. At(c, "leaving") /\ family' = family /\ trace' = trace /\ Returns(c)
    BY <1>3 DEF OutBack!Leave, OutBack!At, OutBack!Returns, OutBack!NoCall, NoCall, At, Returns
  <2>2. /\ DOMAIN owner' = DOMAIN owner /\ owner'.busy = FALSE
        /\ owner'.generation = owner.generation
        /\ owner'.recordGeneration = owner.recordGeneration
        /\ OutBackShown(owner') = OutBackShown(owner)
    BY <1>0, <1>3 DEF OutBack!Leave, OutBackShown
  <2>3. Exclusively' /\ \A d \in Callers : Idle(d)'
    BY <1>0, <2>1, <2>2, CallLeaves
  <2>4. OutBackInv'
    BY <1>0, <2>1, <2>2, <2>3 DEF OutBackInv, OutBackShown, At, Idle
  <2>5. Fenced!Fence
    BY <1>0, <2>1, <2>2, OutBackShows DEF OutBackShown, Fenced!Fence, Fenced!Keeps
  <2> QED
    BY <2>4, <2>5 DEF Fenced!Next
<1>4. ASSUME OutBack!Replace \/ OutBack!Retire
      PROVE  OutBackInv' /\ Fenced!Next
  <2>1. /\ family' = family /\ calls' = calls /\ TraceGrows
        /\ trace'.begun = trace.begun /\ trace.over \subseteq trace'.over
        /\ DOMAIN owner' = DOMAIN owner /\ owner'.busy = owner.busy
        /\ owner'.record = owner.record /\ owner'.recordGeneration = owner.recordGeneration
        /\ owner'.generation \in Int /\ owner'.retired = trace'.retired
        /\ trace.retired => trace'.retired
        /\ \/ owner'.retired /\ owner'.generation = owner.generation
           \/ owner'.generation = owner.generation + 1
    <3>1. CASE OutBack!Replace
      <4>1. PICK source, E :
               /\ owner' = [owner EXCEPT !.generation = @ + 1, !.source = source, !.status = "idle"]
               /\ trace' = [trace EXCEPT !.over = 1 .. trace.begun, !.ended = E]
        BY <3>1 DEF OutBack!Replace, OutBack!AllBegun
      <4>2. /\ DOMAIN owner' = DOMAIN owner /\ owner'.busy = owner.busy
            /\ owner'.record = owner.record /\ owner'.recordGeneration = owner.recordGeneration
            /\ owner'.generation = owner.generation + 1 /\ owner'.retired = owner.retired
        BY <1>0, <4>1
      <4>3. /\ trace'.begun = trace.begun /\ trace'.over = 1 .. trace.begun
            /\ trace'.retired = trace.retired /\ TraceGrows
        BY <1>0, <4>1 DEF TraceGrows, TraceFields
      <4>4. family' = family /\ calls' = calls
        BY <3>1 DEF OutBack!Replace
      <4> QED
        BY <1>0, <4>2, <4>3, <4>4
    <3>2. CASE OutBack!Retire
      <4>1. PICK E : trace' = [trace EXCEPT !.over = 1 .. trace.begun, !.ended = E, !.retired = TRUE]
        BY <3>2 DEF OutBack!Retire, OutBack!AllBegun
      <4> QED
        BY <1>0, <3>2, <4>1 DEF OutBack!Retire, TraceGrows, TraceFields
    <3> QED
      BY <1>4, <3>1, <3>2
  <2>2. Exclusively'
    BY <1>0, <2>1, CallsStay
  <2>3. \A c \in Callers : At(c, "supplier")' =>
          /\ calls'[c].frozen <= owner'.generation
          /\ OutBack!Superseded(c)'
    BY <1>0, <2>1 DEF OutBackInv, At, Common, CallsTyped, IsCall, OutBack!Superseded
  <2>4. OutBackInv'
    BY <1>0, <2>1, <2>2, <2>3 DEF OutBackInv
  <2>5. Fenced!Fence
    BY <1>0, <2>1, OutBackShows DEF Fenced!Fence, Fenced!Keeps
  <2> QED
    BY <2>4, <2>5 DEF Fenced!Next
<1>5. ASSUME OutBack!ContextEnds({"supplier"})
      PROVE  OutBackInv' /\ Fenced!Next
  <2>1. ContextEnds({"supplier"})
    BY <1>5 DEF OutBack!ContextEnds, OutBack!EndedAt, OutBack!InFlight, OutBack!AllBegun,
                ContextEnds, EndedAt, InFlight, AllBegun
  <2>2. /\ UNCHANGED <<family, owner, calls>> /\ TraceGrows
        /\ trace'.begun = trace.begun /\ trace'.retired = trace.retired
        /\ trace.over \subseteq trace'.over /\ trace.ended \subseteq trace'.ended
        /\ \A c \in Callers : IsOver(c)' => IsOver(c) \/ HasEnded(c)'
    BY <1>0, <2>1, ContextEndsStep
  <2>3. Exclusively'
    BY <1>0, <2>2, CallsStay
  <2>4. OutBackInv'
    BY <2>2, <2>3 DEF OutBackInv, At, HasEnded, Ended, OutBack!Superseded
  <2>5. Fenced!Fence
    BY <1>0, <2>2, OutBackShows DEF Fenced!Fence, Fenced!Keeps
  <2> QED
    BY <2>4, <2>5 DEF Fenced!Next
<1> QED
  BY <1>1, <1>2, <1>3, <1>4, <1>5 DEF OutBack!Next, OutBack!Call

-----------------------------------------------------------------------------
(* Fronius                                                                 *)

LEMMA FroniusShows ==
  ASSUME family = "fronius", family' = family
  PROVE  /\ Record = owner.envelope /\ Record' = owner'.envelope
         /\ Usable <=> owner.envelope # 0 /\ owner.outcome = "succeeded"
         /\ Usable' <=> owner'.envelope # 0 /\ owner'.outcome = "succeeded"
  BY DEF Record, Usable, Fronius!Record, Fronius!Usable

(* The cycle of a token closes and the record is kept.                     *)
FroniusCloses(token) ==
  /\ DOMAIN owner' = DOMAIN owner /\ owner'.retired = owner.retired
  /\ owner'.envelope = owner.envelope
  /\ owner'.outcome = "succeeded" => owner.outcome = "succeeded"
  /\ (owner'.active = owner.active /\ owner.active # token) \/ owner'.active = 0

LEMMA FroniusClosed ==
  ASSUME FroniusInv, NEW token, NEW outcome, outcome # "succeeded",
         owner' = Fronius!Closed(token, outcome)
  PROVE  FroniusCloses(token)
<1>1. CASE owner.active # token
  BY <1>1 DEF Fronius!Closed, FroniusCloses
<1>2. CASE owner.active = token
  BY <1>2 DEF Fronius!Closed, FroniusCloses, FroniusInv
<1> QED
  BY <1>1, <1>2

LEMMA FroniusStep ==
  ASSUME FroniusInv, Fronius!Next
  PROVE  FroniusInv' /\ Fenced!Next
<1>0. /\ Common /\ CallsTyped /\ family = "fronius"
      /\ trace.begun \in Nat /\ trace.over \subseteq 1 .. trace.begun
      /\ DOMAIN trace = TraceFields /\ trace.retired \in BOOLEAN
      /\ DOMAIN owner = {"retired", "active", "key", "envelope", "latest", "outcome"}
      /\ owner.active \in 0 .. trace.begun /\ owner.retired = trace.retired
      /\ owner.retired => owner.active = 0
  BY DEF FroniusInv, Common, AllBegun
(* The start of Begin keeps the envelope or drops it, and is not usable.   *)
<1>a. ASSUME NEW key, NEW o, o = Fronius!Fenced(key) \/ o = [Fronius!Fenced(key) EXCEPT !.envelope = 0]
      PROVE  /\ DOMAIN o = DOMAIN owner /\ o.retired = owner.retired /\ o.active = 0
             /\ o.outcome = "failed" /\ o.envelope \in {owner.envelope, 0}
  BY <1>0, <1>a DEF Fronius!Fenced
<1>1. ASSUME NEW key \in Fronius!Keys, Fronius!RunRefused(key)
      PROVE  FroniusInv' /\ Fenced!Next
  <2>1. /\ family' = family /\ calls' = calls /\ ~owner.retired
        /\ trace'.begun = trace.begun /\ trace.over \subseteq trace'.over
        /\ trace'.retired = trace.retired /\ TraceGrows
    BY <1>0, <1>1 DEF Fronius!RunRefused, Fronius!CheckLifetime, Fronius!Over, Fronius!AllBegun,
                TraceGrows, TraceFields
  <2>2. owner' = Fronius!Fenced(key) \/ owner' = [Fronius!Fenced(key) EXCEPT !.envelope = 0]
    BY <1>1 DEF Fronius!RunRefused
  <2>3. /\ DOMAIN owner' = DOMAIN owner /\ owner'.retired = owner.retired /\ owner'.active = 0
        /\ owner'.outcome = "failed" /\ owner'.envelope \in {owner.envelope, 0}
    <3>1. PICK o : o = owner'
      OBVIOUS
    <3> QED
      BY <1>a, <2>2, <3>1
  <2>4. Common'
    BY <1>0, <2>1, CommonStays
  <2>5. FroniusInv'
    BY <1>0, <2>1, <2>3, <2>4 DEF FroniusInv, Common, AllBegun, At, Idle
  <2>6. Fenced!Fence
    BY <1>0, <2>1, <2>3, FroniusShows DEF Fenced!Fence, Fenced!Keeps, Fenced!Drops
  <2> QED
    BY <2>5, <2>6 DEF Fenced!Next
<1>2. ASSUME NEW c \in Callers, NEW key \in Fronius!Keys, Fronius!Run(c, key)
      PROVE  FroniusInv' /\ Fenced!Next
  <2>1. PICK S \in {1 .. trace.begun, (1 .. trace.begun) \cup {trace.begun + 1}} :
          trace' = [trace EXCEPT !.begun = @ + 1, !.over = @ \cup S]
    BY <1>2 DEF Fronius!Run, Fronius!Begun, Fronius!AllBegun, Fronius!NextAttempt
  <2>2. /\ family' = family /\ ~owner.retired /\ Idle(c)
        /\ trace'.begun = trace.begun + 1 /\ trace'.over = trace.over \cup S
        /\ trace'.retired = trace.retired /\ TraceGrows
    BY <1>0, <1>2, <2>1 DEF Fronius!Run, Fronius!CheckLifetime, Fronius!Idle, Idle, TraceGrows, TraceFields
  <2>3. PICK o : o = Fronius!Fenced(key)
    OBVIOUS
  <2>4. /\ DOMAIN o = DOMAIN owner /\ o.retired = owner.retired /\ o.active = 0
        /\ o.outcome = "failed" /\ o.envelope \in {owner.envelope, 0}
    BY <1>a, <2>3
  <2>5. CASE /\ owner' = [Fronius!Fenced(key) EXCEPT !.active = Fronius!NextAttempt,
                            !.latest = Fronius!NextAttempt, !.outcome = "pending"]
             /\ calls' = [calls EXCEPT ![c].pc = "supplier", ![c].attempt = Fronius!NextAttempt]
             /\ Fronius!Begun(Fronius!AllBegun)
    <3>1. owner' = [o EXCEPT !.active = trace.begun + 1, !.latest = trace.begun + 1,
                             !.outcome = "pending"]
      BY <2>3, <2>5 DEF Fronius!NextAttempt
    <3>2. /\ DOMAIN owner' = DOMAIN owner /\ owner'.retired = owner.retired
          /\ owner'.active = trace.begun + 1 /\ owner'.outcome = "pending"
          /\ owner'.envelope \in {owner.envelope, 0}
      BY <1>0, <2>4, <3>1
    <3>3. trace'.over \subseteq 1 .. trace.begun
      BY <1>0, <2>5 DEF Fronius!Begun, Fronius!AllBegun, TraceFields
    <3>4. CallIsReserved(c, "supplier")
      BY <2>5 DEF CallIsReserved, Fronius!NextAttempt
    <3>5. /\ OneCallMoves(c) /\ \A d \in Callers : d # c => calls'[d] = calls[d]
          /\ calls'[c].attempt = trace.begun + 1
      BY <1>0, <2>2, <3>4, ReservedIsBegun, CallBegins
    <3>6. Common'
      BY <1>0, <2>2, <3>5, CommonHolds
    <3>7. \A d \in Callers : At(d, "supplier")' /\ owner'.active = calls'[d].attempt => ~IsOver(d)'
      BY <1>0, <3>2, <3>3 DEF IsOver
    <3>8. FroniusInv'
      BY <1>0, <2>2, <3>2, <3>6, <3>7 DEF FroniusInv
    <3>9. Fenced!Begin
      BY <1>0, <2>2, <3>2, FroniusShows DEF Fenced!Begin, Fenced!Keeps, Fenced!Drops
    <3> QED
      BY <3>8, <3>9 DEF Fenced!Next
  <2>6. CASE /\ owner' = [Fronius!Fenced(key) EXCEPT !.latest = Fronius!NextAttempt]
             /\ UNCHANGED calls
    <3>1. owner' = [o EXCEPT !.latest = Fronius!NextAttempt] /\ calls' = calls
      BY <2>3, <2>6
    <3>2. /\ DOMAIN owner' = DOMAIN owner /\ owner'.retired = owner.retired
          /\ owner'.active = 0 /\ owner'.outcome = "failed"
          /\ owner'.envelope \in {owner.envelope, 0}
      BY <1>0, <2>4, <3>1
    <3>3. Common'
      BY <1>0, <2>2, <3>1, CommonStays
    <3>4. \A d \in Callers : At(d, "supplier")' => calls'[d].attempt # 0
      BY <3>3 DEF Common, AllBegun, At, Idle
    <3>5. FroniusInv'
      BY <1>0, <2>2, <3>2, <3>3, <3>4 DEF FroniusInv
    <3>6. Fenced!Begin
      BY <1>0, <2>2, <3>2, FroniusShows DEF Fenced!Begin, Fenced!Keeps, Fenced!Drops
    <3> QED
      BY <3>5, <3>6 DEF Fenced!Next
  <2> QED
    BY <1>2, <2>5, <2>6 DEF Fronius!Run
<1>3. ASSUME NEW c \in Callers, Fronius!RunReturns(c) \/ Fronius!RunPanics(c)
      PROVE  FroniusInv' /\ Fenced!Next
  <2>1. /\ At(c, "supplier") /\ ~Idle(c) /\ family' = family /\ Returns(c)
        /\ trace' = [trace EXCEPT !.over = @ \cup {calls[c].attempt}]
    BY <1>3 DEF Fronius!RunReturns, Fronius!RunPanics, Fronius!At, Fronius!Returns, Fronius!NoCall,
                Fronius!Over, NoCall, Returns, At, Idle
  <2>2. /\ trace'.begun = trace.begun /\ trace'.over = trace.over \cup {calls[c].attempt}
        /\ trace'.retired = trace.retired /\ trace'.ended = trace.ended /\ TraceGrows
        /\ calls[c].attempt \in 1 .. trace.begun
    <3>1. calls[c].attempt \in 1 .. trace.begun
      BY <1>0, <2>1 DEF Common, AllBegun
    <3> QED
      BY <1>0, <2>1, <3>1 DEF TraceGrows, TraceFields
  <2>3. /\ OneCallMoves(c) /\ calls'[c].pc = "idle"
        /\ \A d \in Callers : d # c => calls'[d] = calls[d]
    BY <1>0, <2>1, CallReturns
  <2>4. Common'
    BY <1>0, <2>2, <2>3, CommonHolds
  <2>5. \/ owner' = owner
        \/ \E outcome \in {"cancelled", "failed"} : owner' = Fronius!Closed(calls[c].attempt, outcome)
        \/ Fronius!Commit(calls[c].attempt)
    BY <1>3 DEF Fronius!RunReturns, Fronius!RunPanics
  (* Other calls have other attempts.                                      *)
  <2>6. ASSUME DOMAIN owner' = DOMAIN owner, owner'.retired = owner.retired,
               owner'.active = owner.active \/ owner'.active = 0
        PROVE  FroniusInv'
    <3>1. ASSUME NEW d \in Callers, At(d, "supplier")', owner'.active = calls'[d].attempt,
                 IsOver(d)'
          PROVE  HasEnded(d)'
      <4>1. d # c /\ calls'[d] = calls[d]
        BY <2>3, <3>1 DEF At
      <4>2. At(d, "supplier") /\ ~Idle(d) /\ calls[d].attempt # calls[c].attempt
        BY <1>0, <2>1, <3>1, <4>1 DEF Common, At, Idle
      <4>3. calls[d].attempt # 0
        BY <4>2, <1>0 DEF Common, AllBegun
      <4>4. owner.active = calls[d].attempt /\ IsOver(d)
        BY <2>2, <2>6, <3>1, <4>1, <4>2, <4>3 DEF IsOver
      <4> QED
        BY <2>2, <4>1, <4>2, <4>4 DEF FroniusInv, HasEnded, Ended
    <3> QED
      BY <1>0, <2>1, <2>2, <2>4, <2>6, <3>1 DEF FroniusInv
  <2>7. CASE owner' = owner
    <3>1. Fenced!Fence
      BY <1>0, <2>1, <2>2, <2>7, FroniusShows DEF Fenced!Fence, Fenced!Keeps
    <3> QED
      BY <2>6, <2>7, <3>1 DEF Fenced!Next
  <2>8. CASE \E outcome \in {"cancelled", "failed"} : owner' = Fronius!Closed(calls[c].attempt, outcome)
    <3>1. FroniusCloses(calls[c].attempt)
      BY <2>8, FroniusClosed
    <3>2. FroniusInv'
      BY <2>6, <3>1 DEF FroniusCloses
    <3>3. Fenced!Fence
      BY <1>0, <2>1, <2>2, <3>1, FroniusShows DEF FroniusCloses, Fenced!Fence, Fenced!Keeps
    <3> QED
      BY <3>2, <3>3 DEF Fenced!Next
  <2>9. CASE Fronius!Commit(calls[c].attempt)
    <3>1. /\ owner.active = calls[c].attempt /\ ~HasEnded(c)
          /\ DOMAIN owner' = DOMAIN owner /\ owner'.retired = owner.retired
          /\ owner'.active = 0 /\ owner'.envelope = calls[c].attempt
      BY <1>0, <2>9 DEF Fronius!Commit, Fronius!Ended, HasEnded, Ended
    <3>2. ~owner.retired
      BY <1>0, <2>2, <3>1
    <3>3. ~IsOver(c)
      BY <2>1, <3>1 DEF FroniusInv
    <3>4. FroniusInv'
      BY <2>6, <3>1
    <3>5. Fenced!Publish
      BY <1>0, <2>1, <2>2, <3>1, <3>2, <3>3, FroniusShows DEF Fenced!Publish, IsOver
    <3> QED
      BY <3>4, <3>5 DEF Fenced!Next
  <2> QED
    BY <2>5, <2>7, <2>8, <2>9
(* The cycle of the active token is closed from outside.                   *)
<1>4. ASSUME \/ \E token \in Fronius!AllBegun : Fronius!CancelRun(token)
             \/ Fronius!Retire \/ Fronius!View
      PROVE  FroniusInv' /\ Fenced!Next
  <2> DEFINE Closing ==
        /\ family' = family /\ calls' = calls /\ trace'.begun = trace.begun
        /\ trace.over \subseteq trace'.over /\ TraceGrows
        /\ trace.retired => trace'.retired
        /\ DOMAIN owner' = DOMAIN owner /\ owner'.retired = trace'.retired
        /\ owner'.envelope = owner.envelope /\ owner'.active = 0
        /\ owner'.outcome = "succeeded" => owner.outcome = "succeeded"
  <2>1. Closing
    <3>1. ASSUME NEW token \in Fronius!AllBegun, Fronius!CancelRun(token)
          PROVE  Closing
      <4>1. token \in 1 .. trace.begun /\ owner.active = token
        BY <3>1 DEF Fronius!CancelRun, Fronius!AllBegun
      <4>2. trace' = [trace EXCEPT !.over = @ \cup {token}]
        BY <3>1 DEF Fronius!CancelRun, Fronius!Over
      <4>3. FroniusCloses(token)
        BY <3>1, FroniusClosed DEF Fronius!CancelRun
      <4> QED
        BY <1>0, <3>1, <4>1, <4>2, <4>3 DEF Fronius!CancelRun, FroniusCloses, TraceGrows, TraceFields
    <3>2. CASE Fronius!View
      <4>1. owner.active \in 1 .. trace.begun
        BY <1>0, <3>2 DEF Fronius!View
      <4>2. trace' = [trace EXCEPT !.over = @ \cup {owner.active}]
        BY <3>2 DEF Fronius!View, Fronius!Over
      <4>3. FroniusCloses(owner.active)
        BY <3>2, FroniusClosed DEF Fronius!View
      <4> QED
        BY <1>0, <3>2, <4>1, <4>2, <4>3 DEF Fronius!View, FroniusCloses, TraceGrows, TraceFields
    <3>3. CASE Fronius!Retire
      <4>1. trace' = [trace EXCEPT !.over = 1 .. trace.begun, !.retired = TRUE]
        BY <3>3 DEF Fronius!Retire, Fronius!Retired, Fronius!AllBegun
      <4>2. /\ DOMAIN owner' = DOMAIN owner /\ owner'.retired = TRUE
            /\ owner'.envelope = owner.envelope /\ owner'.active = 0
            /\ owner'.outcome = "succeeded" => owner.outcome = "succeeded"
        BY <1>0, <3>3 DEF Fronius!Retire, Fronius!Closed
      <4> QED
        BY <1>0, <3>3, <4>1, <4>2 DEF Fronius!Retire, TraceGrows, TraceFields
    <3> QED
      BY <1>4, <3>1, <3>2, <3>3
  <2>2. Common'
    BY <1>0, <2>1, CommonStays
  <2>3. \A d \in Callers : At(d, "supplier")' => calls'[d].attempt # 0
    BY <2>2 DEF Common, AllBegun, At, Idle
  <2>4. FroniusInv'
    BY <1>0, <2>1, <2>2, <2>3 DEF FroniusInv
  <2>5. Fenced!Fence
    BY <1>0, <2>1, FroniusShows DEF Fenced!Fence, Fenced!Keeps
  <2> QED
    BY <2>4, <2>5 DEF Fenced!Next
<1>5. ASSUME Fronius!ContextEnds({"supplier"})
      PROVE  FroniusInv' /\ Fenced!Next
  <2>1. ContextEnds({"supplier"})
    BY <1>5 DEF Fronius!ContextEnds, Fronius!EndedAt, Fronius!InFlight, Fronius!AllBegun,
                ContextEnds, EndedAt, InFlight, AllBegun
  <2>2. /\ UNCHANGED <<family, owner, calls>> /\ TraceGrows
        /\ trace'.begun = trace.begun /\ trace'.retired = trace.retired
        /\ trace.over \subseteq trace'.over /\ trace.ended \subseteq trace'.ended
        /\ \A c \in Callers : IsOver(c)' => IsOver(c) \/ HasEnded(c)'
    BY <1>0, <2>1, ContextEndsStep
  <2>3. Common'
    BY <1>0, <2>2, CommonStays
  <2>4. FroniusInv'
    BY <2>2, <2>3 DEF FroniusInv, At, HasEnded, Ended
  <2>5. Fenced!Fence
    BY <1>0, <2>2, FroniusShows DEF Fenced!Fence, Fenced!Keeps
  <2> QED
    BY <2>4, <2>5 DEF Fenced!Next
<1> QED
  BY <1>1, <1>2, <1>3, <1>4, <1>5 DEF Fronius!Next

-----------------------------------------------------------------------------
(* SmartLogger                                                             *)

SmartloggerFields ==
  {"busy", "closed", "locked", "shut", "generation", "active", "last", "lastGeneration",
   "results"}

(* What is shown, and what the invariant says of the owner.                *)
SmartloggerShown(o) == <<o.last, o.shut, o.lastGeneration, o.generation>>
SmartloggerGates(o) == <<o.closed, o.locked, o.shut, o.generation>>

LEMMA SmartloggerShows ==
  ASSUME family = "smartlogger", family' = family
  PROVE  /\ Record = owner.last /\ Record' = owner'.last
         /\ Usable <=> /\ owner.last # 0 /\ ~owner.shut
                       /\ owner.lastGeneration = owner.generation
         /\ Usable' <=> /\ owner'.last # 0 /\ ~owner'.shut
                        /\ owner'.lastGeneration = owner'.generation
  BY DEF Record, Usable, Smartlogger!Record, Smartlogger!Usable

LEMMA SmartloggerFinished ==
  ASSUME DOMAIN owner = SmartloggerFields, NEW a, NEW outcome, NEW o,
         o = Smartlogger!Finished(owner, a, outcome)
  PROVE  /\ DOMAIN o = SmartloggerFields /\ o.busy = owner.busy
         /\ SmartloggerGates(o) = SmartloggerGates(owner)
         /\ SmartloggerShown(o) = SmartloggerShown(owner)
<1>1. CASE a = 0 \/ owner.results[a] # "none"
  BY <1>1 DEF Smartlogger!Finished
<1>2. CASE ~(a = 0 \/ owner.results[a] # "none")
  <2>1. PICK results, active : o = [owner EXCEPT !.results = results, !.active = active]
    BY <1>2 DEF Smartlogger!Finished
  <2> QED
    BY <2>1 DEF SmartloggerFields, SmartloggerGates, SmartloggerShown
<1> QED
  BY <1>1, <1>2

(* A step of one call that neither closes nor replaces anything.           *)
LEMMA SmartloggerCallGoes ==
  ASSUME SmartloggerInv, NEW c \in Callers, family' = family, Exclusively',
         DOMAIN owner' = SmartloggerFields, SmartloggerGates(owner') = SmartloggerGates(owner),
         trace'.retired = trace.retired,
         owner'.lastGeneration \in Int, owner'.lastGeneration <= owner.generation,
         \A d \in Callers : d # c => Idle(d)', SmartloggerCall(c)'
  PROVE  SmartloggerInv'
<1>1. \A d \in Callers : Idle(d)' => SmartloggerCall(d)'
  BY DEF SmartloggerCall, At, Idle
<1>2. \A d \in Callers : SmartloggerCall(d)'
  BY <1>1
<1> QED
  BY <1>2 DEF SmartloggerInv, SmartloggerGates, SmartloggerFields, Exclusively

LEMMA SmartloggerCallStep ==
  ASSUME SmartloggerInv, NEW c \in Callers,
         \/ Smartlogger!Refresh(c) \/ Smartlogger!Call(c) \/ Smartlogger!ReaderPanics(c)
  PROVE  SmartloggerInv' /\ Fenced!Next
<1>0. /\ Exclusively /\ CallsTyped /\ family = "smartlogger"
      /\ trace.begun \in Nat /\ trace.over \subseteq 1 .. trace.begun
      /\ DOMAIN trace = TraceFields /\ trace.retired \in BOOLEAN
      /\ DOMAIN owner = SmartloggerFields
      /\ owner.generation \in Int /\ owner.lastGeneration \in Int
      /\ owner.lastGeneration <= owner.generation
      /\ owner.closed = trace.retired /\ owner.shut = owner.closed
      /\ owner.locked \/ owner.closed \/ owner.generation = Smartlogger!BuiltFor
      /\ SmartloggerCall(c)
  BY DEF SmartloggerInv, SmartloggerFields, Common, AllBegun, Exclusively
<1>1. CASE Smartlogger!Refresh(c)
  <2>1. /\ ~owner.closed /\ ~owner.busy /\ family' = family /\ Begun({})
        /\ CallIsReserved(c, "reserved")
    BY <1>1 DEF Smartlogger!Refresh, Smartlogger!NextAttempt, Smartlogger!Begun,
                CallIsReserved, Begun
  <2>2. /\ DOMAIN owner' = SmartloggerFields /\ owner'.busy = TRUE
        /\ SmartloggerGates(owner') = SmartloggerGates(owner)
        /\ SmartloggerShown(owner') = SmartloggerShown(owner)
    BY <1>0, <1>1 DEF Smartlogger!Refresh, SmartloggerFields, SmartloggerGates, SmartloggerShown
  <2>3. CallIsBegun(c, "reserved", calls[c].frozen) /\ calls[c].frozen \in Int
    BY <1>0, <2>1, ReservedIsBegun
  <2>4. /\ Exclusively' /\ ~IsOver(c)' /\ \A d \in Callers : ~Idle(d)' => d = c
        /\ calls'[c].pc = "reserved"
        /\ trace'.begun = trace.begun + 1 /\ trace'.over = trace.over
        /\ trace'.retired = trace.retired
    BY <1>0, <2>1, <2>2, <2>3, CallEnters
  <2>5. SmartloggerCall(c)'
    BY <2>4 DEF SmartloggerCall, At
  <2>6. SmartloggerInv'
    BY <1>0, <2>1, <2>2, <2>4, <2>5, SmartloggerCallGoes DEF SmartloggerShown
  <2>7. Fenced!Begin
    BY <1>0, <2>1, <2>2, <2>4, SmartloggerShows DEF SmartloggerShown, Fenced!Begin, Fenced!Keeps
  <2> QED
    BY <2>6, <2>7 DEF Fenced!Next
<1>2. CASE Smartlogger!BeginRefused(c) \/ Smartlogger!ReaderPanics(c)
  <2>1. /\ ~Idle(c) /\ family' = family /\ owner' = owner
        /\ Goes(c, "leaving") /\ Over({calls[c].attempt})
    BY <1>2 DEF Smartlogger!BeginRefused, Smartlogger!ReaderPanics, Smartlogger!At,
                Smartlogger!Goes, Smartlogger!Over, Idle, Goes, Over
  <2>2. /\ Exclusively' /\ \A d \in Callers : Idle(d)' \/ At(d, "leaving")'
        /\ trace'.begun = trace.begun /\ trace'.over = trace.over \cup {calls[c].attempt}
        /\ trace'.retired = trace.retired
    BY <1>0, <2>1, CallIsOver
  <2>3. \A d \in Callers : SmartloggerCall(d)'
    BY <2>2 DEF SmartloggerCall, At, Idle
  <2>4. SmartloggerInv'
    BY <1>0, <2>1, <2>2, <2>3 DEF SmartloggerInv, Exclusively, SmartloggerFields
  <2>5. Fenced!Fence
    BY <1>0, <2>1, <2>2, SmartloggerShows DEF Fenced!Fence, Fenced!Keeps
  <2> QED
    BY <2>4, <2>5 DEF Fenced!Next
(* Begin, and the reader: the call goes on, the trace stays.               *)
<1>3. CASE \/ Smartlogger!BeginAttempt(c) \/ Smartlogger!EnterReader(c)
           \/ Smartlogger!ReaderReturns(c)
  <2>1. /\ ~Idle(c) /\ family' = family /\ trace' = trace
    BY <1>3 DEF Smartlogger!BeginAttempt, Smartlogger!EnterReader, Smartlogger!ReaderReturns,
                Smartlogger!At, Idle
  <2>2. /\ DOMAIN owner' = SmartloggerFields /\ owner'.busy = owner.busy
        /\ SmartloggerGates(owner') = SmartloggerGates(owner)
        /\ SmartloggerShown(owner') = SmartloggerShown(owner)
    BY <1>0, <1>3 DEF Smartlogger!BeginAttempt, Smartlogger!EnterReader, Smartlogger!ReaderReturns,
                SmartloggerFields, SmartloggerGates, SmartloggerShown
  <2>3. TraceGrows
    BY <1>0, <2>1 DEF TraceGrows
  <2>4. /\ OneCallMoves(c) /\ \A d \in Callers : d # c => calls'[d] = calls[d]
        /\ ~Idle(c)' /\ SmartloggerCall(c)'
    <3>1. CASE Smartlogger!BeginAttempt(c)
      <4>1. /\ At(c, "reserved") /\ ~HasEnded(c) /\ ~owner.shut
            /\ CallFreezes(c, "begun", owner.generation)
        BY <3>1 DEF Smartlogger!BeginAttempt, Smartlogger!At, Smartlogger!Ended, At, HasEnded,
                    Ended, CallFreezes
      <4>2. /\ OneCallMoves(c) /\ \A d \in Callers : d # c => calls'[d] = calls[d]
            /\ calls'[c].pc = "begun" /\ calls'[c].frozen = owner.generation
            /\ calls'[c].attempt = calls[c].attempt
        BY <1>0, <2>1, <4>1, CallIsFrozen
      <4>3. IsOver(c)' => owner.locked
        BY <1>0, <2>1, <4>1, <4>2 DEF SmartloggerCall, IsOver
      <4> QED
        BY <1>0, <2>2, <4>2, <4>3 DEF SmartloggerCall, SmartloggerGates, At, Idle
    <3>2. CASE Smartlogger!EnterReader(c) /\ owner.closed
      <4>1. At(c, "begun") /\ CallAnswers(c, "answered", "failed")
        BY <3>2 DEF Smartlogger!EnterReader, Smartlogger!At, At, CallAnswers
      <4>2. /\ OneCallMoves(c) /\ \A d \in Callers : d # c => calls'[d] = calls[d]
            /\ calls'[c].pc = "answered" /\ calls'[c].frozen = calls[c].frozen
            /\ calls'[c].result = "failed"
        BY <1>0, <2>1, <4>1, CallIsAnswered
      <4> QED
        BY <1>0, <2>2, <4>1, <4>2 DEF SmartloggerCall, SmartloggerGates, At, Idle
    <3>3. CASE Smartlogger!EnterReader(c) /\ ~owner.closed
      <4>1. At(c, "begun") /\ ~owner.locked /\ Goes(c, "supplier")
        BY <3>3 DEF Smartlogger!EnterReader, Smartlogger!At, At, Goes
      <4>2. /\ OneCallMoves(c) /\ \A d \in Callers : d # c => calls'[d] = calls[d]
            /\ calls'[c].pc = "supplier" /\ calls'[c].frozen = calls[c].frozen
            /\ calls'[c].attempt = calls[c].attempt
        BY <1>0, <2>1, <4>1, CallGoes
      <4> QED
        BY <1>0, <2>1, <2>2, <3>3, <4>1, <4>2 DEF SmartloggerCall, SmartloggerGates, At, Idle,
           IsOver, HasEnded, Ended
    <3>4. CASE Smartlogger!ReaderReturns(c)
      <4>1. PICK result : /\ result = "complete" => ~HasEnded(c)
                          /\ CallAnswers(c, "answered", result)
        BY <3>4 DEF Smartlogger!ReaderReturns, Smartlogger!Ended, HasEnded, Ended, CallAnswers
      <4>2. At(c, "supplier")
        BY <3>4 DEF Smartlogger!ReaderReturns, Smartlogger!At, At
      <4>3. /\ OneCallMoves(c) /\ \A d \in Callers : d # c => calls'[d] = calls[d]
            /\ calls'[c].pc = "answered" /\ calls'[c].frozen = calls[c].frozen
            /\ calls'[c].result = result /\ calls'[c].attempt = calls[c].attempt
        BY <1>0, <2>1, <4>1, CallIsAnswered
      <4> QED
        BY <1>0, <2>1, <2>2, <4>1, <4>2, <4>3 DEF SmartloggerCall, SmartloggerGates, At, Idle, IsOver
    <3> QED
      BY <1>3, <3>1, <3>2, <3>3, <3>4
  <2>5. Exclusively' /\ \A d \in Callers : d # c => Idle(d)'
    BY <1>0, <2>1, <2>2, <2>3, <2>4, CallMovesOn
  <2>6. SmartloggerInv'
    BY <1>0, <2>1, <2>2, <2>4, <2>5, SmartloggerCallGoes DEF SmartloggerShown
  <2>7. Fenced!Fence
    BY <1>0, <2>1, <2>2, SmartloggerShows DEF SmartloggerShown, Fenced!Fence, Fenced!Keeps
  <2> QED
    BY <2>6, <2>7 DEF Fenced!Next
<1>4. CASE Smartlogger!Finish(c)
  <2>1. /\ At(c, "answered") /\ ~Idle(c) /\ family' = family
        /\ Goes(c, "leaving") /\ Over({calls[c].attempt})
    BY <1>4 DEF Smartlogger!Finish, Smartlogger!At, Smartlogger!Goes, Smartlogger!Over, At, Idle,
                Goes, Over
  <2>2. \/ \E outcome : owner' = Smartlogger!Finished(owner, calls[c].attempt, outcome)
        \/ /\ calls[c].result = "complete" /\ ~owner.shut
           /\ owner.generation = calls[c].frozen
           /\ owner' = [Smartlogger!Finished(owner, calls[c].attempt, "complete") EXCEPT
                          !.last = calls[c].attempt, !.lastGeneration = calls[c].frozen]
    BY <1>4 DEF Smartlogger!Finish
  <2>3. CASE \E outcome : owner' = Smartlogger!Finished(owner, calls[c].attempt, outcome)
    <3>1. PICK outcome, o : /\ o = Smartlogger!Finished(owner, calls[c].attempt, outcome)
                            /\ owner' = o
      BY <2>3
    <3>2. /\ DOMAIN owner' = SmartloggerFields /\ owner'.busy = owner.busy
          /\ SmartloggerGates(owner') = SmartloggerGates(owner)
          /\ SmartloggerShown(owner') = SmartloggerShown(owner)
      BY <1>0, <3>1, SmartloggerFinished
    <3>3. /\ Exclusively' /\ \A d \in Callers : Idle(d)' \/ At(d, "leaving")'
          /\ trace'.begun = trace.begun /\ trace'.over = trace.over \cup {calls[c].attempt}
          /\ trace'.retired = trace.retired
      BY <1>0, <2>1, <3>2, CallIsOver
    <3>4. \A d \in Callers : SmartloggerCall(d)'
      BY <3>3 DEF SmartloggerCall, At, Idle
    <3>5. SmartloggerInv'
      BY <1>0, <2>1, <3>2, <3>3, <3>4 DEF SmartloggerInv, SmartloggerGates, SmartloggerShown,
         SmartloggerFields, Exclusively
    <3>6. Fenced!Fence
      BY <1>0, <2>1, <3>2, <3>3, SmartloggerShows DEF SmartloggerShown, Fenced!Fence, Fenced!Keeps
    <3> QED
      BY <3>5, <3>6 DEF Fenced!Next
  <2>4. CASE /\ calls[c].result = "complete" /\ ~owner.shut
             /\ owner.generation = calls[c].frozen
             /\ owner' = [Smartlogger!Finished(owner, calls[c].attempt, "complete") EXCEPT
                            !.last = calls[c].attempt, !.lastGeneration = calls[c].frozen]
    <3>1. PICK o : o = Smartlogger!Finished(owner, calls[c].attempt, "complete")
      OBVIOUS
    <3>2. /\ DOMAIN o = SmartloggerFields /\ o.busy = owner.busy
          /\ SmartloggerGates(o) = SmartloggerGates(owner)
      BY <1>0, <3>1, SmartloggerFinished
    <3>3. owner' = [o EXCEPT !.last = calls[c].attempt, !.lastGeneration = calls[c].frozen]
      BY <2>4, <3>1
    <3>4. /\ DOMAIN owner' = SmartloggerFields /\ owner'.busy = owner.busy
          /\ SmartloggerGates(owner') = SmartloggerGates(owner)
          /\ owner'.last = calls[c].attempt /\ owner'.lastGeneration = calls[c].frozen
      BY <3>2, <3>3 DEF SmartloggerFields, SmartloggerGates
    <3>5. /\ Exclusively' /\ \A d \in Callers : Idle(d)' \/ At(d, "leaving")'
          /\ trace'.begun = trace.begun /\ trace'.over = trace.over \cup {calls[c].attempt}
          /\ trace'.retired = trace.retired /\ calls[c].attempt \in 1 .. trace.begun
      BY <1>0, <2>1, <3>4, CallIsOver
    <3>6. \A d \in Callers : SmartloggerCall(d)'
      BY <3>5 DEF SmartloggerCall, At, Idle
    <3>7. SmartloggerInv'
      BY <1>0, <2>1, <2>4, <3>4, <3>5, <3>6 DEF SmartloggerInv, SmartloggerGates,
         SmartloggerFields, Exclusively
    <3>8. ~IsOver(c) /\ ~trace.retired
      BY <1>0, <2>1, <2>4 DEF SmartloggerCall
    <3>9. Fenced!Publish
      BY <1>0, <2>1, <3>4, <3>5, <3>8, SmartloggerShows DEF Fenced!Publish, IsOver
    <3> QED
      BY <3>7, <3>9 DEF Fenced!Next
  <2> QED
    BY <2>2, <2>3, <2>4
<1>5. CASE Smartlogger!Leave(c)
  <2>1. At(c, "leaving") /\ family' = family /\ trace' = trace /\ Returns(c)
    BY <1>5 DEF Smartlogger!Leave, Smartlogger!At, Smartlogger!Returns, Smartlogger!NoCall,
                NoCall, At, Returns
  <2>2. /\ DOMAIN owner' = SmartloggerFields /\ owner'.busy = FALSE
        /\ SmartloggerGates(owner') = SmartloggerGates(owner)
        /\ SmartloggerShown(owner') = SmartloggerShown(owner)
    BY <1>0, <1>5 DEF Smartlogger!Leave, SmartloggerFields, SmartloggerGates, SmartloggerShown
  <2>3. Exclusively' /\ \A d \in Callers : Idle(d)'
    BY <1>0, <2>1, <2>2, CallLeaves
  <2>4. \A d \in Callers : SmartloggerCall(d)'
    BY <2>3 DEF SmartloggerCall, At, Idle
  <2>5. SmartloggerInv'
    BY <1>0, <2>1, <2>2, <2>3, <2>4 DEF SmartloggerInv, SmartloggerGates, SmartloggerShown,
       SmartloggerFields, Exclusively
  <2>6. Fenced!Fence
    BY <1>0, <2>1, <2>2, SmartloggerShows DEF SmartloggerShown, Fenced!Fence, Fenced!Keeps
  <2> QED
    BY <2>5, <2>6 DEF Fenced!Next
<1> QED
  BY <1>1, <1>2, <1>3, <1>4, <1>5 DEF Smartlogger!Call

LEMMA SmartloggerStep ==
  ASSUME SmartloggerInv, Smartlogger!Next
  PROVE  SmartloggerInv' /\ Fenced!Next
<1>0. /\ Exclusively /\ CallsTyped /\ family = "smartlogger"
      /\ trace.begun \in Nat /\ trace.over \subseteq 1 .. trace.begun
      /\ DOMAIN trace = TraceFields /\ trace.retired \in BOOLEAN
      /\ DOMAIN owner = SmartloggerFields
      /\ owner.generation \in Int /\ owner.lastGeneration \in Int
      /\ owner.lastGeneration <= owner.generation
      /\ owner.closed = trace.retired /\ owner.shut = owner.closed
      /\ owner.locked \/ owner.closed \/ owner.generation = Smartlogger!BuiltFor
      /\ \A c \in Callers : SmartloggerCall(c) /\ calls[c].frozen \in Int
  BY DEF SmartloggerInv, SmartloggerFields, Common, CallsTyped, IsCall, AllBegun, Exclusively
<1>1. ASSUME Smartlogger!RetireOwner
      PROVE  SmartloggerInv' /\ Fenced!Next
  <2>1. PICK next, o : next \in (owner.generation + 1) .. MaxGeneration /\
          /\ o = Smartlogger!Finished(owner, owner.active, "retired")
          /\ owner' = [o EXCEPT !.generation = next, !.locked = TRUE]
    BY <1>1 DEF Smartlogger!RetireOwner
  <2>2. /\ DOMAIN o = SmartloggerFields /\ o.busy = owner.busy
        /\ SmartloggerGates(o) = SmartloggerGates(owner)
        /\ SmartloggerShown(o) = SmartloggerShown(owner)
    BY <1>0, <2>1, SmartloggerFinished
  <2>3. /\ DOMAIN owner' = SmartloggerFields /\ owner'.busy = owner.busy
        /\ owner'.generation \in Int /\ owner'.generation > owner.generation /\ owner'.locked
        /\ owner'.closed = owner.closed /\ owner'.shut = owner.shut
        /\ owner'.last = owner.last /\ owner'.lastGeneration = owner.lastGeneration
    BY <1>0, <2>1, <2>2 DEF SmartloggerFields, SmartloggerGates, SmartloggerShown
  <2>4. /\ family' = family /\ calls' = calls
        /\ trace' = [trace EXCEPT !.over = @ \cup (1 .. trace.begun)]
    BY <1>1 DEF Smartlogger!RetireOwner, Smartlogger!Over, Smartlogger!AllBegun
  <2>5. /\ trace'.begun = trace.begun /\ trace.over \subseteq trace'.over
        /\ trace'.retired = trace.retired /\ trace'.ended = trace.ended /\ TraceGrows
    BY <1>0, <2>4 DEF TraceGrows, TraceFields
  <2>6. Exclusively'
    BY <1>0, <2>3, <2>4, <2>5, CallsStay
  <2>7. ASSUME NEW c \in Callers
        PROVE  SmartloggerCall(c)'
    <3>1. SmartloggerCall(c) /\ calls'[c] = calls[c] /\ calls[c].frozen \in Int
      BY <1>0, <2>4
    <3>2. calls[c].frozen <= owner.generation =>
            calls[c].frozen <= owner'.generation /\ owner'.generation # calls[c].frozen
      BY <1>0, <2>3, <3>1
    <3> QED
      BY <2>3, <3>1, <3>2 DEF SmartloggerCall, At
  <2>8. SmartloggerInv'
    BY <1>0, <2>3, <2>4, <2>5, <2>6, <2>7 DEF SmartloggerInv, SmartloggerFields, Exclusively
  <2>9. Fenced!Fence
    BY <1>0, <2>3, <2>4, <2>5, SmartloggerShows DEF Fenced!Fence, Fenced!Keeps
  <2> QED
    BY <2>8, <2>9 DEF Fenced!Next
<1>2. ASSUME Smartlogger!RetirePort \/ Smartlogger!ClosePort
      PROVE  SmartloggerInv' /\ Fenced!Next
  <2>1. PICK o : /\ o = Smartlogger!Finished(owner, owner.active, "closed")
                 /\ owner' = [o EXCEPT !.closed = TRUE, !.shut = TRUE, !.locked = FALSE]
    BY <1>2 DEF Smartlogger!RetirePort, Smartlogger!ClosePort, Smartlogger!Shut
  <2>2. /\ DOMAIN o = SmartloggerFields /\ o.busy = owner.busy
        /\ SmartloggerGates(o) = SmartloggerGates(owner)
        /\ SmartloggerShown(o) = SmartloggerShown(owner)
    BY <1>0, <2>1, SmartloggerFinished
  <2>3. /\ DOMAIN owner' = SmartloggerFields /\ owner'.busy = owner.busy
        /\ owner'.generation = owner.generation
        /\ owner'.closed = TRUE /\ owner'.shut = TRUE
        /\ owner'.last = owner.last /\ owner'.lastGeneration = owner.lastGeneration
    BY <1>0, <2>1, <2>2 DEF SmartloggerFields, SmartloggerGates, SmartloggerShown
  <2>4. /\ family' = family /\ calls' = calls
        /\ trace' = [trace EXCEPT !.over = 1 .. trace.begun, !.retired = TRUE]
    BY <1>2 DEF Smartlogger!RetirePort, Smartlogger!ClosePort, Smartlogger!Retired, Smartlogger!AllBegun
  <2>5. /\ trace'.begun = trace.begun /\ trace.over \subseteq trace'.over
        /\ trace'.retired = TRUE /\ TraceGrows
    BY <1>0, <2>4 DEF TraceGrows, TraceFields
  <2>6. Exclusively'
    BY <1>0, <2>3, <2>4, <2>5, CallsStay
  <2>7. \A c \in Callers : SmartloggerCall(c)'
    BY <1>0, <2>3, <2>4 DEF SmartloggerCall, At
  <2>8. SmartloggerInv'
    BY <1>0, <2>3, <2>4, <2>5, <2>6, <2>7 DEF SmartloggerInv, SmartloggerFields, Exclusively
  <2>9. Fenced!Fence
    BY <1>0, <2>3, <2>4, <2>5, SmartloggerShows DEF Fenced!Fence, Fenced!Keeps
  <2> QED
    BY <2>8, <2>9 DEF Fenced!Next
<1>3. ASSUME Smartlogger!ContextEnds({"reserved", "begun", "supplier"})
      PROVE  SmartloggerInv' /\ Fenced!Next
  <2>1. ContextEnds({"reserved", "begun", "supplier"})
    BY <1>3 DEF Smartlogger!ContextEnds, Smartlogger!EndedAt, Smartlogger!InFlight,
                Smartlogger!AllBegun, ContextEnds, EndedAt, InFlight, AllBegun
  <2>2. Common
    BY <1>0 DEF Exclusively
  <2>3. /\ UNCHANGED <<family, owner, calls>> /\ TraceGrows
        /\ trace'.begun = trace.begun /\ trace'.retired = trace.retired
        /\ trace.over \subseteq trace'.over /\ trace.ended \subseteq trace'.ended
        /\ \A c \in Callers : IsOver(c)' =>
             \/ IsOver(c)
             \/ calls[c].pc \in {"reserved", "begun", "supplier"} /\ HasEnded(c)'
    BY <2>1, <2>2, ContextEndsStep
  <2>4. Exclusively'
    BY <1>0, <2>3, CallsStay
  <2>5. \A c \in Callers : SmartloggerCall(c)'
    BY <1>0, <2>3 DEF SmartloggerCall, At, HasEnded, Ended
  <2>6. SmartloggerInv'
    BY <1>0, <2>3, <2>4, <2>5 DEF SmartloggerInv, SmartloggerFields, Exclusively
  <2>7. Fenced!Fence
    BY <1>0, <2>3, SmartloggerShows DEF Fenced!Fence, Fenced!Keeps
  <2> QED
    BY <2>6, <2>7 DEF Fenced!Next
<1> QED
  BY <1>1, <1>2, <1>3, SmartloggerCallStep DEF Smartlogger!Next

-----------------------------------------------------------------------------
(* EMMA                                                                    *)

EmmaFields == {"retired", "parent", "generation", "cancelled", "sequence", "cycle", "latest"}
EmmaResult == {"context", "committed", "retained"}

(* Nothing but the flag of cancellation may have changed, and only to TRUE.*)
EmmaOwnerStays ==
  /\ DOMAIN owner' = EmmaFields /\ owner'.latest = owner.latest
  /\ owner'.parent = owner.parent /\ owner'.generation = owner.generation
  /\ owner'.retired = owner.retired /\ (owner.cancelled => owner'.cancelled)

LEMMA EmmaShows ==
  ASSUME family = "emma", family' = family
  PROVE  /\ Record = owner.latest.retained /\ Record' = owner'.latest.retained
         /\ Usable <=> /\ ~owner.retired /\ ~owner.cancelled /\ owner.latest.committed
                       /\ owner.latest.context = owner.generation
         /\ Usable' <=> /\ ~owner'.retired /\ ~owner'.cancelled /\ owner'.latest.committed
                        /\ owner'.latest.context = owner'.generation
  BY DEF Record, Usable, Emma!Record, Emma!Usable

LEMMA EmmaSampled ==
  ASSUME EmmaInv, NEW c, owner' = Emma!Sampled(c)
  PROVE  EmmaOwnerStays /\ owner'.cycle = owner.cycle
  BY DEF EmmaInv, EmmaFields, EmmaOwnerStays, Emma!Sampled

(* The calls that a step of another call leaves alone.                     *)
LEMMA EmmaOthers ==
  ASSUME EmmaInv, NEW c \in Callers, ~Idle(c), trace'.over \subseteq trace.over \cup {calls[c].attempt},
         \A d \in Callers : d # c => calls'[d] = calls[d],
         owner'.generation = owner.generation, owner'.cycle = owner.cycle,
         owner'.retired = owner.retired
  PROVE  \A d \in Callers : d # c => EmmaCall(d)'
<1> SUFFICES ASSUME NEW d \in Callers, d # c, ~Idle(d)'
             PROVE  EmmaCall(d)'
  BY DEF EmmaCall
<1>1. calls'[d] = calls[d] /\ ~Idle(d)
  BY DEF Idle
<1>2. calls[d].attempt # calls[c].attempt
  BY <1>1 DEF EmmaInv, Common
<1>3. IsOver(d)' => IsOver(d)
  BY <1>1, <1>2 DEF IsOver
<1> QED
  BY <1>1, <1>3 DEF EmmaInv, EmmaCall, Idle, At, Emma!Current

(* A step of one call before it takes the native ticket or after, and the  *)
(* end of a call that publishes nothing.                                   *)
LEMMA EmmaGoes ==
  ASSUME EmmaInv, NEW c \in Callers, ~Idle(c), family' = family, OneCallMoves(c),
         \A d \in Callers : d # c => calls'[d] = calls[d],
         trace'.over \subseteq trace.over \cup {calls[c].attempt}, trace.over \subseteq trace'.over,
         trace'.begun = trace.begun, trace'.retired = trace.retired, TraceGrows,
         EmmaOwnerStays, owner'.cycle = owner.cycle, EmmaCall(c)'
  PROVE  EmmaInv' /\ Fenced!Fence
<1>1. Common'
  BY CommonHolds DEF EmmaInv
<1>2. \A d \in Callers : EmmaCall(d)'
  BY EmmaOthers DEF EmmaOwnerStays
<1>3. EmmaInv'
  BY <1>1, <1>2 DEF EmmaInv, EmmaOwnerStays, EmmaFields
<1>4. Fenced!Fence
  BY EmmaShows DEF EmmaInv, EmmaOwnerStays, Fenced!Fence, Fenced!Keeps
<1> QED
  BY <1>3, <1>4

LEMMA EmmaCallStep ==
  ASSUME EmmaInv, NEW c \in Callers, Emma!Refresh(c) \/ Emma!Call(c) \/ Emma!ReaderPanics(c)
  PROVE  EmmaInv' /\ Fenced!Next
<1>0. /\ Common /\ CallsTyped /\ family = "emma"
      /\ trace.begun \in Nat /\ trace.over \subseteq 1 .. trace.begun
      /\ DOMAIN trace = TraceFields /\ trace.retired \in BOOLEAN
      /\ DOMAIN owner = EmmaFields /\ DOMAIN owner.latest = EmmaResult
      /\ owner.parent \in Int /\ owner.generation \in Nat /\ owner.latest.context \in Int
      /\ owner.latest.context <= owner.generation
      /\ owner.cycle \in 0 .. trace.begun
      /\ owner.retired = trace.retired /\ (owner.retired => owner.cancelled)
      /\ EmmaCall(c) /\ calls[c].frozen \in Int
      /\ ~Idle(c) => calls[c].attempt \in 1 .. trace.begun
  BY DEF EmmaInv, EmmaFields, EmmaResult, Common, CallsTyped, IsCall, AllBegun
<1>1. CASE Emma!Refresh(c)
  <2>1. /\ Idle(c) /\ ~owner.retired /\ family' = family
        /\ trace' = [trace EXCEPT !.begun = @ + 1, !.over = @ \cup {}]
        /\ owner' = [owner EXCEPT !.sequence = Emma!NextAttempt]
    BY <1>1 DEF Emma!Refresh, Emma!Begun, Emma!Idle, Idle
  <2>2. /\ trace'.begun = trace.begun + 1 /\ trace'.over = trace.over
        /\ trace'.retired = trace.retired /\ TraceGrows
    BY <1>0, <2>1 DEF TraceGrows, TraceFields
  <2>3. /\ EmmaOwnerStays /\ owner'.cycle = owner.cycle /\ owner'.cancelled = owner.cancelled
    BY <1>0, <2>1 DEF EmmaFields, EmmaOwnerStays
  <2> DEFINE r == [calls[c] EXCEPT !.pc = "before", !.attempt = trace.begun + 1,
                                   !.frozen = owner.generation, !.ticket = owner.parent]
  <2>4. calls' = [calls EXCEPT ![c] = r]
    BY <1>0, <1>1 DEF Emma!Refresh, Emma!NextAttempt, CallsTyped
  <2>5. IsCall(r) /\ r.pc = "before" /\ r.attempt = trace.begun + 1 /\ r.frozen = owner.generation
    BY <1>0 DEF CallsTyped, IsCall, CallFields
  <2> HIDE DEF r
  <2>6. /\ OneCallMoves(c) /\ \A d \in Callers : d # c => calls'[d] = calls[d]
        /\ calls'[c] = r
    BY <1>0, <2>2, <2>4, <2>5, CallSet DEF OneCallMoves
  <2>7. Common'
    BY <1>0, <2>2, <2>6, CommonHolds
  <2>8. ASSUME NEW d \in Callers
        PROVE  EmmaCall(d)'
    <3>1. CASE d = c
      BY <1>0, <2>2, <2>3, <2>5, <2>6, <3>1 DEF EmmaCall, EmmaOwnerStays, IsOver
    <3>2. CASE d # c
      BY <2>2, <2>3, <2>6, <3>2 DEF EmmaInv, EmmaCall, EmmaOwnerStays, IsOver, Idle, At, Emma!Current
    <3> QED
      BY <3>1, <3>2
  <2>9. EmmaInv'
    BY <1>0, <2>1, <2>2, <2>3, <2>7, <2>8 DEF EmmaInv, EmmaOwnerStays, EmmaFields, EmmaResult
  <2>10. Fenced!Begin
    BY <1>0, <2>1, <2>2, <2>3, EmmaShows DEF EmmaOwnerStays, Fenced!Begin, Fenced!Keeps
  <2> QED
    BY <2>9, <2>10 DEF Fenced!Next
<1>2. CASE Emma!Before(c) \/ Emma!ReaderReturns(c) \/ Emma!After(c)
  <2>1. /\ ~Idle(c) /\ family' = family /\ trace' = trace
        /\ \/ At(c, "before") /\ Goes(c, "preflight")
           \/ At(c, "supplier") /\ \E x : CallAnswers(c, "after", x)
           \/ At(c, "after") /\ \E x : CallAnswers(c, "commit", x)
    BY <1>2 DEF Emma!Before, Emma!ReaderReturns, Emma!After, Emma!At, Emma!Goes, At, Idle, Goes,
                CallAnswers
  <2>2. EmmaOwnerStays /\ owner'.cycle = owner.cycle
    <3>1. owner' = owner \/ owner' = Emma!Sampled(c)
      BY <1>2 DEF Emma!Before, Emma!ReaderReturns, Emma!After
    <3> QED
      BY <1>0, <3>1, EmmaSampled DEF EmmaOwnerStays
  <2>3. /\ OneCallMoves(c) /\ \A d \in Callers : d # c => calls'[d] = calls[d]
        /\ calls'[c].frozen = calls[c].frozen /\ calls'[c].attempt = calls[c].attempt
        /\ \/ At(c, "before") /\ calls'[c].pc = "preflight"
           \/ ~At(c, "before") /\ ~At(c, "preflight") /\ calls'[c].pc \in {"after", "commit"}
    <3>1. CASE At(c, "before") /\ Goes(c, "preflight")
      BY <1>0, <2>1, <3>1, CallGoes
    <3>2. CASE At(c, "supplier") /\ \E x : CallAnswers(c, "after", x)
      BY <1>0, <2>1, <3>2, CallIsAnswered DEF At
    <3>3. CASE At(c, "after") /\ \E x : CallAnswers(c, "commit", x)
      BY <1>0, <2>1, <3>3, CallIsAnswered DEF At
    <3> QED
      BY <2>1, <3>1, <3>2, <3>3
  <2>4. EmmaCall(c)'
    BY <1>0, <2>1, <2>2, <2>3 DEF EmmaCall, EmmaOwnerStays, At, IsOver, Emma!Current
  <2>5. TraceGrows
    BY <1>0, <2>1 DEF TraceGrows
  <2> QED
    BY <1>0, <2>1, <2>2, <2>3, <2>4, <2>5, EmmaGoes DEF Fenced!Next
<1>3. CASE Emma!PreflightRefuses(c) \/ Emma!ReaderPanics(c)
  <2>1. /\ ~Idle(c) /\ family' = family /\ Returns(c) /\ owner' = owner
        /\ trace' = [trace EXCEPT !.over = @ \cup {calls[c].attempt},
                                  !.ended = @ \ {calls[c].attempt}]
    BY <1>3 DEF Emma!PreflightRefuses, Emma!ReaderPanics, Emma!At, Emma!Returns, Emma!NoCall,
                Emma!Done, Idle, Returns, NoCall
  <2>2. /\ trace'.begun = trace.begun /\ trace'.over = trace.over \cup {calls[c].attempt}
        /\ trace'.retired = trace.retired /\ TraceGrows
    BY <1>0, <2>1 DEF TraceGrows, TraceFields
  <2>3. /\ OneCallMoves(c) /\ \A d \in Callers : d # c => calls'[d] = calls[d]
        /\ EmmaCall(c)'
    BY <1>0, <2>1, CallReturns DEF EmmaCall, Idle
  <2>4. EmmaOwnerStays /\ owner'.cycle = owner.cycle
    BY <1>0, <2>1 DEF EmmaOwnerStays
  <2> QED
    BY <2>1, <2>2, <2>3, <2>4, EmmaGoes DEF Fenced!Next
<1>4. CASE Emma!PreflightPasses(c)
  <2>1. /\ At(c, "preflight") /\ ~Idle(c) /\ family' = family /\ Goes(c, "supplier")
        /\ Emma!Current(c) /\ ~owner.cancelled /\ ~owner.retired
        /\ trace' = [trace EXCEPT !.over = @ \cup ({owner.cycle} \ {0})]
        /\ owner' = [owner EXCEPT !.cycle = calls[c].attempt]
    BY <1>0, <1>4 DEF Emma!PreflightPasses, Emma!Matches, Emma!At, Emma!Goes, Emma!Over, At, Idle, Goes
  <2>2. /\ trace'.begun = trace.begun /\ trace'.over = trace.over \cup ({owner.cycle} \ {0})
        /\ trace'.retired = trace.retired /\ TraceGrows
    BY <1>0, <2>1 DEF TraceGrows, TraceFields
  <2>3. /\ EmmaOwnerStays /\ owner'.cycle = calls[c].attempt /\ owner'.cancelled = owner.cancelled
        /\ calls[c].attempt \in 1 .. trace.begun
    BY <1>0, <2>1 DEF EmmaFields, EmmaOwnerStays
  <2>4. /\ OneCallMoves(c) /\ \A d \in Callers : d # c => calls'[d] = calls[d]
        /\ calls'[c].pc = "supplier" /\ calls'[c].frozen = calls[c].frozen
        /\ calls'[c].attempt = calls[c].attempt
    BY <1>0, <2>1, CallGoes
  <2>5. Common'
    BY <1>0, <2>2, <2>4, CommonHolds
  (* The attempt was not over, and is not the one it takes the ticket of.  *)
  <2>6. ~IsOver(c)'
    BY <1>0, <2>1, <2>2, <2>4 DEF EmmaCall, IsOver
  <2>7. ASSUME NEW d \in Callers, d # c, ~Idle(d)'
        PROVE  EmmaCall(d)'
    <3>1. /\ calls'[d] = calls[d] /\ ~Idle(d) /\ EmmaCall(d)
          /\ calls[d].attempt # calls[c].attempt
      BY <2>1, <2>4, <2>7 DEF EmmaInv, Common, Idle
    <3>2. IsOver(d)' => IsOver(d) \/ calls[d].attempt = owner.cycle
      BY <2>2, <3>1 DEF IsOver
    <3> QED
      BY <2>3, <3>1, <3>2 DEF EmmaCall, EmmaOwnerStays, Idle, At, Emma!Current
  <2>8. EmmaCall(c)'
    BY <1>0, <2>1, <2>3, <2>4, <2>6 DEF EmmaCall, EmmaOwnerStays, At
  <2>9. EmmaInv'
    <3>1. \A d \in Callers : EmmaCall(d)'
      BY <2>7, <2>8 DEF EmmaCall
    <3> QED
      BY <1>0, <2>1, <2>2, <2>3, <2>5, <3>1 DEF EmmaInv, EmmaOwnerStays, EmmaFields, EmmaResult
  <2>10. Fenced!Fence
    BY <1>0, <2>1, <2>2, <2>3, EmmaShows DEF EmmaOwnerStays, Fenced!Fence, Fenced!Keeps
  <2> QED
    BY <2>9, <2>10 DEF Fenced!Next
<1>5. CASE Emma!CommitRejects(c) \/ Emma!CommitPublishes(c)
  <2>1. /\ At(c, "commit") /\ ~Idle(c) /\ family' = family /\ Returns(c)
        /\ trace' = [trace EXCEPT !.over = @ \cup {calls[c].attempt},
                                  !.ended = @ \ {calls[c].attempt}]
    BY <1>5 DEF Emma!CommitRejects, Emma!CommitPublishes, Emma!At, Emma!Returns, Emma!NoCall,
                Emma!Done, At, Idle, Returns, NoCall
  <2>2. /\ trace'.begun = trace.begun /\ trace'.over = trace.over \cup {calls[c].attempt}
        /\ trace'.retired = trace.retired /\ TraceGrows
    BY <1>0, <2>1 DEF TraceGrows, TraceFields
  <2>3. /\ OneCallMoves(c) /\ \A d \in Callers : d # c => calls'[d] = calls[d]
        /\ EmmaCall(c)'
    BY <1>0, <2>1, CallReturns DEF EmmaCall, Idle
  <2>4. Common'
    BY <1>0, <2>2, <2>3, CommonHolds
  (* The result that takes the place of the latest one, if any does.       *)
  <2>5. \/ owner' = owner
        \/ /\ Emma!CommitRejects(c)
           /\ \E l : /\ DOMAIN l = EmmaResult /\ l.context = calls[c].frozen /\ ~l.committed
                     /\ l.retained = owner.latest.retained
                     /\ owner' = [owner EXCEPT !.latest = l]
        \/ /\ Emma!Current(c) /\ ~owner.cancelled /\ calls[c].attempt = owner.cycle
           /\ \E l : /\ DOMAIN l = EmmaResult /\ l.context = calls[c].frozen
                     /\ l.retained = calls[c].attempt
                     /\ owner' = [owner EXCEPT !.latest = l]
    <3>1. CASE Emma!CommitRejects(c)
      <4>1. CASE calls[c].attempt = owner.cycle /\ calls[c].ticket = owner.parent
        <5> DEFINE l == [context |-> calls[c].frozen, committed |-> FALSE,
                         retained |-> owner.latest.retained]
        <5>1. owner' = [owner EXCEPT !.latest = l]
          BY <3>1, <4>1 DEF Emma!CommitRejects
        <5>2. /\ DOMAIN l = EmmaResult /\ l.context = calls[c].frozen /\ ~l.committed
              /\ l.retained = owner.latest.retained
          BY DEF EmmaResult
        <5> QED
          BY <3>1, <5>1, <5>2
      <4>2. CASE ~(calls[c].attempt = owner.cycle /\ calls[c].ticket = owner.parent)
        BY <3>1, <4>2 DEF Emma!CommitRejects
      <4> QED
        BY <4>1, <4>2
    <3>2. CASE Emma!CommitPublishes(c)
      <4> DEFINE l == [context |-> calls[c].frozen, committed |-> TRUE,
                       retained |-> calls[c].attempt]
      <4>1. /\ owner' = [owner EXCEPT !.latest = l]
            /\ Emma!Current(c) /\ ~owner.cancelled /\ calls[c].attempt = owner.cycle
        BY <3>2 DEF Emma!CommitPublishes, Emma!Matches
      <4>2. DOMAIN l = EmmaResult /\ l.context = calls[c].frozen /\ l.retained = calls[c].attempt
        BY DEF EmmaResult
      <4> QED
        BY <4>1, <4>2
    <3> QED
      BY <1>5, <3>1, <3>2
  <2>6. /\ DOMAIN owner' = EmmaFields /\ DOMAIN owner'.latest = EmmaResult
        /\ owner'.parent = owner.parent /\ owner'.generation = owner.generation
        /\ owner'.retired = owner.retired /\ owner'.cancelled = owner.cancelled
        /\ owner'.cycle = owner.cycle
        /\ owner'.latest.context \in Int /\ owner'.latest.context <= owner.generation
        /\ \/ /\ owner'.latest.retained = owner.latest.retained
              /\ owner' = owner \/ ~owner'.latest.committed
           \/ /\ Emma!Current(c) /\ ~owner.cancelled /\ calls[c].attempt = owner.cycle
              /\ owner'.latest.retained = calls[c].attempt
    <3>1. CASE owner' = owner
      BY <1>0, <3>1
    <3>2. ASSUME NEW l, DOMAIN l = EmmaResult, l.context = calls[c].frozen,
                 owner' = [owner EXCEPT !.latest = l]
          PROVE  /\ DOMAIN owner' = EmmaFields /\ owner'.latest = l
                 /\ DOMAIN owner'.latest = EmmaResult
                 /\ owner'.parent = owner.parent /\ owner'.generation = owner.generation
                 /\ owner'.retired = owner.retired /\ owner'.cancelled = owner.cancelled
                 /\ owner'.cycle = owner.cycle
                 /\ owner'.latest.context \in Int /\ owner'.latest.context <= owner.generation
      <4>1. /\ DOMAIN owner' = EmmaFields /\ owner'.latest = l
            /\ owner'.parent = owner.parent /\ owner'.generation = owner.generation
            /\ owner'.retired = owner.retired /\ owner'.cancelled = owner.cancelled
            /\ owner'.cycle = owner.cycle
        BY <1>0, <3>2 DEF EmmaFields
      <4> QED
        BY <1>0, <2>1, <3>2, <4>1 DEF EmmaCall
    <3> QED
      BY <2>5, <3>1, <3>2
  <2>7. EmmaInv'
    <3>1. \A d \in Callers : EmmaCall(d)'
      BY <2>1, <2>2, <2>3, <2>6, EmmaOthers
    <3> QED
      BY <1>0, <2>1, <2>2, <2>4, <2>6, <3>1 DEF EmmaInv, EmmaFields, EmmaResult
  <2>8. CASE /\ owner'.latest.retained = owner.latest.retained
             /\ owner' = owner \/ ~owner'.latest.committed
    <3>1. Fenced!Fence
      BY <1>0, <2>1, <2>2, <2>8, EmmaShows DEF Fenced!Fence, Fenced!Keeps
    <3> QED
      BY <2>7, <3>1 DEF Fenced!Next
  <2>9. CASE /\ Emma!Current(c) /\ ~owner.cancelled /\ calls[c].attempt = owner.cycle
             /\ owner'.latest.retained = calls[c].attempt
    <3>1. ~owner.retired /\ ~IsOver(c)
      BY <1>0, <2>1, <2>9 DEF EmmaCall
    <3>2. Fenced!Publish
      BY <1>0, <2>1, <2>2, <2>9, <3>1, EmmaShows DEF Fenced!Publish, IsOver
    <3> QED
      BY <2>7, <3>2 DEF Fenced!Next
  <2> QED
    BY <2>6, <2>8, <2>9
<1> QED
  BY <1>1, <1>2, <1>3, <1>4, <1>5 DEF Emma!Call

LEMMA EmmaStep ==
  ASSUME EmmaInv, Emma!Next
  PROVE  EmmaInv' /\ Fenced!Next
<1>0. /\ Common /\ CallsTyped /\ family = "emma"
      /\ trace.begun \in Nat /\ trace.over \subseteq 1 .. trace.begun
      /\ DOMAIN trace = TraceFields /\ trace.retired \in BOOLEAN
      /\ DOMAIN owner = EmmaFields /\ DOMAIN owner.latest = EmmaResult
      /\ owner.parent \in Int /\ owner.generation \in Nat /\ owner.latest.context \in Int
      /\ owner.latest.context <= owner.generation
      /\ owner.cycle \in 0 .. trace.begun
      /\ owner.retired = trace.retired /\ (owner.retired => owner.cancelled)
      /\ \A c \in Callers : EmmaCall(c) /\ calls[c].frozen \in Int
  BY DEF EmmaInv, EmmaFields, EmmaResult, Common, CallsTyped, IsCall, AllBegun
<1>1. ASSUME Emma!SetContext
      PROVE  EmmaInv' /\ Fenced!Next
  <2>1. PICK parent, latest :
          /\ parent \in Emma!Parents /\ latest \in {owner.latest, Emma!EmptyResult}
          /\ owner' = [owner EXCEPT !.sequence = 0, !.parent = parent,
                                    !.generation = owner.generation + 1,
                                    !.cancelled = FALSE, !.latest = latest]
    <3>1. PICK parent \in Emma!Parents :
            owner' = [owner EXCEPT !.sequence = 0, !.parent = parent, !.generation = @ + 1,
                        !.cancelled = FALSE,
                        !.latest = IF parent = owner.parent THEN @ ELSE Emma!EmptyResult]
      BY <1>1 DEF Emma!SetContext
    <3>2. CASE parent = owner.parent
      BY <3>1, <3>2
    <3>3. CASE parent # owner.parent
      BY <3>1, <3>3
    <3> QED
      BY <3>2, <3>3
  <2>2. /\ DOMAIN owner' = EmmaFields /\ owner'.parent \in Int
        /\ owner'.generation = owner.generation + 1
        /\ owner'.latest = latest /\ owner'.retired = owner.retired /\ owner'.cycle = owner.cycle
    BY <1>0, <2>1 DEF EmmaFields, Emma!Parents
  <2>3. /\ DOMAIN latest = EmmaResult /\ latest.context \in Int
        /\ latest.context <= owner.generation \/ ~latest.committed
        /\ latest.context <= owner.generation + 1
        /\ latest.retained \in {owner.latest.retained, 0}
    <3>1. CASE latest = owner.latest
      BY <1>0, <3>1
    <3>2. CASE latest = Emma!EmptyResult
      BY <1>0, <3>2 DEF Emma!EmptyResult, EmmaResult
    <3> QED
      BY <2>1, <3>1, <3>2
  <2>4. /\ family' = family /\ calls' = calls /\ ~owner.retired
        /\ trace' = [trace EXCEPT !.over = @ \cup (1 .. trace.begun)]
    BY <1>1 DEF Emma!SetContext, Emma!Over, Emma!AllBegun
  <2>5. /\ trace'.begun = trace.begun /\ trace.over \subseteq trace'.over
        /\ trace'.retired = trace.retired /\ TraceGrows
    BY <1>0, <2>4 DEF TraceGrows, TraceFields
  <2>6. Common'
    BY <1>0, <2>4, <2>5, CommonStays
  <2>7. ASSUME NEW c \in Callers
        PROVE  EmmaCall(c)'
    <3>1. EmmaCall(c) /\ calls'[c] = calls[c] /\ calls[c].frozen \in Int
      BY <1>0, <2>4
    <3> QED
      BY <1>0, <2>2, <3>1 DEF EmmaCall, Idle, At, Emma!Current
  <2>8. EmmaInv'
    BY <1>0, <2>2, <2>3, <2>4, <2>5, <2>6, <2>7 DEF EmmaInv, EmmaFields, EmmaResult
  <2>9. Fenced!Fence
    <3>1. ~Usable'
      BY <1>0, <2>2, <2>3, <2>4, EmmaShows
    <3> QED
      BY <1>0, <2>2, <2>3, <2>4, <2>5, <3>1, EmmaShows DEF Fenced!Fence, Fenced!Keeps, Fenced!Drops
  <2> QED
    BY <2>8, <2>9 DEF Fenced!Next
<1>2. ASSUME Emma!Retire
      PROVE  EmmaInv' /\ Fenced!Next
  <2>1. /\ family' = family /\ calls' = calls
        /\ trace' = [trace EXCEPT !.over = 1 .. trace.begun, !.retired = TRUE]
        /\ owner' = [owner EXCEPT !.retired = TRUE, !.sequence = 0, !.cancelled = TRUE]
    BY <1>2 DEF Emma!Retire, Emma!Retired, Emma!AllBegun
  <2>2. /\ trace'.begun = trace.begun /\ trace.over \subseteq trace'.over
        /\ trace'.retired = TRUE /\ TraceGrows
    BY <1>0, <2>1 DEF TraceGrows, TraceFields
  <2>3. /\ DOMAIN owner' = EmmaFields /\ owner'.parent = owner.parent
        /\ owner'.generation = owner.generation /\ owner'.latest = owner.latest
        /\ owner'.retired = TRUE /\ owner'.cancelled = TRUE /\ owner'.cycle = owner.cycle
    BY <1>0, <2>1 DEF EmmaFields
  <2>4. Common'
    BY <1>0, <2>1, <2>2, CommonStays
  <2>5. \A c \in Callers : EmmaCall(c)'
    BY <1>0, <2>1, <2>3 DEF EmmaCall, Idle, At
  <2>6. EmmaInv'
    BY <1>0, <2>1, <2>2, <2>3, <2>4, <2>5 DEF EmmaInv, EmmaFields, EmmaResult
  <2>7. Fenced!Fence
    BY <1>0, <2>1, <2>2, <2>3, EmmaShows DEF Fenced!Fence, Fenced!Keeps
  <2> QED
    BY <2>6, <2>7 DEF Fenced!Next
<1>3. ASSUME Emma!ContextEnds({})
      PROVE  EmmaInv' /\ Fenced!Next
  <2>1. ContextEnds({})
    BY <1>3 DEF Emma!ContextEnds, Emma!EndedAt, Emma!InFlight, Emma!AllBegun,
                ContextEnds, EndedAt, InFlight, AllBegun
  <2>2. /\ UNCHANGED <<family, owner, calls>> /\ TraceGrows
        /\ trace'.begun = trace.begun /\ trace'.retired = trace.retired
        /\ trace.over \subseteq trace'.over
        /\ \A c \in Callers : IsOver(c)' => IsOver(c)
    BY <1>0, <2>1, ContextEndsStep
  <2>3. Common'
    BY <1>0, <2>2, CommonStays
  <2>4. \A c \in Callers : EmmaCall(c)'
    BY <1>0, <2>2 DEF EmmaCall, Idle, At, Emma!Current
  <2>5. EmmaInv'
    BY <1>0, <2>2, <2>3, <2>4 DEF EmmaInv, EmmaFields, EmmaResult
  <2>6. Fenced!Fence
    BY <1>0, <2>2, EmmaShows DEF Fenced!Fence, Fenced!Keeps
  <2> QED
    BY <2>5, <2>6 DEF Fenced!Next
<1> QED
  BY <1>1, <1>2, <1>3, EmmaCallStep DEF Emma!Next

-----------------------------------------------------------------------------
(* Growatt                                                                 *)

LEMMA GrowattShows ==
  ASSUME family = "growatt", family' = family
  PROVE  /\ Record = owner.published.success /\ Record' = owner'.published.success
         /\ Usable <=> owner.published.state \in {"current", "retained"}
         /\ Usable' <=> owner'.published.state \in {"current", "retained"}
  BY DEF Record, Usable, Growatt!Record, Growatt!Usable

(* The clock closes a pending attempt and changes nothing else.            *)
LEMMA GrowattAdvanced ==
  ASSUME NEW n, DOMAIN n = NativeFields, NEW now, NEW m, m = Growatt!Advanced(n, now)
  PROVE  /\ DOMAIN m = NativeFields /\ m.tick = now /\ m.attempt = n.attempt
         /\ m.success = n.success /\ m.applicable = n.applicable
         /\ n.outcome = "pending" /\ now >= n.deadline => m.outcome = "incomplete"
         /\ ~(n.outcome = "pending" /\ now >= n.deadline) => m.outcome = n.outcome
  BY DEF Growatt!Advanced, NativeFields

LEMMA GrowattState ==
  ASSUME NEW n
  PROVE  /\ Growatt!State(n) \in {"current", "retained"} => n.success # 0 /\ n.applicable
         /\ n.success # 0 /\ n.applicable => Growatt!State(n) \in {"current", "retained"}
         /\ n.success # 0 /\ n.applicable /\ n.outcome = "success" => Growatt!State(n) = "current"
  BY DEF Growatt!State

(* A step of the only call that is out.                                    *)
LEMMA GrowattGoes ==
  ASSUME GrowattInv, NEW c \in Callers, ~Idle(c), OneCallMoves(c), TraceGrows,
         \A d \in Callers : d # c => calls'[d] = calls[d],
         ~Idle(c)', owner'.busy = owner.busy
  PROVE  /\ Common' /\ OneOut' /\ (GrowattCall(c)' => \A d \in Callers : GrowattCall(d)')
         /\ \A d \in Callers : Succeeds(d) => d = c
<1>1. Common' /\ OneOut'
  BY CommonHolds, OutMoves DEF GrowattInv, Idle
<1>2. \A d \in Callers : d # c => Idle(d)'
  BY <1>1 DEF OneOut
<1>3. \A d \in Callers : Idle(d)' => GrowattCall(d)'
  BY DEF GrowattCall, Succeeds, Idle, At
<1>4. \A d \in Callers : Succeeds(d) => d = c
  BY DEF GrowattInv, OneOut, Succeeds, Idle, At
<1> QED
  BY <1>1, <1>2, <1>3, <1>4

LEMMA GrowattReserve ==
  ASSUME GrowattInv, NEW c \in Callers, Growatt!Reserve(c)
  PROVE  GrowattInv' /\ Fenced!Next
<1>0. /\ Common /\ OneOut /\ GrowattOwner /\ CallsTyped /\ family = "growatt"
      /\ trace.begun \in Nat /\ trace.over \subseteq 1 .. trace.begun
      /\ DOMAIN trace = TraceFields /\ trace.retired \in BOOLEAN
  BY DEF GrowattInv, Common, AllBegun
<1>1. /\ ~owner.retired /\ ~owner.busy /\ family' = family
      /\ CallIsReserved(c, "reserved")
      /\ trace' = [trace EXCEPT !.begun = @ + 1, !.over = @ \cup {}]
      /\ owner' = [owner EXCEPT !.busy = TRUE, !.generation = Growatt!NextAttempt]
  BY DEF Growatt!Reserve, Growatt!NextAttempt, Growatt!Begun, CallIsReserved
<1>2. /\ trace'.begun = trace.begun + 1 /\ trace'.over = trace.over
      /\ trace'.retired = trace.retired /\ TraceGrows
  BY <1>0, <1>1 DEF TraceGrows, TraceFields
<1>3. /\ DOMAIN owner' = GrowattFields /\ owner'.busy = TRUE
      /\ owner'.retired = owner.retired /\ owner'.native = owner.native
      /\ owner'.published = owner.published /\ owner'.tick = owner.tick
      /\ owner'.deadline = owner.deadline
  BY <1>0, <1>1 DEF GrowattOwner, GrowattFields
<1>4. /\ OneCallMoves(c) /\ \A d \in Callers : d # c => calls'[d] = calls[d]
      /\ calls'[c].pc = "reserved" /\ calls'[c].attempt = trace.begun + 1
  BY <1>0, <1>1, <1>2, ReservedIsBegun, CallBegins
<1>5. Common' /\ OneOut'
  BY <1>0, <1>1, <1>2, <1>3, <1>4, CommonHolds, OutBegins
<1>6. \A d \in Callers : ~Idle(d)' => d = c
  BY <1>4, <1>5 DEF OneOut, Idle
<1>7. \A d \in Callers : GrowattCall(d)'
  <2>1. GrowattCall(c)'
    BY <1>0, <1>2, <1>3, <1>4 DEF GrowattCall, GrowattOwner, Succeeds, At, IsOver
  <2> QED
    BY <1>6, <2>1 DEF GrowattCall, Succeeds, At, Idle
<1>8. GrowattOwner'
  BY <1>0, <1>2, <1>3 DEF GrowattOwner
<1>9. EnvelopeIsNative'
  <2>1. \A d \in Callers : ~Succeeds(d)
    BY <1>0, <1>1 DEF OneOut, Succeeds, Idle, At
  <2> QED
    BY <1>1, <1>3, <2>1 DEF GrowattInv, EnvelopeIsNative
<1>10. DiagnosticFollowsBase'
  BY <1>1, <1>3 DEF GrowattInv, DiagnosticFollowsBase
<1>11. GrowattInv'
  BY <1>0, <1>1, <1>5, <1>7, <1>8, <1>9, <1>10 DEF GrowattInv
<1>12. Fenced!Begin
  BY <1>0, <1>1, <1>2, <1>3, GrowattShows DEF GrowattOwner, Fenced!Begin, Fenced!Keeps
<1> QED
  BY <1>11, <1>12 DEF Fenced!Next

LEMMA GrowattCycle ==
  ASSUME GrowattInv, NEW c \in Callers,
         \/ Growatt!CycleRefused(c) \/ Growatt!CycleBegins(c)
         \/ Growatt!SupplierReturns(c) \/ Growatt!CycleCloses(c)
  PROVE  GrowattInv' /\ Fenced!Next
<1>0. /\ Common /\ OneOut /\ GrowattOwner /\ GrowattCall(c) /\ CallsTyped /\ family = "growatt"
      /\ trace.begun \in Nat /\ trace.over \subseteq 1 .. trace.begun
      /\ DOMAIN trace = TraceFields /\ trace.retired \in BOOLEAN
      /\ IsCall(calls[c])
  BY DEF GrowattInv, Common, CallsTyped, AllBegun
<1>1. /\ ~Idle(c) /\ ~Succeeds(c) /\ family' = family /\ calls[c].attempt \in 1 .. trace.begun
  BY <1>0 DEF Growatt!CycleRefused, Growatt!CycleBegins, Growatt!SupplierReturns,
     Growatt!CycleCloses, Growatt!At, Idle, At, Succeeds, Common, AllBegun
(* The native owner is all that may change; of it the last success stays,  *)
(* and applies no more than it did, unless this call succeeds.             *)
<1> DEFINE NativeStays(native) ==
             /\ native.success = owner.native.success
             /\ native.applicable => owner.native.applicable
           OwnerGoes(native) ==
             /\ DOMAIN owner' = GrowattFields /\ owner'.native = native
             /\ owner'.busy = owner.busy /\ owner'.retired = owner.retired
             /\ owner'.published = owner.published /\ owner'.tick = owner.tick
             /\ owner'.deadline = owner.deadline
<1> HIDE DEF NativeStays, OwnerGoes
<1>2. ASSUME NEW native, OwnerGoes(native), DOMAIN native = NativeFields,
             native.tick \in Int, native.applicable \in BOOLEAN,
             native.attempt \in {owner.native.attempt, calls[c].attempt},
             native.outcome = "pending" => native.attempt # 0,
             OneCallMoves(c), \A d \in Callers : d # c => calls'[d] = calls[d], ~Idle(c)',
             trace'.begun = trace.begun, trace.over \subseteq trace'.over,
             trace'.retired = trace.retired, TraceGrows,
             GrowattCall(c)', NativeStays(native) \/ Succeeds(c)'
      PROVE  GrowattInv' /\ Fenced!Next
  <2>1. /\ Common' /\ OneOut' /\ \A d \in Callers : GrowattCall(d)'
        /\ \A d \in Callers : ~Succeeds(d)
    <3>1. owner'.busy = owner.busy
      BY <1>2 DEF OwnerGoes
    <3> QED
      BY <1>1, <1>2, <3>1, GrowattGoes
  <2>2. GrowattOwner'
    BY <1>0, <1>1, <1>2 DEF OwnerGoes, GrowattOwner
  <2>3. owner'.retired \/ Succeeds(c)' \/ EnvelopeIsNative'
    BY <1>2, <2>1 DEF GrowattInv, EnvelopeIsNative, OwnerGoes, NativeStays
  <2>4. DiagnosticFollowsBase'
    BY <1>1, <1>2 DEF GrowattInv, DiagnosticFollowsBase, OwnerGoes
  <2>5. GrowattInv'
    BY <1>0, <1>1, <2>1, <2>2, <2>3, <2>4 DEF GrowattInv
  <2>6. Fenced!Fence
    BY <1>0, <1>1, <1>2, GrowattShows DEF OwnerGoes, Fenced!Fence, Fenced!Keeps
  <2> QED
    BY <2>5, <2>6 DEF Fenced!Next
<1>3. ASSUME owner' = owner
      PROVE  /\ OwnerGoes(owner.native) /\ NativeStays(owner.native)
             /\ DOMAIN owner.native = NativeFields
             /\ owner.native.tick \in Int /\ owner.native.applicable \in BOOLEAN
             /\ owner.native.outcome = "pending" => owner.native.attempt # 0
  BY <1>0, <1>3 DEF GrowattOwner, OwnerGoes, NativeStays
<1>4. CASE Growatt!CycleRefused(c)
  <2>1. PICK deadline \in Growatt!Ticks :
          calls' = [calls EXCEPT ![c].pc = "settle", ![c].frozen = deadline,
                                 ![c].result = "error"]
    BY <1>4 DEF Growatt!CycleRefused
  <2> DEFINE r == [calls[c] EXCEPT !.pc = "settle", !.frozen = deadline, !.result = "error"]
  <2>2. calls' = [calls EXCEPT ![c] = r]
    BY <1>0, <2>1 DEF CallsTyped
  <2>3. /\ IsCall(r) /\ r.pc = "settle" /\ r.result = "error" /\ r.attempt = calls[c].attempt
    BY <1>0 DEF IsCall, CallFields, Growatt!Ticks
  <2> HIDE DEF r
  <2>4. /\ OneCallMoves(c) /\ \A d \in Callers : d # c => calls'[d] = calls[d]
        /\ calls'[c] = r
    BY <1>0, <1>1, <2>2, <2>3, CallChanges
  <2>5. GrowattCall(c)' /\ ~Idle(c)'
    BY <2>3, <2>4 DEF GrowattCall, Succeeds, At, Idle
  <2>6. trace' = [trace EXCEPT !.over = @ \cup {calls[c].attempt}] /\ owner' = owner
    BY <1>4 DEF Growatt!CycleRefused, Growatt!Over
  <2>7. /\ trace'.begun = trace.begun /\ trace.over \subseteq trace'.over
        /\ trace'.retired = trace.retired /\ TraceGrows
    BY <1>0, <1>1, <2>6 DEF TraceGrows, TraceFields
  <2> QED
    BY <1>2, <1>3, <2>4, <2>5, <2>6, <2>7
<1>5. CASE Growatt!CycleBegins(c)
  <2>1. At(c, "reserved") /\ ~HasEnded(c) /\ trace' = trace
    BY <1>5 DEF Growatt!CycleBegins, Growatt!At, Growatt!Ended, At, HasEnded, Ended
  <2> DEFINE Begins(context, now, deadline) ==
               owner' = [owner EXCEPT !.native =
                           Growatt!NativeBegin(calls[c].attempt, context, now, deadline)]
             Continues(context, deadline) ==
               \/ /\ context # 0
                  /\ calls' = [calls EXCEPT ![c].pc = "supplier", ![c].frozen = deadline]
               \/ \E later \in Growatt!Ticks :
                    calls' = [calls EXCEPT ![c].pc = "close", ![c].frozen = deadline,
                                           ![c].ticket = later, ![c].result = "failed"]
  <2>2. PICK context \in Growatt!Contexts, now \in owner.native.tick .. MaxTick,
             deadline \in Growatt!Ticks :
          /\ now < deadline
          /\ Begins(context, now, deadline)
          /\ Continues(context, deadline)
    BY <1>5, Zenon DEF Growatt!CycleBegins
  <2> HIDE DEF Begins, Continues
  <2>ticks. now \in Int /\ deadline \in Int
    BY <1>0, <2>2 DEF Growatt!Ticks, GrowattOwner
  <2>3. PICK native : native = Growatt!NativeBegin(calls[c].attempt, context, now, deadline)
    OBVIOUS
  <2>4. PICK kept : native = [owner.native EXCEPT !.tick = now, !.attempt = calls[c].attempt,
                       !.context = context, !.deadline = deadline, !.outcome = "pending",
                       !.applicable = (@ /\ kept)]
    BY <2>3 DEF Growatt!NativeBegin
  <2>5. /\ DOMAIN native = NativeFields /\ native.tick = now
        /\ native.attempt = calls[c].attempt
        /\ native.outcome = "pending" /\ native.success = owner.native.success
        /\ native.applicable = (owner.native.applicable /\ kept)
    BY <1>0, <2>4 DEF GrowattOwner, NativeFields
  <2>6. /\ native.applicable \in BOOLEAN /\ native.tick \in Int /\ NativeStays(native)
        /\ native.attempt # 0
    BY <1>0, <1>1, <2>ticks, <2>5 DEF NativeStays, GrowattOwner
  <2>7. OwnerGoes(native)
    BY <1>0, <2>2, <2>3 DEF GrowattOwner, GrowattFields, OwnerGoes, Begins
  <2>8. PICK r : /\ IsCall(r) /\ r.pc \in {"supplier", "close"} /\ r.attempt = calls[c].attempt
                 /\ calls' = [calls EXCEPT ![c] = r]
    <3>2. CASE calls' = [calls EXCEPT ![c].pc = "supplier", ![c].frozen = deadline]
      <4> DEFINE r == [calls[c] EXCEPT !.pc = "supplier", !.frozen = deadline]
      <4>1. calls' = [calls EXCEPT ![c] = r]
        BY <1>0, <3>2 DEF CallsTyped
      <4>2. IsCall(r) /\ r.pc = "supplier" /\ r.attempt = calls[c].attempt
        BY <1>0, <2>ticks DEF IsCall, CallFields
      <4> QED
        BY <4>1, <4>2
    <3>3. ASSUME NEW later \in Growatt!Ticks,
                 calls' = [calls EXCEPT ![c].pc = "close", ![c].frozen = deadline,
                                        ![c].ticket = later, ![c].result = "failed"]
          PROVE  \E r : /\ IsCall(r) /\ r.pc \in {"supplier", "close"}
                        /\ r.attempt = calls[c].attempt /\ calls' = [calls EXCEPT ![c] = r]
      <4> DEFINE r == [calls[c] EXCEPT !.pc = "close", !.frozen = deadline, !.ticket = later,
                                       !.result = "failed"]
      <4>1. calls' = [calls EXCEPT ![c] = r]
        BY <1>0, <3>3 DEF CallsTyped
      <4>2. IsCall(r) /\ r.pc = "close" /\ r.attempt = calls[c].attempt
        BY <1>0, <2>ticks, <3>3 DEF IsCall, CallFields, Growatt!Ticks
      <4> QED
        BY <4>1, <4>2
    <3> QED
      BY <2>2, <3>2, <3>3 DEF Continues
  <2>9. /\ OneCallMoves(c) /\ \A d \in Callers : d # c => calls'[d] = calls[d]
        /\ calls'[c] = r
    BY <1>0, <1>1, <2>8, CallChanges
  <2>10. GrowattCall(c)' /\ ~Idle(c)'
    <3>1. IsOver(c)' => owner'.retired
      BY <1>0, <2>1, <2>7, <2>8, <2>9 DEF GrowattCall, IsOver, OwnerGoes
    <3> QED
      BY <2>8, <2>9, <3>1 DEF GrowattCall, Succeeds, At, Idle
  <2>11. TraceGrows
    BY <1>0, <2>1 DEF TraceGrows
  <2> QED
    BY <1>2, <2>1, <2>5, <2>6, <2>7, <2>9, <2>10, <2>11
<1>6. CASE Growatt!SupplierReturns(c)
  <2>1. /\ At(c, "supplier") /\ trace' = trace /\ owner' = owner
    BY <1>6 DEF Growatt!SupplierReturns, Growatt!At, At
  <2>2. PICK now, result :
          /\ now \in Growatt!Ticks
          /\ calls' = [calls EXCEPT ![c].pc = "close", ![c].ticket = now, ![c].result = result]
    BY <1>6 DEF Growatt!SupplierReturns
  <2> DEFINE r == [calls[c] EXCEPT !.pc = "close", !.ticket = now, !.result = result]
  <2>3. calls' = [calls EXCEPT ![c] = r]
    BY <1>0, <2>2 DEF CallsTyped
  <2>4. IsCall(r) /\ r.pc = "close" /\ r.attempt = calls[c].attempt
    BY <1>0, <2>2 DEF IsCall, CallFields, Growatt!Ticks
  <2> HIDE DEF r
  <2>5. /\ OneCallMoves(c) /\ \A d \in Callers : d # c => calls'[d] = calls[d]
        /\ calls'[c] = r
    BY <1>0, <1>1, <2>3, <2>4, CallChanges
  <2>6. GrowattCall(c)' /\ ~Idle(c)'
    BY <1>0, <2>1, <2>4, <2>5 DEF GrowattCall, Succeeds, At, Idle, IsOver, HasEnded, Ended
  <2>7. TraceGrows
    BY <1>0, <2>1 DEF TraceGrows
  <2> QED
    BY <1>2, <1>3, <2>1, <2>5, <2>6, <2>7
<1>7. CASE Growatt!CycleCloses(c)
  <2>1. /\ At(c, "close") /\ trace' = trace
    BY <1>7 DEF Growatt!CycleCloses, Growatt!At, At
  <2>2. PICK n : n = Growatt!Advanced(owner.native, calls[c].ticket)
    OBVIOUS
  <2>3. PICK good \in BOOLEAN :
          good <=> Growatt!Accepts(c) /\ calls[c].result = "complete" /\ n.outcome = "pending"
    OBVIOUS
  <2>4. /\ owner' = IF ~Growatt!Accepts(c) THEN owner
                    ELSE [owner EXCEPT !.native =
                            IF good THEN Growatt!Succeeded(n)
                            ELSE IF calls[c].result = "conflict" THEN Growatt!Conflicting(n)
                            ELSE Growatt!Failed(n)]
        /\ calls' = [calls EXCEPT ![c].pc = "settle",
                                  ![c].result = IF good THEN "success" ELSE "error"]
    BY <1>7, <2>2, <2>3 DEF Growatt!CycleCloses
  <2>5. /\ DOMAIN n = NativeFields /\ n.tick = calls[c].ticket /\ n.attempt = owner.native.attempt
        /\ n.success = owner.native.success /\ n.applicable = owner.native.applicable
        /\ n.outcome = "pending" => owner.native.outcome = "pending"
    BY <1>0, <2>2, GrowattAdvanced DEF GrowattOwner
  <2>6. CallAnswers(c, "settle", IF good THEN "success" ELSE "error")
    BY <2>4 DEF CallAnswers
  <2>7. /\ OneCallMoves(c) /\ \A d \in Callers : d # c => calls'[d] = calls[d]
        /\ calls'[c].pc = "settle" /\ calls'[c].attempt = calls[c].attempt
        /\ (calls'[c].result = "success") <=> good
    BY <1>0, <1>1, <2>6, CallIsAnswered
  <2>8. /\ TraceGrows /\ ~Idle(c)' /\ (Succeeds(c)' <=> good)
    BY <1>0, <2>1, <2>7 DEF TraceGrows, Idle, Succeeds, At
  <2>9. CASE ~Growatt!Accepts(c)
    <3>1. owner' = owner /\ ~good
      BY <2>3, <2>4, <2>9
    <3>2. GrowattCall(c)'
      BY <2>7, <2>8, <3>1 DEF GrowattCall, At
    <3> QED
      BY <1>2, <1>3, <2>1, <2>7, <2>8, <3>1, <3>2
  <2>10. CASE Growatt!Accepts(c) /\ good
    <3>1. PICK native : /\ native = Growatt!Succeeded(n)
                        /\ owner' = [owner EXCEPT !.native = native]
      BY <2>4, <2>10
    <3>2. /\ DOMAIN native = NativeFields /\ native.tick = n.tick /\ native.attempt = n.attempt
          /\ native.outcome = "success" /\ native.success = n.attempt
          /\ native.applicable = TRUE
      BY <2>5, <3>1 DEF Growatt!Succeeded, NativeFields
    <3>3. OwnerGoes(native)
      BY <1>0, <3>1 DEF GrowattOwner, GrowattFields, OwnerGoes
    <3>4. n.attempt = calls[c].attempt /\ owner.native.outcome = "pending" /\ n.tick \in Int
      BY <1>0, <2>3, <2>5, <2>10 DEF Growatt!Accepts, IsCall
    <3>5. IsOver(c)' => HasEnded(c)' \/ owner'.retired
      BY <1>0, <2>1, <2>7, <3>3, <3>4 DEF GrowattCall, IsOver, HasEnded, Ended, OwnerGoes
    <3>6. GrowattCall(c)'
      BY <2>7, <3>2, <3>3, <3>4, <3>5 DEF GrowattCall, At, OwnerGoes
    <3> QED
      BY <1>2, <2>1, <2>5, <2>7, <2>8, <2>10, <3>2, <3>3, <3>4, <3>6
  <2>11. CASE Growatt!Accepts(c) /\ ~good
    <3>1. PICK native : /\ native \in {Growatt!Conflicting(n), Growatt!Failed(n)}
                        /\ owner' = [owner EXCEPT !.native = native]
      BY <2>4, <2>11
    <3>2. /\ DOMAIN native = NativeFields /\ native.tick = n.tick /\ native.attempt = n.attempt
          /\ native.success = n.success /\ native.applicable \in {n.applicable, FALSE}
          /\ native.outcome = "pending" => n.outcome = "pending"
      <4>1. CASE n.outcome = "pending"
        BY <2>5, <3>1, <4>1 DEF Growatt!Conflicting, Growatt!Failed, NativeFields
      <4>2. CASE n.outcome # "pending"
        BY <2>5, <3>1, <4>2 DEF Growatt!Conflicting, Growatt!Failed
      <4> QED
        BY <4>1, <4>2
    <3>3. OwnerGoes(native)
      BY <1>0, <3>1 DEF GrowattOwner, GrowattFields, OwnerGoes
    <3>4. /\ NativeStays(native) /\ native.applicable \in BOOLEAN /\ native.tick \in Int
          /\ native.outcome = "pending" => native.attempt # 0
      BY <1>0, <2>5, <3>2 DEF NativeStays, GrowattOwner, IsCall
    <3>5. GrowattCall(c)'
      BY <2>7, <2>8, <2>11 DEF GrowattCall, At
    <3> QED
      BY <1>2, <2>1, <2>5, <2>7, <2>8, <3>2, <3>3, <3>4, <3>5
  <2> QED
    BY <2>9, <2>10, <2>11
<1> QED
  BY <1>4, <1>5, <1>6, <1>7

(* The only call that is out returns.                                      *)
LEMMA GrowattBack ==
  ASSUME GrowattInv, NEW c \in Callers, ~Idle(c), Returns(c), TraceGrows
  PROVE  /\ Common' /\ OneOut' /\ \A d \in Callers : GrowattCall(d)' /\ ~Succeeds(d)'
         /\ \A d \in Callers : Succeeds(d) => d = c
<1>1. /\ OneCallMoves(c) /\ calls'[c].pc = "idle"
      /\ \A d \in Callers : d # c => calls'[d] = calls[d]
  BY CallReturns DEF GrowattInv, Common
<1>2. Common' /\ OneOut' /\ \A d \in Callers : Idle(d)'
  BY <1>1, CommonHolds, OutReturns DEF GrowattInv, OneOut, Idle
<1>3. \A d \in Callers : GrowattCall(d)' /\ ~Succeeds(d)'
  BY <1>2 DEF GrowattCall, Succeeds, Idle, At
<1>4. \A d \in Callers : Succeeds(d) => d = c
  BY DEF GrowattInv, OneOut, Succeeds, Idle, At
<1> QED
  BY <1>2, <1>3, <1>4

(* What Done and Retired do to the trace.                                  *)
GrowattDone(a) == trace' = [trace EXCEPT !.over = @ \cup {a}, !.ended = @ \ {a}]
GrowattEnds == trace' = [trace EXCEPT !.over = AllBegun, !.retired = TRUE]

LEMMA GrowattTrace ==
  ASSUME Common, NEW a \in AllBegun, GrowattDone(a) \/ GrowattEnds
  PROVE  /\ TraceGrows /\ trace'.begun = trace.begun /\ trace.over \subseteq trace'.over
         /\ GrowattDone(a) => /\ trace'.over = trace.over \cup {a}
                              /\ trace'.retired = trace.retired
         /\ GrowattEnds => trace'.retired = TRUE
<1>1. CASE GrowattDone(a)
  <2>1. /\ TraceGrows /\ trace'.begun = trace.begun /\ trace'.over = trace.over \cup {a}
        /\ trace'.retired = trace.retired
    BY <1>1 DEF Common, GrowattDone, TraceGrows, TraceFields, AllBegun
  <2>2. GrowattEnds => trace'.retired = TRUE
    BY DEF Common, GrowattEnds, TraceFields
  <2> QED
    BY <2>1, <2>2
<1>2. CASE GrowattEnds
  <2>1. /\ TraceGrows /\ trace'.begun = trace.begun /\ trace.over \subseteq trace'.over
        /\ trace'.retired = TRUE
    BY <1>2 DEF Common, GrowattEnds, TraceGrows, TraceFields, AllBegun
  <2>2. GrowattDone(a) => /\ trace'.over = trace.over \cup {a}
                          /\ trace'.retired = trace.retired
    BY DEF Common, GrowattDone, TraceFields
  <2> QED
    BY <2>1, <2>2
<1> QED
  BY <1>1, <1>2

LEMMA GrowattPanic ==
  ASSUME GrowattInv, NEW c \in Callers, Growatt!SupplierPanics(c)
  PROVE  GrowattInv' /\ Fenced!Next
<1>0. /\ Common /\ OneOut /\ GrowattOwner /\ family = "growatt"
      /\ DiagnosticFollowsBase
      /\ owner.retired \/ (\E d \in Callers : Succeeds(d)) \/ EnvelopeIsNative
  BY DEF GrowattInv
<1>1. At(c, "supplier") /\ UNCHANGED <<family, owner>> /\ Returns(c) /\ GrowattDone(calls[c].attempt)
  BY DEF Growatt!SupplierPanics, Growatt!At, Growatt!Returns, Growatt!NoCall, Growatt!Done,
         At, Returns, NoCall, GrowattDone
<1>2. ~Idle(c) /\ ~Succeeds(c) /\ calls[c].attempt \in AllBegun
  BY <1>0, <1>1 DEF Common, Idle, At, Succeeds
<1>3. /\ TraceGrows /\ trace'.begun = trace.begun /\ trace.over \subseteq trace'.over
      /\ trace'.retired = trace.retired
  BY <1>0, <1>1, <1>2, GrowattTrace
<1>4. /\ Common' /\ OneOut' /\ \A d \in Callers : GrowattCall(d)'
      /\ \A d \in Callers : ~Succeeds(d)
  BY <1>1, <1>2, <1>3, GrowattBack
<1>5. GrowattOwner' /\ DiagnosticFollowsBase'
  BY <1>0, <1>1, <1>3 DEF GrowattOwner, DiagnosticFollowsBase
<1>6. owner'.retired \/ EnvelopeIsNative'
  BY <1>0, <1>1, <1>4 DEF EnvelopeIsNative
<1>7. GrowattInv'
  BY <1>0, <1>1, <1>4, <1>5, <1>6 DEF GrowattInv
<1>8. Fenced!Fence
  BY <1>0, <1>1, <1>3, GrowattShows DEF Fenced!Fence, Fenced!Keeps
<1> QED
  BY <1>7, <1>8 DEF Fenced!Next

LEMMA GrowattSettle ==
  ASSUME GrowattInv, NEW c \in Callers, Growatt!Settle(c)
  PROVE  GrowattInv' /\ Fenced!Next
<1>0. /\ Common /\ OneOut /\ GrowattOwner /\ GrowattCall(c) /\ family = "growatt"
      /\ trace.begun \in Nat /\ trace.over \subseteq 1 .. trace.begun
      /\ DiagnosticFollowsBase
      /\ owner.retired \/ (\E d \in Callers : Succeeds(d)) \/ EnvelopeIsNative
  BY DEF GrowattInv, Common, AllBegun
<1>1. At(c, "settle") /\ family' = family /\ Returns(c)
  BY DEF Growatt!Settle, Growatt!At, Growatt!Returns, Growatt!NoCall, At, Returns, NoCall
<1>2. ~Idle(c) /\ calls[c].attempt \in AllBegun /\ IsCall(calls[c])
  BY <1>0, <1>1 DEF Common, Idle, At, CallsTyped
<1>3. PICK now \in Growatt!Ticks, admitted \in BOOLEAN :
        LET free == [owner EXCEPT !.busy = FALSE]
            n == Growatt!Advanced(owner.native, now)
            hidden == Growatt!Ended(calls[c].attempt) /\ calls[c].result = "success"
            quiet == owner.retired \/ hidden \/ now < owner.native.tick
        IN  /\ owner' =
                 IF quiet THEN (IF owner.retired THEN free ELSE Growatt!Quiet(free))
                 ELSE [free EXCEPT !.native = n,
                                   !.tick = IF now > @ THEN now ELSE @,
                                   !.deadline = calls[c].frozen,
                                   !.published = Growatt!Envelope(n, c, now, admitted)]
            /\ IF quiet THEN Growatt!Retired ELSE Growatt!Done(calls[c].attempt)
  BY Zenon DEF Growatt!Settle
<1> DEFINE hidden == HasEnded(c) /\ calls[c].result = "success"
           quiet == owner.retired \/ hidden \/ now < owner.native.tick
<1>4. CASE quiet
  <2>1. GrowattEnds
    BY <1>3, <1>4 DEF Growatt!Retired, Growatt!AllBegun, GrowattEnds, AllBegun, Growatt!Ended,
                      HasEnded, Ended
  <2>2. owner' = IF owner.retired THEN [owner EXCEPT !.busy = FALSE]
                 ELSE Growatt!Quiet([owner EXCEPT !.busy = FALSE])
    BY <1>3, <1>4 DEF Growatt!Ended, HasEnded, Ended
  <2>3. /\ TraceGrows /\ trace'.begun = trace.begun /\ trace.over \subseteq trace'.over
        /\ trace'.retired = TRUE
    BY <1>0, <1>2, <2>1, GrowattTrace
  <2>4. /\ DOMAIN owner' = GrowattFields /\ owner'.native = owner.native
        /\ owner'.tick = owner.tick /\ owner'.deadline = owner.deadline
        /\ owner'.retired = TRUE
        /\ DOMAIN owner'.published = EnvelopeFields
        /\ owner'.published.success = owner.published.success
        /\ owner'.published.state = owner.published.state
        /\ owner'.published.diagnostic = 0
    <3>1. CASE owner.retired
      BY <1>0, <2>2, <3>1 DEF GrowattOwner, GrowattFields, DiagnosticFollowsBase
    <3>2. CASE ~owner.retired
      BY <1>0, <2>2, <3>2 DEF GrowattOwner, GrowattFields, EnvelopeFields, Growatt!Quiet
    <3> QED
      BY <3>1, <3>2
  <2>5. Common' /\ OneOut' /\ \A d \in Callers : GrowattCall(d)'
    BY <1>1, <1>2, <2>3, GrowattBack
  <2>6. GrowattOwner' /\ DiagnosticFollowsBase'
    BY <1>0, <2>3, <2>4 DEF GrowattOwner, DiagnosticFollowsBase
  <2>7. GrowattInv'
    BY <1>0, <1>1, <2>4, <2>5, <2>6 DEF GrowattInv
  <2>8. Fenced!Fence
    BY <1>0, <1>1, <2>3, <2>4, GrowattShows DEF Fenced!Fence, Fenced!Keeps
  <2> QED
    BY <2>7, <2>8 DEF Fenced!Next
<1>5. CASE ~quiet
  <2>1. ~owner.retired /\ ~hidden
    BY <1>5
  <2>2. GrowattDone(calls[c].attempt)
    BY <1>3, <1>5 DEF Growatt!Done, GrowattDone, Growatt!Ended, HasEnded, Ended
  <2>3. PICK n, envelope :
          /\ n = Growatt!Advanced(owner.native, now)
          /\ envelope = Growatt!Envelope(n, c, now, admitted)
    OBVIOUS
  <2>4. owner' = [[owner EXCEPT !.busy = FALSE] EXCEPT
                    !.native = n, !.tick = IF now > @ THEN now ELSE @,
                    !.deadline = calls[c].frozen, !.published = envelope]
    BY <1>3, <1>5, <2>3 DEF Growatt!Ended, HasEnded, Ended
  <2>5. /\ TraceGrows /\ trace'.begun = trace.begun
        /\ trace'.over = trace.over \cup {calls[c].attempt} /\ trace'.retired = trace.retired
    BY <1>0, <1>2, <2>2, GrowattTrace
  <2>6. /\ DOMAIN owner' = GrowattFields /\ owner'.native = n /\ owner'.retired = owner.retired
        /\ owner'.tick = (IF now > owner.tick THEN now ELSE owner.tick)
        /\ owner'.deadline = calls[c].frozen /\ owner'.published = envelope
    BY <1>0, <2>4 DEF GrowattOwner, GrowattFields
  <2>7. /\ DOMAIN n = NativeFields /\ n.tick = now /\ n.attempt = owner.native.attempt
        /\ n.success = owner.native.success /\ n.applicable = owner.native.applicable
        /\ n.outcome = "pending" => owner.native.outcome = "pending"
        /\ owner.native.outcome = "success" => n.outcome = "success"
    BY <1>0, <2>3, GrowattAdvanced DEF GrowattOwner
  <2> DEFINE success == calls[c].result = "success"
             timely == now < calls[c].frozen /\ owner.tick < calls[c].frozen
                       /\ now >= owner.tick
  <2>8. /\ DOMAIN envelope = EnvelopeFields
        /\ envelope.state = Growatt!State(n) /\ envelope.success = n.success
        /\ envelope.diagnostic # 0 => /\ success /\ timely
                                      /\ envelope.diagnostic = envelope.link
                                      /\ envelope.link = calls[c].attempt
    BY <2>3 DEF Growatt!Envelope, EnvelopeFields
  <2>9. success => /\ n.success = calls[c].attempt /\ n.outcome = "success"
                   /\ n.applicable /\ ~IsOver(c) /\ calls[c].attempt # 0
    BY <1>0, <1>1, <1>2, <2>1, <2>7 DEF GrowattCall, Succeeds, AllBegun
  <2>10. /\ Growatt!State(n) \in {"current", "retained"} => n.success # 0 /\ n.applicable
         /\ n.success # 0 /\ n.applicable => Growatt!State(n) \in {"current", "retained"}
         /\ success => Growatt!State(n) = "current"
    BY <2>9, GrowattState
  <2>11. Common' /\ OneOut' /\ \A d \in Callers : GrowattCall(d)'
    BY <1>1, <1>2, <2>5, GrowattBack
  <2>12. GrowattOwner'
    <3>1. now \in Int
      BY <1>3 DEF Growatt!Ticks
    <3> QED
      BY <1>0, <1>2, <2>5, <2>6, <2>7, <2>8, <3>1 DEF GrowattOwner, IsCall
  <2>13. DiagnosticFollowsBase'
    <3>1. timely => owner'.tick < owner'.deadline
      BY <2>6
    <3> QED
      BY <2>1, <2>6, <2>8, <2>9, <2>10, <3>1 DEF DiagnosticFollowsBase
  <2>14. EnvelopeIsNative'
    BY <2>6, <2>8, <2>10 DEF EnvelopeIsNative
  <2>15. GrowattInv'
    BY <1>0, <1>1, <2>11, <2>12, <2>13, <2>14 DEF GrowattInv
  <2>16. CASE success
    <3>1. Fenced!Publish
      BY <1>0, <1>1, <1>2, <2>1, <2>5, <2>6, <2>8, <2>9, <2>16, GrowattShows
         DEF Fenced!Publish, IsOver, AllBegun, GrowattOwner
    <3> QED
      BY <2>15, <3>1 DEF Fenced!Next
  <2>17. CASE ~success
    <3>1. EnvelopeIsNative
      BY <1>0, <1>1, <1>2, <2>1, <2>17, <2>5, GrowattBack DEF Succeeds
    <3>2. Fenced!Keeps
      BY <1>0, <1>1, <2>6, <2>7, <2>8, <2>10, <3>1, GrowattShows
         DEF Fenced!Keeps, EnvelopeIsNative
    <3>3. Fenced!Fence
      BY <1>0, <2>5, <3>2 DEF Fenced!Fence
    <3> QED
      BY <2>15, <3>3 DEF Fenced!Next
  <2> QED
    BY <2>16, <2>17
<1> QED
  BY <1>4, <1>5

LEMMA GrowattAdvance ==
  ASSUME GrowattInv, Growatt!Advance
  PROVE  GrowattInv' /\ Fenced!Next
<1>0. /\ Common /\ OneOut /\ GrowattOwner /\ family = "growatt"
      /\ trace.begun \in Nat /\ trace.over \subseteq 1 .. trace.begun
      /\ DOMAIN trace = TraceFields /\ trace.retired \in BOOLEAN
      /\ DiagnosticFollowsBase /\ \A c \in Callers : GrowattCall(c)
      /\ owner.retired \/ (\E d \in Callers : Succeeds(d)) \/ EnvelopeIsNative
  BY DEF GrowattInv, Common, AllBegun
<1>1. family' = family /\ calls' = calls /\ ~owner.retired
  BY DEF Growatt!Advance
<1>2. PICK now \in Growatt!Ticks :
        /\ owner' = [owner EXCEPT !.native = Growatt!Advanced(@, now), !.tick = now,
                       !.published.diagnostic = IF now >= owner.deadline THEN 0 ELSE @]
        /\ Growatt!Over(IF owner.native.outcome = "pending" /\ now >= owner.native.deadline
                        THEN {owner.native.attempt} ELSE {})
  BY DEF Growatt!Advance
<1>3. PICK n : n = Growatt!Advanced(owner.native, now)
  OBVIOUS
<1> DEFINE closes == owner.native.outcome = "pending" /\ now >= owner.native.deadline
<1>4. /\ DOMAIN n = NativeFields /\ n.tick = now /\ n.attempt = owner.native.attempt
      /\ n.success = owner.native.success /\ n.applicable = owner.native.applicable
      /\ closes => n.outcome = "incomplete"
      /\ ~closes => n.outcome = owner.native.outcome
  BY <1>0, <1>3, GrowattAdvanced DEF GrowattOwner
<1>5. /\ DOMAIN owner' = GrowattFields /\ owner'.native = n /\ owner'.retired = owner.retired
      /\ owner'.busy = owner.busy /\ owner'.tick = now /\ owner'.deadline = owner.deadline
  BY <1>0, <1>2, <1>3 DEF GrowattOwner, GrowattFields
<1>6. /\ DOMAIN owner'.published = EnvelopeFields
      /\ owner'.published.success = owner.published.success
      /\ owner'.published.state = owner.published.state
      /\ owner'.published.link = owner.published.link
      /\ owner'.published.diagnostic =
           (IF now >= owner.deadline THEN 0 ELSE owner.published.diagnostic)
  BY <1>0, <1>2 DEF GrowattOwner, GrowattFields, EnvelopeFields
<1>7. PICK closed : /\ closed = (IF closes THEN {owner.native.attempt} ELSE {})
                    /\ trace' = [trace EXCEPT !.over = @ \cup closed]
  BY <1>2 DEF Growatt!Over
<1>8. closed \subseteq 1 .. trace.begun
  BY <1>0, <1>7 DEF GrowattOwner
<1>9. /\ trace'.begun = trace.begun /\ trace'.over = trace.over \cup closed
      /\ trace'.ended = trace.ended /\ trace'.retired = trace.retired /\ TraceGrows
  BY <1>0, <1>7, <1>8 DEF TraceGrows, TraceFields
<1>10. Common' /\ OneOut'
  BY <1>0, <1>1, <1>5, <1>9, CommonStays, OutStays
<1>11. ASSUME NEW c \in Callers
       PROVE  GrowattCall(c)'
  <2>1. /\ calls'[c] = calls[c] /\ owner'.retired = owner.retired
        /\ HasEnded(c) => HasEnded(c)'
    BY <1>1, <1>5, <1>9 DEF HasEnded, Ended
  <2>2. IsOver(c)' => IsOver(c) \/ (closes /\ calls[c].attempt = owner.native.attempt)
    BY <1>1, <1>7, <1>9 DEF IsOver
  <2>3. GrowattCall(c)
    BY <1>0
  <2> QED
    BY <1>1, <1>4, <1>5, <2>1, <2>2, <2>3 DEF GrowattCall, Succeeds, At
<1>12. GrowattOwner'
  <2>1. now \in Int
    BY <1>2 DEF Growatt!Ticks
  <2> QED
    BY <1>0, <1>4, <1>5, <1>6, <1>9, <2>1 DEF GrowattOwner
<1>13. DiagnosticFollowsBase'
  <2>1. now \in Int /\ owner.deadline \in Int
    BY <1>0, <1>2 DEF Growatt!Ticks, GrowattOwner
  <2>2. now < owner.deadline \/ owner'.published.diagnostic = 0
    BY <1>6, <2>1
  <2> QED
    BY <1>0, <1>1, <1>5, <1>6, <2>2 DEF DiagnosticFollowsBase
<1>14. EnvelopeIsNative \/ \E d \in Callers : Succeeds(d)
  BY <1>0, <1>1
<1>15. EnvelopeIsNative' \/ \E d \in Callers : Succeeds(d)'
  BY <1>1, <1>4, <1>5, <1>6, <1>14 DEF EnvelopeIsNative, Succeeds, At
<1>16. GrowattInv'
  BY <1>0, <1>1, <1>10, <1>11, <1>12, <1>13, <1>15 DEF GrowattInv
<1>17. Fenced!Fence
  BY <1>0, <1>1, <1>6, <1>9, GrowattShows DEF Fenced!Fence, Fenced!Keeps
<1> QED
  BY <1>16, <1>17 DEF Fenced!Next

LEMMA GrowattRetire ==
  ASSUME GrowattInv, Growatt!Retire
  PROVE  GrowattInv' /\ Fenced!Next
<1>0. /\ Common /\ OneOut /\ GrowattOwner /\ family = "growatt"
      /\ trace.begun \in Nat /\ trace.over \subseteq 1 .. trace.begun
      /\ DOMAIN trace = TraceFields /\ \A c \in Callers : GrowattCall(c)
  BY DEF GrowattInv, Common, AllBegun
<1>1. PICK E : trace' = [trace EXCEPT !.over = 1 .. trace.begun, !.retired = TRUE, !.ended = E]
  BY DEF Growatt!Retire, Growatt!AllBegun
<1>2. /\ family' = family /\ calls' = calls /\ TraceGrows
      /\ trace'.retired = TRUE /\ trace'.begun = trace.begun
      /\ trace.over \subseteq trace'.over
  BY <1>0, <1>1 DEF Growatt!Retire, TraceGrows, TraceFields
<1>3. /\ DOMAIN owner' = GrowattFields /\ owner'.native = owner.native
      /\ owner'.busy = owner.busy /\ owner'.tick = owner.tick /\ owner'.retired = TRUE
      /\ owner'.deadline = owner.deadline
      /\ DOMAIN owner'.published = EnvelopeFields
      /\ owner'.published.success = owner.published.success
      /\ owner'.published.state = owner.published.state
      /\ owner'.published.diagnostic = 0
  BY <1>0 DEF Growatt!Retire, Growatt!Quiet, GrowattOwner, GrowattFields, EnvelopeFields
<1>4. Common' /\ OneOut'
  BY <1>0, <1>2, <1>3, CommonStays, OutStays
<1>5. \A c \in Callers : GrowattCall(c)'
  BY <1>0, <1>2, <1>3 DEF GrowattCall, Succeeds, At
<1>6. GrowattOwner' /\ DiagnosticFollowsBase'
  BY <1>0, <1>2, <1>3 DEF GrowattOwner, DiagnosticFollowsBase
<1>7. GrowattInv'
  BY <1>0, <1>2, <1>3, <1>4, <1>5, <1>6 DEF GrowattInv
<1>8. Fenced!Fence
  BY <1>0, <1>2, <1>3, GrowattShows DEF Fenced!Fence, Fenced!Keeps
<1> QED
  BY <1>7, <1>8 DEF Fenced!Next

LEMMA GrowattStep ==
  ASSUME GrowattInv, Growatt!Next
  PROVE  GrowattInv' /\ Fenced!Next
<1> DEFINE H == {"reserved", "supplier", "close", "settle"}
<1>0. /\ Common /\ OneOut /\ GrowattOwner /\ family = "growatt"
      /\ DiagnosticFollowsBase /\ \A c \in Callers : GrowattCall(c)
      /\ owner.retired \/ (\E d \in Callers : Succeeds(d)) \/ EnvelopeIsNative
  BY DEF GrowattInv
<1>1. ASSUME Growatt!ContextEnds(H)
      PROVE  GrowattInv' /\ Fenced!Next
  <2>1. ContextEnds(H)
    BY <1>1 DEF Growatt!ContextEnds, Growatt!EndedAt, Growatt!InFlight, Growatt!AllBegun,
                ContextEnds, EndedAt, InFlight, AllBegun
  <2>2. /\ UNCHANGED <<family, owner, calls>> /\ TraceGrows
        /\ trace'.begun = trace.begun /\ trace'.retired = trace.retired
        /\ trace.over \subseteq trace'.over /\ trace.ended \subseteq trace'.ended
        /\ \A c \in Callers : IsOver(c)' => IsOver(c) \/ HasEnded(c)'
    BY <1>0, <2>1, ContextEndsStep
  <2>3. Common' /\ OneOut'
    BY <1>0, <2>2, CommonStays, OutStays
  <2>4. \A c \in Callers : GrowattCall(c)'
    BY <1>0, <2>2 DEF GrowattCall, Succeeds, At, HasEnded, Ended
  <2>5. GrowattOwner' /\ DiagnosticFollowsBase'
    BY <1>0, <2>2 DEF GrowattOwner, DiagnosticFollowsBase
  <2>6. GrowattInv'
    BY <1>0, <2>2, <2>3, <2>4, <2>5 DEF GrowattInv, EnvelopeIsNative, Succeeds, At
  <2>7. Fenced!Fence
    BY <1>0, <2>2, GrowattShows DEF Fenced!Fence, Fenced!Keeps
  <2> QED
    BY <2>6, <2>7 DEF Fenced!Next
<1> QED
  BY <1>1, GrowattReserve, GrowattCycle, GrowattSettle, GrowattPanic, GrowattAdvance,
     GrowattRetire DEF Growatt!Next, Growatt!Call

-----------------------------------------------------------------------------
(* The initial states                                                      *)

NobodyCalls == calls = [c \in Callers |-> NoCall] /\ trace = NoTrace

LEMMA CommonStarts ==
  ASSUME NobodyCalls
  PROVE  /\ Common /\ \A c \in Callers : Idle(c)
         /\ trace.begun = 0 /\ trace.over = {} /\ trace.retired = FALSE
<1>1. \A c \in Callers : IsCall(calls[c]) /\ Idle(c)
  BY DEF NobodyCalls, NoCall, IsCall, CallFields, Idle
<1>2. /\ DOMAIN trace = TraceFields /\ trace.begun = 0 /\ trace.over = {}
      /\ trace.retired = FALSE
  BY DEF NobodyCalls, NoTrace, TraceFields
<1>3. trace.retired \in BOOLEAN
  BY <1>2, Zenon
<1>4. DOMAIN calls = Callers
  BY DEF NobodyCalls
<1> QED
  BY <1>1, <1>2, <1>3, <1>4, SMT DEF Common, CallsTyped, AllBegun

LEMMA OutStarts ==
  ASSUME \A c \in Callers : Idle(c)
  PROVE  OneOut /\ (owner.busy = FALSE => BusyIsOut)
  BY DEF OneOut, BusyIsOut

LEMMA Sun2000Starts ==
  ASSUME Sun2000!Init
  PROVE  Sun2000Inv /\ Fenced!Init
<1>1. family = "sun2000" /\ NobodyCalls
  BY DEF Sun2000!Init, Sun2000!InitPort, Sun2000!NoCall, Sun2000!NoTrace, NobodyCalls, NoCall, NoTrace
<1>2. /\ DOMAIN owner = {"busy", "retired", "generation", "last"}
      /\ owner.busy = FALSE
      /\ owner.retired = FALSE
      /\ owner.generation = 1 /\ owner.last = 0
  BY DEF Sun2000!Init, Sun2000!InitPort, Sun2000!NewOwner
<1>3. /\ Common /\ \A c \in Callers : Idle(c)
      /\ trace.begun = 0 /\ trace.over = {} /\ trace.retired = FALSE
  BY <1>1, CommonStarts
<1>4. OneOut /\ BusyIsOut
  BY <1>2, <1>3, OutStarts
<1>5. owner.retired = trace.retired
  BY <1>2, <1>3, Zenon
<1>6. Sun2000Inv
  BY <1>1, <1>2, <1>3, <1>4, <1>5 DEF Sun2000Inv, Idle, At
<1>7. Record = 0 /\ ~Usable
  BY <1>1, <1>2 DEF Record, Usable, Sun2000!Record, Sun2000!Usable
<1> QED
  BY <1>3, <1>6, <1>7 DEF Fenced!Init

LEMMA SDongleStarts ==
  ASSUME SDongle!Init
  PROVE  SDongleInv /\ Fenced!Init
<1>1. family = "sdongle" /\ NobodyCalls
  BY DEF SDongle!Init, SDongle!InitPort, SDongle!NoCall, SDongle!NoTrace, NobodyCalls, NoCall, NoTrace
<1>2. /\ DOMAIN owner = {"busy", "retired", "state", "retained"}
      /\ owner.busy = FALSE
      /\ owner.retired = FALSE
      /\ owner.retained = 0 /\ owner.state = "blocked"
  BY DEF SDongle!Init, SDongle!InitPort, SDongle!NewOwner
<1>3. /\ Common /\ \A c \in Callers : Idle(c)
      /\ trace.begun = 0 /\ trace.over = {} /\ trace.retired = FALSE
  BY <1>1, CommonStarts
<1>4. OneOut /\ BusyIsOut
  BY <1>2, <1>3, OutStarts
<1>5. owner.retired = trace.retired
  BY <1>2, <1>3, Zenon
<1>6. SDongleInv
  BY <1>1, <1>2, <1>3, <1>4, <1>5 DEF SDongleInv, Idle, At
<1>7. Record = 0 /\ ~Usable
  BY <1>1, <1>2 DEF Record, Usable, SDongle!Record, SDongle!Usable
<1> QED
  BY <1>3, <1>6, <1>7 DEF Fenced!Init

LEMMA LunaStarts ==
  ASSUME Luna!Init
  PROVE  LunaInv /\ Fenced!Init
<1>1. family = "luna" /\ NobodyCalls
  BY DEF Luna!Init, Luna!InitPort, Luna!NoCall, Luna!NoTrace, NobodyCalls, NoCall, NoTrace
<1>2. /\ DOMAIN owner = {"busy", "retired", "evaluatedAt", "status", "receipt"}
      /\ owner.busy = FALSE
      /\ owner.retired = FALSE
      /\ owner.evaluatedAt = 0 /\ owner.receipt = 0 /\ owner.status = "unknown"
  BY DEF Luna!Init, Luna!InitPort, Luna!NewOwner
<1>3. /\ Common /\ \A c \in Callers : Idle(c)
      /\ trace.begun = 0 /\ trace.over = {} /\ trace.retired = FALSE
  BY <1>1, CommonStarts
<1>4. OneOut /\ BusyIsOut
  BY <1>2, <1>3, OutStarts
<1>5. owner.retired = trace.retired
  BY <1>2, <1>3, Zenon
<1>6. LunaInv
  BY <1>1, <1>2, <1>3, <1>4, <1>5 DEF LunaInv, Idle, At
<1>7. Record = 0 /\ ~Usable
  BY <1>1, <1>2 DEF Record, Usable, Luna!Record, Luna!Usable
<1> QED
  BY <1>3, <1>6, <1>7 DEF Fenced!Init

LEMMA OutBackStarts ==
  ASSUME OutBack!Init
  PROVE  OutBackInv /\ Fenced!Init
<1>1. family = "outback" /\ NobodyCalls
  BY DEF OutBack!Init, OutBack!InitPort, OutBack!NoCall, OutBack!NoTrace, NobodyCalls, NoCall, NoTrace
<1>2. /\ DOMAIN owner = {"busy", "retired", "generation", "source", "attempt", "status",
                         "record", "recordGeneration", "recordSource", "complete"}
      /\ owner.busy = FALSE
      /\ owner.retired = FALSE
      /\ owner.generation = 1 /\ owner.recordGeneration = 0 /\ owner.record = 0
  BY DEF OutBack!Init, OutBack!InitPort, OutBack!NewOwner
<1>3. /\ Common /\ \A c \in Callers : Idle(c)
      /\ trace.begun = 0 /\ trace.over = {} /\ trace.retired = FALSE
  BY <1>1, CommonStarts
<1>4. OneOut /\ BusyIsOut
  BY <1>2, <1>3, OutStarts
<1>5. owner.retired = trace.retired
  BY <1>2, <1>3, Zenon
<1>6. OutBackInv
  BY <1>1, <1>2, <1>3, <1>4, <1>5 DEF OutBackInv, Idle, At
<1>7. Record = 0 /\ ~Usable
  BY <1>1, <1>2 DEF Record, Usable, OutBack!Record, OutBack!Usable
<1> QED
  BY <1>3, <1>6, <1>7 DEF Fenced!Init

LEMMA FroniusStarts ==
  ASSUME Fronius!Init
  PROVE  FroniusInv /\ Fenced!Init
<1>1. family = "fronius" /\ NobodyCalls
  BY DEF Fronius!Init, Fronius!InitPort, Fronius!NoCall, Fronius!NoTrace, NobodyCalls, NoCall, NoTrace
<1>2. /\ DOMAIN owner = {"retired", "active", "key", "envelope", "latest", "outcome"}
      /\ owner.retired = FALSE
      /\ owner.active = 0 /\ owner.envelope = 0
  BY DEF Fronius!Init, Fronius!InitPort, Fronius!NewOwner
<1>3. /\ Common /\ \A c \in Callers : Idle(c)
      /\ trace.begun = 0 /\ trace.over = {} /\ trace.retired = FALSE
  BY <1>1, CommonStarts
<1>4. owner.retired = trace.retired
  BY <1>2, <1>3, Zenon
<1>5. FroniusInv
  BY <1>1, <1>2, <1>3, <1>4 DEF FroniusInv, Idle, At
<1>6. Record = 0 /\ ~Usable
  BY <1>1, <1>2 DEF Record, Usable, Fronius!Record, Fronius!Usable
<1> QED
  BY <1>3, <1>5, <1>6 DEF Fenced!Init

LEMMA SmartloggerStarts ==
  ASSUME Smartlogger!Init
  PROVE  SmartloggerInv /\ Fenced!Init
<1>1. family = "smartlogger" /\ NobodyCalls
  BY DEF Smartlogger!Init, Smartlogger!InitPort, Smartlogger!NoCall, Smartlogger!NoTrace,
         NobodyCalls, NoCall, NoTrace
<1>2. /\ DOMAIN owner = SmartloggerFields
      /\ owner.busy = FALSE
      /\ owner.closed = FALSE /\ owner.shut = FALSE /\ owner.locked = FALSE
      /\ owner.generation = Smartlogger!BuiltFor /\ owner.lastGeneration = 0 /\ owner.last = 0
  BY DEF Smartlogger!Init, Smartlogger!InitPort, Smartlogger!NewOwner, SmartloggerFields
<1>3. /\ Common /\ \A c \in Callers : Idle(c)
      /\ trace.begun = 0 /\ trace.over = {} /\ trace.retired = FALSE
  BY <1>1, CommonStarts
<1>4. OneOut /\ BusyIsOut
  BY <1>2, <1>3, OutStarts
<1>5. owner.closed = trace.retired /\ owner.shut = owner.closed
  BY <1>2, <1>3, Zenon
<1>6. SmartloggerInv
  BY <1>1, <1>2, <1>3, <1>4, <1>5
     DEF SmartloggerInv, Idle, At, SmartloggerCall, SmartloggerFields, Smartlogger!BuiltFor
<1>7. Record = 0 /\ ~Usable
  BY <1>1, <1>2 DEF Record, Usable, Smartlogger!Record, Smartlogger!Usable
<1> QED
  BY <1>3, <1>6, <1>7 DEF Fenced!Init

LEMMA GrowattStarts ==
  ASSUME Growatt!Init
  PROVE  GrowattInv /\ Fenced!Init
<1>1. family = "growatt" /\ NobodyCalls
  BY DEF Growatt!Init, Growatt!InitPort, Growatt!NoCall, Growatt!NoTrace, NobodyCalls, NoCall,
         NoTrace
<1>2. /\ DOMAIN owner = GrowattFields /\ owner.busy = FALSE /\ owner.retired = FALSE
      /\ owner.tick = 0 /\ owner.deadline = 0
      /\ owner.native = Growatt!NewNative /\ owner.published = Growatt!NewEnvelope
  BY DEF Growatt!Init, Growatt!InitPort, Growatt!NewOwner, GrowattFields
<1>3. /\ DOMAIN owner.native = NativeFields /\ owner.native.tick = 0
      /\ owner.native.attempt = 0 /\ owner.native.outcome = "none"
      /\ owner.native.success = 0 /\ owner.native.applicable = FALSE
  BY <1>2 DEF Growatt!NewNative, NativeFields
<1>4. /\ DOMAIN owner.published = EnvelopeFields /\ owner.published.state = "absent"
      /\ owner.published.success = 0 /\ owner.published.diagnostic = 0
  BY <1>2 DEF Growatt!NewEnvelope, EnvelopeFields
<1>5. /\ Common /\ OneOut /\ \A c \in Callers : Idle(c)
      /\ trace.begun = 0 /\ trace.over = {} /\ trace.retired = FALSE
  BY <1>1, CommonStarts, OutStarts
<1>6. owner.retired = trace.retired /\ owner.native.applicable \in BOOLEAN
  BY <1>2, <1>3, <1>5, Zenon
<1>7. GrowattOwner /\ EnvelopeIsNative /\ DiagnosticFollowsBase
  BY <1>2, <1>3, <1>4, <1>5, <1>6 DEF GrowattOwner, EnvelopeIsNative, DiagnosticFollowsBase
<1>8. \A c \in Callers : GrowattCall(c)
  BY <1>5 DEF GrowattCall, Succeeds, Idle, At
<1>9. Record = 0 /\ ~Usable
  BY <1>1, <1>4 DEF Record, Usable, Growatt!Record, Growatt!Usable
<1> QED
  BY <1>1, <1>5, <1>7, <1>8, <1>9 DEF GrowattInv, Fenced!Init

LEMMA EmmaStarts ==
  ASSUME Emma!Init
  PROVE  EmmaInv /\ Fenced!Init
<1>1. family = "emma" /\ NobodyCalls
  BY DEF Emma!Init, Emma!InitPort, Emma!NoCall, Emma!NoTrace, NobodyCalls, NoCall, NoTrace
<1>2. /\ DOMAIN owner = EmmaFields /\ owner.retired = FALSE /\ owner.cancelled = FALSE
      /\ owner.parent = 1 /\ owner.generation = 1 /\ owner.cycle = 0
      /\ owner.latest = Emma!EmptyResult
  BY DEF Emma!Init, Emma!InitPort, Emma!NewOwner, EmmaFields
<1>3. /\ DOMAIN owner.latest = EmmaResult /\ owner.latest.context = 0
      /\ owner.latest.retained = 0 /\ owner.latest.committed = FALSE
  BY <1>2 DEF Emma!EmptyResult, EmmaResult
<1>4. /\ Common /\ \A c \in Callers : Idle(c)
      /\ trace.begun = 0 /\ trace.over = {} /\ trace.retired = FALSE
  BY <1>1, CommonStarts
<1>5. owner.retired = trace.retired
  BY <1>2, <1>4, Zenon
<1>6. EmmaInv
  BY <1>1, <1>2, <1>3, <1>4, <1>5 DEF EmmaInv, EmmaFields, EmmaResult, EmmaCall
<1>7. Record = 0 /\ ~Usable
  BY <1>1, <1>3 DEF Record, Usable, Emma!Record, Emma!Usable
<1> QED
  BY <1>4, <1>6, <1>7 DEF Fenced!Init

-----------------------------------------------------------------------------
(* The eight ports together                                                *)

LEMMA PortStarts ==
  ASSUME Init
  PROVE  PortInv /\ Fenced!Init
  BY Sun2000Starts, SDongleStarts, LunaStarts, OutBackStarts, FroniusStarts,
     SmartloggerStarts, GrowattStarts, EmmaStarts DEF Init, PortInv

(* A step is one of the port that the behaviour is of.                     *)
LEMMA PortSteps ==
  ASSUME PortInv, Next
  PROVE  PortInv' /\ Fenced!Next
<1>1. CASE Sun2000!Next
  <2>1. Sun2000Inv
    BY <1>1 DEF PortInv, Sun2000Inv, SDongleInv, LunaInv, OutBackInv,
       FroniusInv, SmartloggerInv, GrowattInv, EmmaInv, Sun2000!Next
  <2> QED
    BY <1>1, <2>1, Sun2000Step DEF PortInv
<1>2. CASE SDongle!Next
  <2>1. SDongleInv
    BY <1>2 DEF PortInv, Sun2000Inv, SDongleInv, LunaInv, OutBackInv,
       FroniusInv, SmartloggerInv, GrowattInv, EmmaInv, SDongle!Next
  <2> QED
    BY <1>2, <2>1, SDongleStep DEF PortInv
<1>3. CASE Luna!Next
  <2>1. LunaInv
    BY <1>3 DEF PortInv, Sun2000Inv, SDongleInv, LunaInv, OutBackInv,
       FroniusInv, SmartloggerInv, GrowattInv, EmmaInv, Luna!Next
  <2> QED
    BY <1>3, <2>1, LunaStep DEF PortInv
<1>4. CASE OutBack!Next
  <2>1. OutBackInv
    BY <1>4 DEF PortInv, Sun2000Inv, SDongleInv, LunaInv, OutBackInv,
       FroniusInv, SmartloggerInv, GrowattInv, EmmaInv, OutBack!Next
  <2> QED
    BY <1>4, <2>1, OutBackStep DEF PortInv
<1>5. CASE Fronius!Next
  <2>1. FroniusInv
    BY <1>5 DEF PortInv, Sun2000Inv, SDongleInv, LunaInv, OutBackInv,
       FroniusInv, SmartloggerInv, GrowattInv, EmmaInv, Fronius!Next
  <2> QED
    BY <1>5, <2>1, FroniusStep DEF PortInv
<1>6. CASE Smartlogger!Next
  <2>1. SmartloggerInv
    BY <1>6 DEF PortInv, Sun2000Inv, SDongleInv, LunaInv, OutBackInv,
       FroniusInv, SmartloggerInv, GrowattInv, EmmaInv, Smartlogger!Next
  <2> QED
    BY <1>6, <2>1, SmartloggerStep DEF PortInv
<1>7. CASE Growatt!Next
  <2>1. GrowattInv
    BY <1>7 DEF PortInv, Sun2000Inv, SDongleInv, LunaInv, OutBackInv,
       FroniusInv, SmartloggerInv, GrowattInv, EmmaInv, Growatt!Next
  <2> QED
    BY <1>7, <2>1, GrowattStep DEF PortInv
<1>8. CASE Emma!Next
  <2>1. EmmaInv
    BY <1>8 DEF PortInv, Sun2000Inv, SDongleInv, LunaInv, OutBackInv,
       FroniusInv, SmartloggerInv, GrowattInv, EmmaInv, Emma!Next
  <2> QED
    BY <1>8, <2>1, EmmaStep DEF PortInv
<1> QED
  BY <1>1, <1>2, <1>3, <1>4, <1>5, <1>6, <1>7, <1>8 DEF Next

LEMMA PortStutters ==
  ASSUME PortInv, UNCHANGED vars
  PROVE  PortInv' /\ UNCHANGED Fenced!vars
<1>1. /\ family' = family /\ owner' = owner /\ calls' = calls /\ trace' = trace
  BY DEF vars
<1>2. (Common => Common') /\ (OneOut => OneOut') /\ (BusyIsOut => BusyIsOut')
  BY <1>1 DEF Common, CallsTyped, AllBegun, Idle, OneOut, BusyIsOut
<1>3. Sun2000Inv => Sun2000Inv'
  BY <1>1, <1>2 DEF Sun2000Inv, At, IsOver, HasEnded, Ended
<1>4. SDongleInv => SDongleInv'
  BY <1>1, <1>2 DEF SDongleInv, At, IsOver, HasEnded, Ended
<1>5. LunaInv => LunaInv'
  BY <1>1, <1>2 DEF LunaInv, At, IsOver, HasEnded, Ended
<1>6. OutBackInv => OutBackInv'
  BY <1>1, <1>2 DEF OutBackInv, At, IsOver, HasEnded, Ended, OutBack!Superseded
<1>7. FroniusInv => FroniusInv'
  BY <1>1, <1>2 DEF FroniusInv, At, IsOver, HasEnded, Ended
<1>8. SmartloggerInv => SmartloggerInv'
  BY <1>1, <1>2 DEF SmartloggerInv, SmartloggerCall, At, IsOver, HasEnded, Ended,
     Smartlogger!BuiltFor
<1>9. GrowattInv => GrowattInv'
  BY <1>1, <1>2 DEF GrowattInv, GrowattCall, Succeeds, GrowattOwner, EnvelopeIsNative,
     DiagnosticFollowsBase, At, IsOver, HasEnded, Ended
<1>10. EmmaInv => EmmaInv'
  BY <1>1, <1>2 DEF EmmaInv, EmmaCall, Emma!Current, Idle, At, IsOver
<1>11. UNCHANGED <<Record, Usable>>
  BY <1>1 DEF Record, Usable, Sun2000!Record, SDongle!Record, Luna!Record,
     OutBack!Record, Fronius!Record, Smartlogger!Record, Growatt!Record, Emma!Record,
     Sun2000!Usable, SDongle!Usable, Luna!Usable, OutBack!Usable,
     Fronius!Usable, Smartlogger!Usable, Growatt!Usable, Emma!Usable
<1> QED
  BY <1>1, <1>3, <1>4, <1>5, <1>6, <1>7, <1>8, <1>9, <1>10, <1>11 DEF PortInv, Fenced!vars

(* The invariant of the ports, for every instance.                         *)
LEMMA PortInvariant == Spec => []PortInv
<1>1. Init => PortInv
  BY PortStarts
<1>2. PortInv /\ [Next]_vars => PortInv'
  BY PortSteps, PortStutters
<1> QED
  BY <1>1, <1>2, PTL DEF Spec

(* Every port implements the fenced publication: an attempt publishes at   *)
(* most once, and not after a replacement, a retirement, a newer attempt   *)
(* or (EMMA apart) the end of its context; and a record that ceased to be  *)
(* usable is shown as current again by a publication only.                 *)
THEOREM PortsFencePublication == Spec => Promise
<1>1. Init => Fenced!Init
  BY PortStarts
<1>2. PortInv /\ [Next]_vars => [Fenced!Next]_(Fenced!vars)
  BY PortSteps, PortStutters
<1> QED
  BY <1>1, <1>2, PortInvariant, PTL DEF Spec, Promise, Fenced!Spec

(* In the six ports that admit one call at a time two callers are never    *)
(* between admission and return, and (but for Growatt) the supplier's slot *)
(* is free when nobody is.                                                 *)
THEOREM OneCallIsOut == Spec => []OneCallOut
<1>1. PortInv => OneCallOut
  <2> SUFFICES ASSUME PortInv, family \in Exclusive
               PROVE  OneCallOut
    BY DEF OneCallOut
  <2>1. OneOut /\ (family # "growatt" => BusyIsOut)
    BY DEF PortInv, Exclusive, Families, Sun2000Inv, SDongleInv, LunaInv, OutBackInv, FroniusInv,
       SmartloggerInv, GrowattInv, EmmaInv
  <2>2. Cardinality({c \in Callers : ~Idle(c)}) <= 1
    <3>1. CASE \A c \in Callers : Idle(c)
      <4>1. {c \in Callers : ~Idle(c)} = {}
        BY <3>1
      <4> QED
        BY <4>1, FS_EmptySet
    <3>2. ASSUME NEW c \in Callers, ~Idle(c)
          PROVE  Cardinality({d \in Callers : ~Idle(d)}) <= 1
      <4>1. {d \in Callers : ~Idle(d)} = {c}
        BY <2>1, <3>2 DEF OneOut
      <4> QED
        BY <4>1, FS_Singleton
    <3> QED
      BY <3>1, <3>2
  <2>3. (\A c \in Callers : Idle(c)) /\ family # "growatt" => ~owner.busy
    BY <2>1 DEF BusyIsOut
  <2> QED
    BY <2>2, <2>3 DEF OneCallOut, Exclusive, Families, Smartlogger!Busy, Luna!Busy,
       SDongle!Busy, OutBack!Busy, Sun2000!Busy
<1> QED
  BY <1>1, PortInvariant, PTL

(* The SmartLogger's supplier is called for the context the port was built *)
(* for and never for a successor's: a refresh whose native attempt begins  *)
(* after I17Retire moved the owner on is stopped by the wrapped reader.    *)
THEOREM SupplierIsOfThePort == Spec => []SupplierKeepsContext
<1>1. PortInv => SupplierKeepsContext
  BY DEF SupplierKeepsContext, SmartloggerCall, PortInv, Sun2000Inv, SDongleInv, LunaInv,
     OutBackInv, FroniusInv, SmartloggerInv, GrowattInv, EmmaInv
<1> QED
  BY <1>1, PortInvariant, PTL

(* The Growatt diagnostic is shown with the evidence it was derived from   *)
(* and no other, while that evidence is current, before its deadline and   *)
(* before retirement.                                                      *)
THEOREM DiagnosticIsOfTheBase == Spec => []DiagnosticFollowsBase
<1>1. PortInv => DiagnosticFollowsBase
  <2>1. GrowattInv => DiagnosticFollowsBase
    BY DEF GrowattInv
  <2>2. PortInv /\ family = "growatt" => GrowattInv
    BY DEF PortInv, Sun2000Inv, SDongleInv, LunaInv, OutBackInv,
       FroniusInv, SmartloggerInv, GrowattInv, EmmaInv
  <2> QED
    BY <2>1, <2>2 DEF DiagnosticFollowsBase
<1> QED
  BY <1>1, PortInvariant, PTL
====
