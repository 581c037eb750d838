---------------------------- MODULE SuppliedPort ----------------------------
(***************************************************************************)
(* What the eight supplied-evidence ports (I13, I15, I17, I19, I21, I23,   *)
(* I25, I27) have in common.  A port owns one retained record.  A call     *)
(* freezes what it was begun for, leaves the port's lock while caller code *)
(* (the supplier) runs, takes the lock again and publishes.  Other callers *)
(* retire the port, replace its context, cancel or begin again meanwhile.  *)
(*                                                                         *)
(* An attempt is a number; a context.Context belongs to one attempt and    *)
(* has only ended or not (cancelled or past its deadline).  Evidence is    *)
(* the attempt that supplied it.  Requests that are refused before they    *)
(* change anything are not steps.                                          *)
(***************************************************************************)
EXTENDS Integers, FiniteSets

CONSTANTS Callers,        \* goroutines that call the port
          MaxAttempts,    \* bound on accepted attempts
          MaxGeneration,  \* bound on context replacements
          MaxTick         \* bound on the logical clocks of Growatt and Luna

ASSUME SuppliedPortAssumption ==
  /\ IsFiniteSet(Callers) /\ Callers # {}
  /\ MaxAttempts \in Nat \ {0} /\ MaxGeneration \in Nat \ {0} /\ MaxTick \in Nat

VARIABLES
  family,   \* which port this is; it never changes
  owner,    \* the port's state with that of the native owner it wraps
  calls,    \* the calls in flight
  trace     \* history: attempts begun, attempts over, contexts ended, retired

vars == <<family, owner, calls, trace>>

Attempts == 1..MaxAttempts

(* pc: where the call is; frozen: the generation, key or context it was    *)
(* begun for; ticket: its ticket or the time it has read; result: what the *)
(* supplier returned, as far as the port tells results apart.              *)
NoCall == [pc |-> "idle", attempt |-> 0, frozen |-> 0, ticket |-> 0, result |-> "none"]

NoTrace == [begun |-> 0, over |-> {}, ended |-> {}, retired |-> FALSE]

InitPort(name, initial) ==
  /\ family = name
  /\ owner = initial
  /\ calls = [c \in Callers |-> NoCall]
  /\ trace = NoTrace

Idle(c) == calls[c].pc = "idle"
At(c, pc) == calls[c].pc = pc
Goes(c, pc) == calls' = [calls EXCEPT ![c].pc = pc]
Returns(c) == calls' = [calls EXCEPT ![c] = NoCall]
Ended(a) == a \in trace.ended

NextAttempt == trace.begun + 1
MayBegin == trace.begun < MaxAttempts
AllBegun == 1..trace.begun

(* A new attempt begins; the attempts in  superseded  are over with it.    *)
Begun(superseded) ==
  trace' = [trace EXCEPT !.begun = @ + 1, !.over = @ \cup superseded]
Over(as) == trace' = [trace EXCEPT !.over = @ \cup as]
(* A call returns: nobody looks at its context any more.                   *)
Done(a) == trace' = [trace EXCEPT !.over = @ \cup {a}, !.ended = @ \ {a}]
Retired == trace' = [trace EXCEPT !.over = AllBegun, !.retired = TRUE]

(* A caller's context is cancelled or expires while its attempt is open.   *)
(* In  honours  are the places of a call that still look at the context    *)
(* before they publish: there the attempt is over with its context.        *)
InFlight(a) == \E c \in Callers : calls[c].attempt = a
EndedAt(a, honours) ==
  LET looks == \A c \in Callers : calls[c].attempt = a => calls[c].pc \in honours
  IN  trace' = [trace EXCEPT !.ended = @ \cup {a},
                             !.over = IF looks THEN @ \cup {a} ELSE @]

ContextEnds(honours) ==
  /\ \E a \in AllBegun \ trace.ended : InFlight(a) /\ EndedAt(a, honours)
  /\ UNCHANGED <<family, owner, calls>>

=============================================================================
