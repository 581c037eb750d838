------------------------------ MODULE SunSpecWalk ------------------------------
(***************************************************************************)
(* What chain discovery promises, without reads, views or requests: one    *)
(* base is chosen, models are found one after the other without a gap, and *)
(* the walk ends once and for good, complete at an end marker or failed.   *)
(* A complete walk with its signature and end marker is within the word    *)
(* bound, and nothing was found beyond the address space.                  *)
(***************************************************************************)
EXTENDS Integers, Sequences

CONSTANTS Bases, LastAddress, Nowhere

VARIABLES
    base,       \* the base chosen, or Nowhere
    limits,     \* the bounds of the walk: [words, models]
    models,     \* the models found: [id, header, length]
    verdict     \* "walking", "complete", "failed"

vars == <<base, limits, models, verdict>>

(* The address after the last model.                                       *)
At ==
    IF models = <<>> THEN base + 2
    ELSE LET m == models[Len(models)] IN m.header + 2 + m.length

Init ==
    /\ base = Nowhere /\ limits = Nowhere
    /\ models = <<>> /\ verdict = "walking"

Choose ==
    /\ verdict = "walking" /\ base = Nowhere
    /\ base' \in {b \in Bases : b + 3 <= LastAddress}
    /\ limits' # Nowhere
    /\ UNCHANGED <<models, verdict>>

Found(m) ==
    /\ m.header = At /\ m.length > 0
    /\ At + 2 + m.length + 1 <= LastAddress
    /\ At - base + 2 + m.length + 2 <= limits.words
    /\ Len(models) < limits.models
    /\ models' = Append(models, m)

Extend ==
    /\ verdict = "walking" /\ base # Nowhere
    /\ Len(models') = Len(models) + 1
    /\ Found(models'[Len(models')])
    /\ UNCHANGED <<base, limits, verdict>>

End ==
    /\ verdict = "walking" /\ base # Nowhere
    /\ verdict' = "complete"
    /\ UNCHANGED <<base, limits, models>>

(* A walk may fail at any time, at the base too.                           *)
Fail ==
    /\ verdict = "walking"
    /\ verdict' = "failed"
    /\ UNCHANGED models

Next == Choose \/ Extend \/ End \/ Fail

Spec == Init /\ [][Next]_vars

=============================================================================
