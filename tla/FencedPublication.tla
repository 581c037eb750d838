-------------------------- MODULE FencedPublication --------------------------
(***************************************************************************)
(* What a supplied-evidence port promises, whatever its family: an attempt *)
(* publishes at most once, and only while nothing has fenced it and the    *)
(* port is not retired; a record that ceased to be usable becomes usable   *)
(* again only by a publication; nothing but a publication replaces the     *)
(* record, and anything else keeps or drops it.                            *)
(***************************************************************************)
EXTENDS Naturals

VARIABLES begun,    \* how many attempts have begun
          over,     \* the attempts that may not publish (any more)
          retired,  \* the port publishes nothing ever again
          record,   \* the attempt whose evidence is retained, or 0
          usable    \* the record is presented as current

vars == <<begun, over, retired, record, usable>>

Init == begun = 0 /\ over = {} /\ retired = FALSE /\ record = 0 /\ usable = FALSE

Keeps == record' = record /\ (usable' => usable)
Drops == record' = 0 /\ ~usable'

Begin == ~retired /\ begun' = begun + 1 /\ over \subseteq over' /\ UNCHANGED retired
         /\ (Keeps \/ Drops)

Publish ==
  \E a \in (1..begun) \ over :
    /\ ~retired /\ record' = a /\ over' = over \cup {a}
    /\ UNCHANGED <<begun, retired>>

Fence == over \subseteq over' /\ (retired => retired') /\ UNCHANGED begun
         /\ (Keeps \/ Drops)

Next == Begin \/ Publish \/ Fence

Spec == Init /\ [][Next]_vars

=============================================================================
