---------------------------- MODULE DurableRecord ----------------------------
(***************************************************************************)
(* What the runtime ledger promises about the durable record, whatever its *)
(* goroutines, its committer's failures and its crashes do: publications   *)
(* have consecutive sample ids, strictly increasing poll generations and   *)
(* terminal sequences of their own, and the watermark below which no       *)
(* terminal sequence is issued again only moves up and always covers what  *)
(* was published.                                                          *)
(***************************************************************************)
EXTENDS Integers, Sequences

CONSTANTS
    Generations,    \* poll generations
    MaxSequence,    \* largest terminal sequence
    ClaimCount      \* claims of one attempt

VARIABLES
    published,      \* records [id, gen, seq], in publication order
    closed          \* no terminal sequence up to it is issued again

Init ==
    /\ published = <<>>
    /\ closed = 0

LastGeneration == IF published = <<>> THEN 0 ELSE published[Len(published)].gen

Fresh(seq) == \A i \in 1 .. Len(published) : published[i].seq # seq

Publish(gen, seq) ==
    /\ gen > LastGeneration
    /\ Fresh(seq)
    /\ published' = Append(published, [id |-> Len(published) + 1, gen |-> gen, seq |-> seq])
    /\ closed' \in closed .. MaxSequence
    /\ seq + ClaimCount <= closed'

Close ==
    /\ closed' \in closed + 1 .. MaxSequence
    /\ UNCHANGED published

Next ==
    \/ \E gen \in Generations, seq \in 1 .. MaxSequence : Publish(gen, seq)
    \/ Close

Spec == Init /\ [][Next]_<<published, closed>>
=============================================================================
