----------------------------- MODULE SunSpecChain -----------------------------
(***************************************************************************)
(* SunSpec chain discovery: SunSpecChainPlan and SunSpecChain.AdmitReplay. *)
(*                                                                         *)
(* The caller asks for the reads the chain wants next and hands in the     *)
(* logical view it got for one of them.  The chain looks for the signature *)
(* at every candidate base, then reads a header, the payload it announces  *)
(* in reads of at most MaxReadWords, the next header, and so on up to the  *)
(* end marker.  AdmitReplay holds the chain's mutex throughout, so that    *)
(* one call is one step; it is written as an operator from a chain, a      *)
(* request and a view to the chain after it, because the qualification     *)
(* card replays a whole capture through a fresh chain.                     *)
(*                                                                         *)
(* A register is a number.  What a view says of its source is cut down to  *)
(* what the identity checks compare: the physical request, the wire        *)
(* response, `place' (connection, generation, table, physical range), the  *)
(* response `bytes', and the provenance shared by all views of a capture.  *)
(* A logical view is named by a number; zero is not a name.                *)
(***************************************************************************)
EXTENDS Integers, Sequences, FiniteSets, Functions, SequencesExt

CONSTANTS
    AddressSpace,       \* number of register addresses, 65536
    MaxReadWords,       \* maxSunSpecReadWords, 125
    MaxPlanWords,       \* the largest MaxTotalWords a plan accepts, 65536
    SignatureFirst, SignatureSecond, EndModel,
    Revisions,          \* schema revisions that pass validSunSpecRevision
    StructuralFits(_, _, _), \* SunSpecLayout: revision, words, spans
    None

ASSUME SunSpecChainAssumption ==
    /\ AddressSpace \in Nat /\ MaxReadWords \in Nat /\ MaxReadWords >= 2
    /\ MaxPlanWords \in Nat
    /\ SignatureFirst \in Nat /\ SignatureSecond \in Nat /\ EndModel \in Nat
    /\ None \notin Nat

Signature == <<SignatureFirst, SignatureSecond>>

(* sunSpecEnd and sunSpecQueueAddress: a read that fits the address space. *)
Addressable(address, words) ==
    /\ words # 0 /\ address < AddressSpace /\ address + words <= AddressSpace

---------------------------------------------------------------------------
(* The plan. *)

Unique(s) == Cardinality(Range(s)) = Len(s)

(* NewSunSpecChainPlan accepts the specification. *)
ValidPlan(s) ==
    /\ s.revision \in Revisions
    /\ s.bases # <<>> /\ Unique(s.bases)
    /\ \A b \in Range(s.bases) : Addressable(b, 2)
    /\ s.maxWords \in 4 .. MaxPlanWords
    /\ s.maxOccurrences \in 1 .. s.maxWords \div 2
    /\ \A k \in Range(s.keys) : k.revision = s.revision /\ k.length # 0
    /\ Unique(s.keys) /\ Unique(s.structural)

(* SunSpecReadRequest; the nonce and the instance are one number here.     *)
Request(instance, sequence, address, words, purpose) ==
    [instance |-> instance, sequence |-> sequence, address |-> address,
     words |-> words, purpose |-> purpose]

NewSunSpecChain(p, instance) ==
    [plan |-> p, instance |-> instance,
     pending |-> {Request(instance, i, p.bases[i], 2, "signature") : i \in DOMAIN p.bases},
     next |-> Len(p.bases),
     selected |-> None, raw |-> <<>>, occ |-> <<>>, sources |-> <<>>,
     physical |-> <<>>, wire |-> <<>>, current |-> None,
     complete |-> FALSE, failed |-> FALSE]

---------------------------------------------------------------------------
(* AdmitReplay. *)

(* The call is taken at all; every refusal leaves the chain as it was.     *)
Admissible(c, r, v) ==
    /\ ~c.complete /\ ~c.failed
    /\ r \in c.pending
    /\ \A s \in Range(c.sources) : s.id # v.id
    /\ v.holding /\ v.address = r.address /\ Len(v.words) = r.words
    /\ c.sources # <<>> => v.provenance = c.sources[1].provenance

PhysicalSource(v) == [wire |-> v.wire, place |-> v.place]
WireSource(v) == [physical |-> v.physical, bytes |-> v.bytes]

(* validateSourceIdentity: what is remembered of a physical request or of  *)
(* a wire response is contradicted by the view.                            *)
Contradicts(c, v) ==
    \/ v.physical \in DOMAIN c.physical /\ c.physical[v.physical] # PhysicalSource(v)
    \/ v.wire \in DOMAIN c.wire /\ c.wire[v.wire] # WireSource(v)

With(f, x, y) == [z \in DOMAIN f \cup {x} |-> IF z = x THEN y ELSE f[z]]

Identified(c, v) ==
    [c EXCEPT !.physical = With(@, v.physical, PhysicalSource(v)),
              !.wire = With(@, v.wire, WireSource(v))]

(* Faulty variant: the error is returned and the chain is not failed.      *)
FailQuietly(c) == [c EXCEPT !.pending = {}, !.current = None]

Fail(c) == [c EXCEPT !.failed = TRUE, !.pending = {}, !.current = None]

Accept(c, r, v) == [c EXCEPT !.pending = @ \ {r}, !.sources = Append(@, v)]

Queue(c, address, words, purpose) ==
    IF words \in 1 .. MaxReadWords /\ Addressable(address, words)
    THEN [c EXCEPT !.next = @ + 1,
                   !.pending = @ \cup {Request(c.instance, c.next + 1, address, words, purpose)}]
    ELSE Fail(c)

AtMostRead(n) == IF n > MaxReadWords THEN MaxReadWords ELSE n

(* Faulty variant: no candidate matched and nobody notices.                *)
AdmitAbsentSignature(c, r, v) ==
    LET d == [Accept(c, r, v) EXCEPT !.selected = IF v.words = Signature THEN r.address ELSE @] IN
    IF d.pending # {} \/ d.selected = None THEN d
    ELSE Queue([d EXCEPT !.raw = Signature], d.selected + 2, 2, "header")

AdmitSignature(c, r, v) ==
    LET matched == v.words = Signature
        d == [Accept(c, r, v) EXCEPT !.selected = IF matched THEN r.address ELSE @] IN
    CASE matched /\ c.selected # None -> Fail(c)     \* ambiguous candidates
      [] ~(matched /\ c.selected # None) /\ d.pending # {} -> d
      [] d.pending = {} /\ d.selected = None -> Fail(d)
      [] OTHER -> Queue([d EXCEPT !.raw = Signature], d.selected + 2, 2, "header")

(* Faulty variant: no words are kept for the end marker.                   *)
HeaderFitsWithoutEnd(c, r, n) ==
    /\ n # 0 /\ Len(c.raw) + 2 + n <= c.plan.maxWords
    /\ Len(c.occ) + 1 <= c.plan.maxOccurrences
    /\ r.address + 2 + n <= AddressSpace
    /\ Addressable(r.address + 2, AtMostRead(n))

(* Faulty variant: one model too many is walked.                           *)
HeaderFitsOneMore(c, r, n) ==
    /\ n # 0 /\ Len(c.raw) + 2 + n + 2 <= c.plan.maxWords
    /\ Len(c.occ) <= c.plan.maxOccurrences
    /\ r.address + 2 + n <= AddressSpace
    /\ Addressable(r.address + 2, AtMostRead(n))

(* The model announced at the header fits the bounds, its payload the      *)
(* address space; two words are kept for the end marker.                   *)
HeaderFits(c, r, n) ==
    /\ n # 0
    /\ Len(c.raw) + 2 + n + 2 <= c.plan.maxWords
    /\ Len(c.occ) + 1 <= c.plan.maxOccurrences
    /\ r.address + 2 + n <= AddressSpace
    /\ Addressable(r.address + 2, AtMostRead(n))

Span(v) == [view |-> v.id, offset |-> v.slice, words |-> Len(v.words)]

AdmitHeader(c, r, v) ==
    LET id == v.words[1]  n == v.words[2]
        d == [Accept(c, r, v) EXCEPT !.raw = @ \o v.words] IN
    CASE id = EndModel /\ n = 0 -> [d EXCEPT !.complete = TRUE]
      [] id # EndModel /\ HeaderFits(c, r, n) ->
            Queue([d EXCEPT !.current = [id |-> id, length |-> n, header |-> r.address,
                                         words |-> v.words, spans |-> <<Span(v)>>]],
                  r.address + 2, AtMostRead(n), "payload")
      [] OTHER -> Fail(c)

(* The decoder the plan names for the model, if any.                       *)
Disposition(p, id, n) ==
    CASE \E k \in Range(p.keys) : k.id = id /\ k.length = n -> "admitted"
      [] \E k \in Range(p.keys) : k.id = id /\ (\A j \in Range(p.keys) : j.id = id => j.length # n)
            -> "unsupported_length"
      [] OTHER -> "unknown_model"

Occurrence(c, m) ==
    [ordinal |-> Len(c.occ) + 1, id |-> m.id, length |-> m.length,
     revision |-> c.plan.revision, header |-> m.header, payload |-> m.header + 2,
     disposition |-> Disposition(c.plan, m.id, m.length),
     structural |-> m.id \in Range(c.plan.structural)
                    /\ StructuralFits(c.plan.revision, m.words, m.spans),
     words |-> m.words, spans |-> m.spans]

AdmitPayload(c, r, v) ==
    LET got == Len(c.current.words) - 2 + r.words
        completed == got = c.current.length
        after == r.address + r.words
        words == IF completed THEN 2 ELSE AtMostRead(c.current.length - got)
        m == [c.current EXCEPT !.words = @ \o v.words, !.spans = Append(@, Span(v))]
        d == [Accept(c, r, v) EXCEPT !.raw = @ \o v.words] IN
    CASE c.current = None \/ ~Addressable(after, words) -> Fail(c)
      [] c.current # None /\ Addressable(after, words) /\ ~completed ->
            Queue([d EXCEPT !.current = m], after, words, "payload")
      [] OTHER -> Queue([d EXCEPT !.occ = Append(@, Occurrence(c, m)), !.current = None],
                        after, words, "header")

(* A view that is taken, by the purpose of the read.                       *)
Admitted(c, r, v) ==
    CASE Contradicts(c, v) -> Fail(c)
      [] ~Contradicts(c, v) /\ r.purpose = "signature" -> AdmitSignature(Identified(c, v), r, v)
      [] ~Contradicts(c, v) /\ r.purpose = "header" -> AdmitHeader(Identified(c, v), r, v)
      [] ~Contradicts(c, v) /\ r.purpose = "payload" -> AdmitPayload(Identified(c, v), r, v)

AdmitReplay(c, r, v) == IF Admissible(c, r, v) THEN Admitted(c, r, v) ELSE c

(* SunSpecChain.snapshot, returned with the end marker only.               *)
Snapshot(c) == [raw |-> c.raw, occ |-> c.occ, sources |-> c.sources]

=============================================================================
