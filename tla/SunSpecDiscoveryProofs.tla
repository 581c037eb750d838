------------------------ MODULE SunSpecDiscoveryProofs ------------------------
(***************************************************************************)
(* Proofs about chain discovery: a chain that can still be walked wants    *)
(* the next word and nothing else (AsksTheNextWord), and discovery         *)
(* implements SunSpecWalk (WalkSpec).  Both follow from what a chain is    *)
(* waiting for: candidates of the signature while it seeks its base, then  *)
(* one read, of the header or the payload of the model at the cursor.      *)
(***************************************************************************)
EXTENDS SunSpecDiscovery, TLAPS

TypeOK == chain = None \/ chain \in ChainType

(* The address after the last model found.                                 *)
Cursor(c) == IF c.occ = <<>> THEN c.selected + 2
             ELSE c.occ[Len(c.occ)].header + 2 + c.occ[Len(c.occ)].length

(* Until every candidate is answered, the chain wants signatures.          *)
Seeks(c) ==
    /\ c.pending # {} /\ c.occ = <<>> /\ c.current = None
    /\ c.selected \in Range(c.plan.bases) \cup {None}
    /\ \A r \in c.pending :
          r.purpose = "signature" /\ r.words = 2 /\ r.address \in Range(c.plan.bases)

OnHeader(c, r) ==
    c.current = None /\ r.purpose = "header" /\ r.words = 2 /\ r.address = Cursor(c)

(* The model being read is at the cursor and within the plan's bounds.     *)
OnPayload(c, r) ==
    LET m == c.current IN
    /\ m # None /\ r.purpose = "payload"
    /\ m.header = Cursor(c) /\ m.length # 0 /\ Len(m.words) >= 2
    /\ r.address = m.header + Len(m.words) /\ Len(m.words) + r.words <= m.length + 2
    /\ m.header - c.selected + m.length + 4 <= c.plan.maxWords
    /\ Len(c.occ) + 1 <= c.plan.maxOccurrences

(* Then it wants one read, of the word after those it has.                 *)
WantsOnly(c, r) ==
    /\ c.pending = {r} /\ r.sequence = c.next
    /\ r.address = c.selected + Len(c.raw)
    /\ Addressable(r.address, r.words) /\ r.words <= MaxReadWords
    /\ OnHeader(c, r) \/ OnPayload(c, r)

Walks(c) ==
    /\ c.selected \in Range(c.plan.bases) /\ c.selected + 4 <= AddressSpace
    /\ \E r \in c.pending : WantsOnly(c, r)

Waits(c) == ~c.complete /\ ~c.failed

Sound(c) ==
    /\ c \in ChainType /\ ValidPlan(c.plan)
    /\ Waits(c) => IF c.raw = <<>> THEN Seeks(c) ELSE Walks(c)

(* The inductive invariant.                                                *)
DiscoveryInv == chain # None => Sound(chain)

-----------------------------------------------------------------------------
(* Types *)

LEMMA AppendType ==
    ASSUME NEW T, NEW s \in Seq(T), NEW x \in T
    PROVE  /\ Append(s, x) \in Seq(T) /\ Len(Append(s, x)) = Len(s) + 1
           /\ Append(s, x) # <<>> /\ Append(s, x)[Len(Append(s, x))] = x
OBVIOUS

LEMMA ConcatType ==
    ASSUME NEW T, NEW s \in Seq(T), NEW x \in Seq(T)
    PROVE  /\ s \o x \in Seq(T) /\ Len(s \o x) = Len(s) + Len(x)
           /\ s # <<>> => s \o x # <<>>
<1>1. s \o x \in Seq(T) /\ Len(s \o x) = Len(s) + Len(x)
  OBVIOUS
<1>2. s # <<>> => Len(s) # 0
  OBVIOUS
<1>3. s # <<>> => Len(s \o x) # 0
  BY <1>1, <1>2
<1> QED
  BY <1>1, <1>3

LEMMA WithType ==
    ASSUME NEW names, NEW facts, NEW f \in Table(names, facts), NEW x \in names, NEW y \in facts
    PROVE  With(f, x, y) \in Table(names, facts)
<1>1. PICK S \in SUBSET names : f \in [S -> facts]
  BY DEF Table
<1>2. S \cup {x} \in SUBSET names
  OBVIOUS
<1>3. With(f, x, y) \in [S \cup {x} -> facts]
  BY <1>1 DEF With
<1> QED
  BY <1>2, <1>3 DEF Table

LEMMA EmptyTable == ASSUME NEW names, NEW facts PROVE <<>> \in Table(names, facts)
<1>1. <<>> \in [{} -> facts]
  OBVIOUS
<1> QED
  BY <1>1 DEF Table

(* d walks as c does: what the reads yield is the same.                    *)
AsFar(d, c) ==
    /\ d.plan = c.plan /\ d.instance = c.instance /\ d.next = c.next
    /\ d.selected = c.selected /\ d.raw = c.raw /\ d.occ = c.occ /\ d.current = c.current
    /\ d.complete = c.complete /\ d.failed = c.failed

LEMMA FailFacts ==
    ASSUME NEW c \in ChainType, NEW d, d = Fail(c)
    PROVE  /\ d \in ChainType /\ d.failed /\ d.pending = {} /\ d.current = None
           /\ d.plan = c.plan /\ d.instance = c.instance /\ d.next = c.next
           /\ d.selected = c.selected /\ d.raw = c.raw /\ d.occ = c.occ
           /\ d.complete = c.complete
BY DEF Fail, ChainType

LEMMA AcceptFacts ==
    ASSUME NEW c \in ChainType, NEW r, NEW v \in ViewType, NEW d, d = Accept(c, r, v)
    PROVE  d \in ChainType /\ AsFar(d, c) /\ d.pending = c.pending \ {r}
<1>1. PICK T : T = ViewType
  OBVIOUS
<1>2. c.sources \in Seq(T)
  BY <1>1 DEF ChainType
<1>3. Append(c.sources, v) \in Seq(ViewType)
  BY <1>1, <1>2, AppendType
<1>4. PICK w : w = Append(c.sources, v)
  OBVIOUS
<1>5. d = [c EXCEPT !.pending = c.pending \ {r}, !.sources = w]
  BY <1>4 DEF Accept
<1> QED
  BY <1>3, <1>4, <1>5 DEF ChainType, AsFar

LEMMA IdentifiedFacts ==
    ASSUME NEW c \in ChainType, NEW v \in ViewType, NEW d, d = Identified(c, v)
    PROVE  d \in ChainType /\ AsFar(d, c) /\ d.pending = c.pending
<1>1. PhysicalSource(v) \in [wire : Stated("wire"), place : Stated("place")]
  BY DEF PhysicalSource, ViewType
<1>2. WireSource(v) \in [physical : Stated("physical"), bytes : Stated("bytes")]
  BY DEF WireSource, ViewType
<1>3. PICK p : p = With(c.physical, v.physical, PhysicalSource(v))
  OBVIOUS
<1>4. PICK w : w = With(c.wire, v.wire, WireSource(v))
  OBVIOUS
<1>5. p \in PhysicalTable
  <2>1. PICK N, F : N = Stated("physical") /\ F = [wire : Stated("wire"), place : Stated("place")]
    OBVIOUS
  <2>2. c.physical \in Table(N, F) /\ v.physical \in N /\ PhysicalSource(v) \in F
    BY <1>1, <2>1 DEF ChainType, ViewType, PhysicalTable
  <2> QED
    BY <1>3, <2>1, <2>2, WithType DEF PhysicalTable
<1>6. w \in WireTable
  <2>1. PICK N, F : N = Stated("wire") /\ F = [physical : Stated("physical"), bytes : Stated("bytes")]
    OBVIOUS
  <2>2. c.wire \in Table(N, F) /\ v.wire \in N /\ WireSource(v) \in F
    BY <1>2, <2>1 DEF ChainType, ViewType, WireTable
  <2> QED
    BY <1>4, <2>1, <2>2, WithType DEF WireTable
<1>7. d = [c EXCEPT !.physical = p, !.wire = w]
  BY <1>3, <1>4 DEF Identified
<1> QED
  BY <1>5, <1>6, <1>7 DEF ChainType, AsFar

(* A read is queued, or the chain has failed.                              *)
Queued(c, d, address, words, purpose) ==
    /\ d \in ChainType /\ d.plan = c.plan /\ d.selected = c.selected
    /\ d.raw = c.raw /\ d.occ = c.occ /\ d.complete = c.complete
    /\ words \in 1 .. MaxReadWords /\ Addressable(address, words) => d.failed = c.failed
    /\ \/ d.failed
       \/ /\ d.failed = c.failed /\ d.current = c.current
          /\ Addressable(address, words) /\ words <= MaxReadWords
          /\ \E r \in RequestType :
                /\ d.pending = c.pending \cup {r} /\ r.sequence = d.next
                /\ r.address = address /\ r.words = words /\ r.purpose = purpose

LEMMA QueueFacts ==
    ASSUME NEW c \in ChainType, NEW address \in Nat, NEW words \in Nat,
           NEW purpose \in {"signature", "header", "payload"},
           NEW d, d = Queue(c, address, words, purpose)
    PROVE  Queued(c, d, address, words, purpose)
<1>1. CASE ~(words \in 1 .. MaxReadWords /\ Addressable(address, words))
  BY <1>1, FailFacts DEF Queue, Queued
<1>2. CASE words \in 1 .. MaxReadWords /\ Addressable(address, words)
  <2>1. PICK r : r = Request(c.instance, c.next + 1, address, words, purpose)
    OBVIOUS
  <2>2. c.next + 1 \in Nat /\ c.instance \in Nat
    BY DEF ChainType
  <2>3. /\ r \in RequestType /\ r.sequence = c.next + 1 /\ r.address = address
        /\ r.words = words /\ r.purpose = purpose
    BY <2>1, <2>2 DEF Request, RequestType
  <2>4. PICK n, p : n = c.next + 1 /\ p = c.pending \cup {r}
    OBVIOUS
  <2>5. d = [c EXCEPT !.next = n, !.pending = p]
    BY <1>2, <2>1, <2>4 DEF Queue
  <2>6. p \in SUBSET RequestType /\ n \in Nat
    <3>1. c.pending \in SUBSET RequestType
      BY DEF ChainType
    <3> QED
      BY <2>2, <2>3, <2>4, <3>1
  <2>7. d \in ChainType /\ d.pending = p /\ d.next = n
    BY <2>5, <2>6 DEF ChainType
  <2>8. /\ d.plan = c.plan /\ d.selected = c.selected /\ d.raw = c.raw /\ d.occ = c.occ
        /\ d.complete = c.complete /\ d.failed = c.failed /\ d.current = c.current
    BY <2>5 DEF ChainType
  <2>9. Addressable(address, words) /\ words <= MaxReadWords
    BY <1>2, SunSpecChainAssumption
  <2> QED
    BY <2>3, <2>4, <2>7, <2>8, <2>9 DEF Queued
<1> QED
  BY <1>1, <1>2

-----------------------------------------------------------------------------
(* What one admitted view does to a chain. *)

(* The chain d is c, walked on by one of the steps of SunSpecWalk or none. *)
Stops(c, d) == d.failed /\ d.occ = c.occ

Stays(c, d) ==
    /\ Waits(d) /\ d.occ = c.occ
    /\ d.raw = <<>> <=> c.raw = <<>>
    /\ c.raw # <<>> => d.selected = c.selected

Chooses(c, d) ==
    /\ Waits(d) /\ d.occ = c.occ
    /\ c.raw = <<>> /\ d.raw # <<>>
    /\ d.selected \in Range(c.plan.bases) /\ d.selected + 4 <= AddressSpace

Extends(c, d) ==
    /\ Waits(d) /\ c.raw # <<>> /\ d.raw # <<>> /\ d.selected = c.selected
    /\ \E o \in OccurrenceType :
          /\ d.occ = Append(c.occ, o)
          /\ o.header = Cursor(c) /\ o.length # 0
          /\ o.header + 2 + o.length + 2 <= AddressSpace
          /\ o.header - c.selected + o.length + 4 <= c.plan.maxWords
          /\ Len(c.occ) + 1 <= c.plan.maxOccurrences

Finishes(c, d) ==
    /\ d.complete /\ ~d.failed /\ d.occ = c.occ
    /\ c.raw # <<>> /\ d.raw # <<>> /\ d.selected = c.selected

Moves(c, d) ==
    /\ d.plan = c.plan
    /\ Stops(c, d) \/ Stays(c, d) \/ Chooses(c, d) \/ Extends(c, d) \/ Finishes(c, d)

LEMMA FailMoves ==
    ASSUME NEW c \in ChainType, ValidPlan(c.plan), NEW b \in ChainType,
           b.plan = c.plan, b.occ = c.occ, NEW d, d = Fail(b)
    PROVE  Sound(d) /\ Moves(c, d)
<1>1. d \in ChainType /\ d.failed /\ d.plan = b.plan /\ d.occ = b.occ
  BY FailFacts
<1> QED
  BY <1>1 DEF Sound, Moves, Stops, Waits

(* Bases and bounds are numbers.                                           *)
LEMMA PlanFacts ==
    ASSUME NEW c \in ChainType, ValidPlan(c.plan)
    PROVE  /\ c.plan \in PlanSpecs /\ c.plan.bases \in Seq(Nat) /\ c.plan.bases # <<>>
           /\ Range(c.plan.bases) \subseteq Nat
           /\ c.plan.maxWords \in Nat /\ c.plan.maxOccurrences \in Nat
           /\ c.plan.revision \in Revisions
           /\ AddressSpace \in Nat /\ MaxReadWords \in Nat /\ MaxReadWords >= 2
           /\ None \notin Range(c.plan.bases)
<1>1. c.plan \in PlanSpecs
  BY DEF ChainType
<1>2. c.plan.bases \in Seq(Nat)
  BY <1>1, SunSpecDiscoveryAssumption
<1>3. Range(c.plan.bases) \subseteq Nat
  BY <1>2 DEF Range
<1>4. c.plan.maxWords \in Nat /\ c.plan.maxOccurrences \in Nat
  <2>1. PICK w : w = c.plan.maxWords
    OBVIOUS
  <2>2. w \in 4 .. MaxPlanWords /\ c.plan.maxOccurrences \in 1 .. w \div 2
    BY <2>1 DEF ValidPlan
  <2>3. w \in Nat /\ w \div 2 \in Int
    BY <2>2, SunSpecChainAssumption
  <2> QED
    BY <2>1, <2>2, <2>3
<1> QED
  BY <1>1, <1>2, <1>3, <1>4, SunSpecChainAssumption DEF ValidPlan

LEMMA PlanNumbers ==
    ASSUME NEW c \in ChainType, ValidPlan(c.plan)
    PROVE  /\ c.plan.maxWords \in Nat /\ c.plan.maxOccurrences \in Nat
           /\ AddressSpace \in Nat /\ MaxReadWords \in Nat /\ MaxReadWords >= 2
BY PlanFacts

LEMMA PairOfWords == ASSUME NEW w \in Seq(Nat), Len(w) = 2 PROVE w[1] \in Nat /\ w[2] \in Nat
<1>1. w \in [1 .. 2 -> Nat]
  OBVIOUS
<1> QED
  BY <1>1

LEMMA SignatureWords ==
    Signature \in Seq(Nat) /\ Len(Signature) = 2 /\ Signature # <<>>
BY SunSpecChainAssumption DEF Signature

(* A view of a signature: another candidate is left, the base is chosen,   *)
(* or the chain fails.                                                     *)
LEMMA SignatureStep ==
    ASSUME NEW c \in ChainType, ValidPlan(c.plan), Waits(c), c.raw = <<>>, Seeks(c),
           NEW r \in c.pending, NEW v \in ViewType, NEW d, d = AdmitSignature(c, r, v)
    PROVE  Sound(d) /\ Moves(c, d)
<1> DEFINE matched == v.words = Signature
<1>1. PICK a : a = Accept(c, r, v)
  OBVIOUS
<1>2. a \in ChainType /\ AsFar(a, c) /\ a.pending = c.pending \ {r}
  BY <1>1, AcceptFacts
<1>3. r.address \in Range(c.plan.bases) /\ r.address \in Nat /\ r.address # None
  BY PlanFacts DEF Seeks
<1>4. PICK s : s = IF matched THEN r.address ELSE a.selected
  OBVIOUS
<1>5. s \in Range(c.plan.bases) \cup {None} /\ s \in Nat \cup {None}
  BY <1>2, <1>3, <1>4, PlanFacts DEF Seeks, AsFar
<1>6. PICK b : b = [a EXCEPT !.selected = s]
  OBVIOUS
<1>7. /\ b \in ChainType /\ b.selected = s /\ b.pending = c.pending \ {r}
      /\ b.plan = c.plan /\ b.raw = c.raw /\ b.occ = c.occ /\ b.current = c.current
      /\ b.complete = c.complete /\ b.failed = c.failed
  BY <1>2, <1>5, <1>6 DEF ChainType, AsFar
<1>8. b = [Accept(c, r, v) EXCEPT !.selected = IF matched THEN r.address ELSE @]
  BY <1>1, <1>2, <1>4, <1>6 DEF ChainType
<1>9. CASE matched /\ c.selected # None
  <2>1. b.selected # None
    BY <1>3, <1>4, <1>7, <1>9
  <2>2. d = Fail(c)
    BY <1>8, <1>9, <2>1 DEF AdmitSignature
  <2> QED
    BY <2>2, FailMoves
<1>10. CASE ~(matched /\ c.selected # None) /\ b.pending # {}
  <2>1. d = b
    BY <1>8, <1>10 DEF AdmitSignature
  <2>2. Seeks(b)
    BY <1>5, <1>7, <1>10 DEF Seeks
  <2>3. Waits(b) /\ b.raw = <<>>
    BY <1>7 DEF Waits
  <2> QED
    BY <1>7, <2>1, <2>2, <2>3 DEF Sound, Moves, Stays
<1>11. CASE ~(matched /\ c.selected # None) /\ b.pending = {} /\ b.selected = None
  <2>1. d = Fail(b)
    BY <1>8, <1>11 DEF AdmitSignature
  <2> QED
    BY <1>7, <2>1, FailMoves
<1>12. CASE ~(matched /\ c.selected # None) /\ b.pending = {} /\ b.selected # None
  <2>1. PICK e : e = [b EXCEPT !.raw = Signature]
    OBVIOUS
  <2>2. /\ e \in ChainType /\ e.raw = Signature /\ e.selected = s /\ e.pending = {}
        /\ e.plan = c.plan /\ e.occ = c.occ /\ e.current = c.current
        /\ e.complete = c.complete /\ e.failed = c.failed
    BY <1>7, <1>12, <2>1, SignatureWords DEF ChainType
  <2>3. PICK h : h = s + 2
    OBVIOUS
  <2>4. s \in Nat /\ h \in Nat /\ s \in Range(c.plan.bases)
    BY <1>5, <1>7, <1>12, <2>3, PlanFacts
  <2>5. d = Queue(e, h, 2, "header")
    BY <1>7, <1>8, <1>12, <2>1, <2>3 DEF AdmitSignature
  <2>6. Queued(e, d, h, 2, "header")
    BY <2>2, <2>4, <2>5, QueueFacts
  <2>7. /\ d \in ChainType /\ d.plan = c.plan /\ d.selected = s
        /\ d.raw = Signature /\ d.occ = c.occ /\ d.complete = c.complete
    BY <2>2, <2>6 DEF Queued
  <2>8. CASE d.failed
    BY <2>7, <2>8 DEF Sound, Moves, Stops, Waits
  <2>9. CASE ~d.failed
    <3>1. PICK q \in RequestType :
            /\ d.pending = {q} /\ q.sequence = d.next /\ q.address = h /\ q.words = 2
            /\ q.purpose = "header" /\ Addressable(h, 2) /\ d.current = c.current
      BY <2>2, <2>6, <2>9 DEF Queued
    <3>2. Waits(d) /\ d.raw # <<>>
      BY <2>2, <2>7, <2>9, SignatureWords DEF Waits
    <3>3. c.occ = <<>> /\ c.current = None
      BY DEF Seeks
    <3>4. s + 4 <= AddressSpace
      BY <2>3, <2>4, <3>1, PlanFacts DEF Addressable
    <3>5. OnHeader(d, q)
      BY <2>3, <2>7, <3>1, <3>3 DEF OnHeader, Cursor
    <3>6. WantsOnly(d, q)
      BY <2>3, <2>7, <3>1, <3>5, PlanFacts, SignatureWords DEF WantsOnly
    <3>7. Walks(d)
      BY <2>4, <2>7, <3>1, <3>4, <3>6 DEF Walks
    <3>8. Chooses(c, d)
      BY <2>4, <2>7, <3>2, <3>4 DEF Chooses
    <3> QED
      BY <2>7, <3>2, <3>7, <3>8 DEF Sound, Moves
  <2> QED
    BY <2>8, <2>9
<1> QED
  BY <1>9, <1>10, <1>11, <1>12

(* A view of a header: the end marker, a model that fits, or the chain     *)
(* fails.                                                                  *)
LEMMA HeaderStep ==
    ASSUME NEW c \in ChainType, ValidPlan(c.plan), Waits(c), c.raw # <<>>,
           c.selected \in Range(c.plan.bases), c.selected + 4 <= AddressSpace,
           NEW r \in c.pending, WantsOnly(c, r), r.purpose = "header",
           NEW v \in ViewType, Len(v.words) = r.words, NEW d, d = AdmitHeader(c, r, v)
    PROVE  Sound(d) /\ Moves(c, d)
<1>0. /\ c.selected \in Nat /\ r \in RequestType /\ r.address \in Nat /\ v.words \in Seq(Nat)
      /\ Len(v.words) = 2 /\ c.raw \in Seq(Nat) /\ Len(c.raw) \in Nat /\ c.current = None
      /\ r.words = 2 /\ r.address = Cursor(c) /\ r.address = c.selected + Len(c.raw)
      /\ v.id \in Nat /\ v.slice \in Stated("slice")
  <2>1. r \in RequestType /\ c.raw \in Seq(Nat)
    BY DEF ChainType
  <2>2. r.address \in Nat /\ v.words \in Seq(Nat) /\ v.id \in Nat /\ v.slice \in Stated("slice")
    BY <2>1 DEF RequestType, ViewType
  <2>3. OnHeader(c, r) /\ r.address = c.selected + Len(c.raw)
    BY DEF WantsOnly, OnPayload
  <2>4. Len(c.raw) \in Nat
    BY <2>1
  <2> QED
    BY <2>1, <2>2, <2>3, <2>4, PlanFacts DEF OnHeader
<1>1. PICK id, n : id = v.words[1] /\ n = v.words[2]
  OBVIOUS
<1>2. id \in Nat /\ n \in Nat
  <2>1. PICK words \in Seq(Nat) : words = v.words
    BY <1>0
  <2>2. words[1] \in Nat /\ words[2] \in Nat
    BY <1>0, <2>1, PairOfWords
  <2> QED
    BY <1>1, <2>1, <2>2
<1>3. PICK a : a = Accept(c, r, v)
  OBVIOUS
<1>4. a \in ChainType /\ AsFar(a, c) /\ a.pending = {}
  BY <1>3, AcceptFacts DEF WantsOnly
<1>5. PICK w : w = c.raw \o v.words
  OBVIOUS
<1>6. w \in Seq(Nat) /\ Len(w) = Len(c.raw) + 2 /\ w # <<>>
  <2>1. PICK s, x : s = c.raw /\ x = v.words
    OBVIOUS
  <2>2. s \in Seq(Nat) /\ x \in Seq(Nat) /\ Len(x) = 2 /\ s # <<>>
    BY <1>0, <2>1
  <2>3. s \o x \in Seq(Nat) /\ Len(s \o x) = Len(s) + Len(x) /\ s \o x # <<>>
    BY <2>2, ConcatType
  <2> QED
    BY <1>5, <2>1, <2>2, <2>3
<1>7. PICK b : b = [a EXCEPT !.raw = w]
  OBVIOUS
<1>8. /\ b \in ChainType /\ b.raw = w /\ b.pending = {} /\ b.plan = c.plan
      /\ b.selected = c.selected /\ b.occ = c.occ /\ b.current = c.current
      /\ b.complete = c.complete /\ b.failed = c.failed
  BY <1>4, <1>6, <1>7 DEF ChainType, AsFar
<1>9. b = [Accept(c, r, v) EXCEPT !.raw = @ \o v.words]
  BY <1>3, <1>4, <1>5, <1>7 DEF ChainType, AsFar
<1>10. CASE id = EndModel /\ n = 0
  <2>1. d = [b EXCEPT !.complete = TRUE]
    BY <1>1, <1>9, <1>10 DEF AdmitHeader
  <2>2. /\ d \in ChainType /\ d.complete /\ d.failed = c.failed /\ d.plan = c.plan
        /\ d.raw = w /\ d.selected = c.selected /\ d.occ = c.occ
    BY <1>8, <2>1 DEF ChainType
  <2> QED
    BY <1>6, <2>2 DEF Sound, Waits, Moves, Finishes
<1>11. CASE id # EndModel /\ HeaderFits(c, r, n)
  <2>1. PICK m : m = [id |-> id, length |-> n, header |-> r.address,
                      words |-> v.words, spans |-> <<Span(v)>>]
    OBVIOUS
  <2>2. <<Span(v)>> \in Seq(SpanType)
    BY <1>0 DEF Span, SpanType
  <2>3. m \in CurrentType /\ m # None
    <3>1. PICK x, y, z : x = v.words /\ y = r.address /\ z = <<Span(v)>>
      OBVIOUS
    <3>2. x \in Seq(Nat) /\ y \in Nat /\ z \in Seq(SpanType)
      BY <1>0, <2>2, <3>1
    <3>3. m = [id |-> id, length |-> n, header |-> y, words |-> x, spans |-> z]
      BY <2>1, <3>1
    <3>4. m \in CurrentType
      BY <1>2, <3>2, <3>3 DEF CurrentType
    <3> QED
      BY <3>4, SunSpecDiscoveryAssumption
  <2>4. PICK e : e = [b EXCEPT !.current = m]
    OBVIOUS
  <2>5. /\ e \in ChainType /\ e.current = m /\ e.raw = w /\ e.pending = {} /\ e.plan = c.plan
        /\ e.selected = c.selected /\ e.occ = c.occ
        /\ e.complete = c.complete /\ e.failed = c.failed
    BY <1>8, <2>3, <2>4 DEF ChainType
  <2>6. PICK h, k : h = r.address + 2 /\ k = AtMostRead(n)
    OBVIOUS
  <2>7. h \in Nat /\ k \in Nat /\ k <= n
    <3>1. h \in Nat
      BY <1>0, <2>6
    <3> QED
      BY <1>2, <2>6, <3>1, SunSpecChainAssumption DEF AtMostRead
  <2>8. d = Queue(e, h, k, "payload")
    BY <1>1, <1>9, <1>11, <2>1, <2>4, <2>6 DEF AdmitHeader
  <2>9. Queued(e, d, h, k, "payload")
    BY <2>5, <2>7, <2>8, QueueFacts
  <2>10. /\ d \in ChainType /\ d.plan = c.plan /\ d.selected = c.selected
         /\ d.raw = w /\ d.occ = c.occ /\ d.complete = c.complete
    BY <2>5, <2>9 DEF Queued
  <2>11. CASE d.failed
    BY <2>10, <2>11 DEF Sound, Moves, Stops, Waits
  <2>12. CASE ~d.failed
    <3>1. PICK q \in RequestType :
            /\ d.pending = {q} /\ q.sequence = d.next /\ q.address = h /\ q.words = k
            /\ q.purpose = "payload" /\ Addressable(h, k) /\ k <= MaxReadWords /\ d.current = m
      BY <2>5, <2>9, <2>12 DEF Queued
    <3>2. Waits(d) /\ d.raw # <<>>
      BY <1>6, <2>10, <2>12 DEF Waits
    <3>3. Cursor(d) = Cursor(c)
      BY <2>10 DEF Cursor
    <3>4. n # 0 /\ Len(c.raw) + n + 4 <= c.plan.maxWords /\ Len(c.occ) + 1 <= c.plan.maxOccurrences
      BY <1>0, <1>2, <1>11, PlanFacts DEF HeaderFits
    <3>5. /\ m.header = r.address /\ m.length = n /\ Len(m.words) = 2
      BY <1>0, <2>1
    <3>6. r.address - c.selected + n + 4 <= c.plan.maxWords
      <4>1. PICK at, s, l, p : /\ at = r.address /\ s = c.selected
                               /\ l = Len(c.raw) /\ p = c.plan.maxWords
        OBVIOUS
      <4>2. at \in Nat /\ s \in Nat /\ l \in Nat /\ p \in Nat /\ at = s + l /\ l + n + 4 <= p
        BY <1>0, <3>4, <4>1, PlanNumbers
      <4>3. at - s + n + 4 <= p
        BY <1>2, <4>2
      <4> QED
        BY <4>1, <4>3
    <3>7. OnPayload(d, q)
      <4>1. m.header = Cursor(d) /\ q.address = m.header + Len(m.words)
        BY <1>0, <2>6, <3>1, <3>3, <3>5
      <4>2. Len(m.words) >= 2 /\ Len(m.words) + q.words <= m.length + 2 /\ m.length # 0
        BY <1>2, <2>7, <3>1, <3>4, <3>5
      <4>3. m.header - d.selected + m.length + 4 <= d.plan.maxWords
        BY <2>10, <3>5, <3>6
      <4>4. Len(d.occ) + 1 <= d.plan.maxOccurrences
        BY <2>10, <3>4
      <4> QED
        BY <2>3, <3>1, <4>1, <4>2, <4>3, <4>4 DEF OnPayload
    <3>8. q.address = d.selected + Len(d.raw)
      <4>1. PICK s, l : s = c.selected /\ l = Len(c.raw)
        OBVIOUS
      <4>2. s \in Nat /\ l \in Nat /\ h = s + l + 2 /\ Len(w) = l + 2
        BY <1>0, <1>6, <2>6, <4>1
      <4> QED
        BY <2>10, <3>1, <4>1, <4>2
    <3>9. WantsOnly(d, q)
      BY <3>1, <3>7, <3>8 DEF WantsOnly
    <3>10. Walks(d)
      BY <2>10, <3>1, <3>9 DEF Walks
    <3>11. Stays(c, d)
      BY <2>10, <3>2 DEF Stays
    <3> QED
      BY <2>10, <3>2, <3>10, <3>11 DEF Sound, Moves
  <2> QED
    BY <2>11, <2>12, Zenon
<1>12. CASE ~(id = EndModel /\ n = 0) /\ ~(id # EndModel /\ HeaderFits(c, r, n))
  <2>1. /\ ~(v.words[1] = EndModel /\ v.words[2] = 0)
        /\ ~(v.words[1] # EndModel /\ HeaderFits(c, r, v.words[2]))
    BY <1>1, <1>12
  <2>2. d = Fail(c)
    BY <2>1 DEF AdmitHeader
  <2> QED
    BY <2>2, FailMoves
<1> QED
  BY <1>10, <1>11, <1>12

(* A view of a payload: more of it is wanted, or a model is found and the  *)
(* next header wanted, or the chain fails.                                 *)
LEMMA PayloadStep ==
    ASSUME NEW c \in ChainType, ValidPlan(c.plan), Waits(c), c.raw # <<>>,
           c.selected \in Range(c.plan.bases), c.selected + 4 <= AddressSpace,
           NEW r \in c.pending, WantsOnly(c, r), r.purpose = "payload",
           NEW v \in ViewType, Len(v.words) = r.words, NEW d, d = AdmitPayload(c, r, v)
    PROVE  Sound(d) /\ Moves(c, d)
<1>1. PICK x, g, l, s : x = c.current /\ g = Len(x.words) /\ l = Len(c.raw) /\ s = c.selected
  OBVIOUS
<1>2. /\ x \in CurrentType /\ x # None /\ OnPayload(c, r)
  <2>1. OnPayload(c, r)
    BY DEF WantsOnly, OnHeader
  <2> QED
    BY <1>1, <2>1 DEF OnPayload, ChainType
<1>3. /\ r \in RequestType /\ r.address \in Nat /\ r.words \in Nat /\ v.words \in Seq(Nat)
      /\ v.id \in Nat /\ v.slice \in Stated("slice") /\ c.raw \in Seq(Nat) /\ l \in Nat
  <2>1. r \in RequestType /\ c.raw \in Seq(Nat)
    BY DEF ChainType
  <2>2. r.address \in Nat /\ r.words \in Nat /\ v.words \in Seq(Nat)
        /\ v.id \in Nat /\ v.slice \in Stated("slice")
    BY <2>1 DEF RequestType, ViewType
  <2> QED
    BY <1>1, <2>1, <2>2
<1>4. /\ x.id \in Nat /\ x.length \in Nat /\ x.header \in Nat /\ x.words \in Seq(Nat)
      /\ x.spans \in Seq(SpanType) /\ g \in Nat
  BY <1>1, <1>2 DEF CurrentType
<1>5. /\ x.header = Cursor(c) /\ x.length # 0 /\ g >= 2
      /\ r.address = x.header + g /\ g + r.words <= x.length + 2
      /\ x.header - s + x.length + 4 <= c.plan.maxWords
      /\ Len(c.occ) + 1 <= c.plan.maxOccurrences
      /\ r.address = s + l /\ r.words # 0 /\ s \in Nat
  <2>1. r.address = s + l /\ r.words # 0
    BY <1>1 DEF WantsOnly, Addressable
  <2> QED
    BY <1>1, <1>2, <2>1, PlanFacts DEF OnPayload
<1>6. PICK got, after : got = g - 2 + r.words /\ after = r.address + r.words
  OBVIOUS
<1>7. got \in Nat /\ after \in Nat /\ got <= x.length /\ after = x.header + 2 + got
  <2>1. PICK h, n, u, e : h = x.header /\ n = x.length /\ u = r.words /\ e = r.address
    OBVIOUS
  <2>2. /\ h \in Nat /\ n \in Nat /\ u \in Nat /\ g \in Nat
        /\ e = h + g /\ g + u <= n + 2 /\ g >= 2
    BY <1>3, <1>4, <1>5, <2>1
  <2>3. got = g - 2 + u /\ after = e + u
    BY <1>6, <2>1
  <2>4. got \in Nat /\ after \in Nat /\ got <= n /\ after = h + 2 + got
    BY <2>2, <2>3
  <2> QED
    BY <2>1, <2>4
<1>8. PICK k : k = IF got = x.length THEN 2 ELSE AtMostRead(x.length - got)
  OBVIOUS
<1>9. k \in Nat /\ (got # x.length => k <= x.length - got)
  BY <1>4, <1>7, <1>8, PlanFacts DEF AtMostRead
<1>10. PICK y, z, w : /\ y = x.words \o v.words /\ z = Append(x.spans, Span(v))
                      /\ w = c.raw \o v.words
  OBVIOUS
<1>11. /\ y \in Seq(Nat) /\ Len(y) = g + r.words
       /\ w \in Seq(Nat) /\ Len(w) = l + r.words /\ w # <<>>
  <2>1. PICK s1, s2, s3 : s1 = x.words /\ s2 = v.words /\ s3 = c.raw
    OBVIOUS
  <2>2. s1 \in Seq(Nat) /\ s2 \in Seq(Nat) /\ s3 \in Seq(Nat) /\ s3 # <<>>
    BY <1>3, <1>4, <2>1
  <2>3. s1 \o s2 \in Seq(Nat) /\ Len(s1 \o s2) = Len(s1) + Len(s2)
    BY <2>2, ConcatType
  <2>4. s3 \o s2 \in Seq(Nat) /\ Len(s3 \o s2) = Len(s3) + Len(s2) /\ s3 \o s2 # <<>>
    BY <2>2, ConcatType
  <2> QED
    BY <1>1, <1>10, <2>1, <2>3, <2>4
<1>11a. after = x.header + Len(y) /\ after = s + Len(w) /\ Len(y) = got + 2
  <2>1. PICK h, u, e : h = x.header /\ u = r.words /\ e = r.address
    OBVIOUS
  <2>2. /\ h \in Nat /\ u \in Nat /\ g \in Nat /\ l \in Nat /\ s \in Nat
        /\ e = h + g /\ e = s + l /\ Len(y) = g + u /\ Len(w) = l + u
    BY <1>3, <1>4, <1>5, <1>11, <2>1
  <2>3. got = g - 2 + u /\ after = e + u
    BY <1>6, <2>1
  <2>4. PICK p, o : p = Len(y) /\ o = Len(w)
    OBVIOUS
  <2>5. p = g + u /\ o = l + u
    BY <2>2, <2>4
  <2>6. after = h + p /\ after = s + o /\ p = got + 2
    BY <2>2, <2>3, <2>5
  <2> QED
    BY <2>1, <2>4, <2>6
<1>12. z \in Seq(SpanType)
  <2>1. PICK T, u, e : T = SpanType /\ u = x.spans /\ e = Span(v)
    OBVIOUS
  <2>2. e \in T
    <3>1. Len(v.words) \in Nat
      BY <1>3
    <3> QED
      BY <1>3, <2>1, <3>1 DEF Span, SpanType
  <2>3. Append(u, e) \in Seq(T)
    BY <1>4, <2>1, <2>2, AppendType
  <2> QED
    BY <1>10, <2>1, <2>3
<1>13. PICK m : m = [x EXCEPT !.words = y, !.spans = z]
  OBVIOUS
<1>14. /\ m \in CurrentType /\ m # None /\ m.id = x.id /\ m.length = x.length
       /\ m.header = x.header /\ m.words = y /\ m.spans = z
  <2>1. /\ m \in CurrentType /\ m.id = x.id /\ m.length = x.length
        /\ m.header = x.header /\ m.words = y /\ m.spans = z
    BY <1>2, <1>11, <1>12, <1>13 DEF CurrentType
  <2> QED
    BY <2>1, SunSpecDiscoveryAssumption
<1>15. PICK a : a = Accept(c, r, v)
  OBVIOUS
<1>16. a \in ChainType /\ AsFar(a, c) /\ a.pending = {}
  BY <1>15, AcceptFacts DEF WantsOnly
<1>17. PICK b : b = [a EXCEPT !.raw = w]
  OBVIOUS
<1>18. /\ b \in ChainType /\ b.raw = w /\ b.pending = {} /\ b.plan = c.plan
       /\ b.selected = s /\ b.occ = c.occ /\ b.current = x
       /\ b.complete = c.complete /\ b.failed = c.failed
  BY <1>1, <1>11, <1>16, <1>17 DEF ChainType, AsFar
<1>19. b = [Accept(c, r, v) EXCEPT !.raw = @ \o v.words]
  BY <1>10, <1>15, <1>16, <1>17 DEF ChainType, AsFar
<1>20. CASE ~Addressable(after, k)
  <2>1. d = Fail(c)
    BY <1>1, <1>6, <1>8, <1>20 DEF AdmitPayload
  <2> QED
    BY <2>1, FailMoves
<1>21. CASE Addressable(after, k) /\ got # x.length
  <2>1. PICK e : e = [b EXCEPT !.current = m]
    OBVIOUS
  <2>2. /\ e \in ChainType /\ e.current = m /\ e.raw = w /\ e.pending = {} /\ e.plan = c.plan
        /\ e.selected = s /\ e.occ = c.occ
        /\ e.complete = c.complete /\ e.failed = c.failed
    BY <1>14, <1>18, <2>1 DEF ChainType
  <2>3. d = Queue(e, after, k, "payload")
    <3>1. m = [c.current EXCEPT !.words = @ \o v.words, !.spans = Append(@, Span(v))]
      BY <1>1, <1>2, <1>10, <1>13 DEF CurrentType
    <3>2. k = AtMostRead(c.current.length - got)
      BY <1>1, <1>8, <1>21
    <3> QED
      BY <1>1, <1>2, <1>6, <1>19, <1>21, <2>1, <3>1, <3>2 DEF AdmitPayload
  <2>4. Queued(e, d, after, k, "payload")
    BY <1>7, <1>9, <2>2, <2>3, QueueFacts
  <2>5. /\ d \in ChainType /\ d.plan = c.plan /\ d.selected = s
        /\ d.raw = w /\ d.occ = c.occ /\ d.complete = c.complete
    BY <2>2, <2>4 DEF Queued
  <2>6. CASE d.failed
    BY <2>5, <2>6 DEF Sound, Moves, Stops, Waits
  <2>7. CASE ~d.failed
    <3>1. PICK q \in RequestType :
            /\ d.pending = {q} /\ q.sequence = d.next /\ q.address = after /\ q.words = k
            /\ q.purpose = "payload" /\ Addressable(after, k) /\ k <= MaxReadWords /\ d.current = m
      BY <2>2, <2>4, <2>7 DEF Queued
    <3>2. Waits(d) /\ d.raw # <<>>
      BY <1>11, <2>5, <2>7 DEF Waits
    <3>3. Cursor(d) = Cursor(c)
      BY <1>1, <2>5 DEF Cursor
    <3>4. OnPayload(d, q)
      <4>1. m.header = Cursor(d) /\ q.address = m.header + Len(m.words)
        BY <1>5, <1>11a, <1>14, <3>1, <3>3
      <4>2. Len(m.words) >= 2 /\ Len(m.words) + q.words <= m.length + 2 /\ m.length # 0
        <5>1. PICK n : n = x.length
          OBVIOUS
        <5>2. n \in Nat /\ n # 0 /\ got \in Nat /\ k \in Nat /\ k <= n - got
          BY <1>4, <1>5, <1>7, <1>9, <1>21, <5>1
        <5>3. Len(m.words) = got + 2 /\ m.length = n /\ q.words = k
          BY <1>11a, <1>14, <3>1, <5>1
        <5> QED
          BY <5>2, <5>3
      <4>3. m.header - d.selected + m.length + 4 <= d.plan.maxWords
        BY <1>5, <1>14, <2>5
      <4>4. Len(d.occ) + 1 <= d.plan.maxOccurrences
        BY <1>5, <2>5
      <4> QED
        BY <1>14, <3>1, <4>1, <4>2, <4>3, <4>4 DEF OnPayload
    <3>5. q.address = d.selected + Len(d.raw)
      BY <1>11a, <2>5, <3>1
    <3>6. WantsOnly(d, q)
      BY <3>1, <3>4, <3>5 DEF WantsOnly
    <3>7. Walks(d)
      BY <1>1, <2>5, <3>1, <3>6 DEF Walks
    <3>8. Stays(c, d)
      BY <1>1, <2>5, <3>2 DEF Stays
    <3> QED
      BY <2>5, <3>2, <3>7, <3>8 DEF Sound, Moves
  <2> QED
    BY <2>6, <2>7
<1>22. CASE Addressable(after, k) /\ got = x.length
  <2>1. PICK o : o = Occurrence(c, m)
    OBVIOUS
  <2>2. o \in OccurrenceType /\ o.header = x.header /\ o.length = x.length
    <3>1. PICK p, t : p = Disposition(c.plan, m.id, m.length)
                      /\ t = (m.id \in Range(c.plan.structural)
                              /\ StructuralFits(c.plan.revision, m.words, m.spans))
      OBVIOUS
    <3>2. p \in {"admitted", "unsupported_length", "unknown_model"} /\ t \in BOOLEAN
      BY <3>1 DEF Disposition
    <3>3. PICK n, h, i : n = Len(c.occ) + 1 /\ h = x.header + 2 /\ i = c.plan.revision
      OBVIOUS
    <3>4. n \in Nat /\ h \in Nat /\ i \in Revisions
      <4>1. c.occ \in Seq(OccurrenceType)
        BY DEF ChainType
      <4>2. Len(c.occ) \in Nat
        BY <4>1
      <4>3. n \in Nat /\ h \in Nat
        BY <1>4, <3>3, <4>2
      <4> QED
        BY <3>3, <4>3, PlanFacts
    <3>5. o = [ordinal |-> n, id |-> x.id, length |-> x.length, revision |-> i,
               header |-> x.header, payload |-> h, disposition |-> p, structural |-> t,
               words |-> y, spans |-> z]
      BY <1>14, <2>1, <3>1, <3>3 DEF Occurrence
    <3> QED
      BY <1>4, <1>11, <1>12, <3>2, <3>4, <3>5 DEF OccurrenceType
  <2>3. PICK O, u, f : O = OccurrenceType /\ u = c.occ /\ f = Append(u, o)
    OBVIOUS
  <2>4. f \in Seq(O) /\ Len(f) = Len(u) + 1 /\ f # <<>> /\ f[Len(f)] = o
    <3>1. u \in Seq(O) /\ o \in O
      BY <2>2, <2>3 DEF ChainType
    <3> QED
      BY <2>3, <3>1, AppendType
  <2>5. PICK e : e = [b EXCEPT !.occ = f, !.current = None]
    OBVIOUS
  <2>6. /\ e \in ChainType /\ e.current = None /\ e.raw = w /\ e.pending = {} /\ e.plan = c.plan
        /\ e.selected = s /\ e.occ = f
        /\ e.complete = c.complete /\ e.failed = c.failed
    BY <1>18, <2>3, <2>4, <2>5 DEF ChainType
  <2>7. k = 2 /\ d = Queue(e, after, 2, "header")
    <3>1. m = [c.current EXCEPT !.words = @ \o v.words, !.spans = Append(@, Span(v))]
      BY <1>1, <1>2, <1>10, <1>13 DEF CurrentType
    <3>2. k = 2
      BY <1>8, <1>22
    <3>3. e = [b EXCEPT !.occ = Append(@, Occurrence(c, m)), !.current = None]
      BY <1>18, <2>1, <2>3, <2>5
    <3> QED
      BY <1>1, <1>2, <1>6, <1>19, <1>22, <3>1, <3>2, <3>3 DEF AdmitPayload
  <2>8. Queued(e, d, after, 2, "header")
    BY <1>7, <2>6, <2>7, QueueFacts
  <2>9. /\ d \in ChainType /\ d.plan = c.plan /\ d.selected = s
        /\ d.raw = w /\ d.occ = f /\ d.complete = c.complete
    BY <2>6, <2>8 DEF Queued
  <2>10. Addressable(after, 2) /\ 2 <= MaxReadWords
    BY <1>22, <2>7, PlanFacts
  <2>11. d.failed = c.failed
    <3>1. 2 \in 1 .. MaxReadWords
      BY PlanFacts
    <3> QED
      BY <2>6, <2>8, <2>10, <3>1 DEF Queued
  <2>12. PICK q \in RequestType :
           /\ d.pending = {q} /\ q.sequence = d.next /\ q.address = after /\ q.words = 2
           /\ q.purpose = "header" /\ d.current = None
    BY <2>6, <2>8, <2>11 DEF Queued, Waits
  <2>13. Waits(d) /\ d.raw # <<>>
    BY <1>11, <2>9, <2>11 DEF Waits
  <2>14. after = x.header + 2 + x.length
    BY <1>7, <1>22
  <2>15. Cursor(d) = after
    BY <2>2, <2>4, <2>9, <2>14 DEF Cursor
  <2>16. OnHeader(d, q)
    BY <2>12, <2>15 DEF OnHeader
  <2>17. q.address = d.selected + Len(d.raw)
    BY <1>11a, <2>9, <2>12
  <2>18. WantsOnly(d, q)
    BY <2>10, <2>12, <2>16, <2>17 DEF WantsOnly
  <2>19. Walks(d)
    BY <1>1, <2>9, <2>12, <2>18 DEF Walks
  <2>20. Extends(c, d)
    <3>1. o.header = Cursor(c) /\ o.length # 0
      BY <1>5, <2>2
    <3>2. o.header + 2 + o.length + 2 <= AddressSpace
      BY <1>4, <2>2, <2>10, <2>14, PlanFacts DEF Addressable
    <3>3. o.header - c.selected + o.length + 4 <= c.plan.maxWords
      BY <1>1, <1>5, <2>2
    <3>4. d.occ = Append(c.occ, o) /\ d.selected = c.selected
      BY <1>1, <2>3, <2>9
    <3> QED
      BY <1>5, <2>2, <2>13, <3>1, <3>2, <3>3, <3>4 DEF Extends
  <2> QED
    BY <2>9, <2>13, <2>19, <2>20 DEF Sound, Moves
<1> QED
  BY <1>20, <1>21, <1>22

(* Remembering the identity of a view changes nothing of this.             *)
LEMMA IdentifiedCarries ==
    ASSUME NEW c, Sound(c), Waits(c), NEW v \in ViewType, NEW e, e = Identified(c, v)
    PROVE  /\ e \in ChainType /\ Sound(e) /\ Waits(e) /\ AsFar(e, c) /\ e.pending = c.pending
           /\ \A d : Moves(e, d) => Moves(c, d)
<1>1. c \in ChainType /\ ValidPlan(c.plan)
  BY DEF Sound
<1>2. e \in ChainType /\ AsFar(e, c) /\ e.pending = c.pending
  BY <1>1, IdentifiedFacts
<1>3. Waits(e) /\ ValidPlan(e.plan) /\ Cursor(e) = Cursor(c)
  BY <1>1, <1>2 DEF AsFar, Waits, Cursor
<1>4. Seeks(c) => Seeks(e)
  BY <1>2 DEF AsFar, Seeks
<1>5. ASSUME NEW r, WantsOnly(c, r) PROVE WantsOnly(e, r)
  <2>1. OnHeader(c, r) => OnHeader(e, r)
    BY <1>2, <1>3 DEF AsFar, OnHeader
  <2>2. OnPayload(c, r) => OnPayload(e, r)
    BY <1>2, <1>3 DEF AsFar, OnPayload
  <2> QED
    BY <1>2, <1>5, <2>1, <2>2 DEF AsFar, WantsOnly
<1>6. Walks(c) => Walks(e)
  BY <1>2, <1>5 DEF AsFar, Walks
<1>7. Sound(e)
  BY <1>2, <1>3, <1>4, <1>6 DEF Sound, AsFar
<1>8. ASSUME NEW d, Moves(e, d) PROVE Moves(c, d)
  <2>1. Extends(e, d) => Extends(c, d)
    BY <1>2, <1>3 DEF AsFar, Extends
  <2> QED
    BY <1>2, <1>8, <2>1 DEF AsFar, Moves, Stops, Stays, Chooses, Finishes
<1> QED
  BY <1>2, <1>3, <1>7, <1>8

LEMMA AdmittedMoves ==
    ASSUME NEW c, Sound(c), Waits(c), NEW r \in c.pending,
           NEW v \in ViewType, Len(v.words) = r.words, NEW d, d = Admitted(c, r, v)
    PROVE  Sound(d) /\ Moves(c, d)
<1>1. c \in ChainType /\ ValidPlan(c.plan)
  BY DEF Sound
<1>2. CASE Contradicts(c, v)
  <2>1. d = Fail(c)
    BY <1>2 DEF Admitted
  <2> QED
    BY <1>1, <2>1, FailMoves
<1>3. CASE ~Contradicts(c, v)
  <2>1. PICK e : e = Identified(c, v)
    OBVIOUS
  <2>2. /\ e \in ChainType /\ Sound(e) /\ Waits(e) /\ AsFar(e, c) /\ e.pending = c.pending
        /\ \A x : Moves(e, x) => Moves(c, x)
    BY <2>1, IdentifiedCarries
  <2>3. ValidPlan(e.plan) /\ r \in e.pending
    BY <2>2 DEF Sound
  <2>4. CASE e.raw = <<>>
    <3>1. Seeks(e)
      BY <2>2, <2>4 DEF Sound
    <3>2. r.purpose = "signature"
      BY <2>3, <3>1 DEF Seeks
    <3>3. d = AdmitSignature(e, r, v)
      BY <1>3, <2>1, <3>2 DEF Admitted
    <3> QED
      BY <2>2, <2>3, <2>4, <3>1, <3>3, SignatureStep
  <2>5. CASE e.raw # <<>>
    <3>1. Walks(e)
      BY <2>2, <2>5 DEF Sound
    <3>2. /\ e.selected \in Range(e.plan.bases) /\ e.selected + 4 <= AddressSpace
          /\ WantsOnly(e, r)
      BY <2>3, <3>1 DEF Walks, WantsOnly
    <3>3. CASE r.purpose = "header"
      <4>1. d = AdmitHeader(e, r, v)
        BY <1>3, <2>1, <3>3 DEF Admitted
      <4> QED
        BY <2>2, <2>3, <2>5, <3>2, <3>3, <4>1, HeaderStep
    <3>4. CASE r.purpose = "payload"
      <4>1. d = AdmitPayload(e, r, v)
        BY <1>3, <2>1, <3>4 DEF Admitted
      <4> QED
        BY <2>2, <2>3, <2>5, <3>2, <3>4, <4>1, PayloadStep
    <3> QED
      BY <3>2, <3>3, <3>4 DEF WantsOnly, OnHeader, OnPayload
  <2> QED
    BY <2>4, <2>5
<1> QED
  BY <1>2, <1>3

(* One call of AdmitReplay: it is refused, or the chain moves on.          *)
LEMMA AdmitReplayMoves ==
    ASSUME NEW c, Sound(c), NEW r, NEW v \in ViewType, NEW d, d = AdmitReplay(c, r, v)
    PROVE  Sound(d) /\ (d = c \/ (Waits(c) /\ Moves(c, d)))
<1>1. CASE Admissible(c, r, v)
  <2>1. Waits(c) /\ r \in c.pending /\ Len(v.words) = r.words
    BY <1>1 DEF Admissible, Waits
  <2>2. d = Admitted(c, r, v)
    BY <1>1 DEF AdmitReplay
  <2> QED
    BY <2>1, <2>2, AdmittedMoves
<1>2. CASE ~Admissible(c, r, v)
  <2>1. d = c
    BY <1>2 DEF AdmitReplay
  <2> QED
    BY <2>1
<1> QED
  BY <1>1, <1>2

-----------------------------------------------------------------------------
(* The views a caller hands in are views. *)

(* Any read a caller may hold, of this chain or of another.                *)
LEMMA RequestsAreReads ==
    ASSUME NEW c, Sound(c), NEW r \in Requests(c)
    PROVE  r.purpose \in {"signature", "header", "payload"} /\ r.address \in Nat /\ r.words \in Nat
<1>1. CASE r \in c.pending
  BY <1>1 DEF Sound, ChainType, RequestType
<1>2. CASE r \in {Request(i, 1, c.plan.bases[1], 2, "signature") : i \in {1, 2}}
  <2>1. c.plan.bases[1] \in Nat
    <3>1. PICK b : b = c.plan.bases
      OBVIOUS
    <3>2. b \in Seq(Nat) /\ b # <<>>
      BY <3>1, PlanFacts DEF Sound
    <3> QED
      BY <3>1, <3>2
  <2> QED
    BY <1>2, <2>1 DEF Request
<1> QED
  BY <1>1, <1>2 DEF Requests

LEMMA AnswersAreWords ==
    ASSUME NEW r, r.purpose \in {"signature", "header", "payload"}, r.words \in Nat,
           NEW w \in Answers(r)
    PROVE  w \in Seq(Nat)
<1>1. CASE r.purpose = "signature"
  <2>1. w \in {Signature, <<0, 0>>}
    BY <1>1 DEF Answers
  <2>2. <<0, 0>> \in Seq(Nat)
    OBVIOUS
  <2> QED
    BY <2>1, <2>2, SignatureWords
<1>2. CASE r.purpose = "header"
  <2>1. w \in Nat \X Nat
    BY <1>2, SunSpecDiscoveryAssumption DEF Answers
  <2>2. PICK a \in Nat, b \in Nat : w = <<a, b>>
    BY <2>1
  <2>3. <<a, b>> \in Seq(Nat)
    OBVIOUS
  <2> QED
    BY <2>2, <2>3
<1>3. CASE r.purpose = "payload"
  <2>1. PICK x \in Contents : w = [i \in 1 .. r.words |-> x]
    BY <1>3 DEF Answers
  <2>2. x \in Nat
    BY SunSpecDiscoveryAssumption
  <2>3. PICK n \in Nat : n = r.words
    OBVIOUS
  <2>4. w = [i \in 1 .. n |-> x]
    BY <2>1, <2>3
  <2> QED
    BY <2>2, <2>4
<1> QED
  BY <1>1, <1>2, <1>3

LEMMA ViewHasType ==
    ASSUME NEW id \in Nat, NEW address \in Nat, NEW words \in Seq(Nat),
           NEW purpose \in {"signature", "header", "payload"},
           NEW s, s \in SourcesOfViews[purpose] \/ s = Plain
    PROVE  View(id, address, words, s) \in ViewType
<1>1. s \in {Plain} \cup UNION {SourcesOfViews[p] : p \in {"signature", "header", "payload"}}
  OBVIOUS
<1>2. /\ s.slice \in Stated("slice") /\ s.holding \in Stated("holding")
      /\ s.provenance \in Stated("provenance") /\ s.physical \in Stated("physical")
      /\ s.wire \in Stated("wire") /\ s.place \in Stated("place") /\ s.bytes \in Stated("bytes")
  BY <1>1 DEF Stated
<1> QED
  BY <1>2 DEF View, ViewType

LEMMA ViewsAreViews ==
    ASSUME NEW c, Sound(c), NEW r \in Requests(c), NEW v \in Views(c, r)
    PROVE  v \in ViewType
<1>1. /\ r.purpose \in {"signature", "header", "payload"} /\ r.address \in Nat /\ r.words \in Nat
      /\ r.address + 1 \in Nat
  BY RequestsAreReads
<1>2. Len(c.sources) + 1 \in Nat
  <2>1. c.sources \in Seq(ViewType)
    BY DEF Sound, ChainType
  <2>2. Len(c.sources) \in Nat
    BY <2>1
  <2> QED
    BY <2>2
<1>3. PICK n, p, h : n = Len(c.sources) + 1 /\ p = r.purpose /\ h = r.address
  OBVIOUS
<1>4. /\ n \in Nat /\ h \in Nat /\ h + 1 \in Nat /\ p \in {"signature", "header", "payload"}
      /\ \A words \in Answers(r) : words \in Seq(Nat)
  BY <1>1, <1>2, <1>3, AnswersAreWords
<1>5. CASE \E words \in Answers(r), s \in SourcesOfViews[p] : v = View(n, h, words, s)
  BY <1>4, <1>5, ViewHasType
<1>6. CASE \E words \in Answers(r), s \in {Plain} : v = View(n, h + 1, words, s)
  BY <1>4, <1>6, ViewHasType
<1>7. CASE \E words \in Answers(r), s \in {Plain} : v = View(1, h, words, s)
  BY <1>4, <1>7, ViewHasType
<1> QED
  BY <1>3, <1>5, <1>6, <1>7 DEF Views

-----------------------------------------------------------------------------
(* The chain. *)

LEMMA NewChainIsSound ==
    ASSUME NEW s \in PlanSpecs, ValidPlan(s), NEW d, d = NewSunSpecChain(s, 1)
    PROVE  Sound(d) /\ Waits(d) /\ d.raw = <<>> /\ d.occ = <<>>
<1>1. PICK p, n : /\ p = {Request(1, i, s.bases[i], 2, "signature") : i \in DOMAIN s.bases}
                  /\ n = Len(s.bases)
  OBVIOUS
<1>2. PICK b : b = s.bases
  OBVIOUS
<1>3. b \in Seq(Nat) /\ b # <<>> /\ n \in Nat
  BY <1>1, <1>2, SunSpecDiscoveryAssumption DEF ValidPlan
<1>4. \A r \in p : /\ r \in RequestType /\ r.purpose = "signature" /\ r.words = 2
                   /\ r.address \in Range(s.bases)
  <2>1. TAKE r \in p
  <2>2. PICK i \in DOMAIN b : r = Request(1, i, b[i], 2, "signature")
    BY <1>1, <1>2
  <2>3. i \in Nat /\ b[i] \in Nat /\ b[i] \in Range(b)
    BY <1>3 DEF Range
  <2> QED
    BY <1>2, <2>2, <2>3 DEF Request, RequestType
<1>5. p # {}
  <2>1. 1 \in DOMAIN b
    BY <1>3
  <2> QED
    BY <1>1, <1>2, <2>1
<1>6. /\ d.plan = s /\ d.pending = p /\ d.selected = None /\ d.raw = <<>> /\ d.occ = <<>>
      /\ d.current = None /\ d.complete = FALSE /\ d.failed = FALSE
  BY <1>1 DEF NewSunSpecChain
<1>7. d \in ChainType
  <2>1. PICK raw \in Seq(Nat) : raw = <<>>
    <3>1. <<>> \in Seq(Nat)
      OBVIOUS
    <3> QED
      BY <3>1, Zenon
  <2>2. PICK occ \in Seq(OccurrenceType) : occ = <<>>
    <3>1. <<>> \in Seq(OccurrenceType)
      OBVIOUS
    <3> QED
      BY <3>1, Zenon
  <2>3. PICK sources \in Seq(ViewType) : sources = <<>>
    <3>1. <<>> \in Seq(ViewType)
      OBVIOUS
    <3> QED
      BY <3>1, Zenon
  <2>4. PICK physical \in PhysicalTable : physical = <<>>
    BY EmptyTable DEF PhysicalTable
  <2>5. PICK wire \in WireTable : wire = <<>>
    BY EmptyTable DEF WireTable
  <2>6. PICK pending \in SUBSET RequestType : pending = p
    BY <1>4
  <2>7. PICK selected \in Nat \cup {None} : selected = None
    OBVIOUS
  <2>8. PICK current \in CurrentType \cup {None} : current = None
    OBVIOUS
  <2>9. PICK no \in BOOLEAN : no = FALSE
    OBVIOUS
  <2>10. PICK instance \in Nat : instance = 1
    OBVIOUS
  <2>11. d = [plan |-> s, instance |-> instance, pending |-> pending, next |-> n,
              selected |-> selected, raw |-> raw, occ |-> occ, sources |-> sources,
              physical |-> physical, wire |-> wire, current |-> current,
              complete |-> no, failed |-> no]
    BY <1>1, <2>1, <2>2, <2>3, <2>4, <2>5, <2>6, <2>7, <2>8, <2>9, <2>10 DEF NewSunSpecChain
  <2>12. [plan |-> s, instance |-> instance, pending |-> pending, next |-> n,
          selected |-> selected, raw |-> raw, occ |-> occ, sources |-> sources,
          physical |-> physical, wire |-> wire, current |-> current,
          complete |-> no, failed |-> no] \in ChainType
    <3>1. PICK A, B, C, D, E, F, G :
            /\ A = Nat \cup {None} /\ B = SUBSET RequestType /\ C = Seq(Nat)
            /\ D = Seq(OccurrenceType) /\ E = Seq(ViewType) /\ F = CurrentType \cup {None}
            /\ G = BOOLEAN
      OBVIOUS
    <3>2. /\ selected \in A /\ pending \in B /\ raw \in C /\ occ \in D /\ sources \in E
          /\ current \in F /\ no \in G
      BY <3>1
    <3>3. ChainType = [plan : PlanSpecs, instance : Nat, pending : B, next : Nat,
                       selected : A, raw : C, occ : D, sources : E,
                       physical : PhysicalTable, wire : WireTable,
                       current : F, complete : G, failed : G]
      BY <3>1, Zenon DEF ChainType
    <3> HIDE <3>1
    <3> QED
      BY <1>3, <3>2, <3>3
  <2> QED
    BY <2>11, <2>12, Zenon
<1>8. Seeks(d)
  BY <1>4, <1>5, <1>6 DEF Seeks
<1> QED
  BY <1>6, <1>7, <1>8 DEF Sound, Waits

-----------------------------------------------------------------------------
(* Every step of the machine. *)

LEMMA InitSound == Init => DiscoveryInv
BY DEF Init, DiscoveryInv

LEMMA NewPlanSound ==
    ASSUME NEW s \in PlanSpecs, NewPlan(s)
    PROVE  /\ DiscoveryInv' /\ chain = None /\ chain' # None
           /\ Waits(chain') /\ chain'.raw = <<>> /\ chain'.occ = <<>>
<1>1. PICK d : d = NewSunSpecChain(s, 1)
  OBVIOUS
<1>2. Sound(d) /\ Waits(d) /\ d.raw = <<>> /\ d.occ = <<>>
  BY <1>1, NewChainIsSound DEF NewPlan
<1>3. chain' = d /\ chain = None
  BY <1>1 DEF NewPlan
<1>4. d # None
  BY <1>2, SunSpecDiscoveryAssumption DEF Sound
<1> QED
  BY <1>2, <1>3, <1>4 DEF DiscoveryInv

LEMMA AdmitSound ==
    ASSUME DiscoveryInv, chain # None,
           NEW r \in Requests(chain), NEW v \in Views(chain, r), Admit(r, v)
    PROVE  /\ DiscoveryInv' /\ chain' # None
           /\ Sound(chain) /\ Sound(chain')
           /\ chain' = chain \/ (Waits(chain) /\ Moves(chain, chain'))
<1>1. PICK c : c = chain
  OBVIOUS
<1>2. Sound(c)
  BY <1>1 DEF DiscoveryInv
<1>3. v \in ViewType
  BY <1>1, <1>2, ViewsAreViews
<1>4. PICK d : d = AdmitReplay(c, r, v)
  OBVIOUS
<1>5. Sound(d) /\ (d = c \/ (Waits(c) /\ Moves(c, d)))
  BY <1>2, <1>3, <1>4, AdmitReplayMoves
<1>6. chain' = d
  BY <1>1, <1>4 DEF Admit
<1>7. d # None
  BY <1>5, SunSpecDiscoveryAssumption DEF Sound
<1> QED
  BY <1>1, <1>2, <1>5, <1>6, <1>7 DEF DiscoveryInv

LEMMA NextSound == DiscoveryInv /\ [Next]_chain => DiscoveryInv'
<1> SUFFICES ASSUME DiscoveryInv, [Next]_chain PROVE DiscoveryInv'
  OBVIOUS
<1>1. CASE \E s \in PlanSpecs : NewPlan(s)
  BY <1>1, NewPlanSound
<1>2. CASE chain # None /\ \E r \in Requests(chain) : \E v \in Views(chain, r) : Admit(r, v)
  BY <1>2, AdmitSound
<1>3. CASE UNCHANGED chain
  BY <1>3 DEF DiscoveryInv
<1> QED
  BY <1>1, <1>2, <1>3 DEF Next

(* Discovery keeps its invariant: what a chain waits for is the next word. *)
THEOREM DiscoverySound == Spec => []DiscoveryInv
<1> QED
  BY InitSound, NextSound, PTL DEF Spec

LEMMA SoundAsks == DiscoveryInv => AsksTheNextWord
<1> SUFFICES ASSUME DiscoveryInv, Live
             PROVE  /\ chain.pending # {}
                    /\ chain.raw # <<>> => \E r \in chain.pending : WantsOnly(chain, r)
  BY DEF AsksTheNextWord, WantsOnly
<1>1. Sound(chain) /\ Waits(chain)
  BY DEF DiscoveryInv, Live, Waits
<1> QED
  BY <1>1 DEF Sound, Seeks, Walks, WantsOnly

(* A chain that can still be walked wants a read; once every candidate is  *)
(* answered it wants exactly one, of the word after those it has.          *)
THEOREM AsksForTheNextWord == Spec => []AsksTheNextWord
<1> QED
  BY DiscoverySound, SoundAsks, PTL

-----------------------------------------------------------------------------
(* Discovery implements SunSpecWalk. *)

(* What SunSpecWalk sees of a chain that exists.                           *)
Base(c) == IF c.raw # <<>> THEN c.selected ELSE None
Limits(c) == IF c.raw # <<>>
             THEN [words |-> c.plan.maxWords, models |-> c.plan.maxOccurrences]
             ELSE None
ModelOf(o) == [id |-> o.id, header |-> o.header, length |-> o.length]
Models(c) == [i \in DOMAIN c.occ |-> ModelOf(c.occ[i])]
Verdict(c) == IF c.failed THEN "failed" ELSE IF c.complete THEN "complete" ELSE "walking"

LEMMA ModelsFacts ==
    ASSUME NEW c \in ChainType
    PROVE  /\ Len(Models(c)) = Len(c.occ) /\ DOMAIN Models(c) = 1 .. Len(c.occ)
           /\ \A i \in 1 .. Len(c.occ) : Models(c)[i] = ModelOf(c.occ[i])
           /\ Models(c) = <<>> <=> c.occ = <<>>
<1>1. PICK u, m : u = c.occ /\ m = Models(c)
  OBVIOUS
<1>2. u \in Seq(OccurrenceType)
  BY <1>1 DEF ChainType
<1>3. m = [i \in 1 .. Len(u) |-> ModelOf(u[i])] /\ Len(u) \in Nat
  BY <1>1, <1>2 DEF Models
<1>4. DOMAIN m = 1 .. Len(u) /\ Len(m) = Len(u) /\ \A i \in 1 .. Len(u) : m[i] = ModelOf(u[i])
  BY <1>3
<1>5. m = <<>> <=> u = <<>>
  <2>1. m = <<>> => Len(m) = 0
    OBVIOUS
  <2>2. Len(u) = 0 => u = <<>>
    BY <1>2
  <2>3. u = <<>> => DOMAIN m = {}
    BY <1>4
  <2>4. DOMAIN m = {} => m = <<>>
    BY <1>3
  <2> QED
    BY <1>4, <2>1, <2>2, <2>3, <2>4
<1> QED
  BY <1>1, <1>4, <1>5

LEMMA ModelsGrow ==
    ASSUME NEW c \in ChainType, NEW d \in ChainType, NEW o \in OccurrenceType,
           d.occ = Append(c.occ, o)
    PROVE  /\ Models(d) = Append(Models(c), ModelOf(o))
           /\ Len(Models(d)) = Len(Models(c)) + 1
           /\ Models(d)[Len(Models(d))] = ModelOf(o)
<1>1. PICK u, w, m, n : u = c.occ /\ w = d.occ /\ m = Models(c) /\ n = Models(d)
  OBVIOUS
<1>2. PICK k : k = Len(u)
  OBVIOUS
<1>3. u \in Seq(OccurrenceType) /\ k \in Nat /\ DOMAIN u = 1 .. k
  BY <1>1, <1>2 DEF ChainType
<1>4. w = Append(u, o)
  BY <1>1
<1>5. /\ Len(w) = k + 1 /\ w[k + 1] = o
      /\ \A i \in 1 .. k : w[i] = u[i]
  BY <1>2, <1>3, <1>4
<1>6. /\ m = [i \in 1 .. k |-> ModelOf(u[i])] /\ Len(m) = k
      /\ n = [i \in 1 .. k + 1 |-> ModelOf(w[i])] /\ Len(n) = k + 1
  <2>1. DOMAIN w = 1 .. k + 1
    BY <1>3, <1>4, <1>5
  <2> QED
    BY <1>1, <1>3, <1>5, <2>1 DEF Models
<1>7. PICK x : x = ModelOf(o)
  OBVIOUS
<1>8. n[k + 1] = x
  BY <1>3, <1>5, <1>6, <1>7
<1>9. \A i \in 1 .. k : n[i] = m[i]
  BY <1>3, <1>5, <1>6
<1>10. n = Append(m, x)
  <2>1. Append(m, x) = [i \in 1 .. k + 1 |-> IF i = k + 1 THEN x ELSE m[i]]
    BY <1>3, <1>6
  <2>2. \A i \in 1 .. k + 1 : n[i] = IF i = k + 1 THEN x ELSE m[i]
    BY <1>3, <1>8, <1>9
  <2> QED
    BY <1>6, <2>1, <2>2
<1> QED
  BY <1>1, <1>6, <1>7, <1>8, <1>10

LEMMA CursorIsAt ==
    ASSUME NEW c \in ChainType, c.raw # <<>>, NEW m, m = Models(c), NEW b, b = Base(c)
    PROVE  Cursor(c) = IF m = <<>> THEN b + 2 ELSE m[Len(m)].header + 2 + m[Len(m)].length
<1>1. PICK u, k : u = c.occ /\ k = Len(u)
  OBVIOUS
<1>2. u \in Seq(OccurrenceType) /\ k \in Nat /\ (u # <<>> => k \in 1 .. k)
  <2>1. u \in Seq(OccurrenceType)
    BY <1>1 DEF ChainType
  <2> QED
    BY <1>1, <2>1
<1>3. Len(m) = k /\ (m = <<>> <=> u = <<>>) /\ \A i \in 1 .. k : m[i] = ModelOf(u[i])
  BY <1>1, ModelsFacts
<1>4. b = c.selected
  BY DEF Base
<1>5. CASE u = <<>>
  BY <1>1, <1>3, <1>4, <1>5 DEF Cursor
<1>6. CASE u # <<>>
  <2>1. m[Len(m)] = ModelOf(u[k])
    BY <1>2, <1>3, <1>6
  <2>2. m[Len(m)].header = u[k].header /\ m[Len(m)].length = u[k].length
    BY <2>1 DEF ModelOf
  <2>3. Cursor(c) = u[k].header + 2 + u[k].length
    BY <1>1, <1>6 DEF Cursor
  <2> QED
    BY <1>3, <1>6, <2>2, <2>3
<1> QED
  BY <1>5, <1>6

LEMMA StopsFails ==
    ASSUME NEW c \in ChainType, NEW d \in ChainType, Waits(c), Stops(c, d)
    PROVE  Verdict(c) = "walking" /\ Verdict(d) = "failed" /\ Models(d) = Models(c)
BY DEF Waits, Stops, Verdict, Models

LEMMA StaysStutters ==
    ASSUME NEW c \in ChainType, NEW d \in ChainType, Waits(c), d.plan = c.plan, Stays(c, d)
    PROVE  /\ Base(d) = Base(c) /\ Limits(d) = Limits(c)
           /\ Models(d) = Models(c) /\ Verdict(d) = Verdict(c)
BY DEF Waits, Stays, Verdict, Models, Base, Limits

LEMMA ChoosesBase ==
    ASSUME NEW c \in ChainType, NEW d \in ChainType, ValidPlan(c.plan),
           Waits(c), d.plan = c.plan, Chooses(c, d)
    PROVE  /\ Verdict(c) = "walking" /\ Base(c) = None /\ Limits(d) # None
           /\ Base(d) \in UNION {Range(s.bases) : s \in PlanSpecs}
           /\ Base(d) + 3 <= AddressSpace - 1
           /\ Models(d) = Models(c) /\ Verdict(d) = Verdict(c)
<1>1. Verdict(c) = "walking" /\ Verdict(d) = "walking" /\ Base(c) = None /\ Models(d) = Models(c)
  BY DEF Waits, Chooses, Verdict, Models, Base
<1>2. Base(d) = d.selected /\ d.selected \in Range(c.plan.bases) /\ c.plan \in PlanSpecs
  BY PlanFacts DEF Chooses, Base
<1>3. Base(d) \in UNION {Range(s.bases) : s \in PlanSpecs}
  BY <1>2
<1>4. d.selected \in Nat /\ AddressSpace \in Nat
  BY <1>2, PlanFacts
<1>5. Base(d) + 3 <= AddressSpace - 1
  BY <1>2, <1>4 DEF Chooses
<1>6. Limits(d) = [words |-> c.plan.maxWords, models |-> c.plan.maxOccurrences]
  BY DEF Chooses, Limits
<1>7. Limits(d) \in [words : Nat, models : Nat]
  BY <1>6, PlanFacts
<1>8. Limits(d) # None
  BY <1>7, SunSpecDiscoveryAssumption
<1> QED
  BY <1>1, <1>3, <1>5, <1>8

LEMMA FinishesEnds ==
    ASSUME NEW c \in ChainType, NEW d \in ChainType, ValidPlan(c.plan), Sound(c),
           Waits(c), d.plan = c.plan, Finishes(c, d)
    PROVE  /\ Verdict(c) = "walking" /\ Base(c) # None /\ Verdict(d) = "complete"
           /\ Base(d) = Base(c) /\ Limits(d) = Limits(c) /\ Models(d) = Models(c)
<1>1. Base(c) = c.selected /\ c.selected \in Range(c.plan.bases)
  BY DEF Sound, Walks, Finishes, Base
<1>2. Base(c) # None
  BY <1>1, PlanFacts
<1> QED
  BY <1>2 DEF Waits, Finishes, Verdict, Models, Base, Limits

LEMMA ExtendsFinds ==
    ASSUME NEW c \in ChainType, NEW d \in ChainType, ValidPlan(c.plan), Sound(c),
           Waits(c), d.plan = c.plan, Extends(c, d),
           NEW b, b = Base(c), NEW l, l = Limits(c), NEW m, m = Models(c)
    PROVE  /\ Verdict(c) = "walking" /\ b # None /\ Verdict(d) = "walking"
           /\ Base(d) = b /\ Limits(d) = l
           /\ Len(Models(d)) = Len(m) + 1
           /\ \E x : /\ Models(d)[Len(Models(d))] = x /\ Models(d) = Append(m, x)
                     /\ x.header = Cursor(c) /\ x.length > 0
                     /\ Cursor(c) + 2 + x.length + 1 <= AddressSpace - 1
                     /\ Cursor(c) - b + 2 + x.length + 2 <= l.words
                     /\ Len(m) < l.models
<1>1. b = c.selected /\ c.selected \in Range(c.plan.bases) /\ b # None /\ b \in Nat
  <2>1. b = c.selected /\ c.selected \in Range(c.plan.bases)
    BY DEF Sound, Walks, Extends, Base
  <2> QED
    BY <2>1, PlanFacts
<1>2. l.words = c.plan.maxWords /\ l.models = c.plan.maxOccurrences
  BY DEF Extends, Limits
<1>3. PICK o \in OccurrenceType :
        /\ d.occ = Append(c.occ, o)
        /\ o.header = Cursor(c) /\ o.length # 0
        /\ o.header + 2 + o.length + 2 <= AddressSpace
        /\ o.header - c.selected + o.length + 4 <= c.plan.maxWords
        /\ Len(c.occ) + 1 <= c.plan.maxOccurrences
  BY DEF Extends
<1>4. PICK h, n, k : h = o.header /\ n = o.length /\ k = Len(c.occ)
  OBVIOUS
<1>5. h \in Nat /\ n \in Nat /\ k \in Nat
  <2>1. PICK u \in Seq(OccurrenceType) : u = c.occ
    BY DEF ChainType
  <2> QED
    BY <1>4, <2>1 DEF OccurrenceType
<1>6. PICK x : x = ModelOf(o)
  OBVIOUS
<1>7. x.header = h /\ x.length = n
  BY <1>4, <1>6 DEF ModelOf
<1>8. /\ Models(d)[Len(Models(d))] = x /\ Models(d) = Append(m, x)
      /\ Len(Models(d)) = Len(m) + 1 /\ Len(m) = k
  BY <1>3, <1>4, <1>6, ModelsGrow, ModelsFacts
<1>9. /\ h = Cursor(c) /\ n > 0 /\ h + 2 + n + 1 <= AddressSpace - 1
      /\ h - b + 2 + n + 2 <= l.words /\ k < l.models
  <2>1. PICK w, p : w = c.plan.maxWords /\ p = c.plan.maxOccurrences
    OBVIOUS
  <2>2. w \in Nat /\ p \in Nat /\ AddressSpace \in Nat
    BY <2>1, PlanFacts
  <2>3. n # 0 /\ h + 2 + n + 2 <= AddressSpace /\ h - b + n + 4 <= w /\ k + 1 <= p
    BY <1>1, <1>3, <1>4, <2>1
  <2>4. n > 0 /\ h + 2 + n + 1 <= AddressSpace - 1 /\ h - b + 2 + n + 2 <= w /\ k < p
    BY <1>1, <1>5, <2>2, <2>3
  <2> QED
    BY <1>2, <1>3, <1>4, <2>1, <2>4
<1>10. /\ Verdict(c) = "walking" /\ Verdict(d) = "walking"
       /\ Base(d) = b /\ Limits(d) = l
  BY DEF Waits, Extends, Verdict, Base, Limits
<1> QED
  BY <1>1, <1>7, <1>8, <1>9, <1>10

LEMMA InitWalks == Init => Walk!Init
BY DEF Init, Walk!Init, Walking

(* The step of SunSpecWalk that a step of a chain is, if any.              *)
LEMMA MovesWalk ==
    ASSUME chain # None, chain' # None, Sound(chain), Sound(chain'),
           Waits(chain), Moves(chain, chain')
    PROVE  Walk!Next \/ UNCHANGED Walk!vars
<1>1. PICK c, d : c = chain /\ d = chain'
  OBVIOUS
<1>2. /\ c \in ChainType /\ d \in ChainType /\ ValidPlan(c.plan) /\ Sound(c)
      /\ Waits(c) /\ Moves(c, d) /\ d.plan = c.plan
  BY <1>1 DEF Sound, Moves
<1>3. PICK b, l, m, w : b = Base(c) /\ l = Limits(c) /\ m = Models(c) /\ w = Verdict(c)
  OBVIOUS
<1>4. PICK b2, l2, m2, w2 : b2 = Base(d) /\ l2 = Limits(d) /\ m2 = Models(d) /\ w2 = Verdict(d)
  OBVIOUS
<1>5. /\ (IF Walking THEN chain.selected ELSE None) = b
      /\ (IF Walking
          THEN [words |-> chain.plan.maxWords, models |-> chain.plan.maxOccurrences]
          ELSE None) = l
      /\ (IF chain = None THEN <<>>
          ELSE [i \in DOMAIN chain.occ |->
                  [id |-> chain.occ[i].id, header |-> chain.occ[i].header,
                   length |-> chain.occ[i].length]]) = m
      /\ (IF chain = None THEN "walking"
          ELSE IF chain.failed THEN "failed"
          ELSE IF chain.complete THEN "complete" ELSE "walking") = w
  BY <1>1, <1>3 DEF Walking, Base, Limits, Models, ModelOf, Verdict
<1>6. /\ (IF Walking THEN chain.selected ELSE None)' = b2
      /\ (IF Walking
          THEN [words |-> chain.plan.maxWords, models |-> chain.plan.maxOccurrences]
          ELSE None)' = l2
      /\ (IF chain = None THEN <<>>
          ELSE [i \in DOMAIN chain.occ |->
                  [id |-> chain.occ[i].id, header |-> chain.occ[i].header,
                   length |-> chain.occ[i].length]])' = m2
      /\ (IF chain = None THEN "walking"
          ELSE IF chain.failed THEN "failed"
          ELSE IF chain.complete THEN "complete" ELSE "walking")' = w2
  BY <1>1, <1>4 DEF Walking, Base, Limits, Models, ModelOf, Verdict
<1>7. CASE Stops(c, d)
  <2>1. w = "walking" /\ w2 = "failed" /\ m2 = m
    BY <1>2, <1>3, <1>4, <1>7, StopsFails
  <2>2. Walk!Fail
    BY <1>5, <1>6, <2>1 DEF Walk!Fail
  <2> QED
    BY <2>2 DEF Walk!Next
<1>8. CASE Stays(c, d)
  <2>1. b2 = b /\ l2 = l /\ m2 = m /\ w2 = w
    BY <1>2, <1>3, <1>4, <1>8, StaysStutters
  <2> QED
    BY <1>5, <1>6, <2>1 DEF Walk!vars
<1>9. CASE Chooses(c, d)
  <2>1. /\ w = "walking" /\ b = None /\ l2 # None
        /\ b2 \in UNION {Range(s.bases) : s \in PlanSpecs}
        /\ b2 + 3 <= AddressSpace - 1 /\ m2 = m /\ w2 = w
    BY <1>2, <1>3, <1>4, <1>9, ChoosesBase
  <2>2. Walk!Choose
    BY <1>5, <1>6, <2>1 DEF Walk!Choose
  <2> QED
    BY <2>2 DEF Walk!Next
<1>10. CASE Extends(c, d)
  <2>1. /\ w = "walking" /\ b # None /\ w2 = "walking" /\ b2 = b /\ l2 = l
        /\ Len(m2) = Len(m) + 1
    BY <1>2, <1>3, <1>4, <1>10, ExtendsFinds
  <2>2. PICK x : /\ m2[Len(m2)] = x /\ m2 = Append(m, x)
                 /\ x.header = Cursor(c) /\ x.length > 0
                 /\ Cursor(c) + 2 + x.length + 1 <= AddressSpace - 1
                 /\ Cursor(c) - b + 2 + x.length + 2 <= l.words
                 /\ Len(m) < l.models
    BY <1>2, <1>3, <1>4, <1>10, ExtendsFinds
  <2>3. Cursor(c) = IF m = <<>> THEN b + 2 ELSE m[Len(m)].header + 2 + m[Len(m)].length
    BY <1>2, <1>3, <1>10, CursorIsAt DEF Extends
  <2>4. Walk!At = Cursor(c)
    BY <1>5, <2>3 DEF Walk!At
  <2>5. m2 = Append(m, m2[Len(m2)]) /\ m2[Len(m2)].header = Walk!At
    BY <2>2, <2>4
  <2>6. Walk!Extend
    BY <1>5, <1>6, <2>1, <2>2, <2>4, <2>5 DEF Walk!Extend, Walk!Found
  <2> QED
    BY <2>6 DEF Walk!Next
<1>11. CASE Finishes(c, d)
  <2>1. /\ w = "walking" /\ b # None /\ w2 = "complete"
        /\ b2 = b /\ l2 = l /\ m2 = m
    BY <1>2, <1>3, <1>4, <1>11, FinishesEnds
  <2>2. Walk!End
    BY <1>5, <1>6, <2>1 DEF Walk!End
  <2> QED
    BY <2>2 DEF Walk!Next
<1> QED
  BY <1>2, <1>7, <1>8, <1>9, <1>10, <1>11 DEF Moves

LEMMA NextWalks == DiscoveryInv /\ [Next]_chain => [Walk!Next]_(Walk!vars)
<1> SUFFICES ASSUME DiscoveryInv, [Next]_chain PROVE Walk!Next \/ UNCHANGED Walk!vars
  OBVIOUS
<1>1. ASSUME NEW s \in PlanSpecs, NewPlan(s) PROVE UNCHANGED Walk!vars
  <2>1. /\ chain = None /\ chain' # None /\ Waits(chain')
        /\ chain'.raw = <<>> /\ chain'.occ = <<>>
    BY <1>1, NewPlanSound
  <2>2. [i \in DOMAIN chain'.occ |->
           [id |-> chain'.occ[i].id, header |-> chain'.occ[i].header,
            length |-> chain'.occ[i].length]] = <<>>
    BY <2>1
  <2> QED
    BY <2>1, <2>2 DEF Walk!vars, Walking, Waits
<1>2. CASE UNCHANGED chain
  BY <1>2 DEF Walk!vars, Walking
<1>3. CASE chain # None /\ \E r \in Requests(chain) : \E v \in Views(chain, r) : Admit(r, v)
  <2>1. /\ chain' # None /\ Sound(chain) /\ Sound(chain')
        /\ chain' = chain \/ (Waits(chain) /\ Moves(chain, chain'))
    BY <1>3, AdmitSound
  <2> QED
    BY <1>2, <1>3, <2>1, MovesWalk
<1> QED
  BY <1>1, <1>2, <1>3 DEF Next

(* Discovery implements SunSpecWalk: one base is chosen, models are found  *)
(* one after the other without a gap and within the bounds of the plan and *)
(* the address space, and the walk ends once and for good.                 *)
THEOREM DiscoveryWalks == Spec => WalkSpec
<1> QED
  BY InitWalks, NextWalks, DiscoverySound, PTL DEF Spec, WalkSpec, Walk!Spec

=============================================================================
