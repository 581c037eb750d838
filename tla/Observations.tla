------------------------------ MODULE Observations ------------------------------
(***************************************************************************)
(* A coherent sample: the logical views of one poll, put together under    *)
(* the coherence policy of their profile, written in durable form and read *)
(* back, or replayed from a fixture.                                       *)
(*                                                                         *)
(* A time is a number of nanoseconds, 0 the zero time.Time; a second has   *)
(* Second of them.  Versions are numbers, 0 the zero Version.  Byte bounds *)
(* on strings and documents are left out.                                  *)
(***************************************************************************)
EXTENDS Integers, SequencesExt

CONSTANTS
    AddressSpace, MaxReadRegisters, MaxUnit,
    Second,             \* nanoseconds in a second
    MaxTime,            \* the last time RFC 3339 can name
    SampleProfiles,
    Received(_, _),     \* what may answer the i-th dependency of a profile
    Envelopes(_, _),    \* the envelopes put around those results
    None

VARIABLE sample

FunctionOf(table) == IF table = "holding" THEN 3 ELSE 4

-----------------------------------------------------------------------------
(* One logical view of one wire response *)

(* NewLogicalViewSnapshot *)
ValidView(v) ==
    /\ 0 \notin {v.id, v.wire, v.request, v.generation, v.poll, v.deadline}
    /\ None \notin {v.endpoint, v.scope, v.bytes}
    /\ v.unit \in 1 .. MaxUnit
    /\ v.count \in 1 .. MaxReadRegisters /\ v.words \in 1 .. MaxReadRegisters
    /\ \/ v.transport = "tcp" /\ v.connection # 0
       \/ /\ v.transport = "rtu" /\ v.connection = 0
          /\ v.offset = v.start /\ v.count = v.words /\ v.slice = 0
    /\ v.table \in {"holding", "input"} /\ v.requested = FunctionOf(v.table) /\ v.received = v.requested
    /\ v.offset + v.count <= AddressSpace /\ v.start + v.words <= AddressSpace
    /\ v.slice + v.words <= v.count
    /\ v.sliceWords = v.words /\ Len(v.raw) = v.words
    /\ v.offset + v.slice = v.start

Request(v) == <<v.endpoint, v.connection, v.transport, v.generation, v.request>>
Physical(v) ==
    <<Request(v), v.unit, v.requested, v.received, v.table, v.offset, v.count, v.scope, v.poll, v.deadline>>

(* The word a view has at a position of its physical response.             *)
At(v, p) == v.raw[p - v.slice + 1]
Positions(v) == v.slice .. v.slice + v.words - 1

(* validateWireResponseGroups *)
ValidGroups(views) ==
    /\ \A i, j \in DOMAIN views : LET v == views[i]  w == views[j] IN
          i < j =>
              /\ v.transport = "rtu" /\ w.transport = "rtu" => v.wire # w.wire
              /\ Request(v) = Request(w) \/ v.wire = w.wire => Physical(v) = Physical(w)
              /\ Physical(v) = Physical(w) =>
                    /\ v.wire = w.wire /\ v.bytes = w.bytes /\ v.id # w.id
                    /\ \A p \in Positions(v) \cap Positions(w) : At(v, p) = At(w, p)
    /\ \A v \in Range(views) :
          LET group == {w \in Range(views) : Physical(w) = Physical(v)} IN
          v.transport = "tcp" => \A w, x \in group : w.start < x.start + x.words

-----------------------------------------------------------------------------
(* Times *)

(* Faulty variant: the nanoseconds of the limit are forgotten.             *)
SkewOfSeconds(seconds, nanoseconds, limit) ==
    seconds - (IF nanoseconds < 0 THEN 1 ELSE 0) > limit \div Second

(* exceedsTimeSkew, on seconds and nanoseconds; the second borrows.        *)
SkewOf(seconds, nanoseconds, limit) ==
    LET borrow == IF nanoseconds < 0 THEN 1 ELSE 0
        s == seconds - borrow
        n == nanoseconds + borrow * Second
    IN s > limit \div Second \/ (s = limit \div Second /\ n > limit % Second)

ExceedsSkew(minimum, maximum, limit) ==
    \/ limit < 0 \/ maximum < minimum
    \/ SkewOf((maximum \div Second) - (minimum \div Second), (maximum % Second) - (minimum % Second), limit)

Unavailable == [state |-> "unavailable", time |-> 0]

(* validateSourceTime, canonicalObservedTime *)
ValidSource(s) ==
    \/ s.state = "observed" /\ s.time <= MaxTime
    \/ s = Unavailable

(* hasLocalReceiptTime: a receipt at the zero time is one when it is marked. *)
Has(receipt) == receipt.present \/ receipt.time # 0

ValidReceipt(receipt) == Has(receipt) /\ receipt.time <= MaxTime

Earliest(times) == CHOOSE t \in times : \A u \in times : t <= u
Latest(times) == CHOOSE t \in times : \A u \in times : u <= t

-----------------------------------------------------------------------------
(* Coherence: one wire response, or several within the declared skew.      *)

SingleWire(s) ==
    /\ s.results[1].view.transport = "rtu" => Len(s.results) = 1
    /\ s.retry = 0
    /\ \A r \in Range(s.results) :
          /\ r.retry = 0 /\ r.ordinal = 0 /\ r.source = Unavailable /\ ~Has(r.receipt)
          /\ r.view.wire = s.results[1].view.wire

(* Taken in the policy's order, the times of the responses do not go back. *)
InOrder(policy, results) ==
    CASE policy.order = "dependency_declaration" ->
            \A i \in 2 .. Len(results) : results[i - 1].ordinal <= results[i].ordinal
      [] policy.order = "source_time_ascending" ->
            \A q, r \in Range(results) :
                /\ r.source.state = "observed"
                /\ q.ordinal < r.ordinal => q.source.time <= r.source.time
      [] policy.order = "receipt_time_ascending" ->
            \A q, r \in Range(results) : q.ordinal < r.ordinal => q.receipt.time <= r.receipt.time
      [] OTHER -> FALSE

Bounded(policy, s) ==
    LET rs == Range(s.results)
        first == s.results[1].view
        receipts == {r.receipt.time : r \in rs}
        sources == {r.source.time : r \in rs}
        unavailable == \E r \in rs : r.source.state = "unavailable"
    IN /\ s.retry # 0
       /\ \A r \in rs :
             /\ ValidSource(r.source) /\ Has(r.receipt) /\ r.ordinal # 0 /\ r.retry = s.retry
             /\ r.view.endpoint = first.endpoint /\ r.view.connection = first.connection
             /\ r.view.unit = first.unit /\ r.view.transport = first.transport
             /\ policy.sameGeneration => r.view.generation = first.generation
             /\ policy.marker # None => r.marker = policy.marker
       /\ \A q, r \in rs :
             /\ q.view.wire = r.view.wire =>
                    <<q.ordinal, q.source, q.receipt.time, q.marker>> =
                    <<r.ordinal, r.source, r.receipt.time, r.marker>>
             /\ q.ordinal = r.ordinal => q.view.wire = r.view.wire
       /\ {r.ordinal : r \in rs} = 1 .. Cardinality({r.view.wire : r \in rs})
       /\ InOrder(policy, s.results)
       /\ ~ExceedsSkew(Earliest(receipts), Latest(receipts), policy.receiptSkew)
       /\ unavailable \/ ~ExceedsSkew(Earliest(sources), Latest(sources), policy.sourceSkew)
       /\ s.receipt.time = Latest(receipts)
       /\ s.source = IF unavailable THEN Unavailable
                     ELSE [state |-> "observed", time |-> Latest(sources)]

(* validateObservationCoherence *)
Coherent(policy, s) ==
    /\ s.results # <<>>
    /\ ValidGroups([i \in DOMAIN s.results |-> s.results[i].view])
    /\ CASE policy.mode = "single_wire_response" -> SingleWire(s)
         [] policy.mode = "bounded_multi_response" -> Bounded(policy, s)
         [] OTHER -> FALSE

(* buildObservation *)
Built(profile, s) ==
    /\ s.versions = profile.versions /\ s.set = profile.set
    /\ s.poll # 0 /\ s.endpoint # None /\ s.unit \in 1 .. MaxUnit
    /\ ValidReceipt(s.receipt) /\ ValidSource(s.source)
    /\ s.validity \in {"valid", "invalid", "not_implemented", "reserved"}
    /\ Len(s.results) = Len(profile.declarations)
    /\ \A i \in DOMAIN s.results :
          LET r == s.results[i]  v == r.view  d == profile.declarations[i] IN
          /\ r.identity = d.identity /\ r.normalization = d.normalization
          /\ r.status = "successful" /\ ValidView(v)
          /\ v.endpoint = s.endpoint /\ v.unit = s.unit /\ v.poll = s.poll
          /\ v.table = d.table /\ v.requested = FunctionOf(d.table)
          /\ v.start = d.offset /\ v.words = d.words
          /\ r.source.state = "observed" => r.source.time <= MaxTime
          /\ Has(r.receipt) => r.receipt.time <= MaxTime
    /\ Coherent(profile.policy, s)

-----------------------------------------------------------------------------
(* The durable form.  A receipt is written as its time, or not at all.     *)

(* Faulty variant: a time of 0 is taken for an absent one.                 *)
UnmarkedText(receipt) == IF receipt.time # 0 THEN receipt.time ELSE None
Text(receipt) == IF Has(receipt) THEN receipt.time ELSE None

(* parseOptionalTime *)
Parsed(text) ==
    IF text = None THEN [time |-> 0, present |-> FALSE] ELSE [time |-> text, present |-> TRUE]

(* observationSpecToDTO; None when it cannot be written.                   *)
ToRecord(s) ==
    IF /\ ValidSource(s.source) /\ ValidReceipt(s.receipt)
       /\ \A r \in Range(s.results) :
             ValidView(r.view) /\ ValidSource(r.source) /\ (Has(r.receipt) => r.receipt.time <= MaxTime)
    THEN [s EXCEPT !.receipt = Text(@),
                   !.results = [i \in DOMAIN @ |-> [@[i] EXCEPT !.receipt = Text(@)]]]
    ELSE None

(* observationSpecFromDTO *)
FromRecord(record) ==
    IF /\ record # None /\ record.versions # 0 /\ record.set # None /\ record.receipt # None
       /\ \A r \in Range(record.results) : r.retry = record.retry /\ ValidView(r.view)
    THEN [record EXCEPT !.receipt = Parsed(@),
                        !.results = [i \in DOMAIN @ |-> [@[i] EXCEPT !.receipt = Parsed(@)]]]
    ELSE None

(* decodeDurableRuntimeNormalization, on the fields of a record.           *)
ValidNormalization(n) ==
    /\ None \notin {n.evidence, n.notation, n.base}
    /\ n.words \in 1 .. MaxReadRegisters /\ n.offset + n.words <= AddressSpace
    /\ n.table \in {"holding", "input"} /\ n.function = FunctionOf(n.table)

(* matchRuntimeNormalization *)
Matches(d, n) ==
    /\ n.evidence = d.evidence /\ n.notation = d.notation /\ n.base = d.base /\ n.address = d.address
    /\ n.table = d.table /\ n.function = FunctionOf(d.table) /\ n.offset = d.offset /\ n.words = d.words

(* MarshalObservation *)
ToDurable(s, producers) ==
    IF /\ s.sample # None /\ ToRecord(s) # None
       /\ Len(producers) = Len(s.results) /\ \A n \in Range(producers) : ValidNormalization(n)
    THEN [observation |-> ToRecord(s), normalizations |-> producers] ELSE None

(* UnmarshalObservation *)
FromDurable(profile, durable) ==
    LET s == FromRecord(durable.observation) IN
    IF /\ durable.observation.sample # None /\ s # None /\ Built(profile, s)
       /\ Len(durable.normalizations) = Len(profile.declarations)
       /\ \A i \in DOMAIN durable.normalizations :
             /\ ValidNormalization(durable.normalizations[i])
             /\ Matches(profile.declarations[i], durable.normalizations[i])
       /\ ToDurable(s, durable.normalizations) # None
    THEN s ELSE None

-----------------------------------------------------------------------------
(* Fixtures *)

(* MarshalFixtureSpec and FixtureReplayer.Replay *)
Replayed(profile, s) ==
    LET read == FromRecord(ToRecord(s)) IN
    IF s.sample = None /\ read # None /\ Built(profile, read) THEN read ELSE None

(* What is wrong with the i-th dependency, the first that is found.        *)
Defect(profile, s, i) ==
    LET r == s.results[i]  v == r.view  first == s.results[1].view
        d == profile.declarations[i]  policy == profile.policy
        bounded == policy.mode = "bounded_multi_response"
    IN CASE r.status = "torn" -> "torn_read"
         [] r.normalization # d.normalization -> "normalization_mismatch"
         [] v.unit # s.unit -> "unit_mismatch"
         [] /\ bounded
            /\ \/ <<v.endpoint, v.connection, v.transport>> # <<first.endpoint, first.connection, first.transport>>
               \/ policy.sameGeneration /\ v.generation # first.generation -> "source_mismatch"
         [] v.poll # s.poll -> "generation_mismatch"
         [] v.deadline # first.deadline -> "deadline_mismatch"
         [] \/ v.table # d.table \/ v.requested # FunctionOf(v.table)
            \/ v.requested # v.received -> "table_access_mismatch"
         [] policy.mode = "single_wire_response" /\ r.source # Unavailable -> "source_mismatch"
         [] bounded /\ policy.marker # None /\ r.marker # policy.marker -> "coherence_mismatch"
         [] OTHER -> None

(* classifyFixtureObservation *)
Classify(profile, s) ==
    IF Replayed(profile, s) # None THEN "accepted"
    ELSE IF Len(s.results) # Len(profile.declarations) THEN "observation_rejected"
    ELSE LET defects == SelectSeq([i \in DOMAIN s.results |-> Defect(profile, s, i)], LAMBDA x : x # None)
         IN IF defects = <<>> THEN "observation_rejected" ELSE Head(defects)

-----------------------------------------------------------------------------
Init == \E p \in SampleProfiles : sample = [profile |-> p, results |-> <<>>, spec |-> None]

(* The next dependency of the set is answered. *)
Receive(r) ==
    /\ sample.spec = None
    /\ sample' = [sample EXCEPT !.results = Append(@, r)]

(* The sample is put in its envelope, complete or not. *)
Enclose(envelope) ==
    /\ sample.spec = None
    /\ sample' = [sample EXCEPT !.spec = envelope]

Next ==
    LET i == Len(sample.results) + 1 IN
    \/ /\ i <= Len(sample.profile.declarations)
       /\ \E r \in Received(sample.profile, i) : Receive(r)
    \/ \E e \in Envelopes(sample.profile, sample.results) : Enclose(e)

-----------------------------------------------------------------------------
Admitted == sample # None /\ sample.spec # None /\ Built(sample.profile, sample.spec)

Results == Range(sample.spec.results)

(* An admitted sample tells one story.  There is one contents of each wire *)
(* response of which every view is its slice, for one request at one       *)
(* place; the responses were taken in one order, each at one source time   *)
(* and one receipt, all within the declared skew to the nanosecond, and    *)
(* the envelope stands at the last of them.  A single response has none.   *)
SampleHasOneStory ==
    Admitted =>
        LET policy == sample.profile.policy
            wires == {r.view.wire : r \in Results}
            Of(w) == {r \in Results : r.view.wire = w}
            words == UNION {Range(r.view.raw) : r \in Results}
        IN /\ \A w \in wires : \E story \in [0 .. MaxReadRegisters - 1 -> words], place \in 0 .. AddressSpace - 1 :
                 \A r \in Of(w) :
                    /\ r.view.raw = [k \in 1 .. r.view.words |-> story[r.view.slice + k - 1]]
                    /\ r.view.start = place + r.view.slice
                    /\ r.view.poll = sample.spec.poll
           /\ \A v, w \in wires : v # w =>
                 {Request(r.view) : r \in Of(v)} \cap {Request(r.view) : r \in Of(w)} = {}
           /\ policy.mode = "single_wire_response" => Cardinality(wires) = 1
           /\ policy.mode = "bounded_multi_response" =>
                 \E taken \in [1 .. Cardinality(wires) -> wires] :
                    /\ Range(taken) = wires
                    /\ \A k \in DOMAIN taken : \E receipt \in 0 .. MaxTime, source \in 0 .. MaxTime :
                          \A r \in Of(taken[k]) : r.ordinal = k /\ r.receipt.time = receipt /\ r.source.time = source
                    /\ \A q, r \in Results :
                          /\ q.receipt.time - r.receipt.time <= policy.receiptSkew
                          /\ q.receipt.time <= sample.spec.receipt.time
                          /\ (\A x \in Results : x.source.state = "observed") =>
                                /\ q.source.time - r.source.time <= policy.sourceSkew
                                /\ q.source.time <= sample.spec.source.time

SameSample(s, t) ==
    /\ [s EXCEPT !.receipt = 0, !.results = <<>>] = [t EXCEPT !.receipt = 0, !.results = <<>>]
    /\ s.receipt.time = t.receipt.time
    /\ \A i \in DOMAIN s.results :
          /\ [s.results[i] EXCEPT !.receipt = 0] = [t.results[i] EXCEPT !.receipt = 0]
          /\ s.results[i].receipt.time = t.results[i].receipt.time
          /\ Has(s.results[i].receipt) <=> Has(t.results[i].receipt)

(* What is admitted can be kept: written and read back it is the same      *)
(* sample and admitted again, as a fixture or, under its sample identity   *)
(* and the producer's normalizations, as an observation.  A receipt at the *)
(* zero time is not lost.                                                  *)
ReplayReadsBack ==
    Admitted =>
        LET ds == sample.profile.declarations
            named == [sample.spec EXCEPT !.sample = "s1"]
            fixture == [sample.spec EXCEPT !.sample = None]
            durable == ToDurable(named, [i \in DOMAIN ds |-> ds[i] @@ [function |-> FunctionOf(ds[i].table)]])
        IN /\ Replayed(sample.profile, fixture) # None
           /\ SameSample(Replayed(sample.profile, fixture), fixture)
           /\ durable # None /\ FromDurable(sample.profile, durable) # None
           /\ SameSample(FromDurable(sample.profile, durable), named)

(* What may be said against a dependency of no admitted sample: that it is *)
(* torn, or its normalization, unit, source, poll, table or marker is not  *)
(* the sample's.  The deadline is not among these: the responses of a      *)
(* bounded sample have a deadline each.                                    *)
ReasonIsADefect ==
    sample # None /\ sample.spec # None =>
        LET s == [sample.spec EXCEPT !.sample = None]  reason == Classify(sample.profile, s)
        IN /\ reason = "accepted" <=> Built(sample.profile, s)
           /\ Admitted => \A i \in DOMAIN s.results :
                 Defect(sample.profile, s, i) \in {None, "deadline_mismatch"}
=============================================================================
