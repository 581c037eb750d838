------------------------------ MODULE LunaReducer ------------------------------
(***************************************************************************)
(* The documentary state of the optional LUNA group: a pure reducer that   *)
(* its caller folds over evaluations, each with its own binding, policy    *)
(* and time.  "past" keeps the evaluations, so that the properties can say *)
(* what the state must be from what was supplied.                          *)
(*                                                                         *)
(* A binding is its identity tokens and revision together, its two epochs, *)
(* whether every string of its parent and of the whole is there, and its   *)
(* charge in bytes; a record's reference is the number of the evaluation   *)
(* that supplied it.                                                       *)
(***************************************************************************)
EXTENDS Integers, SequencesExt

CONSTANTS
    Occasions(_),       \* the evaluations a caller may ask for at a clock
    MaxEvaluations

VARIABLES luna, past

NoBinding == [tokens |-> "none", epochs |-> "none", parent |-> FALSE, whole |-> FALSE, bytes |-> 0]
NoPolicy == [maxRecords |-> 0, maxBytes |-> 0, deadline |-> 0, freshness |-> 0, retention |-> 0,
             historyRecords |-> 0, historyBytes |-> 0]

ReducerInit ==
    /\ luna = [status |-> "unknown", binding |-> NoBinding, bound |-> FALSE, parentIdentified |-> FALSE,
               history |-> <<>>, policy |-> NoPolicy, evaluatedAt |-> 0]
    /\ past = <<>>

ValidPolicy(p) == \A field \in DOMAIN p : p[field] > 0

Established(status) == status \in {"present-unqualified", "temporarily unreadable"}
Failed(s) == [s EXCEPT !.status = IF Established(@) THEN "temporarily unreadable" ELSE "unknown"]

BytesOf(records) == FoldSeq(LAMBDA h, total : total + h.bytes, 0, records)

(* Faulty variant: a fenced record applies again to its old tokens.        *)
ApplicableByTokens(h, s) == s.bound /\ h.binding = s.binding

Applicable(h, s) == h.applicable /\ s.bound /\ h.binding = s.binding

(* retain: the newest records win, and stay in the order they came.        *)
Retain(s) ==
    LET Keep(h, kept) ==
            LET age == s.evaluatedAt - h.at IN
            IF /\ age \in 0 .. s.policy.retention
               /\ Len(kept) < s.policy.historyRecords
               /\ h.bytes <= s.policy.historyBytes - BytesOf(kept)
            THEN <<[h EXCEPT !.applicable = Applicable(h, s), !.fresh = age <= s.policy.freshness]>> \o kept
            ELSE kept
    IN [s EXCEPT !.history = IF ValidPolicy(s.policy) THEN FoldRight(Keep, @, <<>>) ELSE <<>>]

Fenced(s) == [s EXCEPT !.history = [k \in DOMAIN @ |-> [@[k] EXCEPT !.applicable = FALSE]]]

-----------------------------------------------------------------------------
(* ReduceLunaOptionalState: what every evaluation does, and what each of   *)
(* its returns adds                                                        *)

Retired(in) == in.epochs # in.binding.epochs
Associated(in) == in.parentIdentified /\ in.epochsAssociated /\ in.binding.whole

LaterOf(a, b) == IF a < b THEN b ELSE a
Aged(in) == Retain([luna EXCEPT !.evaluatedAt = LaterOf(in.now, @)])

(* A retired result alters neither the binding nor the policy.             *)
Reject(in) == Retired(in) /\ luna' = Aged(in)

Judged(in) == [Aged(in) EXCEPT !.parentIdentified = in.parentIdentified /\ in.binding.parent]

Unbind(in) ==
    /\ ~Retired(in) /\ ~Associated(in)
    /\ luna' = Fenced([Judged(in) EXCEPT !.status = "unknown", !.bound = FALSE])

Limit(in) == IF ValidPolicy(in.policy) THEN in.policy.maxBytes ELSE luna.policy.maxBytes
Fits(in) == in.binding.bytes <= Limit(in)
Changes(in) == luna.bound /\ luna.binding # in.binding

Rebind(in) ==
    /\ ~Retired(in) /\ Associated(in) /\ Changes(in)
    /\ luna' = Fenced([Judged(in) EXCEPT !.status = "identity changed", !.bound = Fits(in),
                                         !.binding = IF Fits(in) THEN in.binding ELSE NoBinding])

Exceed(in) ==
    /\ ~Retired(in) /\ Associated(in) /\ ~Changes(in) /\ ~Fits(in)
    /\ luna' = Failed(Judged(in))

Charge(in, e) == in.binding.bytes + e.bytes

(* An evaluation that may add to the history; clock is the latest time     *)
(* before it.                                                              *)
Admissible(in, clock) ==
    /\ ValidPolicy(in.policy)
    /\ in.now >= 0 /\ in.now >= clock
    /\ in.started \in 0 .. in.now
    /\ in.now < in.policy.deadline
    /\ Len(in.evidence) <= in.policy.maxRecords
    /\ \A e \in Range(in.evidence) : e.text /\ e.at \in 0 .. in.now
    /\ FoldSeq(LAMBDA e, total : total + Charge(in, e), 0, in.evidence) <= in.policy.maxBytes

Reports(in) == in.event \in {"documentary presence", "inventory only", "no observation"}
FailureEvents == {"optional failure", "malformed evidence"}

Presents(in) == in.event = "documentary presence" /\ in.evidence # <<>>

Supplied(in) ==
    [k \in DOMAIN in.evidence |->
        [reference |-> Len(past) + 1, binding |-> in.binding, event |-> in.event, at |-> in.evidence[k].at,
         bytes |-> Charge(in, in.evidence[k]), applicable |-> TRUE, fresh |-> FALSE]]

Evaluate(in) ==
    LET bound == [Judged(in) EXCEPT !.binding = in.binding, !.bound = TRUE]
        admissible == Admissible(in, luna.evaluatedAt)
        said == IF ~admissible \/ in.event \in FailureEvents THEN Failed(bound)
                ELSE [bound EXCEPT !.status = IF Presents(in) THEN "present-unqualified" ELSE "unknown"]
        recorded == admissible /\ (Reports(in) \/ in.event \in FailureEvents)
    IN /\ ~Retired(in) /\ Associated(in) /\ ~Changes(in) /\ Fits(in)
       /\ luna' = IF recorded
                  THEN LET ruled == Retain([said EXCEPT !.policy = in.policy])
                       IN Retain([ruled EXCEPT !.history = @ \o Supplied(in)])
                  ELSE Retain(said)

ReducerNext ==
    /\ Len(past) < MaxEvaluations
    /\ \E in \in Occasions(luna.evaluatedAt) :
          /\ past' = Append(past, in)
          /\ Reject(in) \/ Unbind(in) \/ Rebind(in) \/ Exceed(in) \/ Evaluate(in)

-----------------------------------------------------------------------------
(* What the state must be from what was supplied                           *)

ClockBefore(n) == FoldSeq(LAMBDA in, clock : LaterOf(in.now, clock), 0, SubSeq(past, 1, n - 1))

(* Nothing since the n-th evaluation broke its partition.                  *)
Unbroken(n) ==
    \A k \in n + 1 .. Len(past) :
        Retired(past[k]) \/ (Associated(past[k]) /\ past[k].binding = past[n].binding)

(* A record belongs to the evaluation that supplied it, unchanged, and     *)
(* applies exactly while no evaluation since left its partition: a record  *)
(* once fenced stays fenced when its old tokens come back, and a retired   *)
(* result fences nothing.                                                  *)
HistoryIsFenced ==
    \A h \in Range(luna.history) :
        LET in == past[h.reference] IN
        /\ ~Retired(in) /\ Associated(in) /\ Admissible(in, ClockBefore(h.reference))
        /\ h.binding = in.binding /\ h.event = in.event
        /\ \E e \in Range(in.evidence) : h.at = e.at /\ h.bytes = Charge(in, e)
        /\ h.applicable <=> Unbroken(h.reference)

(* The policy of the last evaluation that recorded bounds the history and  *)
(* says what is fresh, at the latest time of any evaluation: neither an    *)
(* invalid policy nor a clock that runs backwards makes a record younger.  *)
HistoryIsAged ==
    LET clock == ClockBefore(Len(past) + 1) IN
    /\ luna.history # <<>> => ValidPolicy(luna.policy)
    /\ Len(luna.history) <= luna.policy.historyRecords
    /\ BytesOf(luna.history) <= luna.policy.historyBytes
    /\ \A h \in Range(luna.history) :
          /\ clock - h.at \in 0 .. luna.policy.retention
          /\ h.fresh <=> clock - h.at <= luna.policy.freshness
    /\ \A i, j \in DOMAIN luna.history : i < j => luna.history[i].reference <= luna.history[j].reference

FailsAt(n) ==
    LET in == past[n] IN
    \/ in.event \in FailureEvents \/ ~Admissible(in, ClockBefore(n))
    \/ in.binding.bytes > in.policy.maxBytes

PresentedAt(n) ==
    ~Retired(past[n]) /\ Associated(past[n]) /\ Presents(past[n]) /\ Admissible(past[n], ClockBefore(n))

(* A presence is reported only of an evaluation that presented it, while   *)
(* none came since but retired ones; as temporarily unreadable only while  *)
(* every one since failed in the same partition.                           *)
PresenceIsHeld ==
    Established(luna.status) =>
        \E n \in DOMAIN past :
            LET since == {k \in n + 1 .. Len(past) : ~Retired(past[k])} IN
            /\ PresentedAt(n) /\ Unbroken(n)
            /\ \A k \in since : FailsAt(k)
            /\ luna.status = "present-unqualified" <=> since = {}

LunaIsFenced == HistoryIsFenced /\ HistoryIsAged /\ PresenceIsHeld

=============================================================================
