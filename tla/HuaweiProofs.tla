---------------------------- MODULE HuaweiProofs ----------------------------
(***************************************************************************)
(* Theorems about the Huawei read-only providers, for every set of routed  *)
(* units, every plan of groups, any number of attempts, pages, generations *)
(* and refreshes: one connection at a time, no identity from another       *)
(* connection, no group read again that was refused, no reading reported   *)
(* that the gateway or the child does not own, none called current that is *)
(* not, and no back-off shorter or longer than the documented one.         *)
(***************************************************************************)
EXTENDS MCHuaweiProvider, WellFoundedInduction, TLAPS

USE CoreAssumption

-----------------------------------------------------------------------------
(* Shapes.  No invariant looks at the pace of the cycles, so out.wait has  *)
(* none.                                                                   *)

Results == {"answered", "exception", "refused", "failed"}
Reasons == {"read", "exception", "failed"}
Verdicts == {"none", "match", "mismatch"}
Classes == {"absent", "sun2000", "other"}

Readings == {NoReading} \cup [Groups -> Nat]

ChildFields == {"known", "identity", "generation", "definitive", "ineligible", "reading",
                "refused", "failures", "skipUntil", "since", "admittedAt", "failedAt"}

IsChild(c) ==
    /\ DOMAIN c = ChildFields
    /\ c.known \in BOOLEAN /\ c.identity \in BOOLEAN /\ c.generation \in Nat
    /\ c.definitive \in BOOLEAN /\ c.ineligible \in BOOLEAN
    /\ c.reading \in Readings /\ c.refused \subseteq Groups
    /\ c.failures \in Nat /\ c.skipUntil \in Nat /\ c.failedAt \in Nat
    /\ c.since \in Nat /\ c.admittedAt \in Nat

StateFields == {"identified", "identityGeneration", "reidentify", "gatewayFenced", "gateway",
                "unstable", "endpointFailures", "listing", "children", "carried", "verdict",
                "identifiedAt"}

IsState(s) ==
    /\ DOMAIN s = StateFields
    /\ s.identified \in BOOLEAN /\ s.identityGeneration \in Nat
    /\ s.reidentify \in BOOLEAN /\ s.gatewayFenced \in BOOLEAN
    /\ s.unstable \in Nat /\ s.endpointFailures \in Nat
    /\ s.listing \in [Units -> Classes]
    /\ s.carried \in [Units -> SUBSET Groups]
    /\ s.verdict \in Verdicts /\ s.identifiedAt \in Nat
    /\ DOMAIN s.children = Units
    /\ \A u \in Units : IsChild(s.children[u])

IsObservation(o) == DOMAIN o = {"evidence", "reason", "reading"} /\ o.reading \in Readings

OutputFields == {"outcome", "wait", "children"}

IsOutput(o) ==
    /\ DOMAIN o = OutputFields
    /\ DOMAIN o.children = Units
    /\ \A u \in Units : IsObservation(o.children[u])

RunFields == {"step", "mode", "failed", "allowance", "session", "generation", "cycle", "sent",
              "state", "unit", "group", "count", "fits", "answered", "reason", "out", "err"}

IsRun(r) ==
    /\ DOMAIN r = RunFields
    /\ r.failed \in Nat /\ r.allowance \in BOOLEAN
    /\ r.session \in Nat /\ r.generation \in Nat \ {0} /\ r.cycle \in Nat \ {0}
    /\ r.sent \in BOOLEAN /\ r.unit \in Nat /\ r.group \in Nat /\ r.count \in Nat
    /\ r.fits \in BOOLEAN /\ r.answered \subseteq Groups /\ r.reason \in Reasons
    /\ IsState(r.state) /\ IsOutput(r.out)

CoreFields == {"path", "session", "generation", "started", "closed", "busy", "closing",
               "sent", "cycle", "early", "last"}

IsCore(c) ==
    /\ DOMAIN c = CoreFields
    /\ c.path \in Paths /\ c.session \in Nat /\ c.generation \in Nat
    /\ c.started \in BOOLEAN /\ c.closed \in BOOLEAN /\ c.busy \in BOOLEAN
    /\ c.closing \in BOOLEAN /\ c.sent \in BOOLEAN /\ c.cycle \in Nat
    /\ c.early \in BOOLEAN /\ c.last \in Nat

Callers == [op : {"none", "stop", "reconnect"}, session : Nat]

Fates == {"unbound", "bound", "closing", "closed"}

-----------------------------------------------------------------------------
(* The state a cycle works on.                                             *)

(* What a child skips is its documented wait after its latest failed read, *)
(* to the cycle, unless the gateway was identified since.                  *)
BackoffSound(c, cycle, identifiedAt) ==
    /\ c.failedAt =< cycle
    /\ c.skipUntil =< c.failedAt + DocumentedWait(c.failures) + 1
    /\ \/ c.skipUntil > c.failedAt + DocumentedWait(c.failures)
       \/ DocumentedWait(c.failures) = 0
       \/ identifiedAt > c.failedAt
    /\ ~c.known => c.failures = 0 /\ c.failedAt = 0

(* A child keeps a reading only under the identity it was read with, and   *)
(* one admitted on a connection was admitted since the gateway was last    *)
(* identified.                                                             *)
ChildSound(c, cycle, identifiedAt) ==
    /\ c.reading # NoReading => c.identity
    /\ \A g \in DOMAIN c.reading : c.reading[g] # 0 => c.reading[g] >= c.since
    /\ c.since =< cycle
    /\ ~c.known => c.generation = 0
    /\ c.generation # 0 => c.admittedAt >= identifiedAt
    /\ BackoffSound(c, cycle, identifiedAt)

(* The verdict on the gateway's tuple is the fence, no child was admitted  *)
(* before the first one, and the S-Dongle card knows one child.            *)
StateSound(s, cycle, path) ==
    /\ \A u \in Units : ChildSound(s.children[u], cycle, s.identifiedAt)
    /\ s.identifiedAt =< cycle
    /\ s.gatewayFenced <=> s.verdict = "mismatch"
    /\ s.verdict = "none" => \A u \in Units : ~s.children[u].identity
    /\ path = "sdongle" => \A u \in Units : s.children[u].known => u = ChildUnit

(* What an identified gateway is, on the connection of generation g.       *)
IdentifiedOn(s, g) ==
    s.identified => s.identityGeneration = g /\ s.verdict = "match" /\ ~s.gatewayFenced

(* The refusals a unit's child, or the place kept for it, remembers.       *)
Remembered(s, u) == IF s.children[u].known THEN s.children[u].refused ELSE s.carried[u]

-----------------------------------------------------------------------------
(* The cycle in progress.                                                  *)

OpenSteps == {"guard", "before", "inventory", "after", "basic", "search", "tuple"}
AdmissionSteps == {"model", "identifier", "software", "firmware"}
Steps == OpenSteps \cup ChildSteps \cup {"route", "done"}

(* What the cycle has put into its output about a child is what it holds.  *)
Reported(r, u) ==
    LET c == r.state.children[u]
        o == r.out.children[u]
    IN  /\ o.reading # NoReading =>
             o.reading = c.reading /\ c.identity /\ r.state.verdict = "match"
        /\ o.evidence = "current" =>
             /\ r.state.identified /\ c.generation = r.generation
             /\ \A g \in Groups \ c.refused : o.reading[g] = r.cycle
        /\ o.reason = "backoff" => r.cycle =< c.failedAt + DocumentedWait(c.failures)

OutputSound(r) == \A u \in Units : Reported(r, u)

(* Children the cycle has not come to, and so none it failed to read.      *)
UnseenFrom(r, S) ==
    \A u \in S :
        r.out.children[u] = Unseen /\ r.state.children[u].failedAt < r.cycle

Sound(r, path) ==
    /\ IsRun(r)
    /\ StateSound(r.state, r.cycle, path)
    /\ IdentifiedOn(r.state, r.generation)
    /\ OutputSound(r)

(* The child at r.unit is the one the cycle has come to.                   *)
Visiting(r) ==
    /\ r.state.identified /\ r.err = "none"
    /\ r.unit \in Units /\ r.state.children[r.unit].known
    /\ UnseenFrom(r, {u \in Units : u >= r.unit})

(* It may be read in this cycle.                                           *)
Due(r) ==
    LET c == r.state.children[r.unit]
    IN  \/ r.cycle > c.failedAt + DocumentedWait(c.failures)
        \/ r.state.identifiedAt > c.failedAt

(* It is being served.                                                     *)
Serving(r) == Visiting(r) /\ Due(r)

(* ... and it is admitted on this connection.                              *)
Serves(r) ==
    /\ Serving(r)
    /\ r.state.children[r.unit].identity
    /\ r.state.children[r.unit].generation = r.generation

(* Up to group g the plan was answered or refused, unless something else   *)
(* than a refusal went wrong, or one came in this cycle.                   *)
ReadTo(r, g) ==
    r.reason = "read" =>
        \A h \in Groups : h =< g => h \in r.answered \cup r.state.children[r.unit].refused

AtGroup(r) ==
    /\ Serves(r)
    /\ r.group \in Groups \ r.state.children[r.unit].refused
    /\ ReadTo(r, r.group - 1)

Routing(r) ==
    /\ r.state.identified /\ r.err = "none"
    /\ UnseenFrom(r, {u \in Units : u > r.unit})

Opening(r, path) ==
    /\ r.err = "none"
    /\ UnseenFrom(r, Units)
    /\ r.step = "guard" => r.state.identified
    /\ r.step \in {"search", "tuple"} => path = "sdongle"

Ended(r) ==
    r.err = "none" =>
        \/ r.out.outcome = "complete"
        \/ \A u \in Units : r.out.children[u].evidence # "current"

RunSound(r, path) ==
    /\ Sound(r, path)
    /\ r.step \in Steps
    /\ r.step \in OpenSteps => Opening(r, path)
    /\ r.step \in ChildSteps => Serving(r)
    /\ r.step = "group" => AtGroup(r)
    /\ r.step = "route" => Routing(r)
    /\ r.step = "done" => Ended(r)

(* What a step of a cycle never undoes: whose cycle it is, which children  *)
(* it has met and reported, and what it remembers of refusals; it touches  *)
(* the back-off of no child that it does not report.                       *)
StateFollows(x, s) ==
    \A u \in Units :
        /\ s.children[u].known => x.children[u].known
        /\ Remembered(s, u) \subseteq Remembered(x, u)
        /\ ~x.children[u].known => x.carried[u] = s.carried[u]

SameBackoff(c, d) == c.failures = d.failures /\ c.failedAt = d.failedAt
SameBackoffs(x, s) == \A u \in Units : SameBackoff(x.children[u], s.children[u])

BackoffFollows(x, r) ==
    \A u \in Units : x.out.children[u] = Unseen =>
        /\ r.out.children[u] = Unseen
        /\ SameBackoff(x.state.children[u], r.state.children[u])

Follows(x, r) ==
    /\ x.session = r.session /\ x.generation = r.generation /\ x.cycle = r.cycle
    /\ StateFollows(x.state, r.state)
    /\ BackoffFollows(x, r)

(* x is where the cycle may go on from r.                                  *)
Continues(x, r, path) == RunSound(x, path) /\ Follows(x, r)

-----------------------------------------------------------------------------
(* The inductive invariant                                                 *)

InProgress == run.step # "idle"

Typed ==
    /\ IsCore(core)
    /\ sessions \in [1 .. MaxGeneration -> Fates]
    /\ caller \in Callers
    /\ refusals \subseteq Units \X Groups
    /\ run = NoRun \/ (InProgress /\ RunSound(run, core.path))
    /\ core.busy <=> InProgress
    /\ IsState(store)

(* Which session is bound, which is being closed, and by whom.             *)
Connected ==
    /\ core.started =>
          /\ core.session = core.generation /\ core.session \in DOMAIN sessions
          /\ ~core.closing /\ ~core.closed
    /\ \A g \in DOMAIN sessions :
          /\ sessions[g] = "bound" => core.started /\ g = core.session
          /\ sessions[g] = "closing" => core.closed \/ (core.closing /\ caller.session = g)
    /\ core.closing <=> caller.op # "none"
    /\ caller.op = "reconnect" /\ ~core.closed => core.generation < MaxGeneration

(* What the store knows it knows of the bound connection, up to the latest *)
(* cycle.                                                                  *)
StoreKept ==
    /\ StateSound(store, core.cycle, core.path)
    /\ IdentifiedOn(store, core.generation)
    /\ store.identified => core.started

(* The cycle in progress belongs to a connection that came after every     *)
(* session still open before it, and to the present one unless that has    *)
(* been replaced.                                                          *)
RunConnected ==
    InProgress =>
        /\ run.session \in 1 .. MaxGeneration
        /\ run.session =< run.generation /\ run.generation =< core.generation
        /\ run.cycle = core.cycle
        /\ \A g \in 1 .. run.session - 1 :
              g \in DOMAIN sessions => sessions[g] \notin {"bound", "closing"}
        /\ run.generation = core.generation /\ ~core.closed => core.started

(* Every refusal is remembered where the next read of its group looks.     *)
RefusalsKept ==
    /\ InProgress => \A u \in Units :
          /\ \A g \in Groups : <<u, g>> \in refusals => g \in Remembered(run.state, u)
          /\ store.children[u].known => run.state.children[u].known
          /\ ~run.state.children[u].known => run.state.carried[u] \subseteq store.carried[u]
    /\ ~InProgress /\ ~core.closed => \A u \in Units : \A g \in Groups :
          <<u, g>> \in refusals => g \in Remembered(store, u)

(* Until a child is reported, its back-off is the committed one.           *)
BackoffsKept ==
    InProgress => \A u \in Units : run.out.children[u] = Unseen =>
        SameBackoff(store.children[u], run.state.children[u])

(* What the latest refresh returned of a child that backs off.             *)
BackoffReported ==
    returned.cycle # 0 => \A u \in Units :
        LET c == store.children[u]
        IN  returned.out.children[u].reason = "backoff" =>
              returned.cycle =< c.failedAt + DocumentedWait(c.failures)

HuaweiInv ==
    /\ Typed /\ Connected /\ StoreKept /\ RunConnected /\ RefusalsKept /\ BackoffsKept
    /\ EmittedReadingIsOwned /\ CurrentIsFresh /\ BackoffReported

-----------------------------------------------------------------------------
(* The least of a set of numbers                                           *)

LEMMA LeastOfNats ==
    ASSUME NEW S \in SUBSET Nat, S # {}
    PROVE  Min(S) \in S /\ \A n \in S : Min(S) =< n
<1>1. PICK x \in S : TRUE
  OBVIOUS
<1>2. PICK y \in S : \A z \in S : ~(<<z, y>> \in OpToRel(<, Nat))
  BY <1>1, NatLessThanWellFounded, WFMin
<1>3. ASSUME NEW z \in S PROVE y =< z
  <2>1. z \in Nat /\ y \in Nat
    OBVIOUS
  <2>2. <<z, y>> \in Nat \X Nat /\ <<z, y>>[1] = z /\ <<z, y>>[2] = y
    BY <2>1
  <2>3. ~(z < y)
    BY <1>2, <2>2 DEF OpToRel
  <2> QED
    BY <2>1, <2>3
<1> QED
  BY <1>3 DEF Min

LEMMA NoWords == NoReading \notin [Groups -> Nat] /\ DOMAIN NoReading = {}
<1>1. 1 \in Groups
  BY DEF Groups
<1> QED
  BY <1>1 DEF NoReading

(* The waits, and that they are the documented ones.                       *)
LEMMA LeastOfTwo ==
    ASSUME NEW m \in Nat, NEW n \in Nat
    PROVE  Min({m, n}) = IF m =< n THEN m ELSE n
<1>1. Min({m, n}) \in {m, n} /\ \A k \in {m, n} : Min({m, n}) =< k
  BY LeastOfNats
<1> QED
  BY <1>1

LEMMA DoublesToTen ==
    ASSUME NEW n \in Nat
    PROVE  Doubled(n) = CASE n = 0 -> 1 [] n = 1 -> 2 [] n = 2 -> 4 [] n = 3 -> 8 [] n > 3 -> 10
<1>1. Min({n, 4}) = IF n =< 4 THEN n ELSE 4
  BY LeastOfTwo
<1>2. 2 ^ 0 = 1 /\ 2 ^ 1 = 2 /\ 2 ^ 2 = 4 /\ 2 ^ 3 = 8 /\ 2 ^ 4 = 16
  OBVIOUS
<1>3. /\ Min({10, 1}) = 1 /\ Min({10, 2}) = 2 /\ Min({10, 4}) = 4
      /\ Min({10, 8}) = 8 /\ Min({10, 16}) = 10
  BY LeastOfTwo
<1>4. CASE n = 0
  BY <1>1, <1>2, <1>3, <1>4 DEF Doubled
<1>5. CASE n = 1
  BY <1>1, <1>2, <1>3, <1>5 DEF Doubled
<1>6. CASE n = 2
  BY <1>1, <1>2, <1>3, <1>6 DEF Doubled
<1>7. CASE n = 3
  BY <1>1, <1>2, <1>3, <1>7 DEF Doubled
<1>8. CASE n > 3
  <2>1. Min({n, 4}) = 4
    BY <1>1, <1>8
  <2>2. Doubled(n) = Min({10, 2 ^ 4})
    BY <2>1 DEF Doubled
  <2> QED
    BY <1>2, <1>3, <1>8, <2>2
<1> QED
  BY <1>4, <1>5, <1>6, <1>7, <1>8

LEMMA WaitsAsDocumented ==
    ASSUME NEW n \in Nat
    PROVE  /\ ChildBackoff(n) = DocumentedWait(n)
           /\ DocumentedWait(n) \in Nat
           /\ n = 0 => DocumentedWait(n) = 0
<1>1. CASE n < 2
  BY <1>1 DEF ChildBackoff, DocumentedWait
<1>2. CASE n >= 2
  <2>1. n - 2 \in Nat
    BY <1>2
  <2>2. ChildBackoff(n) = Doubled(n - 2)
    BY <1>2 DEF ChildBackoff
  <2>3. CASE n > 5
    BY <2>1, <2>2, <2>3, DoublesToTen DEF DocumentedWait
  <2>4. CASE n =< 5
    <3>1. n = 2 \/ n = 3 \/ n = 4 \/ n = 5
      BY <1>2, <2>4
    <3> QED
      BY <2>1, <2>2, <3>1, DoublesToTen DEF DocumentedWait
  <2> QED
    BY <2>3, <2>4
<1> QED
  BY <1>1, <1>2

-----------------------------------------------------------------------------
(* What happens to a child                                                 *)

(* What a back-off is stays what it is while nothing of it changes, and    *)
(* none is one.                                                            *)
LEMMA SameWait ==
    ASSUME NEW c, NEW x, NEW cy, NEW ia, BackoffSound(c, cy, ia),
           x.known = c.known, SameBackoff(x, c), x.skipUntil = c.skipUntil
    PROVE  BackoffSound(x, cy, ia)
BY DEF BackoffSound, SameBackoff

LEMMA NoWait ==
    ASSUME NEW x, IsChild(x), NEW cy \in Nat, NEW ia \in Nat, x.failedAt =< cy,
           x.failures = 0, x.skipUntil = 0, ~x.known => x.failedAt = 0
    PROVE  BackoffSound(x, cy, ia)
<1>1. DocumentedWait(x.failures) = 0 /\ x.failedAt \in Nat
  BY WaitsAsDocumented DEF IsChild
<1> QED
  BY <1>1 DEF BackoffSound

LEMMA Withheld ==
    ASSUME NEW c, IsChild(c), NEW cy \in Nat, NEW ia \in Nat, ChildSound(c, cy, ia)
    PROVE  LET x == Withhold(c)
           IN  /\ IsChild(x) /\ ChildSound(x, cy, ia)
               /\ x.known = c.known /\ x.refused = c.refused
               /\ x.generation = c.generation /\ ~x.identity
<1> DEFINE x == Withhold(c)
<1>1. IsChild(x)
  BY DEF IsChild, ChildFields, Withhold, Fence, Readings
<1>2. /\ x.known = c.known /\ x.refused = c.refused
      /\ x.generation = c.generation /\ ~x.identity /\ x.admittedAt = c.admittedAt
      /\ x.reading = NoReading /\ x.since = 0
      /\ x.failures = 0 /\ x.skipUntil = 0 /\ x.failedAt = c.failedAt
  BY DEF IsChild, ChildFields, Withhold, Fence
<1>3. BackoffSound(x, cy, ia)
  BY <1>1, <1>2, NoWait DEF ChildSound, BackoffSound
<1>4. ChildSound(x, cy, ia)
  BY <1>2, <1>3, NoWords DEF ChildSound
<1> QED
  BY <1>1, <1>2, <1>4

LEMMA ReadFailed ==
    ASSUME NEW c, IsChild(c), NEW cy \in Nat, NEW ia \in Nat, ChildSound(c, cy, ia),
           c.known
    PROVE  LET x == FailedRead(c, cy)
           IN  /\ IsChild(x) /\ ChildSound(x, cy, ia)
               /\ x.known = c.known /\ x.refused = c.refused /\ x.reading = c.reading
               /\ x.generation = c.generation /\ x.identity = c.identity
<1> DEFINE x == FailedRead(c, cy)
           n == c.failures + 1
<1>0. n \in Nat /\ DocumentedWait(n) \in Nat /\ ChildBackoff(n) = DocumentedWait(n)
  BY WaitsAsDocumented DEF IsChild
<1> HIDE DEF n
<1>1. /\ ChildSkipUntil(cy, n) \in Nat
      /\ ChildSkipUntil(cy, n) =< cy + DocumentedWait(n) + 1
      /\ ChildSkipUntil(cy, n) > cy + DocumentedWait(n) \/ DocumentedWait(n) = 0
  BY <1>0 DEF ChildSkipUntil
<1>2. x = [c EXCEPT !.failures = n, !.skipUntil = ChildSkipUntil(cy, n), !.failedAt = cy]
  BY DEF FailedRead, n, IsChild, ChildFields
<1> HIDE DEF x
<1>3. IsChild(x)
  BY <1>0, <1>1, <1>2 DEF IsChild, ChildFields
<1>4. /\ x.known = c.known /\ x.refused = c.refused /\ x.reading = c.reading
      /\ x.generation = c.generation /\ x.identity = c.identity
      /\ x.admittedAt = c.admittedAt /\ x.since = c.since
      /\ x.failures = n /\ x.skipUntil = ChildSkipUntil(cy, n) /\ x.failedAt = cy
  BY <1>2 DEF IsChild, ChildFields
<1>5. BackoffSound(x, cy, ia)
  BY <1>0, <1>1, <1>4 DEF BackoffSound
<1>6. ChildSound(x, cy, ia)
  BY <1>4, <1>5 DEF ChildSound
<1> QED
  BY <1>3, <1>4, <1>6 DEF x

LEMMA Reidentified ==
    ASSUME NEW c, IsChild(c), NEW cy \in Nat, NEW ia \in Nat, ChildSound(c, cy, ia),
           NEW later \in Nat, c.failedAt < later
    PROVE  LET x == IdentificationEvent(c)
           IN  /\ IsChild(x) /\ ChildSound(x, cy, later)
               /\ x.known = c.known /\ x.refused = c.refused /\ x.identity = c.identity
               /\ SameBackoff(x, c)
<1> DEFINE x == IdentificationEvent(c)
<1>1. IsChild(x)
  BY DEF IsChild, ChildFields, IdentificationEvent
<1>2. /\ x.known = c.known /\ x.refused = c.refused /\ x.reading = c.reading
      /\ x.generation = 0 /\ x.identity = c.identity /\ x.since = c.since
      /\ x.failures = c.failures /\ x.skipUntil = 0 /\ x.failedAt = c.failedAt
  BY DEF IsChild, ChildFields, IdentificationEvent
<1>3. BackoffSound(x, cy, later)
  <2>1. DocumentedWait(c.failures) \in Nat /\ c.failedAt \in Nat
    BY WaitsAsDocumented DEF IsChild
  <2> QED
    BY <1>2, <2>1 DEF ChildSound, BackoffSound
<1>4. ChildSound(x, cy, later)
  BY <1>2, <1>3 DEF ChildSound
<1> QED
  BY <1>1, <1>2, <1>4 DEF SameBackoff

LEMMA IdentityBound ==
    ASSUME NEW c, IsChild(c), NEW r, IsRun(r), NEW ia \in Nat, ia =< r.cycle,
           ChildSound(c, r.cycle, ia), c.known
    PROVE  LET x == BindIdentity(c, r)
           IN  /\ IsChild(x) /\ ChildSound(x, r.cycle, ia)
               /\ x.known /\ x.refused = c.refused
               /\ x.identity /\ x.generation = r.generation /\ SameBackoff(x, c)
<1> DEFINE x == BindIdentity(c, r)
<1>0. r.cycle \in Nat /\ r.generation \in Nat
  BY DEF IsRun
<1>1. IsChild(x)
  BY <1>0 DEF IsChild, ChildFields, BindIdentity
<1>2. /\ x.known = c.known /\ x.refused = c.refused /\ x.reading = c.reading
      /\ x.identity /\ x.generation = r.generation /\ x.admittedAt = r.cycle
      /\ x.since = IF c.identity THEN c.since ELSE r.cycle
      /\ x.known = c.known /\ SameBackoff(x, c) /\ x.skipUntil = c.skipUntil
  BY DEF IsChild, ChildFields, BindIdentity, SameBackoff
<1>3. x.since =< r.cycle
  BY <1>0, <1>2 DEF ChildSound
<1>4. \A g \in DOMAIN x.reading : x.reading[g] # 0 => x.reading[g] >= x.since
  BY <1>2, NoWords DEF ChildSound
<1>5. BackoffSound(x, r.cycle, ia)
  BY <1>2, SameWait DEF ChildSound
<1>6. ChildSound(x, r.cycle, ia)
  BY <1>0, <1>2, <1>3, <1>4, <1>5 DEF ChildSound
<1> QED
  BY <1>1, <1>2, <1>6

LEMMA ReadingKept ==
    ASSUME NEW c, IsChild(c), NEW cy \in Nat, NEW ia \in Nat, ChildSound(c, cy, ia),
           c.identity, NEW answered \in SUBSET Groups
    PROVE  LET x == [c EXCEPT !.reading = Retain(c.reading, answered, cy)]
           IN  /\ IsChild(x) /\ ChildSound(x, cy, ia)
               /\ x.known = c.known /\ x.refused = c.refused
               /\ x.identity /\ x.generation = c.generation /\ SameBackoff(x, c)
               /\ \A g \in answered : x.reading[g] = cy
<1> DEFINE kept == Retain(c.reading, answered, cy)
           x == [c EXCEPT !.reading = kept]
<1>1. /\ kept \in [Groups -> Nat]
      /\ \A g \in Groups : kept[g] = IF g \in answered THEN cy
                                     ELSE IF c.reading = NoReading THEN 0 ELSE c.reading[g]
  BY DEF Retain, IsChild, Readings
<1>2. IsChild(x)
  BY <1>1 DEF IsChild, ChildFields, Readings
<1>3. /\ x.known = c.known /\ x.refused = c.refused /\ x.reading = kept
      /\ x.identity = c.identity /\ x.generation = c.generation
      /\ x.admittedAt = c.admittedAt /\ x.since = c.since
      /\ SameBackoff(x, c) /\ x.skipUntil = c.skipUntil
  BY DEF IsChild, ChildFields, SameBackoff
<1>4. ASSUME NEW g \in Groups, kept[g] # 0 PROVE kept[g] >= c.since
  <2>0. c.since \in Nat /\ c.since =< cy
    BY DEF IsChild, ChildFields, ChildSound
  <2>1. CASE g \in answered
    BY <1>1, <2>0, <2>1
  <2>2. CASE g \notin answered
    <3>1. c.reading # NoReading /\ c.reading[g] = kept[g]
      BY <1>1, <1>4, <2>2
    <3>2. g \in DOMAIN c.reading
      BY <3>1 DEF IsChild, ChildFields, Readings
    <3> QED
      BY <1>4, <3>1, <3>2 DEF ChildSound
  <2> QED
    BY <2>1, <2>2
<1>5. BackoffSound(x, cy, ia)
  BY <1>3, SameWait DEF ChildSound
<1>6. ChildSound(x, cy, ia)
  BY <1>1, <1>3, <1>4, <1>5 DEF ChildSound
<1> QED
  BY <1>1, <1>2, <1>3, <1>6

(* A read that succeeds ends the back-off.                                 *)
LEMMA BackoffReset ==
    ASSUME NEW c, IsChild(c), NEW cy \in Nat, NEW ia \in Nat, ChildSound(c, cy, ia)
    PROVE  LET x == [c EXCEPT !.failures = 0, !.skipUntil = 0]
           IN  /\ IsChild(x) /\ ChildSound(x, cy, ia)
               /\ x.known = c.known /\ x.refused = c.refused /\ x.reading = c.reading
               /\ x.generation = c.generation /\ x.identity = c.identity
<1> DEFINE x == [c EXCEPT !.failures = 0, !.skipUntil = 0]
<1>1. IsChild(x)
  BY DEF IsChild, ChildFields
<1>2. /\ x.known = c.known /\ x.refused = c.refused /\ x.reading = c.reading
      /\ x.generation = c.generation /\ x.identity = c.identity
      /\ x.admittedAt = c.admittedAt /\ x.since = c.since
      /\ x.failures = 0 /\ x.skipUntil = 0 /\ x.failedAt = c.failedAt
  BY DEF IsChild, ChildFields
<1>3. BackoffSound(x, cy, ia)
  BY <1>1, <1>2, NoWait DEF ChildSound, BackoffSound
<1> QED
  BY <1>1, <1>2, <1>3 DEF ChildSound

LEMMA EligibilitySet ==
    ASSUME NEW c, IsChild(c), NEW cy \in Nat, NEW ia \in Nat, ChildSound(c, cy, ia),
           NEW b \in BOOLEAN
    PROVE  LET x == [c EXCEPT !.ineligible = b]
           IN  /\ IsChild(x) /\ ChildSound(x, cy, ia)
               /\ x.known = c.known /\ x.refused = c.refused /\ x.reading = c.reading
               /\ x.generation = c.generation /\ x.identity = c.identity
               /\ SameBackoff(x, c)
<1> DEFINE x == [c EXCEPT !.ineligible = b]
<1>1. IsChild(x)
  BY DEF IsChild, ChildFields
<1>2. /\ x.known = c.known /\ x.refused = c.refused /\ x.reading = c.reading
      /\ x.generation = c.generation /\ x.identity = c.identity
      /\ x.admittedAt = c.admittedAt /\ x.since = c.since
      /\ SameBackoff(x, c) /\ x.skipUntil = c.skipUntil
  BY DEF IsChild, ChildFields, SameBackoff
<1>3. BackoffSound(x, cy, ia)
  BY <1>2, SameWait DEF ChildSound
<1> QED
  BY <1>1, <1>2, <1>3 DEF ChildSound

LEMMA RefusalAdded ==
    ASSUME NEW c, IsChild(c), NEW cy \in Nat, NEW ia \in Nat, ChildSound(c, cy, ia),
           NEW more \in SUBSET Groups
    PROVE  LET x == [c EXCEPT !.refused = @ \cup more]
           IN  /\ IsChild(x) /\ ChildSound(x, cy, ia)
               /\ x.known = c.known /\ x.refused = c.refused \cup more
               /\ x.reading = c.reading
               /\ x.generation = c.generation /\ x.identity = c.identity
               /\ SameBackoff(x, c)
<1> DEFINE x == [c EXCEPT !.refused = @ \cup more]
<1>1. IsChild(x)
  BY DEF IsChild, ChildFields
<1>2. /\ x.known = c.known /\ x.refused = c.refused \cup more /\ x.reading = c.reading
      /\ x.generation = c.generation /\ x.identity = c.identity
      /\ x.admittedAt = c.admittedAt /\ x.since = c.since
      /\ SameBackoff(x, c) /\ x.skipUntil = c.skipUntil
  BY DEF IsChild, ChildFields, SameBackoff
<1>3. BackoffSound(x, cy, ia)
  BY <1>2, SameWait DEF ChildSound
<1> QED
  BY <1>1, <1>2, <1>3 DEF ChildSound

LEMMA Newborn ==
    ASSUME NEW cy \in Nat, NEW ia \in Nat, NEW refused \in SUBSET Groups
    PROVE  LET x == [NewChild EXCEPT !.known = TRUE, !.refused = refused]
           IN  /\ IsChild(x) /\ ChildSound(x, cy, ia)
               /\ x.known /\ x.refused = refused /\ ~x.identity
               /\ x.failures = 0 /\ x.failedAt = 0
<1> DEFINE x == [NewChild EXCEPT !.known = TRUE, !.refused = refused]
<1>1. IsChild(x)
  BY DEF IsChild, ChildFields, NewChild, Readings
<1>2. /\ x.known /\ x.refused = refused /\ x.reading = NoReading
      /\ x.generation = 0 /\ ~x.identity /\ x.since = 0
      /\ x.failures = 0 /\ x.skipUntil = 0 /\ x.failedAt = 0
  BY DEF NewChild
<1> HIDE DEF x
<1>3. BackoffSound(x, cy, ia)
  BY <1>1, <1>2, NoWait
<1> QED
  BY <1>1, <1>2, <1>3, NoWords DEF ChildSound, x

-----------------------------------------------------------------------------
(* Parts of a run                                                          *)

(* x is r but for what no invariant of a run looks at.                     *)
StateAlike(x, s) ==
    /\ IsState(x)
    /\ x.identified = s.identified /\ x.identityGeneration = s.identityGeneration
    /\ x.gatewayFenced = s.gatewayFenced /\ x.verdict = s.verdict
    /\ x.identifiedAt = s.identifiedAt
    /\ x.children = s.children /\ x.carried = s.carried

RunAlike(x, r) ==
    /\ IsRun(x)
    /\ x.session = r.session /\ x.generation = r.generation /\ x.cycle = r.cycle
    /\ x.unit = r.unit
    /\ StateAlike(x.state, r.state)

OutputAlike(x, r) == x.out.children = r.out.children

PlanAlike(x, r) == x.group = r.group /\ x.answered = r.answered /\ x.reason = r.reason

(* x is r with c as the child of unit u.                                   *)
RunPut(x, r, u, c) ==
    /\ IsRun(x)
    /\ x.session = r.session /\ x.generation = r.generation /\ x.cycle = r.cycle
    /\ x.unit = r.unit /\ x.err = r.err
    /\ x.out = r.out
    /\ x.state.identified = r.state.identified
    /\ x.state.identityGeneration = r.state.identityGeneration
    /\ x.state.gatewayFenced = r.state.gatewayFenced /\ x.state.verdict = r.state.verdict
    /\ x.state.identifiedAt = r.state.identifiedAt /\ x.state.carried = r.state.carried
    /\ x.state.children[u] = c
    /\ \A v \in Units \ {u} : x.state.children[v] = r.state.children[v]

LEMMA FollowsOn ==
    ASSUME NEW x, NEW y, NEW z, Follows(y, x), Follows(z, y)
    PROVE  Follows(z, x)
BY DEF Follows, StateFollows, BackoffFollows, SameBackoff

LEMMA AlikeSound ==
    ASSUME NEW path, NEW r, Sound(r, path), NEW x, RunAlike(x, r), OutputAlike(x, r)
    PROVE  Sound(x, path) /\ Follows(x, r)
<1>1. StateSound(x.state, x.cycle, path)
  BY DEF Sound, StateSound, RunAlike, StateAlike
<1>2. IdentifiedOn(x.state, x.generation)
  BY DEF Sound, IdentifiedOn, RunAlike, StateAlike
<1>3. OutputSound(x)
  <2>1. /\ x.out.children = r.out.children /\ x.state.children = r.state.children
        /\ x.cycle = r.cycle /\ x.generation = r.generation
        /\ x.state.verdict = r.state.verdict /\ x.state.identified = r.state.identified
    BY DEF RunAlike, StateAlike, OutputAlike
  <2>2. ASSUME NEW u \in Units PROVE Reported(r, u) => Reported(x, u)
    BY <2>1 DEF Reported
  <2> QED
    BY <2>2 DEF Sound, OutputSound
<1>4. StateFollows(x.state, r.state)
  BY DEF StateFollows, RunAlike, StateAlike, Remembered
<1>5. Follows(x, r)
  BY <1>4 DEF Follows, BackoffFollows, SameBackoff, RunAlike, StateAlike, OutputAlike
<1> QED
  BY <1>1, <1>2, <1>3, <1>5 DEF Sound, RunAlike

(* Being served survives what leaves the run alike.                        *)
LEMMA AlikeServing ==
    ASSUME NEW r, NEW x, RunAlike(x, r), OutputAlike(x, r), x.err = r.err
    PROVE  /\ Visiting(r) => Visiting(x)
           /\ Serving(r) => Serving(x)
           /\ Serves(r) => Serves(x)
           /\ Serves(r) /\ PlanAlike(x, r) /\ AtGroup(r) => AtGroup(x)
<1>0. Visiting(r) => Visiting(x)
  BY DEF Visiting, UnseenFrom, RunAlike, StateAlike, OutputAlike
<1>1. Serving(r) => Serving(x)
  BY <1>0 DEF Serving, Due, RunAlike, StateAlike
<1>2. Serves(r) => Serves(x)
  BY <1>1 DEF Serves, RunAlike, StateAlike
<1>3. Serves(r) /\ PlanAlike(x, r) /\ AtGroup(r) => AtGroup(x)
  BY <1>2 DEF AtGroup, ReadTo, PlanAlike, RunAlike, StateAlike
<1> QED
  BY <1>0, <1>1, <1>2, <1>3

(* A child that the cycle has not reported yet may be replaced by a sound  *)
(* one that forgets no refusal.                                            *)
LEMMA PutSound ==
    ASSUME NEW path, NEW r, Sound(r, path), r.state.identified,
           NEW u \in Units, r.state.children[u].known, r.out.children[u] = Unseen,
           NEW c, IsChild(c), ChildSound(c, r.cycle, r.state.identifiedAt), c.known,
           r.state.children[u].refused \subseteq c.refused,
           NEW x, RunPut(x, r, u, c)
    PROVE  /\ Sound(x, path) /\ StateFollows(x.state, r.state)
           /\ SameBackoff(c, r.state.children[u]) => Follows(x, r)
<1>1. \A v \in Units : /\ IsChild(x.state.children[v])
                       /\ ChildSound(x.state.children[v], x.cycle, x.state.identifiedAt)
                       /\ x.state.children[v].known = r.state.children[v].known
  BY DEF Sound, IsRun, IsState, StateSound, RunPut
<1>2. r.state.verdict = "match" /\ ~r.state.gatewayFenced
  BY DEF Sound, IdentifiedOn
<1>3. StateSound(x.state, x.cycle, path)
  BY <1>1, <1>2 DEF Sound, StateSound, RunPut
<1>4. IdentifiedOn(x.state, x.generation)
  BY DEF Sound, IdentifiedOn, RunPut
<1>5. OutputSound(x)
  <2> SUFFICES ASSUME NEW v \in Units PROVE Reported(x, v)
    BY DEF OutputSound
  <2>1. CASE v = u
    BY <2>1 DEF Reported, RunPut, Unseen
  <2>2. CASE v # u
    BY <2>2 DEF Sound, OutputSound, Reported, RunPut
  <2> QED
    BY <2>1, <2>2
<1>6. StateFollows(x.state, r.state)
  BY <1>1 DEF StateFollows, RunPut, Remembered
<1>7. SameBackoff(c, r.state.children[u]) => Follows(x, r)
  BY <1>6 DEF Follows, BackoffFollows, SameBackoff, RunPut
<1> QED
  BY <1>3, <1>4, <1>5, <1>6, <1>7 DEF Sound, RunPut

LEMMA PutServing ==
    ASSUME NEW r, NEW c, c.known, SameBackoff(c, r.state.children[r.unit]),
           NEW x, RunPut(x, r, r.unit, c)
    PROVE  /\ Visiting(r) => Visiting(x) /\ x.state.children[x.unit] = c
           /\ Serving(r) => Serving(x) /\ x.state.children[x.unit] = c
<1>1. Visiting(r) => Visiting(x) /\ x.state.children[x.unit] = c
  BY DEF Visiting, UnseenFrom, RunPut, SameBackoff
<1>2. Serving(r) => Due(x)
  BY DEF Serving, Visiting, Due, RunPut, SameBackoff
<1> QED
  BY <1>1, <1>2 DEF Serving

-----------------------------------------------------------------------------
(* The steps a run is made of                                              *)

LEMMA ExchangeAlike ==
    ASSUME NEW r, IsRun(r), NEW step
    PROVE  LET x == Exchange(r, step)
           IN  /\ RunAlike(x, r) /\ OutputAlike(x, r) /\ PlanAlike(x, r)
               /\ x.step = step /\ x.err = r.err /\ x.count = r.count
<1> DEFINE x == Exchange(r, step)
<1>1. /\ x.step = step /\ x.err = r.err /\ x.count = r.count
      /\ x.state = r.state /\ x.out = r.out
      /\ x.session = r.session /\ x.generation = r.generation /\ x.cycle = r.cycle
      /\ x.unit = r.unit /\ x.group = r.group /\ x.answered = r.answered
      /\ x.reason = r.reason
  BY DEF IsRun, RunFields, Exchange
<1>2. IsRun(x)
  BY <1>1 DEF IsRun, RunFields, Exchange
<1> QED
  BY <1>1, <1>2 DEF RunAlike, StateAlike, OutputAlike, PlanAlike, IsRun

LEMMA OnwardAlike ==
    ASSUME NEW r, IsRun(r)
    PROVE  LET x == Onward(r)
           IN  /\ RunAlike(x, r) /\ OutputAlike(x, r)
               /\ x.step = "route" /\ x.err = r.err
<1> DEFINE x == Onward(r)
<1>1. /\ x.step = "route" /\ x.err = r.err
      /\ x.state = r.state /\ x.out = r.out
      /\ x.session = r.session /\ x.generation = r.generation /\ x.cycle = r.cycle
      /\ x.unit = r.unit
  BY DEF IsRun, RunFields, Onward
<1>2. IsRun(x)
  BY <1>1 DEF IsRun, RunFields, Onward
<1> QED
  BY <1>1, <1>2 DEF RunAlike, StateAlike, OutputAlike, IsRun

LEMMA FinishAlike ==
    ASSUME NEW r, IsRun(r), NEW outcome
    PROVE  LET x == Finish(r, outcome)
           IN  /\ RunAlike(x, r) /\ OutputAlike(x, r)
               /\ x.step = "done" /\ x.err = r.err /\ x.out.outcome = outcome
<1> DEFINE x == Finish(r, outcome)
<1>1. /\ x.step = "done" /\ x.err = r.err /\ x.out.outcome = outcome
      /\ x.state = r.state /\ x.out.children = r.out.children
      /\ x.session = r.session /\ x.generation = r.generation /\ x.cycle = r.cycle
      /\ x.unit = r.unit
  BY DEF IsRun, RunFields, Finish, IsOutput, OutputFields
<1>2. IsOutput(x.out)
  BY <1>1 DEF IsRun, RunFields, Finish, IsOutput, OutputFields
<1>3. IsRun(x)
  BY <1>1, <1>2 DEF IsRun, RunFields, Finish
<1> QED
  BY <1>1, <1>3 DEF RunAlike, StateAlike, OutputAlike, IsRun

LEMMA EndpointFailedAlike ==
    ASSUME NEW r, IsRun(r)
    PROVE  LET x == EndpointFailed(r)
           IN  RunAlike(x, r) /\ OutputAlike(x, r) /\ x.step = r.step /\ x.err = r.err
<1> DEFINE wait == EndpointBackoff(r.state.endpointFailures + 1)
           x == [r EXCEPT !.state.endpointFailures = r.state.endpointFailures + 1,
                          !.out.wait = wait]
<1>1. x = EndpointFailed(r)
  BY DEF EndpointFailed
<1> HIDE DEF wait
<1>2. /\ x.step = r.step /\ x.err = r.err
      /\ x.out.children = r.out.children
      /\ x.session = r.session /\ x.generation = r.generation /\ x.cycle = r.cycle
      /\ x.unit = r.unit
  BY DEF IsRun, RunFields, IsOutput, OutputFields
<1>3. IsOutput(x.out)
  BY <1>2 DEF IsRun, RunFields, IsOutput, OutputFields
<1>4. StateAlike(x.state, r.state)
  BY DEF StateAlike, IsRun, RunFields, IsState, StateFields
<1>5. IsRun(x)
  BY <1>2, <1>3, <1>4 DEF IsRun, RunFields, StateAlike
<1> QED
  BY <1>1, <1>2, <1>4, <1>5 DEF RunAlike, OutputAlike

(* A child is reported with what it holds.                                 *)
LEMMA Observed ==
    ASSUME NEW path, NEW r, Sound(r, path), r.state.identified, NEW u \in Units,
           NEW evidence, NEW reason, evidence # "none",
           reason = "backoff" =>
             LET d == r.state.children[u]
             IN  r.cycle =< d.failedAt + DocumentedWait(d.failures),
           evidence = "current" =>
             /\ r.state.children[u].identity
             /\ r.state.children[u].generation = r.generation
             /\ \A g \in Groups \ r.state.children[u].refused :
                   r.state.children[u].reading[g] = r.cycle
    PROVE  LET x == Observe(r, u, evidence, reason)
           IN  /\ Sound(x, path) /\ Follows(x, r)
               /\ x.state = r.state /\ x.err = r.err /\ x.unit = r.unit
               /\ x.out.children[u] # Unseen
               /\ \A v \in Units \ {u} : x.out.children[v] = r.out.children[v]
<1> DEFINE c == r.state.children[u]
           reading == IF evidence # "withheld" /\ c.identity THEN c.reading ELSE NoReading
           x == Observe(r, u, evidence, reason)
<1>1. IsRun(r) /\ IsChild(c) /\ r.state.verdict = "match"
  BY DEF Sound, IsRun, IsState, IdentifiedOn
<1>2. /\ x.state = r.state /\ x.err = r.err /\ x.unit = r.unit
      /\ x.session = r.session /\ x.generation = r.generation /\ x.cycle = r.cycle
      /\ \A v \in Units \ {u} : x.out.children[v] = r.out.children[v]
      /\ x.out.children[u].evidence = evidence /\ x.out.children[u].reading = reading
      /\ x.out.children[u].reason = reason
      /\ DOMAIN x.out.children[u] = {"evidence", "reason", "reading"}
  BY <1>1 DEF IsRun, RunFields, IsOutput, OutputFields, Observe
<1>3. reading \in Readings /\ (reading # NoReading => c.identity /\ reading = c.reading)
  BY <1>1 DEF IsChild, Readings
<1> DEFINE o == [evidence |-> evidence, reason |-> reason, reading |-> reading]
           put == [r EXCEPT !.out.children[u] = o]
<1>10. x = put
  BY DEF Observe
<1> HIDE DEF c, reading, x, o
<1>4. IsOutput(x.out)
  <2>1. \A v \in Units : IsObservation(x.out.children[v])
    <3>1. IsObservation(x.out.children[u])
      BY <1>2, <1>3 DEF IsObservation
    <3>2. \A v \in Units \ {u} : IsObservation(x.out.children[v])
      BY <1>1, <1>2 DEF IsRun, IsOutput
    <3> QED
      BY <3>1, <3>2
  <2>2. DOMAIN x.out = OutputFields /\ DOMAIN x.out.children = Units
    BY <1>1, <1>10 DEF IsRun, RunFields, IsOutput, OutputFields
  <2> QED
    BY <2>1, <2>2 DEF IsOutput
<1>5. IsRun(x)
  <2>1. /\ DOMAIN put = RunFields /\ put.step = r.step /\ put.mode = r.mode
        /\ put.failed = r.failed /\ put.allowance = r.allowance /\ put.sent = r.sent
        /\ put.group = r.group /\ put.count = r.count /\ put.fits = r.fits
        /\ put.answered = r.answered /\ put.reason = r.reason
    BY <1>1 DEF IsRun, RunFields
  <2> HIDE DEF put
  <2> QED
    BY <1>1, <1>2, <1>4, <1>10, <2>1 DEF IsRun
<1>6. OutputSound(x)
  <2> SUFFICES ASSUME NEW v \in Units PROVE Reported(x, v)
    BY DEF OutputSound
  <2>1. CASE v = u
    <3>1. evidence = "current" =>
            /\ reading = c.reading /\ c.generation = r.generation
            /\ \A g \in Groups \ c.refused : c.reading[g] = r.cycle
      BY DEF reading, c
    <3>2. reason = "backoff" => r.cycle =< c.failedAt + DocumentedWait(c.failures)
      BY DEF c
    <3>3. x.state.children[u] = c
      BY <1>2 DEF c
    <3> QED
      BY <1>1, <1>2, <1>3, <2>1, <3>1, <3>2, <3>3 DEF Reported
  <2>2. CASE v # u
    <3>1. Reported(r, v) /\ x.out.children[v] = r.out.children[v]
      BY <1>2, <2>2 DEF Sound, OutputSound
    <3> QED
      BY <1>2, <3>1 DEF Reported
  <2> QED
    BY <2>1, <2>2
<1>7. Sound(x, path)
  BY <1>2, <1>5, <1>6 DEF Sound
<1>8. x.out.children[u] # Unseen
  BY <1>2 DEF Unseen
<1>9. Follows(x, r)
  BY <1>2, <1>8 DEF Follows, StateFollows, Remembered, BackoffFollows, SameBackoff
<1> QED
  BY <1>2, <1>7, <1>8, <1>9 DEF x

(* ... and the cycle goes on with the next one.                            *)
LEMMA ObservedOnward ==
    ASSUME NEW path, NEW r, Sound(r, path), r.state.identified, r.err = "none",
           r.unit \in Units, UnseenFrom(r, {v \in Units : v > r.unit}),
           NEW evidence, NEW reason, evidence # "none",
           reason = "backoff" =>
             LET d == r.state.children[r.unit]
             IN  r.cycle =< d.failedAt + DocumentedWait(d.failures),
           evidence = "current" =>
             /\ r.state.children[r.unit].identity
             /\ r.state.children[r.unit].generation = r.generation
             /\ \A g \in Groups \ r.state.children[r.unit].refused :
                   r.state.children[r.unit].reading[g] = r.cycle
    PROVE  LET z == Onward(Observe(r, r.unit, evidence, reason))
           IN  Continues(z, r, path) /\ z.out.children[r.unit] # Unseen
<1> DEFINE u == r.unit
           y == Observe(r, u, evidence, reason)
           x == Onward(y)
<1>1. u \in Units
  OBVIOUS
<1>2. evidence = "current" =>
        /\ r.state.children[u].identity
        /\ r.state.children[u].generation = r.generation
        /\ \A g \in Groups \ r.state.children[u].refused :
              r.state.children[u].reading[g] = r.cycle
  OBVIOUS
<1>0. reason = "backoff" =>
        LET d == r.state.children[u]
        IN  r.cycle =< d.failedAt + DocumentedWait(d.failures)
  OBVIOUS
<1>3. /\ Sound(y, path) /\ Follows(y, r)
      /\ y.state = r.state /\ y.err = r.err /\ y.unit = r.unit
      /\ y.out.children[u] # Unseen /\ y.cycle = r.cycle
      /\ \A v \in Units \ {u} : y.out.children[v] = r.out.children[v]
  <2> HIDE DEF u
  <2> QED
    BY <1>0, <1>1, <1>2, Observed DEF Follows
<1>4. UnseenFrom(y, {v \in Units : v > r.unit})
  BY <1>3 DEF UnseenFrom, Sound, IsRun
<1> HIDE DEF y
<1>5. IsRun(y)
  BY <1>3 DEF Sound
<1>6. RunAlike(x, y) /\ OutputAlike(x, y) /\ x.step = "route" /\ x.err = y.err
  BY <1>5, OnwardAlike
<1> HIDE DEF x
<1>7. Sound(x, path) /\ Follows(x, y)
  BY <1>3, <1>6, AlikeSound
<1>8. Follows(x, r)
  BY <1>3, <1>7, FollowsOn
<1>9. Routing(x)
  BY <1>3, <1>4, <1>6 DEF Routing, RunAlike, StateAlike, OutputAlike, UnseenFrom
<1>10. RunSound(x, path)
  BY <1>6, <1>7, <1>9 DEF RunSound, Steps, OpenSteps, ChildSteps
<1> QED
  BY <1>3, <1>6, <1>8, <1>10 DEF Continues, OutputAlike, x, y

LEMMA ServingAhead ==
    ASSUME NEW r, IsRun(r), Visiting(r)
    PROVE  /\ UnseenFrom(r, {v \in Units : v > r.unit})
           /\ r.out.children[r.unit] = Unseen
<1>1. r.unit \in Nat /\ r.unit \in {u \in Units : u >= r.unit}
  BY DEF Visiting, IsRun
<1>2. {v \in Units : v > r.unit} \subseteq {u \in Units : u >= r.unit}
  <2> SUFFICES ASSUME NEW v \in Units, v > r.unit PROVE v >= r.unit
    OBVIOUS
  <2> QED
    BY <1>1
<1>3. UnseenFrom(r, {u \in Units : u >= r.unit})
  BY DEF Visiting
<1> QED
  BY <1>1, <1>2, <1>3 DEF UnseenFrom

(* Nothing is reported yet.                                                *)
NoneReported(r) == \A u \in Units : r.out.children[u] = Unseen

(* The children no cycle read are reported without being called current.   *)
LEMMA StaleSound ==
    ASSUME NEW path, NEW r, Sound(r, path), NEW withheld \in BOOLEAN,
           NoneReported(r)
    PROVE  LET x == StaleChildren(r, withheld)
           IN  /\ Sound(x, path) /\ Follows(x, r)
               /\ \A u \in Units : x.out.children[u].evidence # "current"
<1> DEFINE x == StaleChildren(r, withheld)
<1>1. IsRun(r)
  BY DEF Sound
<1>2. /\ x.state = r.state /\ x.err = r.err /\ x.unit = r.unit
      /\ x.session = r.session /\ x.generation = r.generation /\ x.cycle = r.cycle
      /\ DOMAIN x.out = OutputFields /\ DOMAIN x.out.children = Units
  BY <1>1 DEF IsRun, RunFields, IsOutput, OutputFields, StaleChildren
<1>3. ASSUME NEW u \in Units
      PROVE  LET c == r.state.children[u]
                 o == x.out.children[u]
             IN  /\ IsObservation(o) /\ o.evidence # "current"
                 /\ o.reason # "backoff"
                 /\ o.reading # NoReading =>
                      o.reading = c.reading /\ c.identity /\ ~r.state.gatewayFenced
  <2> DEFINE c == r.state.children[u]
             o == x.out.children[u]
             silent == \/ withheld \/ r.state.gatewayFenced
                       \/ ~c.identity \/ c.reading = NoReading \/ c.ineligible
  <2>1. o = IF ~c.known THEN Unseen
            ELSE [evidence |-> IF silent THEN "withheld" ELSE "stale",
                  reason |-> "gateway",
                  reading |-> IF silent THEN NoReading ELSE c.reading]
    BY <1>1 DEF IsRun, RunFields, IsOutput, OutputFields, StaleChildren
  <2>2. IsChild(c)
    BY <1>1 DEF IsRun, IsState
  <2> HIDE DEF x
  <2>3. CASE ~c.known
    BY <2>1, <2>3 DEF Unseen, IsObservation, Readings
  <2>4. CASE c.known /\ silent
    BY <2>1, <2>4 DEF IsObservation, Readings
  <2>5. CASE c.known /\ ~silent
    BY <2>1, <2>2, <2>5 DEF IsObservation, IsChild
  <2> QED
    BY <2>3, <2>4, <2>5
<1> HIDE DEF x
<1>4. IsOutput(x.out)
  BY <1>2, <1>3 DEF IsOutput
<1>5. IsRun(x)
  <2>1. x = [r EXCEPT !.out = x.out]
    BY <1>1 DEF IsRun, RunFields, StaleChildren, x
  <2> QED
    BY <1>1, <1>2, <1>4, <2>1 DEF IsRun, RunFields
<1>6. r.state.verdict # "match" /\ ~r.state.gatewayFenced =>
        \A u \in Units : ~r.state.children[u].identity
  BY <1>1 DEF Sound, StateSound, IsRun, IsState, Verdicts
<1>7. OutputSound(x)
  BY <1>2, <1>3, <1>6 DEF OutputSound, Reported
<1>8. Follows(x, r)
  BY <1>2 DEF Follows, StateFollows, Remembered, BackoffFollows, SameBackoff, NoneReported
<1>9. \A u \in Units : x.out.children[u].evidence # "current"
  BY <1>3
<1> QED
  BY <1>2, <1>5, <1>7, <1>8, <1>9 DEF Sound, x

LEMMA StaleEnd ==
    ASSUME NEW path, NEW r, Sound(r, path), NEW withheld \in BOOLEAN, NEW outcome,
           NoneReported(r)
    PROVE  LET x == Finish(StaleChildren(r, withheld), outcome)
           IN  RunSound(x, path) /\ Follows(x, r)
<1> DEFINE y == StaleChildren(r, withheld)
           x == Finish(y, outcome)
<1>1. /\ Sound(y, path) /\ Follows(y, r)
      /\ \A u \in Units : y.out.children[u].evidence # "current"
  BY StaleSound
<1> HIDE DEF y
<1>2. IsRun(y)
  BY <1>1 DEF Sound
<1>3. RunAlike(x, y) /\ OutputAlike(x, y) /\ x.step = "done"
  BY <1>2, FinishAlike
<1> HIDE DEF x
<1>4. Sound(x, path) /\ Follows(x, y)
  BY <1>1, <1>3, AlikeSound
<1>5. RunSound(x, path)
  BY <1>1, <1>3, <1>4 DEF RunSound, Steps, OpenSteps, ChildSteps, Ended, OutputAlike
<1>6. Follows(x, r)
  BY <1>1, <1>4, FollowsOn
<1> QED
  BY <1>5, <1>6 DEF x, y

LEMMA PutRun ==
    ASSUME NEW r, IsRun(r), NEW u \in Units, NEW c, IsChild(c)
    PROVE  LET x == [r EXCEPT !.state.children[u] = c]
           IN  RunPut(x, r, u, c) /\ PlanAlike(x, r) /\ x.step = r.step
<1> DEFINE x == [r EXCEPT !.state.children[u] = c]
<1>1. /\ x.session = r.session /\ x.generation = r.generation /\ x.cycle = r.cycle
      /\ x.unit = r.unit /\ x.err = r.err /\ x.out = r.out /\ x.step = r.step
      /\ x.group = r.group /\ x.answered = r.answered /\ x.reason = r.reason
  BY DEF IsRun, RunFields
<1>2. /\ x.state.identified = r.state.identified
      /\ x.state.identityGeneration = r.state.identityGeneration
      /\ x.state.gatewayFenced = r.state.gatewayFenced
      /\ x.state.verdict = r.state.verdict
      /\ x.state.identifiedAt = r.state.identifiedAt
      /\ x.state.carried = r.state.carried
      /\ x.state.children[u] = c
      /\ \A v \in Units \ {u} : x.state.children[v] = r.state.children[v]
  BY DEF IsRun, RunFields, IsState, StateFields
<1>3. IsState(x.state)
  <2>1. \A v \in Units : IsChild(x.state.children[v])
    BY <1>2 DEF IsRun, IsState
  <2>2. /\ DOMAIN x.state = StateFields
        /\ DOMAIN x.state.children = Units
        /\ x.state.reidentify = r.state.reidentify
        /\ x.state.unstable = r.state.unstable
        /\ x.state.endpointFailures = r.state.endpointFailures
        /\ x.state.listing = r.state.listing
    BY DEF IsRun, RunFields, IsState, StateFields
  <2> HIDE DEF x
  <2> QED
    BY <1>2, <2>1, <2>2 DEF IsRun, IsState
<1>4. IsRun(x)
  <2>1. /\ DOMAIN x = RunFields /\ x.failed = r.failed /\ x.allowance = r.allowance
        /\ x.sent = r.sent /\ x.count = r.count /\ x.fits = r.fits
    BY DEF IsRun, RunFields
  <2> HIDE DEF x
  <2> QED
    BY <1>1, <1>3, <2>1 DEF IsRun
<1> HIDE DEF x
<1>5. RunPut(x, r, u, c) /\ PlanAlike(x, r) /\ x.step = r.step
  BY <1>1, <1>2, <1>4 DEF RunPut, PlanAlike
<1> QED
  BY <1>5 DEF x

(* The served child gets its new state, is reported, and the next follows. *)
LEMMA PutObservedOnward ==
    ASSUME NEW path, NEW r, Sound(r, path), Serving(r),
           NEW c, IsChild(c), ChildSound(c, r.cycle, r.state.identifiedAt), c.known,
           r.state.children[r.unit].refused \subseteq c.refused,
           NEW evidence, NEW reason, evidence # "none", reason # "backoff",
           evidence = "current" =>
             /\ c.identity /\ c.generation = r.generation
             /\ \A g \in Groups \ c.refused : c.reading[g] = r.cycle
    PROVE  LET y == [r EXCEPT !.state.children[r.unit] = c]
           IN  Continues(Onward(Observe(y, r.unit, evidence, reason)), r, path)
<1> DEFINE u == r.unit
           y == [r EXCEPT !.state.children[u] = c]
           x == Onward(Observe(y, y.unit, evidence, reason))
<1>1. IsRun(r) /\ u \in Units /\ r.state.identified /\ r.err = "none"
      /\ r.state.children[u].known
  BY DEF Sound, Serving, Visiting
<1>2. RunPut(y, r, u, c)
  <2> HIDE DEF u
  <2> QED
    BY <1>1, PutRun
<1> HIDE DEF y
<1>3. UnseenFrom(r, {v \in Units : v > r.unit}) /\ r.out.children[u] = Unseen
  BY <1>1, ServingAhead DEF Serving
<1>4. Sound(y, path) /\ StateFollows(y.state, r.state)
  BY <1>1, <1>2, <1>3, PutSound
<1>5. /\ y.state.identified /\ y.err = "none" /\ y.unit = u /\ y.unit \in Units
      /\ UnseenFrom(y, {v \in Units : v > y.unit})
  BY <1>1, <1>2, <1>3 DEF RunPut, UnseenFrom
<1>6. evidence = "current" =>
        /\ y.state.children[y.unit].identity
        /\ y.state.children[y.unit].generation = y.generation
        /\ \A g \in Groups \ y.state.children[y.unit].refused :
              y.state.children[y.unit].reading[g] = y.cycle
  BY <1>2, <1>5 DEF RunPut
<1>7. Continues(x, y, path) /\ x.out.children[u] # Unseen
  BY <1>4, <1>5, <1>6, ObservedOnward
<1>8. x = Onward(Observe(y, r.unit, evidence, reason))
  BY <1>5
<1> HIDE DEF x
<1>9. StateFollows(x.state, r.state)
  BY <1>4, <1>7 DEF Continues, Follows, StateFollows
<1>10. BackoffFollows(x, r)
  BY <1>1, <1>2, <1>7 DEF Continues, Follows, BackoffFollows, SameBackoff, RunPut
<1>11. Continues(x, r, path)
  BY <1>2, <1>7, <1>9, <1>10 DEF Continues, Follows, RunPut
<1> QED
  BY <1>8, <1>11 DEF y

(* The plan is through, or one of its reads failed.                        *)
LEMMA MonitoredSound ==
    ASSUME NEW path, NEW r, Sound(r, path), Serves(r), ReadTo(r, LastGroup)
    PROVE  Continues(Monitored(r), r, path)
<1> DEFINE c == r.state.children[r.unit]
           ia == r.state.identifiedAt
           read == [c EXCEPT !.reading = Retain(c.reading, r.answered, r.cycle)]
           after == CASE r.reason = "read" -> [read EXCEPT !.failures = 0, !.skipUntil = 0]
                      [] r.reason = "exception" -> read
                      [] r.reason = "failed" -> FailedRead(read, r.cycle)
           evidence == IF r.reason = "read" THEN "current" ELSE "stale"
           y == [r EXCEPT !.state.children[r.unit] = after]
<1>1. /\ IsRun(r) /\ Serving(r) /\ r.unit \in Units /\ c.known /\ c.identity
      /\ c.generation = r.generation
      /\ IsChild(c) /\ ChildSound(c, r.cycle, ia) /\ r.cycle \in Nat /\ ia \in Nat
      /\ r.answered \in SUBSET Groups /\ r.reason \in Reasons
  BY DEF Sound, Serves, Serving, Visiting, IsRun, IsState, StateSound
<1>2. Monitored(r) = Onward(Observe(y, r.unit, evidence, r.reason))
  BY DEF Monitored
<1>3. /\ IsChild(read) /\ ChildSound(read, r.cycle, ia)
      /\ read.known = c.known /\ read.refused = c.refused
      /\ read.identity /\ read.generation = c.generation
      /\ \A g \in r.answered : read.reading[g] = r.cycle
  <2> DEFINE cycle == r.cycle
             answered == r.answered
             child == c
  <2>1. /\ IsChild(child) /\ ChildSound(child, cycle, ia) /\ cycle \in Nat /\ ia \in Nat
        /\ child.identity /\ answered \in SUBSET Groups
    BY <1>1
  <2>2. read = [child EXCEPT !.reading = Retain(child.reading, answered, cycle)]
    OBVIOUS
  <2> HIDE DEF cycle, answered, child, ia, read
  <2>3. LET z == [child EXCEPT !.reading = Retain(child.reading, answered, cycle)]
        IN  /\ IsChild(z) /\ ChildSound(z, cycle, ia)
            /\ z.known = child.known /\ z.refused = child.refused
            /\ z.identity /\ z.generation = child.generation
            /\ \A g \in answered : z.reading[g] = cycle
    BY <2>1, ReadingKept
  <2> QED
    BY <2>2, <2>3 DEF cycle, answered, child
<1>4. after = CASE r.reason = "read" -> [read EXCEPT !.failures = 0, !.skipUntil = 0]
                [] r.reason = "exception" -> read
                [] r.reason = "failed" -> FailedRead(read, r.cycle)
  OBVIOUS
<1>5. /\ IsChild(after) /\ ChildSound(after, r.cycle, ia)
      /\ after.known /\ after.refused = c.refused /\ after.identity
      /\ after.generation = r.generation /\ after.reading = read.reading
  <2> HIDE DEF c, ia, read, after
  <2>1. CASE r.reason = "read"
    <3> DEFINE z == [read EXCEPT !.failures = 0, !.skipUntil = 0]
               cycle == r.cycle
    <3>1. after = z
      BY <1>4, <2>1
    <3>2. IsChild(read) /\ ChildSound(read, cycle, ia) /\ cycle \in Nat /\ ia \in Nat
      BY <1>1, <1>3
    <3>3. /\ IsChild(z) /\ ChildSound(z, cycle, ia)
          /\ z.known = read.known /\ z.refused = read.refused /\ z.reading = read.reading
          /\ z.generation = read.generation /\ z.identity = read.identity
      <4> HIDE DEF cycle
      <4> QED
        BY <3>2, BackoffReset
    <3> HIDE DEF z
    <3> QED
      BY <1>1, <1>3, <3>1, <3>3
  <2>2. CASE r.reason = "exception"
    <3>1. after = read
      BY <1>4, <2>2
    <3> QED
      BY <1>1, <1>3, <3>1
  <2>3. CASE r.reason = "failed"
    <3> DEFINE cycle == r.cycle
               z == FailedRead(read, cycle)
    <3>1. after = z
      BY <1>4, <2>3
    <3>2. /\ IsChild(read) /\ ChildSound(read, cycle, ia) /\ cycle \in Nat /\ ia \in Nat
          /\ read.known
      BY <1>1, <1>3
    <3>3. /\ IsChild(z) /\ ChildSound(z, cycle, ia)
          /\ z.known = read.known /\ z.refused = read.refused /\ z.reading = read.reading
          /\ z.generation = read.generation /\ z.identity = read.identity
      <4> HIDE DEF cycle
      <4> QED
        BY <3>2, ReadFailed
    <3> HIDE DEF z
    <3>4. /\ IsChild(after) /\ ChildSound(after, r.cycle, ia)
          /\ after.known = read.known /\ after.refused = read.refused
          /\ after.reading = read.reading
          /\ after.generation = read.generation /\ after.identity = read.identity
      BY <3>1, <3>3
    <3> QED
      BY <1>1, <1>3, <3>4
  <2> QED
    BY <1>1, <2>1, <2>2, <2>3 DEF Reasons
<1>6. evidence = "current" =>
        /\ after.identity /\ after.generation = r.generation
        /\ \A g \in Groups \ after.refused : after.reading[g] = r.cycle
  <2> HIDE DEF after, read
  <2> SUFFICES ASSUME r.reason = "read", NEW g \in Groups \ after.refused
               PROVE  after.reading[g] = r.cycle
    BY <1>5
  <2>1. g =< LastGroup
    BY DEF Groups
  <2>3. g \in r.answered \cup c.refused
    BY <2>1 DEF ReadTo
  <2>2. g \in r.answered
    BY <1>5, <2>3
  <2> QED
    BY <1>3, <1>5, <2>2
<1>10. evidence # "none" /\ r.reason # "backoff"
  BY <1>1 DEF Reasons
<1> HIDE DEF after, evidence, read
<1>7. r.state.children[r.unit].refused \subseteq after.refused
  BY <1>5
<1>8. ChildSound(after, r.cycle, r.state.identifiedAt)
  BY <1>5
<1> HIDE DEF c
<1>9. Continues(Onward(Observe(y, r.unit, evidence, r.reason)), r, path)
  BY <1>1, <1>5, <1>6, <1>7, <1>8, <1>10, PutObservedOnward
<1> QED
  BY <1>2, <1>9

LEMMA NextGroupSound ==
    ASSUME NEW path, NEW r, Sound(r, path), Serves(r), ReadTo(r, r.group)
    PROVE  Continues(NextGroup(r), r, path)
<1> DEFINE c == r.state.children[r.unit]
           pending == {g \in Groups : g > r.group /\ g \notin c.refused}
           next == Min(pending)
           y == Exchange(r, "group")
           x == [y EXCEPT !.group = next]
<1>1. IsRun(r) /\ Serving(r) /\ r.group \in Nat /\ r.err = "none"
  BY DEF Sound, Serves, Serving, Visiting, IsRun
<1>2. Groups \subseteq Nat /\ \A g \in Groups : g =< LastGroup
  BY DEF Groups
<1>3. NextGroup(r) = IF pending = {} THEN Monitored(r) ELSE x
  BY DEF NextGroup
<1>4. CASE pending = {}
  <2>1. \A g \in Groups : g =< r.group \/ g \in c.refused
    <3> SUFFICES ASSUME NEW g \in Groups PROVE g =< r.group \/ g \in c.refused
      OBVIOUS
    <3>1. g \notin pending
      BY <1>4
    <3> HIDE DEF c
    <3> QED
      BY <1>1, <1>2, <3>1
  <2>2. ReadTo(r, LastGroup)
    BY <2>1 DEF ReadTo
  <2>3. Continues(Monitored(r), r, path)
    BY <2>2, MonitoredSound
  <2> QED
    BY <1>3, <1>4, <2>3
<1>5. CASE pending # {}
  <2>1. next \in pending /\ \A g \in pending : next =< g
    <3>1. pending \in SUBSET Nat /\ pending # {}
      BY <1>2, <1>5
    <3> HIDE DEF pending
    <3> QED
      BY <3>1, LeastOfNats
  <2>2. next \in Groups \ c.refused /\ next > r.group /\ next \in Nat
    BY <1>2, <2>1
  <2>3. /\ RunAlike(y, r) /\ OutputAlike(y, r) /\ PlanAlike(y, r)
        /\ y.step = "group" /\ y.err = r.err
    BY <1>1, ExchangeAlike
  <2> HIDE DEF y, next
  <2>4. /\ RunAlike(x, r) /\ OutputAlike(x, r) /\ x.step = "group" /\ x.err = r.err
        /\ x.group = next /\ x.answered = r.answered /\ x.reason = r.reason
    <3>1. IsRun(y)
      BY <2>3 DEF RunAlike
    <3>2. /\ x.session = y.session /\ x.generation = y.generation /\ x.cycle = y.cycle
          /\ x.unit = y.unit /\ x.state = y.state /\ x.out = y.out
          /\ x.step = y.step /\ x.err = y.err
          /\ x.group = next /\ x.answered = y.answered /\ x.reason = y.reason
      BY <3>1 DEF IsRun, RunFields
    <3>3. IsRun(x)
      BY <2>2, <3>1, <3>2 DEF IsRun, RunFields
    <3> HIDE DEF x
    <3> QED
      BY <2>3, <3>2, <3>3 DEF RunAlike, StateAlike, OutputAlike, PlanAlike
  <2> HIDE DEF x, pending
  <2>5. Sound(x, path) /\ Follows(x, r)
    BY <2>4, AlikeSound
  <2>6. Serving(x) /\ Serves(x)
    BY <1>1, <2>4, AlikeServing
  <2>7. AtGroup(x)
    <3>1. x.state.children[x.unit] = c
      BY <2>4 DEF RunAlike, StateAlike
    <3>2. ReadTo(x, x.group - 1)
      <4> SUFFICES ASSUME x.reason = "read", NEW h \in Groups, h =< x.group - 1
                   PROVE  h \in x.answered \cup x.state.children[x.unit].refused
        BY DEF ReadTo
      <4>1. h \in Nat /\ h < next
        BY <1>2, <2>2, <2>4
      <4>2. CASE h =< r.group
        BY <2>4, <3>1, <4>2 DEF ReadTo
      <4>3. CASE ~(h =< r.group)
        <5>1. h \notin pending
          BY <2>1, <2>2, <4>1
        <5> QED
          BY <1>1, <3>1, <4>1, <4>3, <5>1 DEF pending
      <4> QED
        BY <4>2, <4>3
    <3> QED
      BY <2>2, <2>4, <2>6, <3>1, <3>2 DEF AtGroup
  <2>8. RunSound(x, path)
    BY <2>4, <2>5, <2>6, <2>7 DEF RunSound, Steps, OpenSteps, ChildSteps
  <2> QED
    BY <1>3, <1>5, <2>5, <2>8 DEF Continues
<1> QED
  BY <1>4, <1>5

LEMMA MonitorSound ==
    ASSUME NEW path, NEW r, Sound(r, path), Serves(r)
    PROVE  Continues(Monitor(r), r, path)
<1> DEFINE y == [r EXCEPT !.group = 0, !.answered = {}, !.reason = "read"]
<1>1. IsRun(r) /\ Serving(r)
  BY DEF Sound, Serves
<1>2. /\ RunAlike(y, r) /\ OutputAlike(y, r) /\ y.err = r.err /\ y.group = 0
  <2>1. /\ y.session = r.session /\ y.generation = r.generation /\ y.cycle = r.cycle
        /\ y.unit = r.unit /\ y.state = r.state /\ y.out = r.out
        /\ y.err = r.err /\ y.group = 0
    BY <1>1 DEF IsRun, RunFields
  <2>2. IsRun(y)
    BY <1>1, <2>1 DEF IsRun, RunFields, Reasons
  <2> HIDE DEF y
  <2> QED
    BY <1>1, <2>1, <2>2 DEF RunAlike, StateAlike, OutputAlike, IsRun
<1>3. Monitor(r) = NextGroup(y)
  BY DEF Monitor
<1> HIDE DEF y
<1>4. Sound(y, path) /\ Follows(y, r)
  BY <1>2, AlikeSound
<1>5. Serves(y)
  BY <1>2, AlikeServing
<1>6. ReadTo(y, y.group)
  BY <1>2 DEF ReadTo, Groups
<1>7. Continues(NextGroup(y), y, path)
  BY <1>4, <1>5, <1>6, NextGroupSound
<1>8. Continues(NextGroup(y), r, path)
  BY <1>4, <1>7, FollowsOn DEF Continues
<1> QED
  BY <1>3, <1>8

(* A group was read: its answer is kept, its refusal is remembered.        *)
LEMMA AfterGroupSound ==
    ASSUME NEW path, NEW r, Sound(r, path), AtGroup(r), NEW result \in Results,
           NEW x \in AfterGroup(r, result)
    PROVE  /\ Continues(x, r, path)
           /\ result = "refused" => r.group \in Remembered(x.state, r.unit)
<1> DEFINE c == r.state.children[r.unit]
<1>1. /\ IsRun(r) /\ Serves(r) /\ Serving(r) /\ r.state.identified /\ r.unit \in Units
      /\ c.known /\ r.group \in Groups /\ r.group \in Nat /\ ReadTo(r, r.group - 1)
  BY DEF Sound, Serves, Serving, Visiting, AtGroup, IsRun
<1>2. CASE result = "answered"
  <2> DEFINE y == [r EXCEPT !.answered = r.answered \cup {r.group}]
  <2>1. x = NextGroup(y)
    BY <1>2 DEF AfterGroup
  <2>2. /\ RunAlike(y, r) /\ OutputAlike(y, r) /\ y.err = r.err /\ y.group = r.group
        /\ y.answered = r.answered \cup {r.group} /\ y.reason = r.reason
    <3>1. /\ y.session = r.session /\ y.generation = r.generation /\ y.cycle = r.cycle
          /\ y.unit = r.unit /\ y.state = r.state /\ y.out = r.out
          /\ y.err = r.err /\ y.group = r.group
          /\ y.answered = r.answered \cup {r.group} /\ y.reason = r.reason
      BY <1>1 DEF IsRun, RunFields
    <3>2. IsRun(y)
      BY <1>1, <3>1 DEF IsRun, RunFields
    <3> HIDE DEF y
    <3> QED
      BY <1>1, <3>1, <3>2 DEF RunAlike, StateAlike, OutputAlike, IsRun
  <2> HIDE DEF y
  <2>3. Sound(y, path) /\ Follows(y, r)
    BY <2>2, AlikeSound
  <2>4. Serves(y)
    BY <1>1, <2>2, AlikeServing
  <2>5. ReadTo(y, y.group)
    <3> SUFFICES ASSUME y.reason = "read", NEW h \in Groups, h =< r.group
                 PROVE  h \in r.answered \cup {r.group} \cup c.refused
      BY <2>2 DEF ReadTo, RunAlike, StateAlike
    <3>1. h \in Nat
      BY DEF Groups
    <3>2. CASE h = r.group
      BY <3>2
    <3>3. CASE h # r.group
      <4>1. h =< r.group - 1
        BY <1>1, <3>1, <3>3
      <4> QED
        BY <1>1, <2>2, <4>1 DEF ReadTo
    <3> QED
      BY <3>2, <3>3
  <2>6. Continues(NextGroup(y), y, path)
    BY <2>3, <2>4, <2>5, NextGroupSound
  <2>7. Continues(NextGroup(y), r, path)
    BY <2>3, <2>6, FollowsOn DEF Continues
  <2> QED
    BY <1>2, <2>1, <2>7
<1>3. CASE result = "exception"
  <2> DEFINE y == [r EXCEPT !.reason = "exception"]
  <2>1. x = NextGroup(y)
    BY <1>3 DEF AfterGroup
  <2>2. RunAlike(y, r) /\ OutputAlike(y, r) /\ y.err = r.err /\ y.reason = "exception"
    <3>1. /\ y.session = r.session /\ y.generation = r.generation /\ y.cycle = r.cycle
          /\ y.unit = r.unit /\ y.state = r.state /\ y.out = r.out
          /\ y.err = r.err /\ y.reason = "exception"
      BY <1>1 DEF IsRun, RunFields
    <3>2. IsRun(y)
      BY <1>1, <3>1 DEF IsRun, RunFields, Reasons
    <3> HIDE DEF y
    <3> QED
      BY <1>1, <3>1, <3>2 DEF RunAlike, StateAlike, OutputAlike, IsRun
  <2> HIDE DEF y
  <2>3. Sound(y, path) /\ Follows(y, r)
    BY <2>2, AlikeSound
  <2>4. Serves(y)
    BY <1>1, <2>2, AlikeServing
  <2>5. ReadTo(y, y.group)
    BY <2>2 DEF ReadTo
  <2>6. Continues(NextGroup(y), y, path)
    BY <2>3, <2>4, <2>5, NextGroupSound
  <2>7. Continues(NextGroup(y), r, path)
    BY <2>3, <2>6, FollowsOn DEF Continues
  <2> QED
    BY <1>3, <2>1, <2>7
<1>4. CASE result = "failed"
  <2> DEFINE y == [r EXCEPT !.reason = "failed"]
  <2>1. x = Monitored(y)
    BY <1>4 DEF AfterGroup
  <2>2. RunAlike(y, r) /\ OutputAlike(y, r) /\ y.err = r.err /\ y.reason = "failed"
    <3>1. /\ y.session = r.session /\ y.generation = r.generation /\ y.cycle = r.cycle
          /\ y.unit = r.unit /\ y.state = r.state /\ y.out = r.out
          /\ y.err = r.err /\ y.reason = "failed"
      BY <1>1 DEF IsRun, RunFields
    <3>2. IsRun(y)
      BY <1>1, <3>1 DEF IsRun, RunFields, Reasons
    <3> HIDE DEF y
    <3> QED
      BY <1>1, <3>1, <3>2 DEF RunAlike, StateAlike, OutputAlike, IsRun
  <2> HIDE DEF y
  <2>3. Sound(y, path) /\ Follows(y, r)
    BY <2>2, AlikeSound
  <2>4. Serves(y)
    BY <1>1, <2>2, AlikeServing
  <2>5. ReadTo(y, LastGroup)
    BY <2>2 DEF ReadTo
  <2>6. Continues(Monitored(y), y, path)
    BY <2>3, <2>4, <2>5, MonitoredSound
  <2>7. Continues(Monitored(y), r, path)
    BY <2>3, <2>6, FollowsOn DEF Continues
  <2> QED
    BY <1>4, <2>1, <2>7
<1>5. CASE result = "refused"
  <2> DEFINE u == r.unit
             more == {r.group}
             ia == r.state.identifiedAt
             cycle == r.cycle
             d == [c EXCEPT !.refused = @ \cup more]
             z == [r EXCEPT !.state.children[u] = d]
             y == [z EXCEPT !.reason = "exception"]
  <2>1. x = NextGroup(y)
    <3>1. y = [r EXCEPT !.state.children[r.unit].refused = @ \cup {r.group},
                        !.reason = "exception"]
      BY <1>1 DEF IsRun, RunFields, IsState, StateFields, IsChild, ChildFields
    <3> QED
      BY <1>5, <3>1 DEF AfterGroup
  <2>2. /\ IsChild(c) /\ ChildSound(c, cycle, ia) /\ cycle \in Nat /\ ia \in Nat
        /\ more \in SUBSET Groups
    BY <1>1 DEF Sound, IsRun, IsState, StateSound
  <2>3. /\ IsChild(d) /\ ChildSound(d, cycle, ia)
        /\ d.known = c.known /\ d.refused = c.refused \cup more /\ d.reading = c.reading
        /\ d.generation = c.generation /\ d.identity = c.identity /\ SameBackoff(d, c)
    <3> HIDE DEF c, more, ia, cycle
    <3> QED
      BY <2>2, RefusalAdded
  <2>4. d.known /\ d.identity /\ d.generation = r.generation
    BY <1>1, <2>3 DEF Serves
  <2> HIDE DEF d
  <2>5. RunPut(z, r, u, d)
    <3>1. u \in Units
      BY <1>1
    <3> HIDE DEF u
    <3> QED
      BY <1>1, <2>3, <3>1, PutRun
  <2> HIDE DEF z
  <2>6. RunPut(y, r, u, d) /\ y.reason = "exception"
    <3>1. IsRun(z)
      BY <2>5 DEF RunPut
    <3>2. /\ y.session = z.session /\ y.generation = z.generation /\ y.cycle = z.cycle
          /\ y.unit = z.unit /\ y.state = z.state /\ y.out = z.out
          /\ y.err = z.err /\ y.reason = "exception"
      BY <3>1 DEF IsRun, RunFields
    <3>3. IsRun(y)
      BY <3>1, <3>2 DEF IsRun, RunFields, Reasons
    <3> HIDE DEF y
    <3> QED
      BY <2>5, <3>2, <3>3 DEF RunPut
  <2> HIDE DEF y
  <2>7. /\ r.state.children[u].known /\ r.out.children[u] = Unseen
        /\ ChildSound(d, r.cycle, r.state.identifiedAt)
        /\ r.state.children[u].refused \subseteq d.refused
    BY <1>1, <2>3, ServingAhead DEF Serving
  <2>8. Sound(y, path) /\ Follows(y, r)
    BY <1>1, <2>3, <2>4, <2>6, <2>7, PutSound
  <2>9. Serving(y) /\ y.state.children[y.unit] = d
    BY <1>1, <2>3, <2>4, <2>6, PutServing
  <2>10. Serves(y)
    BY <2>4, <2>6, <2>9 DEF Serves, RunPut
  <2>11. ReadTo(y, y.group)
    BY <2>6 DEF ReadTo
  <2>12. Continues(NextGroup(y), y, path)
    BY <2>8, <2>10, <2>11, NextGroupSound
  <2>13. Continues(NextGroup(y), r, path)
    BY <2>8, <2>12, FollowsOn DEF Continues
  <2>14. r.group \in Remembered(y.state, r.unit)
    BY <2>3, <2>4, <2>6 DEF Remembered, RunPut
  <2>15. Remembered(y.state, r.unit) \subseteq Remembered(x.state, r.unit)
    BY <1>1, <2>1, <2>12 DEF Continues, Follows, StateFollows
  <2> QED
    BY <2>1, <2>13, <2>14, <2>15
<1> QED
  BY <1>2, <1>3, <1>4, <1>5 DEF Results

-----------------------------------------------------------------------------
(* The admission of a child                                                *)

LEMMA ExchangeChild ==
    ASSUME NEW path, NEW r, Sound(r, path), Serving(r), NEW step \in AdmissionSteps
    PROVE  Continues(Exchange(r, step), r, path)
<1> DEFINE x == Exchange(r, step)
<1>1. IsRun(r)
  BY DEF Sound
<1>2. RunAlike(x, r) /\ OutputAlike(x, r) /\ x.step = step /\ x.err = r.err
  BY <1>1, ExchangeAlike
<1> HIDE DEF x
<1>3. Sound(x, path) /\ Follows(x, r)
  BY <1>2, AlikeSound
<1>4. Serving(x)
  BY <1>2, AlikeServing
<1>5. RunSound(x, path)
  BY <1>2, <1>3, <1>4 DEF RunSound, Steps, OpenSteps, ChildSteps, AdmissionSteps
<1> QED
  BY <1>3, <1>5 DEF Continues, x

(* The served child is withheld.                                           *)
LEMMA WithheldOnward ==
    ASSUME NEW path, NEW r, Sound(r, path), Serving(r)
    PROVE  LET y == [r EXCEPT !.state.children[r.unit] = Withhold(r.state.children[r.unit])]
           IN  Continues(Onward(Observe(y, r.unit, "withheld", "definitive")), r, path)
<1> DEFINE c == r.state.children[r.unit]
           cycle == r.cycle
           ia == r.state.identifiedAt
           d == Withhold(c)
           evidence == "withheld"
           reason == "definitive"
           y == [r EXCEPT !.state.children[r.unit] = d]
<1>1. /\ IsRun(r) /\ c.known /\ IsChild(c) /\ ChildSound(c, cycle, ia)
      /\ cycle \in Nat /\ ia \in Nat
  BY DEF Sound, Serving, Visiting, IsRun, IsState, StateSound
<1>2. /\ IsChild(d) /\ ChildSound(d, cycle, ia)
      /\ d.known = c.known /\ d.refused = c.refused
      /\ d.generation = c.generation /\ ~d.identity
  <2> HIDE DEF c, cycle, ia
  <2> QED
    BY <1>1, Withheld
<1> HIDE DEF d
<1>3. /\ d.known /\ r.state.children[r.unit].refused \subseteq d.refused
      /\ ChildSound(d, r.cycle, r.state.identifiedAt)
  BY <1>1, <1>2
<1>4. evidence # "current" /\ evidence # "none" /\ reason # "backoff"
  OBVIOUS
<1> HIDE DEF evidence, reason
<1>5. Continues(Onward(Observe(y, r.unit, evidence, reason)), r, path)
  BY <1>2, <1>3, <1>4, PutObservedOnward
<1> QED
  BY <1>5 DEF d, evidence, reason

(* An admission read that did not answer backs the child off or withholds  *)
(* it.                                                                     *)
LEMMA AdmissionStoppedSound ==
    ASSUME NEW path, NEW r, Sound(r, path), Serving(r), NEW result
    PROVE  Continues(AdmissionStopped(r, result), r, path)
<1> DEFINE c == r.state.children[r.unit]
           cycle == r.cycle
           ia == r.state.identifiedAt
           d == FailedRead(c, cycle)
           evidence == StaleOrWithheld(d)
           reason == "failed"
           y == [r EXCEPT !.state.children[r.unit] = d]
<1>1. /\ IsRun(r) /\ c.known /\ IsChild(c) /\ ChildSound(c, cycle, ia)
      /\ cycle \in Nat /\ ia \in Nat
  BY DEF Sound, Serving, Visiting, IsRun, IsState, StateSound
<1>2. CASE result = "failed"
  <2>1. AdmissionStopped(r, result) = Onward(Observe(y, r.unit, evidence, reason))
    BY <1>2 DEF AdmissionStopped
  <2>2. /\ IsChild(d) /\ ChildSound(d, cycle, ia)
        /\ d.known = c.known /\ d.refused = c.refused /\ d.reading = c.reading
        /\ d.generation = c.generation /\ d.identity = c.identity
    <3> HIDE DEF c, cycle, ia
    <3> QED
      BY <1>1, ReadFailed
  <2>3. evidence # "current" /\ evidence # "none" /\ reason # "backoff"
    BY DEF StaleOrWithheld
  <2> HIDE DEF d
  <2>4. /\ d.known /\ r.state.children[r.unit].refused \subseteq d.refused
        /\ ChildSound(d, r.cycle, r.state.identifiedAt)
    BY <1>1, <2>2
  <2> HIDE DEF evidence, reason
  <2>5. Continues(Onward(Observe(y, r.unit, evidence, reason)), r, path)
    BY <2>2, <2>3, <2>4, PutObservedOnward
  <2> QED
    BY <2>1, <2>5
<1>3. CASE result # "failed"
  <2> DEFINE z == [r EXCEPT !.state.children[r.unit] = Withhold(r.state.children[r.unit])]
  <2>1. AdmissionStopped(r, result) = Onward(Observe(z, r.unit, "withheld", "definitive"))
    BY <1>3 DEF AdmissionStopped
  <2>2. Continues(Onward(Observe(z, r.unit, "withheld", "definitive")), r, path)
    BY WithheldOnward
  <2> HIDE DEF z
  <2> QED
    BY <2>1, <2>2
<1> QED
  BY <1>2, <1>3

LEMMA AdmittedSound ==
    ASSUME NEW path, NEW r, Sound(r, path), Serving(r)
    PROVE  Continues(Admitted(r), r, path)
<1> DEFINE u == r.unit
           c == r.state.children[u]
           ia == r.state.identifiedAt
           d == BindIdentity(c, r)
           y == [r EXCEPT !.state.children[u] = d]
<1>1. /\ IsRun(r) /\ u \in Units /\ r.state.identified /\ c.known /\ IsChild(c)
      /\ ChildSound(c, r.cycle, ia) /\ ia \in Nat /\ ia =< r.cycle
  BY DEF Sound, Serving, Visiting, IsRun, IsState, StateSound
<1>2. Admitted(r) = Monitor(y)
  BY DEF Admitted
<1>3. /\ IsChild(d) /\ ChildSound(d, r.cycle, ia)
      /\ d.known /\ d.refused = c.refused
      /\ d.identity /\ d.generation = r.generation /\ SameBackoff(d, c)
  <2> HIDE DEF c, ia
  <2> QED
    BY <1>1, IdentityBound
<1> HIDE DEF d
<1>4. RunPut(y, r, u, d)
  <2> HIDE DEF u
  <2> QED
    BY <1>1, <1>3, PutRun
<1> HIDE DEF y
<1>5. /\ r.state.children[u].known /\ r.out.children[u] = Unseen
      /\ ChildSound(d, r.cycle, r.state.identifiedAt)
      /\ r.state.children[u].refused \subseteq d.refused
  BY <1>1, <1>3, ServingAhead DEF Serving
<1>6. Sound(y, path) /\ Follows(y, r)
  BY <1>1, <1>3, <1>4, <1>5, PutSound
<1>7. Serving(y) /\ y.state.children[y.unit] = d
  BY <1>3, <1>4, PutServing
<1>8. Serves(y)
  BY <1>3, <1>4, <1>7 DEF Serves, RunPut
<1>9. Continues(Monitor(y), y, path)
  BY <1>6, <1>8, MonitorSound
<1> QED
  BY <1>2, <1>6, <1>9, FollowsOn DEF Continues

LEMMA AfterAdmissionSound ==
    ASSUME NEW path, NEW r, Sound(r, path), Serving(r), r.step \in AdmissionSteps,
           NEW result, NEW x \in AfterAdmission(r, result)
    PROVE  Continues(x, r, path)
<1>1. CASE result # "answered"
  <2>1. x = AdmissionStopped(r, result)
    BY <1>1 DEF AfterAdmission
  <2> QED
    BY <2>1, AdmissionStoppedSound
<1>2. CASE result = "answered"
  <2>1. Continues(Refused(r), r, path)
    <3> DEFINE z == [r EXCEPT !.state.children[r.unit] =
                        Withhold(r.state.children[r.unit])]
    <3>1. Refused(r) = Onward(Observe(z, r.unit, "withheld", "definitive"))
      BY DEF Refused
    <3>2. Continues(Onward(Observe(z, r.unit, "withheld", "definitive")), r, path)
      BY WithheldOnward
    <3> HIDE DEF z
    <3> QED
      BY <3>1, <3>2
  <2>2. CASE x = Refused(r)
    BY <2>1, <2>2
  <2>3. CASE x = Admitted(r)
    BY <2>3, AdmittedSound
  <2>4. CASE \E step \in AdmissionSteps : x = Exchange(r, step)
    BY <2>4, ExchangeChild
  <2>5. x = Refused(r) \/ x = Admitted(r) \/ \E step \in AdmissionSteps : x = Exchange(r, step)
    BY <1>2 DEF AfterAdmission, AdmissionSteps
  <2> QED
    BY <2>2, <2>3, <2>4, <2>5
<1> QED
  BY <1>1, <1>2

LEMMA ReadChildSound ==
    ASSUME NEW path, NEW r, Sound(r, path), Serving(r), NEW admission \in AdmissionSteps
    PROVE  Continues(ReadChild(r, admission), r, path)
<1> DEFINE c == r.state.children[r.unit]
<1>1. CASE c.identity /\ c.generation = r.generation
  <2>1. Serves(r)
    BY <1>1 DEF Serves
  <2>2. ReadChild(r, admission) = Monitor(r)
    BY <1>1 DEF ReadChild
  <2> QED
    BY <2>1, <2>2, MonitorSound
<1>2. CASE ~(c.identity /\ c.generation = r.generation)
  <2>1. ReadChild(r, admission) = Exchange(r, admission)
    BY <1>2 DEF ReadChild
  <2> QED
    BY <2>1, ExchangeChild
<1> QED
  BY <1>1, <1>2

LEMMA ServeChildSound ==
    ASSUME NEW path, NEW r, Sound(r, path), Visiting(r), NEW admission \in AdmissionSteps
    PROVE  Continues(ServeChild(r, admission), r, path)
<1> DEFINE c == r.state.children[r.unit]
           wait == c.skipUntil > r.cycle
<1>1. /\ r.state.identified /\ r.err = "none" /\ r.unit \in Units /\ IsRun(r)
      /\ UnseenFrom(r, {v \in Units : v > r.unit})
      /\ c.definitive \in BOOLEAN /\ c.failedAt < r.cycle
      /\ IsChild(c) /\ BackoffSound(c, r.cycle, r.state.identifiedAt)
  <2>1. /\ r.state.identified /\ r.err = "none" /\ r.unit \in Units /\ IsRun(r)
        /\ UnseenFrom(r, {v \in Units : v > r.unit})
    BY ServingAhead DEF Sound, Visiting
  <2>2. IsChild(c) /\ ChildSound(c, r.cycle, r.state.identifiedAt)
    BY <2>1 DEF Sound, IsRun, IsState, StateSound
  <2>3. r.unit \in {v \in Units : v >= r.unit}
    BY <2>1 DEF IsRun
  <2>4. c.failedAt < r.cycle
    BY <2>3 DEF Visiting, UnseenFrom
  <2> QED
    BY <2>1, <2>2, <2>4 DEF ChildSound, IsChild
<1>6. /\ c.failedAt \in Nat /\ c.skipUntil \in Nat /\ DocumentedWait(c.failures) \in Nat
      /\ r.cycle \in Nat /\ r.state.identifiedAt \in Nat
  BY <1>1, WaitsAsDocumented DEF IsChild, IsRun, IsState
<1>2. ServeChild(r, admission) =
        CASE c.definitive -> Onward(Observe(r, r.unit, "withheld", "definitive"))
          [] ~c.definitive /\ wait ->
               Onward(Observe(r, r.unit, StaleOrWithheld(c), "backoff"))
          [] OTHER -> ReadChild(r, admission)
  BY DEF ServeChild
<1>3. CASE c.definitive
  <2> DEFINE evidence == "withheld"
             reason == "definitive"
  <2>1. evidence # "current" /\ evidence # "none" /\ reason # "backoff"
    OBVIOUS
  <2>2. Continues(Onward(Observe(r, r.unit, evidence, reason)), r, path)
    <3> HIDE DEF evidence, reason
    <3> QED
      BY <1>1, <2>1, ObservedOnward
  <2>3. ServeChild(r, admission) = Onward(Observe(r, r.unit, evidence, reason))
    <3> HIDE DEF wait
    <3> QED
      BY <1>2, <1>3
  <2> QED
    BY <2>2, <2>3
<1>4. CASE ~c.definitive /\ wait
  <2> DEFINE evidence == StaleOrWithheld(c)
             reason == "backoff"
  <2>1. evidence # "current" /\ evidence # "none"
    BY DEF StaleOrWithheld
  <2>4. r.cycle =< c.failedAt + DocumentedWait(c.failures)
    BY <1>1, <1>4, <1>6 DEF BackoffSound
  <2>2. Continues(Onward(Observe(r, r.unit, evidence, reason)), r, path)
    <3> HIDE DEF evidence, reason
    <3> QED
      BY <1>1, <2>1, <2>4, ObservedOnward
  <2>3. ServeChild(r, admission) = Onward(Observe(r, r.unit, evidence, reason))
    <3> HIDE DEF wait
    <3> QED
      BY <1>2, <1>4
  <2> QED
    BY <2>2, <2>3
<1>5. CASE ~c.definitive /\ ~wait
  <2>1. ServeChild(r, admission) = ReadChild(r, admission)
    <3> HIDE DEF wait
    <3> QED
      BY <1>2, <1>5
  <2>2. Serving(r)
    BY <1>1, <1>5, <1>6 DEF Serving, Due, BackoffSound
  <2> QED
    BY <2>1, <2>2, ReadChildSound
<1> HIDE DEF wait, c
<1> QED
  BY <1>3, <1>4, <1>5

-----------------------------------------------------------------------------
(* The state as a whole                                                    *)

(* While nothing is reported, the state may be replaced by a sound one     *)
(* that forgets no child and no refusal.                                   *)
LEMMA OpenReplaced ==
    ASSUME NEW path, NEW r, Sound(r, path), UnseenFrom(r, Units),
           NEW x, IsRun(x), OutputAlike(x, r),
           x.session = r.session, x.generation = r.generation, x.cycle = r.cycle,
           StateSound(x.state, r.cycle, path), IdentifiedOn(x.state, r.generation),
           StateFollows(x.state, r.state), SameBackoffs(x.state, r.state)
    PROVE  Sound(x, path) /\ Follows(x, r) /\ UnseenFrom(x, Units)
<1>1. UnseenFrom(x, Units)
  BY DEF UnseenFrom, OutputAlike, SameBackoffs, SameBackoff
<1>2. OutputSound(x)
  BY <1>1 DEF UnseenFrom, OutputSound, Reported, Unseen
<1>3. Follows(x, r)
  BY DEF Follows, BackoffFollows, OutputAlike, SameBackoffs
<1> QED
  BY <1>1, <1>2, <1>3 DEF Sound

LEMMA ChildrenReplaced ==
    ASSUME NEW path, NEW s, IsState(s), NEW cycle, StateSound(s, cycle, path),
           NEW kids, DOMAIN kids = Units,
           \A u \in Units :
             /\ IsChild(kids[u]) /\ ChildSound(kids[u], cycle, s.identifiedAt)
             /\ kids[u].known = s.children[u].known
             /\ kids[u].refused = s.children[u].refused
             /\ kids[u].identity = s.children[u].identity
             /\ SameBackoff(kids[u], s.children[u])
    PROVE  LET x == [s EXCEPT !.children = kids]
           IN  /\ IsState(x) /\ StateSound(x, cycle, path)
               /\ StateFollows(x, s) /\ SameBackoffs(x, s)
               /\ x.identified = s.identified
               /\ x.identityGeneration = s.identityGeneration
               /\ x.gatewayFenced = s.gatewayFenced /\ x.verdict = s.verdict
<1> DEFINE x == [s EXCEPT !.children = kids]
<1>1. /\ x.identified = s.identified /\ x.identityGeneration = s.identityGeneration
      /\ x.gatewayFenced = s.gatewayFenced /\ x.verdict = s.verdict
      /\ x.identifiedAt = s.identifiedAt /\ x.carried = s.carried /\ x.children = kids
      /\ DOMAIN x = StateFields /\ x.reidentify = s.reidentify
      /\ x.unstable = s.unstable /\ x.endpointFailures = s.endpointFailures
      /\ x.listing = s.listing
  BY DEF IsState, StateFields
<1> HIDE DEF x
<1>2. IsState(x)
  BY <1>1 DEF IsState
<1>3. StateSound(x, cycle, path)
  BY <1>1 DEF StateSound
<1>4. StateFollows(x, s) /\ SameBackoffs(x, s)
  BY <1>1 DEF StateFollows, Remembered, SameBackoffs
<1> QED
  BY <1>1, <1>2, <1>3, <1>4 DEF x

(* x is s with the child of u met, and possibly changed otherwise.         *)
MetIn(x, s, u) ==
    /\ IsState(x)
    /\ x.identified = s.identified /\ x.identityGeneration = s.identityGeneration
    /\ x.gatewayFenced = s.gatewayFenced /\ x.verdict = s.verdict
    /\ x.identifiedAt = s.identifiedAt
    /\ \A v \in Units \ {u} :
          x.children[v] = s.children[v] /\ x.carried[v] = s.carried[v]
    /\ x.children[u].known /\ SameBackoff(x.children[u], s.children[u])
    /\ Remembered(s, u) \subseteq x.children[u].refused

LEMMA MetState ==
    ASSUME NEW path, NEW s, IsState(s), NEW cycle \in Nat, StateSound(s, cycle, path),
           NEW u \in Units, path = "sdongle" => u = ChildUnit
    PROVE  MetIn(Meet(s, u), s, u) /\ StateSound(Meet(s, u), cycle, path)
<1>1. CASE s.children[u].known
  BY <1>1 DEF Meet, MetIn, Remembered, SameBackoff
<1>2. CASE ~s.children[u].known
  <2> DEFINE refused == s.carried[u]
             ia == s.identifiedAt
             c == [NewChild EXCEPT !.known = TRUE, !.refused = refused]
             x == [s EXCEPT !.children[u] = c, !.carried[u] = {}]
  <2>1. Meet(s, u) = x
    BY <1>2 DEF Meet
  <2>2. refused \in SUBSET Groups /\ ia \in Nat
    BY DEF IsState
  <2>3. /\ IsChild(c) /\ ChildSound(c, cycle, ia) /\ c.known /\ c.refused = refused /\ ~c.identity
        /\ c.failures = 0 /\ c.failedAt = 0
    <3> HIDE DEF refused, ia
    <3> QED
      BY <2>2, Newborn
  <2> HIDE DEF c
  <2>4. /\ x.identified = s.identified /\ x.identityGeneration = s.identityGeneration
        /\ x.gatewayFenced = s.gatewayFenced /\ x.verdict = s.verdict
        /\ x.identifiedAt = s.identifiedAt
        /\ \A v \in Units \ {u} :
              x.children[v] = s.children[v] /\ x.carried[v] = s.carried[v]
        /\ x.children[u] = c /\ x.carried[u] = {}
        /\ DOMAIN x = StateFields /\ x.reidentify = s.reidentify
        /\ x.unstable = s.unstable /\ x.endpointFailures = s.endpointFailures
        /\ x.listing = s.listing /\ DOMAIN x.children = Units
        /\ x.carried \in [Units -> SUBSET Groups]
    BY DEF IsState, StateFields
  <2> HIDE DEF x
  <2>5. \A v \in Units : IsChild(x.children[v])
    BY <2>3, <2>4 DEF IsState
  <2>6. IsState(x)
    BY <2>4, <2>5 DEF IsState
  <2>9. s.children[u].failures = 0 /\ s.children[u].failedAt = 0
    BY <1>2 DEF StateSound, ChildSound, BackoffSound
  <2>7. MetIn(x, s, u)
    BY <1>2, <2>3, <2>4, <2>6, <2>9 DEF MetIn, Remembered, SameBackoff
  <2>8. StateSound(x, cycle, path)
    BY <2>3, <2>4 DEF StateSound
  <2> QED
    BY <2>1, <2>7, <2>8
<1> QED
  BY <1>1, <1>2

LEMMA MetFollows ==
    ASSUME NEW s, NEW u \in Units, NEW x, MetIn(x, s, u)
    PROVE  StateFollows(x, s) /\ SameBackoffs(x, s)
BY DEF StateFollows, MetIn, Remembered, SameBackoffs, SameBackoff

-----------------------------------------------------------------------------
(* The SmartLogger's children                                              *)

LEMMA RouteOn ==
    ASSUME NEW path, NEW r, Sound(r, path), Routing(r)
    PROVE  Continues(Onward(r), r, path)
<1> DEFINE x == Onward(r)
<1>1. IsRun(r)
  BY DEF Sound
<1>2. RunAlike(x, r) /\ OutputAlike(x, r) /\ x.step = "route" /\ x.err = r.err
  BY <1>1, OnwardAlike
<1> HIDE DEF x
<1>3. Sound(x, path) /\ Follows(x, r)
  BY <1>2, AlikeSound
<1>4. Routing(x)
  BY <1>2 DEF Routing, RunAlike, StateAlike, OutputAlike, UnseenFrom
<1> QED
  BY <1>2, <1>3, <1>4 DEF Continues, RunSound, Steps, OpenSteps, ChildSteps, x

LEMMA ReadChildrenSound ==
    ASSUME NEW path, NEW r, Sound(r, path), r.state.identified, r.err = "none",
           UnseenFrom(r, Units)
    PROVE  Continues(ReadChildren(r), r, path)
<1> DEFINE s == r.state
           cycle == r.cycle
           kids == [u \in Units |->
                      IF s.children[u].known /\ u \notin RoutedUnits(s)
                      THEN [s.children[u] EXCEPT !.ineligible = TRUE] ELSE s.children[u]]
           t == [s EXCEPT !.children = kids]
           y == [r EXCEPT !.unit = 0, !.state = t]
<1>1. IsRun(r) /\ IsState(s) /\ StateSound(s, cycle, path) /\ cycle \in Nat
  BY DEF Sound, IsRun
<1>2. ReadChildren(r) = Onward(y)
  <2>1. y = [r EXCEPT !.unit = 0,
                      !.state.children = [u \in Units |->
                         IF r.state.children[u].known /\ u \notin RoutedUnits(r.state)
                         THEN [r.state.children[u] EXCEPT !.ineligible = TRUE]
                         ELSE r.state.children[u]]]
    BY <1>1 DEF IsRun, RunFields, IsState, StateFields
  <2> QED
    BY <2>1 DEF ReadChildren
<1>3. DOMAIN kids = Units
  OBVIOUS
<1>4. \A u \in Units :
        /\ IsChild(kids[u]) /\ ChildSound(kids[u], cycle, s.identifiedAt)
        /\ kids[u].known = s.children[u].known
        /\ kids[u].refused = s.children[u].refused
        /\ kids[u].identity = s.children[u].identity
        /\ SameBackoff(kids[u], s.children[u])
  <2> SUFFICES ASSUME NEW u \in Units
               PROVE  /\ IsChild(kids[u]) /\ ChildSound(kids[u], cycle, s.identifiedAt)
                      /\ kids[u].known = s.children[u].known
                      /\ kids[u].refused = s.children[u].refused
                      /\ kids[u].identity = s.children[u].identity
                      /\ SameBackoff(kids[u], s.children[u])
    OBVIOUS
  <2> DEFINE c == s.children[u]
             ia == s.identifiedAt
             b == TRUE
             d == [c EXCEPT !.ineligible = b]
  <2>1. kids[u] = IF c.known /\ u \notin RoutedUnits(s) THEN d ELSE c
    OBVIOUS
  <2>2. IsChild(c) /\ ChildSound(c, cycle, ia) /\ ia \in Nat /\ b \in BOOLEAN
    BY <1>1 DEF IsState, StateSound
  <2>3. /\ IsChild(d) /\ ChildSound(d, cycle, ia)
        /\ d.known = c.known /\ d.refused = c.refused /\ d.reading = c.reading
        /\ d.generation = c.generation /\ d.identity = c.identity /\ SameBackoff(d, c)
    <3> HIDE DEF c, ia, cycle, b
    <3> QED
      BY <1>1, <2>2, EligibilitySet
  <2> HIDE DEF kids, d
  <2> QED
    BY <2>1, <2>2, <2>3 DEF SameBackoff
<1> HIDE DEF kids
<1>5. /\ IsState(t) /\ StateSound(t, cycle, path)
      /\ StateFollows(t, s) /\ SameBackoffs(t, s)
      /\ t.identified = s.identified
      /\ t.identityGeneration = s.identityGeneration
      /\ t.gatewayFenced = s.gatewayFenced /\ t.verdict = s.verdict
  <2> HIDE DEF s, cycle
  <2> QED
    BY <1>1, <1>3, <1>4, ChildrenReplaced
<1> HIDE DEF t
<1>6. /\ IsRun(y) /\ OutputAlike(y, r) /\ y.state = t /\ y.err = r.err
      /\ y.session = r.session /\ y.generation = r.generation /\ y.cycle = r.cycle
  BY <1>1, <1>5 DEF IsRun, RunFields, OutputAlike
<1> HIDE DEF y
<1>7. /\ StateSound(y.state, r.cycle, path) /\ IdentifiedOn(y.state, r.generation)
      /\ StateFollows(y.state, r.state) /\ SameBackoffs(y.state, r.state)
  BY <1>5, <1>6 DEF Sound, IdentifiedOn
<1>8. Sound(y, path) /\ Follows(y, r) /\ UnseenFrom(y, Units)
  BY <1>6, <1>7, OpenReplaced
<1>9. Routing(y)
  BY <1>5, <1>6, <1>8 DEF Routing, UnseenFrom
<1>10. Continues(Onward(y), y, path)
  BY <1>8, <1>9, RouteOn
<1> QED
  BY <1>2, <1>8, <1>10, FollowsOn DEF Continues

LEMMA RouteChildSound ==
    ASSUME NEW path, path # "sdongle", NEW r, Sound(r, path), Routing(r),
           NEW u \in Units, u > r.unit
    PROVE  Continues(RouteChild(r, u), r, path)
<1> DEFINE rs == r.state
           cycle == r.cycle
           s == Meet(rs, u)
           class == s.listing[u]
           b == ~(class # "absent" /\ (u \in Allowed => class = "sun2000"))
           c == s.children[u]
           ia == s.identifiedAt
           d == [c EXCEPT !.ineligible = b]
           t == [s EXCEPT !.children[u] = d]
           met == [r EXCEPT !.unit = u, !.state = t]
<1>1. /\ IsRun(r) /\ IsState(rs) /\ StateSound(rs, cycle, path) /\ cycle \in Nat
      /\ u \in Nat /\ r.state.identified /\ r.err = "none" /\ r.unit \in Nat
      /\ r.out.children[u] = Unseen /\ rs.children[u].failedAt < cycle
  BY DEF Sound, IsRun, Routing, UnseenFrom
<1>2. MetIn(s, rs, u) /\ StateSound(s, cycle, path)
  <2> HIDE DEF rs, cycle
  <2> QED
    BY <1>1, MetState
<1>3. IsChild(c) /\ ChildSound(c, cycle, ia) /\ ia \in Nat /\ b \in BOOLEAN
  <2> HIDE DEF s
  <2> QED
    BY <1>2 DEF MetIn, IsState, StateSound
<1>4. /\ IsChild(d) /\ ChildSound(d, cycle, ia)
      /\ d.known = c.known /\ d.refused = c.refused /\ d.reading = c.reading
      /\ d.generation = c.generation /\ d.identity = c.identity /\ SameBackoff(d, c)
  <2> HIDE DEF c, ia, cycle, b
  <2> QED
    BY <1>1, <1>3, EligibilitySet
<1>5. RouteChild(r, u) =
        CASE class = "absent" -> Onward(Observe(met, u, "withheld", "not_listed"))
          [] class # "absent" /\ u \notin Allowed ->
               Onward(Observe(met, u, "withheld", "not_allowlisted"))
          [] u \in Allowed /\ class = "other" ->
               Onward(Observe(met, u, "withheld", "no_class_contract"))
          [] u \in Allowed /\ class = "sun2000" -> ServeChild(met, "model")
  <2>1. t = [s EXCEPT !.children[u].ineligible = b]
    <3> HIDE DEF s, b
    <3> QED
      BY <1>2 DEF MetIn, IsState, StateFields
  <2>2. met = [r EXCEPT !.unit = u, !.state = [s EXCEPT !.children[u].ineligible = b]]
    BY <2>1
  <2> HIDE DEF t, met
  <2> QED
    BY <2>2 DEF RouteChild
<1>6. class \in Classes
  <2> HIDE DEF s
  <2> QED
    BY <1>2 DEF MetIn, IsState
<1> HIDE DEF d, s, class, b
<1>7. MetIn(t, rs, u) /\ t.children[u] = d /\ StateSound(t, cycle, path)
  <2>1. /\ t.identified = s.identified /\ t.identityGeneration = s.identityGeneration
        /\ t.gatewayFenced = s.gatewayFenced /\ t.verdict = s.verdict
        /\ t.identifiedAt = s.identifiedAt
        /\ \A v \in Units \ {u} : t.children[v] = s.children[v]
        /\ t.children[u] = d /\ t.carried = s.carried
        /\ DOMAIN t = StateFields /\ t.reidentify = s.reidentify
        /\ t.unstable = s.unstable /\ t.endpointFailures = s.endpointFailures
        /\ t.listing = s.listing /\ DOMAIN t.children = Units
    BY <1>2 DEF MetIn, IsState, StateFields
  <2> HIDE DEF t
  <2>2. \A v \in Units : IsChild(t.children[v])
    BY <1>2, <1>4, <2>1 DEF MetIn, IsState
  <2>3. IsState(t)
    BY <1>2, <2>1, <2>2 DEF MetIn, IsState
  <2>4. MetIn(t, rs, u)
    <3> HIDE DEF rs, c, cycle, ia, met
    <3>1. \A v \in Units \ {u} : t.children[v] = rs.children[v] /\ t.carried[v] = rs.carried[v]
      BY <1>2, <2>1 DEF MetIn
    <3>2. /\ t.children[u].known /\ Remembered(rs, u) \subseteq t.children[u].refused
          /\ SameBackoff(t.children[u], rs.children[u])
      <4> USE DEF c
      <4> QED
        BY <1>2, <1>4, <2>1 DEF MetIn, SameBackoff
    <3> QED
      BY <1>2, <2>1, <2>3, <3>1, <3>2 DEF MetIn
  <2>5. StateSound(t, cycle, path)
    BY <1>2, <1>4, <2>1 DEF StateSound
  <2> QED
    BY <2>1, <2>4, <2>5
<1> HIDE DEF t
<1>8. /\ IsRun(met) /\ met.state = t /\ met.err = r.err /\ met.unit = u /\ met.out = r.out
      /\ met.session = r.session /\ met.generation = r.generation /\ met.cycle = r.cycle
  <2>1. IsState(t)
    BY <1>7 DEF MetIn
  <2> QED
    BY <1>1, <2>1 DEF IsRun, RunFields
<1> HIDE DEF met
<1>9. OutputSound(met)
  <2> SUFFICES ASSUME NEW v \in Units PROVE Reported(met, v)
    BY DEF OutputSound
  <2>1. CASE v = u
    BY <1>1, <1>8, <2>1 DEF Reported, Unseen
  <2>2. CASE v # u
    BY <1>7, <1>8, <2>2 DEF Sound, OutputSound, Reported, MetIn
  <2> QED
    BY <2>1, <2>2
<1>10. Sound(met, path)
  <2>1. IdentifiedOn(met.state, met.generation)
    BY <1>7, <1>8 DEF MetIn, IdentifiedOn, Sound
  <2> QED
    BY <1>7, <1>8, <1>9, <2>1 DEF Sound
<1>11. Follows(met, r)
  <2>1. StateFollows(t, rs) /\ SameBackoffs(t, rs)
    <3> HIDE DEF rs
    <3> QED
      BY <1>7, MetFollows
  <2> QED
    BY <1>8, <2>1 DEF Follows, BackoffFollows, SameBackoffs
<1>12. UnseenFrom(met, {v \in Units : v >= met.unit})
  <2> SUFFICES ASSUME NEW v \in Units, v >= met.unit
               PROVE  /\ met.out.children[v] = Unseen
                      /\ met.state.children[v].failedAt < met.cycle
    BY DEF UnseenFrom
  <2>1. v \in Nat /\ v > r.unit
    <3>1. v \in Nat /\ u \in Nat /\ r.unit \in Nat /\ v >= u
      BY <1>1, <1>8
    <3> HIDE DEF rs, cycle, c, ia
    <3> QED
      BY <3>1
  <2>2. r.out.children[v] = Unseen /\ rs.children[v].failedAt < cycle
    BY <2>1 DEF Routing, UnseenFrom
  <2>3. SameBackoff(t.children[v], rs.children[v])
    BY <1>7 DEF MetIn, SameBackoff
  <2> QED
    BY <1>8, <2>2, <2>3 DEF SameBackoff
<1>13. Visiting(met)
  BY <1>1, <1>2, <1>4, <1>7, <1>8, <1>12 DEF Visiting, MetIn
<1>14. ASSUME NEW reason, reason # "backoff"
       PROVE  Continues(Onward(Observe(met, u, "withheld", reason)), met, path)
  <2> DEFINE evidence == "withheld"
  <2>1. /\ UnseenFrom(met, {v \in Units : v > met.unit})
        /\ met.state.identified /\ met.err = "none" /\ met.unit \in Units
    BY <1>8, <1>10, <1>13, ServingAhead DEF Sound, Visiting
  <2>2. evidence # "current" /\ evidence # "none" /\ reason # "backoff"
    BY <1>14
  <2> HIDE DEF evidence
  <2>3. Continues(Onward(Observe(met, met.unit, evidence, reason)), met, path)
    BY <1>10, <2>1, <2>2, ObservedOnward
  <2> QED
    BY <1>8, <2>3 DEF evidence
<1>15. Continues(RouteChild(r, u), met, path)
  <2>1. CASE class = "absent"
    <3>1. RouteChild(r, u) = Onward(Observe(met, u, "withheld", "not_listed"))
      BY <1>5, <2>1
    <3> QED
      BY <1>14, <3>1
  <2>2. CASE class # "absent" /\ u \notin Allowed
    <3>1. RouteChild(r, u) = Onward(Observe(met, u, "withheld", "not_allowlisted"))
      BY <1>5, <2>2
    <3> QED
      BY <1>14, <3>1
  <2>3. CASE u \in Allowed /\ class = "other"
    <3>1. RouteChild(r, u) = Onward(Observe(met, u, "withheld", "no_class_contract"))
      BY <1>5, <2>3
    <3> QED
      BY <1>14, <3>1
  <2>4. CASE u \in Allowed /\ class = "sun2000"
    <3> DEFINE admission == "model"
    <3>1. RouteChild(r, u) = ServeChild(met, admission)
      BY <1>5, <2>4
    <3>2. admission \in AdmissionSteps
      BY DEF AdmissionSteps
    <3> HIDE DEF admission
    <3>3. Continues(ServeChild(met, admission), met, path)
      BY <1>10, <1>13, <3>2, ServeChildSound
    <3> QED
      BY <3>1, <3>3
  <2> QED
    BY <1>6, <2>1, <2>2, <2>3, <2>4 DEF Classes
<1> QED
  BY <1>11, <1>15, FollowsOn DEF Continues

LEMMA CompleteSound ==
    ASSUME NEW path, NEW r, Sound(r, path)
    PROVE  Continues(Finish(r, "complete"), r, path)
<1> DEFINE outcome == "complete"
           x == Finish(r, outcome)
<1>1. IsRun(r)
  BY DEF Sound
<1>2. RunAlike(x, r) /\ OutputAlike(x, r) /\ x.step = "done" /\ x.out.outcome = outcome
  <2> HIDE DEF outcome
  <2> QED
    BY <1>1, FinishAlike
<1> HIDE DEF x
<1>3. Sound(x, path) /\ Follows(x, r)
  BY <1>2, AlikeSound
<1>4. Ended(x)
  BY <1>2 DEF Ended
<1> QED
  BY <1>2, <1>3, <1>4 DEF Continues, RunSound, Steps, OpenSteps, ChildSteps, x

LEMMA SmartLoggerRouteSound ==
    ASSUME NEW path, path # "sdongle", NEW r, Sound(r, path), Routing(r)
    PROVE  Continues(SmartLoggerRoute(r), r, path)
<1> DEFINE pending == {u \in RoutedUnits(r.state) : u > r.unit}
           next == Min(pending)
<1>1. CASE pending = {}
  <2>1. SmartLoggerRoute(r) = Finish(r, "complete")
    BY <1>1 DEF SmartLoggerRoute
  <2> QED
    BY <2>1, CompleteSound
<1>2. CASE pending # {}
  <2>1. SmartLoggerRoute(r) = RouteChild(r, next)
    BY <1>2 DEF SmartLoggerRoute
  <2>2. pending \in SUBSET Nat /\ pending \subseteq Units
    BY DEF RoutedUnits
  <2>3. next \in pending
    <3> HIDE DEF pending
    <3> QED
      BY <1>2, <2>2, LeastOfNats
  <2>4. next \in Units /\ next > r.unit
    BY <2>2, <2>3
  <2> HIDE DEF next
  <2>5. Continues(RouteChild(r, next), r, path)
    BY <2>4, RouteChildSound
  <2> QED
    BY <2>1, <2>5
<1> QED
  BY <1>1, <1>2

-----------------------------------------------------------------------------
(* Before the children: the guard and the identification                   *)

LEMMA FlagsAlike ==
    ASSUME NEW r, IsRun(r), NEW reidentify \in BOOLEAN, NEW gateway
    PROVE  LET x == [r EXCEPT !.state.reidentify = reidentify, !.state.gateway = gateway]
           IN  RunAlike(x, r) /\ OutputAlike(x, r) /\ x.step = r.step /\ x.err = r.err
<1> DEFINE x == [r EXCEPT !.state.reidentify = reidentify, !.state.gateway = gateway]
<1>1. /\ x.step = r.step /\ x.err = r.err /\ x.out = r.out
      /\ x.session = r.session /\ x.generation = r.generation /\ x.cycle = r.cycle
      /\ x.unit = r.unit
  BY DEF IsRun, RunFields
<1>2. StateAlike(x.state, r.state)
  BY DEF StateAlike, IsRun, RunFields, IsState, StateFields
<1>3. IsRun(x)
  BY <1>1, <1>2 DEF IsRun, RunFields, StateAlike
<1> QED
  BY <1>1, <1>2, <1>3 DEF RunAlike, OutputAlike

LEMMA HeldAlike ==
    ASSUME NEW r, IsRun(r)
    PROVE  LET x == [r EXCEPT !.state.endpointFailures = 0, !.state.gateway = "identified"]
           IN  RunAlike(x, r) /\ OutputAlike(x, r) /\ x.step = r.step /\ x.err = r.err
<1> DEFINE x == [r EXCEPT !.state.endpointFailures = 0, !.state.gateway = "identified"]
<1>1. /\ x.step = r.step /\ x.err = r.err /\ x.out = r.out
      /\ x.session = r.session /\ x.generation = r.generation /\ x.cycle = r.cycle
      /\ x.unit = r.unit
  BY DEF IsRun, RunFields
<1>2. StateAlike(x.state, r.state)
  BY DEF StateAlike, IsRun, RunFields, IsState, StateFields
<1>3. IsRun(x)
  BY <1>1, <1>2 DEF IsRun, RunFields, StateAlike
<1> QED
  BY <1>1, <1>2, <1>3 DEF RunAlike, OutputAlike

LEMMA CountersAlike ==
    ASSUME NEW r, IsRun(r), NEW unstable \in Nat, NEW wait
    PROVE  LET x == [r EXCEPT !.state.unstable = unstable, !.out.wait = wait]
           IN  RunAlike(x, r) /\ OutputAlike(x, r) /\ x.step = r.step /\ x.err = r.err
<1> DEFINE x == [r EXCEPT !.state.unstable = unstable, !.out.wait = wait]
<1>1. /\ x.step = r.step /\ x.err = r.err /\ x.out.children = r.out.children
      /\ x.session = r.session /\ x.generation = r.generation /\ x.cycle = r.cycle
      /\ x.unit = r.unit
  BY DEF IsRun, RunFields, IsOutput, OutputFields
<1>2. IsOutput(x.out)
  BY <1>1 DEF IsRun, RunFields, IsOutput, OutputFields
<1>3. StateAlike(x.state, r.state)
  BY DEF StateAlike, IsRun, RunFields, IsState, StateFields
<1>4. IsRun(x)
  BY <1>1, <1>2, <1>3 DEF IsRun, RunFields, StateAlike
<1> QED
  BY <1>1, <1>3, <1>4 DEF RunAlike, OutputAlike

(* x is r with the gateway's identity lost, or its tuple rejected.         *)
Unidentified(x, r) ==
    /\ IsRun(x) /\ OutputAlike(x, r)
    /\ x.session = r.session /\ x.generation = r.generation /\ x.cycle = r.cycle
    /\ ~x.state.identified
    /\ x.state.children = r.state.children /\ x.state.carried = r.state.carried
    /\ x.state.identifiedAt = r.state.identifiedAt
    /\ \/ x.state.gatewayFenced /\ x.state.verdict = "mismatch"
       \/ /\ x.state.gatewayFenced = r.state.gatewayFenced
          /\ x.state.verdict = r.state.verdict

LEMMA LostEnd ==
    ASSUME NEW path, NEW r, Sound(r, path), UnseenFrom(r, Units),
           NEW x, Unidentified(x, r), NEW withheld \in BOOLEAN, NEW outcome
    PROVE  Continues(Finish(StaleChildren(x, withheld), outcome), r, path)
<1>1. StateSound(x.state, r.cycle, path)
  BY DEF Sound, StateSound, Unidentified
<1>2. IdentifiedOn(x.state, r.generation)
  BY DEF IdentifiedOn, Unidentified
<1>3. StateFollows(x.state, r.state) /\ SameBackoffs(x.state, r.state)
  BY DEF StateFollows, Unidentified, Remembered, SameBackoffs, SameBackoff
<1>4. Sound(x, path) /\ Follows(x, r) /\ UnseenFrom(x, Units)
  BY <1>1, <1>2, <1>3, OpenReplaced DEF Unidentified
<1>7. NoneReported(x)
  BY <1>4 DEF NoneReported, UnseenFrom
<1> DEFINE y == Finish(StaleChildren(x, withheld), outcome)
<1>5. RunSound(y, path) /\ Follows(y, x)
  BY <1>4, <1>7, StaleEnd
<1> HIDE DEF y
<1>6. Continues(y, r, path)
  BY <1>4, <1>5, FollowsOn DEF Continues
<1> QED
  BY <1>6 DEF y

LEMMA AlikeEnd ==
    ASSUME NEW path, NEW r, Sound(r, path), UnseenFrom(r, Units), NEW x, RunAlike(x, r), OutputAlike(x, r),
           NEW withheld \in BOOLEAN, NEW outcome
    PROVE  Continues(Finish(StaleChildren(x, withheld), outcome), r, path)
<1>1. Sound(x, path) /\ Follows(x, r)
  BY AlikeSound
<1>4. NoneReported(x)
  BY DEF NoneReported, UnseenFrom, OutputAlike
<1> DEFINE y == Finish(StaleChildren(x, withheld), outcome)
<1>2. RunSound(y, path) /\ Follows(y, x)
  BY <1>1, <1>4, StaleEnd
<1> HIDE DEF y
<1>3. Continues(y, r, path)
  BY <1>1, <1>2, FollowsOn DEF Continues
<1> QED
  BY <1>3 DEF y

(* One more read before the children.                                      *)
LEMMA OpenAlike ==
    ASSUME NEW path, NEW r, Sound(r, path), UnseenFrom(r, Units), r.err = "none",
           NEW x, RunAlike(x, r), OutputAlike(x, r), x.err = r.err,
           x.step \in OpenSteps, x.step = "guard" => r.state.identified,
           x.step \in {"search", "tuple"} => path = "sdongle"
    PROVE  Continues(x, r, path)
<1>1. Sound(x, path) /\ Follows(x, r)
  BY AlikeSound
<1>2. Opening(x, path)
  BY DEF Opening, UnseenFrom, OutputAlike, RunAlike, StateAlike
<1> QED
  BY <1>1, <1>2 DEF Continues, RunSound, Steps, OpenSteps, ChildSteps

LEMMA ExchangeOpen ==
    ASSUME NEW path, NEW r, Sound(r, path), UnseenFrom(r, Units), r.err = "none",
           NEW step \in OpenSteps, step = "guard" => r.state.identified,
           step \in {"search", "tuple"} => path = "sdongle"
    PROVE  Continues(Exchange(r, step), r, path)
<1> DEFINE x == Exchange(r, step)
<1>1. IsRun(r)
  BY DEF Sound
<1>2. RunAlike(x, r) /\ OutputAlike(x, r) /\ x.step = step /\ x.err = r.err
  BY <1>1, ExchangeAlike
<1> HIDE DEF x
<1>3. Continues(x, r, path)
  BY <1>2, OpenAlike
<1> QED
  BY <1>3 DEF x

LEMMA ReidentifyAlike ==
    ASSUME NEW r, IsRun(r)
    PROVE  LET x == [r EXCEPT !.state.reidentify = TRUE]
           IN  RunAlike(x, r) /\ OutputAlike(x, r) /\ x.step = r.step /\ x.err = r.err
<1> DEFINE x == [r EXCEPT !.state.reidentify = TRUE]
<1>1. /\ x.step = r.step /\ x.err = r.err /\ x.out = r.out
      /\ x.session = r.session /\ x.generation = r.generation /\ x.cycle = r.cycle
      /\ x.unit = r.unit
  BY DEF IsRun, RunFields
<1>2. StateAlike(x.state, r.state)
  BY DEF StateAlike, IsRun, RunFields, IsState, StateFields
<1>3. IsRun(x)
  BY <1>1, <1>2 DEF IsRun, RunFields, StateAlike
<1> QED
  BY <1>1, <1>2, <1>3 DEF RunAlike, OutputAlike

LEMMA AlikeBoth ==
    ASSUME NEW r, NEW y, NEW x, RunAlike(y, r), OutputAlike(y, r),
           RunAlike(x, y), OutputAlike(x, y)
    PROVE  RunAlike(x, r) /\ OutputAlike(x, r)
BY DEF RunAlike, StateAlike, OutputAlike

LEMMA AfterGuardSound ==
    ASSUME NEW path, NEW r, Sound(r, path), UnseenFrom(r, Units), r.err = "none",
           r.state.identified, NEW result \in Results \ {"refused"},
           NEW x \in AfterGuard(r, result)
    PROVE  Continues(x, r, path)
<1> DEFINE a == TRUE
           gateway == "unconfirmed"
           b == FALSE
           outcome == "incomplete"
           lost == [r EXCEPT !.state.reidentify = a, !.state.gateway = gateway]
           held == [r EXCEPT !.state.endpointFailures = 0, !.state.gateway = "identified"]
           changed == [r EXCEPT !.state.reidentify = TRUE]
<1>1. IsRun(r) /\ a \in BOOLEAN /\ b \in BOOLEAN
  BY DEF Sound
<1>2. RunAlike(lost, r) /\ OutputAlike(lost, r)
  <2> HIDE DEF a, gateway
  <2> QED
    BY <1>1, FlagsAlike
<1>3. RunAlike(held, r) /\ OutputAlike(held, r) /\ held.err = r.err
  BY <1>1, HeldAlike
<1>4. RunAlike(changed, r) /\ OutputAlike(changed, r)
  BY <1>1, ReidentifyAlike
<1>5. \/ x = ReadChildren(held)
      \/ x = Finish(StaleChildren(changed, b), outcome)
      \/ x = Finish(StaleChildren(lost, b), outcome)
      \/ x = Finish(StaleChildren(EndpointFailed(lost), b), outcome)
  BY DEF AfterGuard, Results
<1> HIDE DEF lost, held, changed, b, outcome
<1>6. CASE x = ReadChildren(held)
  <2>1. Sound(held, path) /\ Follows(held, r)
    BY <1>3, AlikeSound
  <2>2. held.state.identified /\ held.err = "none" /\ UnseenFrom(held, Units)
    BY <1>3 DEF RunAlike, StateAlike, OutputAlike, UnseenFrom
  <2>3. Continues(ReadChildren(held), held, path)
    BY <2>1, <2>2, ReadChildrenSound
  <2> QED
    BY <1>6, <2>1, <2>3, FollowsOn DEF Continues
<1>7. CASE x = Finish(StaleChildren(changed, b), outcome)
  BY <1>1, <1>4, <1>7, AlikeEnd
<1>8. CASE x = Finish(StaleChildren(lost, b), outcome)
  BY <1>1, <1>2, <1>8, AlikeEnd
<1>9. CASE x = Finish(StaleChildren(EndpointFailed(lost), b), outcome)
  <2> DEFINE y == EndpointFailed(lost)
  <2>1. IsRun(lost)
    BY <1>2 DEF RunAlike
  <2>2. RunAlike(y, lost) /\ OutputAlike(y, lost)
    BY <2>1, EndpointFailedAlike
  <2> HIDE DEF y
  <2>3. RunAlike(y, r) /\ OutputAlike(y, r)
    BY <1>2, <2>2, AlikeBoth
  <2>4. Continues(Finish(StaleChildren(y, b), outcome), r, path)
    BY <1>1, <2>3, AlikeEnd
  <2> QED
    BY <1>9, <2>4 DEF y
<1> QED
  BY <1>5, <1>6, <1>7, <1>8, <1>9

(* The gateway matches its card: every child is to be admitted again.      *)
LEMMA GatewayIdentifiedSound ==
    ASSUME NEW path, NEW r, Sound(r, path), UnseenFrom(r, Units), r.err = "none",
           NEW listing \in [Units -> Classes]
    PROVE  Continues(GatewayIdentified(r, listing), r, path)
<1> DEFINE s == r.state
           event(c) == IF c.known THEN IdentificationEvent(c) ELSE c
           kids == [u \in Units |-> event(s.children[u])]
           t == [s EXCEPT
                   !.unstable = 0, !.endpointFailures = 0, !.identified = TRUE,
                   !.identityGeneration = r.generation, !.reidentify = FALSE,
                   !.gatewayFenced = FALSE, !.gateway = "identified", !.listing = listing,
                   !.children = kids, !.verdict = "match", !.identifiedAt = r.cycle]
           y == [r EXCEPT !.state = t]
<1>1. GatewayIdentified(r, listing) = ReadChildren(y)
  BY DEF GatewayIdentified
<1>2. /\ IsRun(r) /\ IsState(s) /\ StateSound(s, r.cycle, path)
      /\ r.cycle \in Nat /\ r.generation \in Nat
  BY DEF Sound, IsRun
<1>3. \A u \in Units :
        /\ IsChild(kids[u]) /\ ChildSound(kids[u], r.cycle, r.cycle)
        /\ kids[u].known = s.children[u].known
        /\ kids[u].refused = s.children[u].refused
        /\ SameBackoff(kids[u], s.children[u])
  <2> SUFFICES ASSUME NEW u \in Units
               PROVE  /\ IsChild(kids[u]) /\ ChildSound(kids[u], r.cycle, r.cycle)
                      /\ kids[u].known = s.children[u].known
                      /\ kids[u].refused = s.children[u].refused
                      /\ SameBackoff(kids[u], s.children[u])
    OBVIOUS
  <2> DEFINE c == s.children[u]
             ia == s.identifiedAt
             cycle == r.cycle
             d == IdentificationEvent(c)
  <2>1. kids[u] = IF c.known THEN d ELSE c
    OBVIOUS
  <2>2. /\ IsChild(c) /\ ChildSound(c, cycle, ia) /\ ia \in Nat /\ cycle \in Nat
        /\ c.failedAt < cycle
    BY <1>2 DEF IsState, StateSound, UnseenFrom
  <2>3. /\ IsChild(d) /\ ChildSound(d, cycle, cycle)
        /\ d.known = c.known /\ d.refused = c.refused /\ d.identity = c.identity
        /\ SameBackoff(d, c)
    <3> HIDE DEF c, ia, cycle
    <3> QED
      BY <2>2, Reidentified
  <2>4. ~c.known => ChildSound(c, cycle, cycle)
    <3> SUFFICES ASSUME ~c.known PROVE BackoffSound(c, cycle, cycle)
      BY <2>2 DEF ChildSound
    <3>1. c.failures = 0 /\ DocumentedWait(0) = 0
      BY <2>2, WaitsAsDocumented DEF ChildSound, BackoffSound
    <3> QED
      BY <2>2, <3>1 DEF ChildSound, BackoffSound
  <2> HIDE DEF kids, d
  <2> QED
    BY <2>1, <2>2, <2>3, <2>4 DEF SameBackoff
<1>4. DOMAIN kids = Units
  OBVIOUS
<1> HIDE DEF kids
<1>5. /\ t.identified /\ t.identityGeneration = r.generation
      /\ ~t.gatewayFenced /\ t.verdict = "match" /\ t.identifiedAt = r.cycle
      /\ t.carried = s.carried /\ t.children = kids
      /\ DOMAIN t = StateFields /\ t.reidentify = FALSE
      /\ t.unstable = 0 /\ t.endpointFailures = 0 /\ t.listing = listing
      /\ t.identified = TRUE /\ t.gatewayFenced = FALSE
  BY <1>2 DEF IsState, StateFields
<1> HIDE DEF t
<1>6. IsState(t)
  <2>1. t.identified \in BOOLEAN /\ t.gatewayFenced \in BOOLEAN /\ t.reidentify \in BOOLEAN
    BY <1>5
  <2> QED
    BY <1>2, <1>3, <1>4, <1>5, <2>1 DEF IsState, Verdicts
<1>7. StateSound(t, r.cycle, path)
  BY <1>2, <1>3, <1>5 DEF StateSound
<1>8. StateFollows(t, s) /\ SameBackoffs(t, s)
  BY <1>3, <1>5 DEF StateFollows, Remembered, SameBackoffs
<1>9. /\ IsRun(y) /\ OutputAlike(y, r) /\ y.state = t /\ y.err = r.err
      /\ y.session = r.session /\ y.generation = r.generation /\ y.cycle = r.cycle
  BY <1>2, <1>6 DEF IsRun, RunFields, OutputAlike
<1> HIDE DEF y
<1>10. /\ StateSound(y.state, r.cycle, path) /\ IdentifiedOn(y.state, r.generation)
       /\ StateFollows(y.state, r.state) /\ SameBackoffs(y.state, r.state)
  BY <1>5, <1>7, <1>8, <1>9 DEF IdentifiedOn
<1>11. Sound(y, path) /\ Follows(y, r) /\ UnseenFrom(y, Units)
  BY <1>9, <1>10, OpenReplaced
<1>12. Continues(ReadChildren(y), y, path)
  BY <1>5, <1>9, <1>11, ReadChildrenSound
<1> QED
  BY <1>1, <1>11, <1>12, FollowsOn DEF Continues

LEMMA ListingUnstableSound ==
    ASSUME NEW path, NEW r, Sound(r, path), UnseenFrom(r, Units)
    PROVE  Continues(ListingUnstable(r), r, path)
<1> DEFINE third == r.state.unstable + 1 >= 3
           unstable == IF third THEN 0 ELSE r.state.unstable + 1
           wait == IF third THEN 10 ELSE r.out.wait
           y == [r EXCEPT !.state.unstable = unstable, !.out.wait = wait]
           b == FALSE
           outcome == "incomplete"
<1>1. ListingUnstable(r) = Finish(StaleChildren(y, b), outcome)
  BY DEF ListingUnstable
<1>2. IsRun(r) /\ unstable \in Nat /\ b \in BOOLEAN
  BY DEF Sound, IsRun, IsState
<1> HIDE DEF unstable, wait
<1>3. RunAlike(y, r) /\ OutputAlike(y, r)
  BY <1>2, CountersAlike
<1> HIDE DEF y, b, outcome
<1>4. Continues(Finish(StaleChildren(y, b), outcome), r, path)
  BY <1>2, <1>3, AlikeEnd
<1> QED
  BY <1>1, <1>4

LEMMA GatewayMismatchSound ==
    ASSUME NEW path, NEW r, Sound(r, path), UnseenFrom(r, Units)
    PROVE  Continues(GatewayMismatch(r), r, path)
<1> DEFINE y == [r EXCEPT !.state.identified = FALSE, !.state.gatewayFenced = TRUE,
                          !.state.gateway = "insufficient", !.state.verdict = "mismatch"]
           b == TRUE
           outcome == "insufficient"
<1>1. GatewayMismatch(r) = Finish(StaleChildren(y, b), outcome)
  BY DEF GatewayMismatch
<1>2. IsRun(r) /\ b \in BOOLEAN
  BY DEF Sound
<1>3. /\ y.session = r.session /\ y.generation = r.generation /\ y.cycle = r.cycle
      /\ y.out = r.out
  BY <1>2 DEF IsRun, RunFields
<1>4. /\ IsState(y.state) /\ ~y.state.identified /\ y.state.gatewayFenced
      /\ y.state.verdict = "mismatch" /\ y.state.identifiedAt = r.state.identifiedAt
      /\ y.state.children = r.state.children /\ y.state.carried = r.state.carried
  BY <1>2 DEF IsRun, RunFields, IsState, StateFields, Verdicts
<1>5. IsRun(y)
  BY <1>2, <1>3, <1>4 DEF IsRun, RunFields
<1> HIDE DEF y, b, outcome
<1>6. Unidentified(y, r)
  BY <1>3, <1>4, <1>5 DEF Unidentified, OutputAlike
<1>7. Continues(Finish(StaleChildren(y, b), outcome), r, path)
  BY <1>2, <1>6, LostEnd
<1> QED
  BY <1>1, <1>7

LEMMA FailedUnidentified ==
    ASSUME NEW r, NEW y, Unidentified(y, r)
    PROVE  Unidentified(EndpointFailed(y), r)
<1> DEFINE x == EndpointFailed(y)
<1>1. RunAlike(x, y) /\ OutputAlike(x, y)
  BY EndpointFailedAlike DEF Unidentified
<1> HIDE DEF x
<1>2. Unidentified(x, r)
  BY <1>1 DEF Unidentified, RunAlike, StateAlike, OutputAlike
<1> QED
  BY <1>2 DEF x

LEMMA GatewayFailedSound ==
    ASSUME NEW path, NEW r, Sound(r, path), UnseenFrom(r, Units), NEW result
    PROVE  Continues(GatewayFailed(r, result), r, path)
<1> DEFINE y == [r EXCEPT !.state.identified = FALSE, !.state.gateway = "insufficient"]
           z == IF result = "failed" THEN EndpointFailed(y) ELSE y
           b == FALSE
           outcome == "insufficient"
<1>1. GatewayFailed(r, result) = Finish(StaleChildren(z, b), outcome)
  BY DEF GatewayFailed
<1>2. IsRun(r) /\ b \in BOOLEAN
  BY DEF Sound
<1>3. /\ y.session = r.session /\ y.generation = r.generation /\ y.cycle = r.cycle
      /\ y.out = r.out
  BY <1>2 DEF IsRun, RunFields
<1>4. /\ IsState(y.state) /\ ~y.state.identified
      /\ y.state.gatewayFenced = r.state.gatewayFenced
      /\ y.state.verdict = r.state.verdict
      /\ y.state.identifiedAt = r.state.identifiedAt
      /\ y.state.children = r.state.children /\ y.state.carried = r.state.carried
  BY <1>2 DEF IsRun, RunFields, IsState, StateFields
<1>5. IsRun(y)
  BY <1>2, <1>3, <1>4 DEF IsRun, RunFields
<1> HIDE DEF y
<1>6. Unidentified(y, r)
  BY <1>3, <1>4, <1>5 DEF Unidentified, OutputAlike
<1>7. Unidentified(z, r)
  BY <1>6, FailedUnidentified
<1> HIDE DEF z, b, outcome
<1>8. Continues(Finish(StaleChildren(z, b), outcome), r, path)
  BY <1>2, <1>7, LostEnd
<1> QED
  BY <1>1, <1>8

LEMMA AfterIdentificationSound ==
    ASSUME NEW path, NEW r, Sound(r, path), UnseenFrom(r, Units), r.err = "none",
           r.step \in {"before", "inventory", "after", "basic"},
           NEW result \in (Results \ {"refused"}) \cup {"over"},
           result = "over" => r.step # "basic",
           NEW x \in AfterIdentification(r, result)
    PROVE  Continues(x, r, path)
<1>1. \/ x = ListingUnstable(r) \/ x = GatewayMismatch(r) \/ x = GatewayFailed(r, result)
      \/ \E listing \in [Units -> Classes] : x = GatewayIdentified(r, listing)
      \/ x = Exchange(r, "inventory") \/ x = Exchange(r, "after") \/ x = Exchange(r, "basic")
      \/ x = [Exchange(r, "inventory") EXCEPT !.count = @ + 1]
  <2>1. CASE result = "over"
    BY <2>1 DEF AfterIdentification
  <2>2. CASE result # "over" /\ r.step = "basic"
    BY <2>2 DEF AfterIdentification, Classes
  <2>3. CASE result # "over" /\ r.step = "before"
    BY <2>3 DEF AfterIdentification, Results
  <2>4. CASE result # "over" /\ r.step = "inventory"
    BY <2>4 DEF AfterIdentification, Results
  <2>5. CASE result # "over" /\ r.step = "after"
    BY <2>5 DEF AfterIdentification, Results
  <2> QED
    BY <2>1, <2>2, <2>3, <2>4, <2>5
<1>2. CASE \E listing \in [Units -> Classes] : x = GatewayIdentified(r, listing)
  BY <1>2, GatewayIdentifiedSound
<1>3. CASE \E step \in {"inventory", "after", "basic"} : x = Exchange(r, step)
  BY <1>3, ExchangeOpen DEF OpenSteps
<1>4. CASE x = [Exchange(r, "inventory") EXCEPT !.count = @ + 1]
  <2> DEFINE step == "inventory"
             y == Exchange(r, step)
             z == [y EXCEPT !.count = y.count + 1]
  <2>1. x = z
    BY <1>4
  <2>2. IsRun(r)
    BY DEF Sound
  <2>3. RunAlike(y, r) /\ OutputAlike(y, r) /\ y.step = step /\ y.err = r.err
    <3> HIDE DEF step
    <3> QED
      BY <2>2, ExchangeAlike
  <2> HIDE DEF y
  <2>4. RunAlike(z, r) /\ OutputAlike(z, r) /\ z.step = step /\ z.err = r.err
    <3>1. IsRun(y)
      BY <2>3 DEF RunAlike
    <3>2. /\ z.session = y.session /\ z.generation = y.generation /\ z.cycle = y.cycle
          /\ z.unit = y.unit /\ z.state = y.state /\ z.out = y.out
          /\ z.step = y.step /\ z.err = y.err
      BY <3>1 DEF IsRun, RunFields
    <3>3. IsRun(z)
      BY <3>1, <3>2 DEF IsRun, RunFields
    <3> HIDE DEF z
    <3> QED
      BY <2>3, <3>2, <3>3 DEF RunAlike, StateAlike, OutputAlike
  <2> HIDE DEF z
  <2>5. Continues(z, r, path)
    BY <2>4, OpenAlike DEF OpenSteps
  <2> QED
    BY <2>1, <2>5
<1>5. CASE x = ListingUnstable(r)
  BY <1>5, ListingUnstableSound
<1>6. CASE x = GatewayMismatch(r)
  BY <1>6, GatewayMismatchSound
<1>7. CASE x = GatewayFailed(r, result)
  BY <1>7, GatewayFailedSound
<1> QED
  BY <1>1, <1>2, <1>3, <1>4, <1>5, <1>6, <1>7

-----------------------------------------------------------------------------
(* The S-Dongle's bracket                                                  *)

LEMMA SDongleMismatchSound ==
    ASSUME NEW path, NEW r, Sound(r, path), UnseenFrom(r, Units)
    PROVE  Continues(SDongleMismatch(r), r, path)
<1> DEFINE y == [r EXCEPT !.state.identified = FALSE, !.state.reidentify = TRUE,
                          !.state.gatewayFenced = TRUE, !.state.gateway = "insufficient",
                          !.state.verdict = "mismatch"]
           b == TRUE
           outcome == "insufficient"
<1>1. SDongleMismatch(r) = Finish(StaleChildren(y, b), outcome)
  BY DEF SDongleMismatch
<1>2. IsRun(r) /\ b \in BOOLEAN
  BY DEF Sound
<1>3. /\ y.session = r.session /\ y.generation = r.generation /\ y.cycle = r.cycle
      /\ y.out = r.out
  BY <1>2 DEF IsRun, RunFields
<1>4. /\ IsState(y.state) /\ ~y.state.identified /\ y.state.gatewayFenced
      /\ y.state.verdict = "mismatch" /\ y.state.identifiedAt = r.state.identifiedAt
      /\ y.state.children = r.state.children /\ y.state.carried = r.state.carried
  BY <1>2 DEF IsRun, RunFields, IsState, StateFields, Verdicts
<1>5. IsRun(y)
  BY <1>2, <1>3, <1>4 DEF IsRun, RunFields
<1> HIDE DEF y, b, outcome
<1>6. Unidentified(y, r)
  BY <1>3, <1>4, <1>5 DEF Unidentified, OutputAlike
<1>7. Continues(Finish(StaleChildren(y, b), outcome), r, path)
  BY <1>2, <1>6, LostEnd
<1> QED
  BY <1>1, <1>7

LEMMA SDongleIdentityFailedSound ==
    ASSUME NEW path, NEW r, Sound(r, path), UnseenFrom(r, Units), NEW result
    PROVE  Continues(SDongleIdentityFailed(r, result), r, path)
<1> DEFINE y == [r EXCEPT !.state.identified = FALSE, !.state.reidentify = TRUE,
                          !.state.gateway = "insufficient"]
           z == IF result = "failed" THEN EndpointFailed(y) ELSE y
           b == FALSE
           outcome == "insufficient"
<1>1. SDongleIdentityFailed(r, result) = Finish(StaleChildren(z, b), outcome)
  BY DEF SDongleIdentityFailed
<1>2. IsRun(r) /\ b \in BOOLEAN
  BY DEF Sound
<1>3. /\ y.session = r.session /\ y.generation = r.generation /\ y.cycle = r.cycle
      /\ y.out = r.out
  BY <1>2 DEF IsRun, RunFields
<1>4. /\ IsState(y.state) /\ ~y.state.identified
      /\ y.state.gatewayFenced = r.state.gatewayFenced
      /\ y.state.verdict = r.state.verdict
      /\ y.state.identifiedAt = r.state.identifiedAt
      /\ y.state.children = r.state.children /\ y.state.carried = r.state.carried
  BY <1>2 DEF IsRun, RunFields, IsState, StateFields
<1>5. IsRun(y)
  BY <1>2, <1>3, <1>4 DEF IsRun, RunFields
<1> HIDE DEF y
<1>6. Unidentified(y, r)
  BY <1>3, <1>4, <1>5 DEF Unidentified, OutputAlike
<1>7. Unidentified(z, r)
  BY <1>6, FailedUnidentified
<1> HIDE DEF z, b, outcome
<1>8. Continues(Finish(StaleChildren(z, b), outcome), r, path)
  BY <1>2, <1>7, LostEnd
<1> QED
  BY <1>1, <1>8

(* The card's tuple matched: its one child is to be admitted again.        *)
LEMMA SDongleIdentifiedSound ==
    ASSUME NEW path, path = "sdongle", NEW r, Sound(r, path), UnseenFrom(r, Units),
           r.err = "none"
    PROVE  Continues(SDongleIdentified(r), r, path)
<1> DEFINE rs == r.state
           cycle == r.cycle
           u == ChildUnit
           s == Meet(rs, u)
           c == s.children[u]
           ia == s.identifiedAt
           d == IdentificationEvent(c)
           t == [s EXCEPT
                   !.endpointFailures = 0, !.identified = TRUE,
                   !.identityGeneration = r.generation, !.reidentify = FALSE,
                   !.gatewayFenced = FALSE, !.gateway = "identified",
                   !.children[u] = d, !.verdict = "match", !.identifiedAt = cycle]
           y == [r EXCEPT !.unit = u, !.state = t]
           admission == "identifier"
<1>1. /\ IsRun(r) /\ IsState(rs) /\ StateSound(rs, cycle, path) /\ cycle \in Nat
      /\ u \in Units /\ u \in Nat /\ r.generation \in Nat
      /\ admission \in AdmissionSteps
  BY DEF Sound, IsRun, AdmissionSteps
<1>2. SDongleIdentified(r) = Exchange(y, admission)
  BY DEF SDongleIdentified
<1>3. MetIn(s, rs, u) /\ StateSound(s, cycle, path)
  <2>1. path = "sdongle" => u = ChildUnit
    OBVIOUS
  <2> HIDE DEF rs, cycle, u
  <2> QED
    BY <1>1, <2>1, MetState
<1> HIDE DEF s
<1>4. IsChild(c) /\ ChildSound(c, cycle, ia) /\ ia \in Nat /\ c.failedAt < cycle
  <2>1. rs.children[u].failedAt < cycle
    BY <1>1 DEF UnseenFrom
  <2>2. c.failedAt = rs.children[u].failedAt
    BY <1>3 DEF MetIn, SameBackoff
  <2> QED
    BY <1>1, <1>3, <2>1, <2>2 DEF MetIn, IsState, StateSound
<1>5. /\ IsChild(d) /\ ChildSound(d, cycle, cycle)
      /\ d.known = c.known /\ d.refused = c.refused /\ d.identity = c.identity
      /\ SameBackoff(d, c)
  <2> HIDE DEF c, ia, cycle
  <2> QED
    BY <1>1, <1>4, Reidentified
<1> HIDE DEF d
<1>6. /\ t.identified = TRUE /\ t.identityGeneration = r.generation
      /\ t.gatewayFenced = FALSE /\ t.verdict = "match" /\ t.identifiedAt = cycle
      /\ t.carried = s.carried /\ t.children[u] = d
      /\ \A v \in Units \ {u} : t.children[v] = s.children[v]
      /\ DOMAIN t = StateFields /\ DOMAIN t.children = Units /\ t.reidentify = FALSE
      /\ t.unstable = s.unstable /\ t.endpointFailures = 0 /\ t.listing = s.listing
  BY <1>1, <1>3 DEF MetIn, IsState, StateFields
<1> HIDE DEF t
<1>7. IsState(t)
  <2>1. t.identified \in BOOLEAN /\ t.gatewayFenced \in BOOLEAN /\ t.reidentify \in BOOLEAN
    BY <1>6
  <2>2. \A v \in Units : IsChild(t.children[v])
    BY <1>3, <1>5, <1>6 DEF MetIn, IsState
  <2> QED
    BY <1>1, <1>3, <1>6, <2>1, <2>2 DEF MetIn, IsState, Verdicts
<1>8. StateSound(t, cycle, path)
  <2>1. \A v \in Units : ChildSound(t.children[v], cycle, cycle)
    <3> SUFFICES ASSUME NEW v \in Units PROVE ChildSound(t.children[v], cycle, cycle)
      OBVIOUS
    <3>1. CASE v = u
      BY <1>5, <1>6, <3>1
    <3>2. CASE v # u
      <4> DEFINE o == s.children[v]
      <4>1. t.children[v] = o /\ ~o.known /\ ChildSound(o, cycle, ia)
        BY <1>3, <1>6, <3>2 DEF StateSound
      <4>2. o.failures = 0 /\ DocumentedWait(0) = 0
        BY <4>1, WaitsAsDocumented DEF ChildSound, BackoffSound
      <4>3. BackoffSound(o, cycle, cycle)
        BY <4>1, <4>2 DEF ChildSound, BackoffSound
      <4> HIDE DEF o
      <4> QED
        BY <4>1, <4>3 DEF ChildSound
    <3> QED
      BY <3>1, <3>2
  <2>2. \A v \in Units : t.children[v].known => v = ChildUnit
    BY <1>3, <1>6 DEF StateSound
  <2> QED
    BY <1>1, <1>6, <2>1, <2>2 DEF StateSound
<1>9. StateFollows(t, rs) /\ SameBackoffs(t, rs)
  <2>1. /\ t.children[u].known /\ s.children[u].known
        /\ t.children[u].refused = s.children[u].refused
        /\ SameBackoff(t.children[u], s.children[u])
    BY <1>3, <1>5, <1>6 DEF MetIn
  <2>2. \A v \in Units \ {u} : t.children[v] = s.children[v] /\ t.carried[v] = s.carried[v]
    BY <1>6
  <2>3. StateFollows(t, s) /\ SameBackoffs(t, s)
    <3> HIDE DEF u
    <3> QED
      BY <2>1, <2>2 DEF StateFollows, Remembered, SameBackoffs, SameBackoff
  <2>4. StateFollows(s, rs) /\ SameBackoffs(s, rs)
    <3> HIDE DEF u, rs
    <3> QED
      BY <1>1, <1>3, MetFollows
  <2> QED
    BY <2>3, <2>4 DEF StateFollows, SameBackoffs, SameBackoff
<1>10. /\ IsRun(y) /\ OutputAlike(y, r) /\ y.state = t /\ y.err = r.err /\ y.unit = u
       /\ y.session = r.session /\ y.generation = r.generation /\ y.cycle = r.cycle
  BY <1>1, <1>7 DEF IsRun, RunFields, OutputAlike
<1> HIDE DEF y
<1>11. /\ StateSound(y.state, r.cycle, path) /\ IdentifiedOn(y.state, r.generation)
       /\ StateFollows(y.state, r.state) /\ SameBackoffs(y.state, r.state)
  BY <1>6, <1>8, <1>9, <1>10 DEF IdentifiedOn
<1>12. Sound(y, path) /\ Follows(y, r) /\ UnseenFrom(y, Units)
  BY <1>10, <1>11, OpenReplaced
<1>13. Serving(y)
  <2>1. Visiting(y)
    BY <1>1, <1>3, <1>5, <1>6, <1>10, <1>12 DEF Visiting, UnseenFrom, MetIn
  <2>2. Due(y)
    BY <1>4, <1>5, <1>6, <1>10 DEF Due, SameBackoff
  <2> QED
    BY <2>1, <2>2 DEF Serving
<1> HIDE DEF admission
<1>14. Continues(Exchange(y, admission), y, path)
  BY <1>1, <1>12, <1>13, ExchangeChild
<1> QED
  BY <1>2, <1>12, <1>14, FollowsOn DEF Continues

LEMMA AfterTupleSound ==
    ASSUME NEW path, path = "sdongle", NEW r, Sound(r, path), UnseenFrom(r, Units),
           r.err = "none", NEW result, NEW x \in AfterTuple(r, result)
    PROVE  Continues(x, r, path)
<1> DEFINE read == TupleReads[r.count]
           fits == r.fits /\ result = (IF read = "basic" THEN "exception" ELSE "answered")
           count == r.count + 1
           next == [r EXCEPT !.count = count, !.fits = fits]
           step == "tuple"
           over == result = "failed" \/ (read = "software" /\ result = "exception")
           last == result # "failed" /\ read = "search_after"
<1>1. AfterTuple(r, result) =
        CASE over -> {SDongleIdentityFailed(r, result)}
          [] last -> {SDongleMismatch(r)} \cup IF fits THEN {SDongleIdentified(r)} ELSE {}
          [] OTHER -> {Exchange(next, step)}
  BY DEF AfterTuple
<1>2. ~(over /\ last)
  OBVIOUS
<1>3. IsRun(r) /\ count \in Nat /\ fits \in BOOLEAN
  BY DEF Sound, IsRun
<1> HIDE DEF over, last, fits, count
<1>4. \/ x = SDongleIdentityFailed(r, result) \/ x = SDongleMismatch(r)
      \/ x = SDongleIdentified(r) \/ x = Exchange(next, step)
  <2>1. CASE over
    BY <1>1, <1>2, <2>1
  <2>2. CASE last
    BY <1>1, <1>2, <2>2
  <2>3. CASE ~over /\ ~last
    BY <1>1, <2>3
  <2> QED
    BY <2>1, <2>2, <2>3
<1>5. CASE x = Exchange(next, step)
  <2>1. RunAlike(next, r) /\ OutputAlike(next, r) /\ next.err = r.err
    <3>1. /\ next.session = r.session /\ next.generation = r.generation
          /\ next.cycle = r.cycle /\ next.unit = r.unit /\ next.state = r.state
          /\ next.out = r.out /\ next.err = r.err
      BY <1>3 DEF IsRun, RunFields
    <3>2. IsRun(next)
      BY <1>3, <3>1 DEF IsRun, RunFields
    <3> HIDE DEF next
    <3> QED
      BY <1>3, <3>1, <3>2 DEF RunAlike, StateAlike, OutputAlike, IsRun
  <2>2. step \in OpenSteps /\ step # "guard"
    BY DEF OpenSteps
  <2> HIDE DEF next, step
  <2>3. Sound(next, path) /\ Follows(next, r)
    BY <2>1, AlikeSound
  <2>4. UnseenFrom(next, Units) /\ next.err = "none"
    BY <2>1 DEF OutputAlike, RunAlike, StateAlike, UnseenFrom
  <2>5. Continues(Exchange(next, step), next, path)
    BY <2>2, <2>3, <2>4, ExchangeOpen
  <2> QED
    BY <1>5, <2>3, <2>5, FollowsOn DEF Continues
<1>6. CASE x = SDongleIdentityFailed(r, result)
  BY <1>6, SDongleIdentityFailedSound
<1>7. CASE x = SDongleMismatch(r)
  BY <1>7, SDongleMismatchSound
<1>8. CASE x = SDongleIdentified(r)
  BY <1>8, SDongleIdentifiedSound
<1> QED
  BY <1>4, <1>5, <1>6, <1>7, <1>8

LEMMA AfterSearchSound ==
    ASSUME NEW path, path = "sdongle", NEW r, Sound(r, path), UnseenFrom(r, Units),
           r.err = "none", NEW result \in Results \ {"refused"},
           NEW x \in AfterSearch(r, result)
    PROVE  Continues(x, r, path)
<1> DEFINE guardFailed(y) ==
             Finish(StaleChildren([y EXCEPT
                      !.state.reidentify = TRUE,
                      !.state.gateway = IF y.state.identified THEN "unconfirmed"
                                        ELSE "insufficient"], FALSE),
                    IF y.state.identified THEN "incomplete" ELSE "insufficient")
           hs == [r.state EXCEPT !.endpointFailures = 0, !.gateway = "identified"]
           cycle == r.cycle
           u == ChildUnit
           held == Meet(hs, u)
           z == [r EXCEPT !.unit = u, !.state = held]
           admission == "identifier"
           changed == [r EXCEPT !.state.reidentify = TRUE]
           first == [Exchange(r, "tuple") EXCEPT !.count = 1]
           b == FALSE
           ident == Identifying(r.state, r.generation)
<1>1. AfterSearch(r, result) =
        CASE result = "exception" -> {guardFailed(r)}
          [] result = "failed" -> {guardFailed(EndpointFailed(r))}
          [] result = "answered" /\ ident -> {first}
          [] result = "answered" /\ ~ident ->
               {ServeChild(z, admission), Finish(StaleChildren(changed, b), "incomplete")}
  BY DEF AfterSearch
<1>2. /\ IsRun(r) /\ IsState(r.state) /\ StateSound(r.state, cycle, path) /\ cycle \in Nat
      /\ u \in Units /\ u \in Nat /\ b \in BOOLEAN /\ admission \in AdmissionSteps
  BY DEF Sound, IsRun, AdmissionSteps
<1>3. ASSUME NEW y, RunAlike(y, r), OutputAlike(y, r)
      PROVE  Continues(guardFailed(y), r, path)
  <2> DEFINE gateway == IF y.state.identified THEN "unconfirmed" ELSE "insufficient"
             outcome == IF y.state.identified THEN "incomplete" ELSE "insufficient"
             a == TRUE
             w == [y EXCEPT !.state.reidentify = a, !.state.gateway = gateway]
  <2>1. IsRun(y) /\ a \in BOOLEAN
    BY <1>3 DEF RunAlike
  <2>2. RunAlike(w, y) /\ OutputAlike(w, y)
    <3> HIDE DEF gateway, a
    <3> QED
      BY <2>1, FlagsAlike
  <2>3. guardFailed(y) = Finish(StaleChildren(w, b), outcome)
    OBVIOUS
  <2> HIDE DEF w, b, outcome, guardFailed
  <2>4. RunAlike(w, r) /\ OutputAlike(w, r)
    BY <1>3, <2>2, AlikeBoth
  <2>5. Continues(Finish(StaleChildren(w, b), outcome), r, path)
    BY <1>2, <2>4, AlikeEnd
  <2> QED
    BY <2>3, <2>5
<1> HIDE DEF guardFailed, ident
<1>4. CASE x = guardFailed(r)
  <2>1. RunAlike(r, r) /\ OutputAlike(r, r)
    BY <1>2 DEF RunAlike, StateAlike, OutputAlike
  <2> QED
    BY <1>3, <1>4, <2>1
<1>5. CASE x = guardFailed(EndpointFailed(r))
  <2> DEFINE y == EndpointFailed(r)
  <2>1. RunAlike(y, r) /\ OutputAlike(y, r)
    BY <1>2, EndpointFailedAlike
  <2> HIDE DEF y
  <2>2. Continues(guardFailed(y), r, path)
    BY <1>3, <2>1
  <2> QED
    BY <1>5, <2>2 DEF y
<1>6. CASE x = first
  <2> DEFINE step == "tuple"
             y == Exchange(r, step)
             w == [y EXCEPT !.count = 1]
  <2>1. RunAlike(y, r) /\ OutputAlike(y, r) /\ y.step = step /\ y.err = r.err
    <3> HIDE DEF step
    <3> QED
      BY <1>2, ExchangeAlike
  <2> HIDE DEF y
  <2>2. RunAlike(w, r) /\ OutputAlike(w, r) /\ w.step = step /\ w.err = r.err
    <3>1. IsRun(y)
      BY <2>1 DEF RunAlike
    <3>2. /\ w.session = y.session /\ w.generation = y.generation /\ w.cycle = y.cycle
          /\ w.unit = y.unit /\ w.state = y.state /\ w.out = y.out
          /\ w.step = y.step /\ w.err = y.err
      BY <3>1 DEF IsRun, RunFields
    <3>3. IsRun(w)
      BY <3>1, <3>2 DEF IsRun, RunFields
    <3> HIDE DEF w
    <3> QED
      BY <2>1, <3>2, <3>3 DEF RunAlike, StateAlike, OutputAlike
  <2>3. x = w
    BY <1>6 DEF y
  <2> HIDE DEF w
  <2>4. Continues(w, r, path)
    BY <2>2, OpenAlike DEF OpenSteps
  <2> QED
    BY <2>3, <2>4
<1>7. CASE x = Finish(StaleChildren(changed, b), "incomplete")
  <2>1. RunAlike(changed, r) /\ OutputAlike(changed, r)
    BY <1>2, ReidentifyAlike
  <2> DEFINE outcome == "incomplete"
  <2> HIDE DEF changed, b, outcome
  <2>2. Continues(Finish(StaleChildren(changed, b), outcome), r, path)
    BY <1>2, <2>1, AlikeEnd
  <2> QED
    BY <1>7, <2>2 DEF outcome
<1>8. CASE ~ident /\ x = ServeChild(z, admission)
  <2>1. r.state.identified
    BY <1>8 DEF ident, Identifying
  <2>2. StateAlike(hs, r.state)
    BY <1>2 DEF StateAlike, IsState, StateFields
  <2> HIDE DEF hs
  <2>3. IsState(hs) /\ StateSound(hs, cycle, path)
    BY <1>2, <2>2 DEF StateAlike, StateSound
  <2>4. MetIn(held, hs, u) /\ StateSound(held, cycle, path)
    <3>1. path = "sdongle" => u = ChildUnit
      OBVIOUS
    <3> HIDE DEF cycle, u
    <3> QED
      BY <1>2, <2>3, <3>1, MetState
  <2> HIDE DEF held
  <2>5. /\ IsRun(z) /\ OutputAlike(z, r) /\ z.state = held /\ z.err = r.err /\ z.unit = u
        /\ z.session = r.session /\ z.generation = r.generation /\ z.cycle = r.cycle
    BY <1>2, <2>4 DEF IsRun, RunFields, OutputAlike, MetIn
  <2> HIDE DEF z
  <2>6. StateFollows(z.state, r.state) /\ SameBackoffs(z.state, r.state)
    <3>1. StateFollows(held, hs) /\ SameBackoffs(held, hs)
      <4> HIDE DEF u
      <4> QED
        BY <1>2, <2>4, MetFollows
    <3> QED
      BY <2>2, <2>5, <3>1 DEF StateFollows, StateAlike, Remembered, SameBackoffs
  <2>7. /\ StateSound(z.state, r.cycle, path) /\ IdentifiedOn(z.state, r.generation)
        /\ z.state.identified
    BY <2>1, <2>2, <2>4, <2>5 DEF IdentifiedOn, Sound, MetIn, StateAlike
  <2>8. Sound(z, path) /\ Follows(z, r) /\ UnseenFrom(z, Units)
    BY <2>5, <2>6, <2>7, OpenReplaced
  <2>9. Visiting(z)
    BY <1>2, <2>4, <2>5, <2>7, <2>8 DEF Visiting, UnseenFrom, MetIn
  <2> HIDE DEF admission
  <2>10. Continues(ServeChild(z, admission), z, path)
    BY <1>2, <2>8, <2>9, ServeChildSound
  <2> QED
    BY <1>8, <2>8, <2>10, FollowsOn DEF Continues
<1>9. \/ x = guardFailed(r) \/ x = guardFailed(EndpointFailed(r)) \/ x = first
      \/ x = Finish(StaleChildren(changed, b), "incomplete")
      \/ ~ident /\ x = ServeChild(z, admission)
  <2> HIDE DEF first, changed, b, z, admission
  <2>1. CASE result = "exception"
    BY <1>1, <2>1
  <2>2. CASE result = "failed"
    BY <1>1, <2>2
  <2>3. CASE result = "answered" /\ ident
    BY <1>1, <2>3
  <2>4. CASE result = "answered" /\ ~ident
    BY <1>1, <2>4
  <2> QED
    BY <2>1, <2>2, <2>3, <2>4 DEF Results
<1> QED
  BY <1>4, <1>5, <1>6, <1>7, <1>8, <1>9

(* Whatever a read brings, the cycle goes on soundly, and a refusal is     *)
(* remembered.                                                             *)
LEMMA AfterSound ==
    ASSUME NEW path, NEW r, RunSound(r, path), r.step \in Steps \ {"route", "done"},
           NEW result,
           r.step = "group" => result \in Results,
           r.step # "group" => result \in (Results \ {"refused"}) \cup {"over"},
           result = "over" => r.step \in {"inventory", "after"},
           NEW x \in After(r, result)
    PROVE  /\ Continues(x, r, path)
           /\ r.step = "group" /\ result = "refused" =>
                r.group \in Remembered(x.state, r.unit)
<1>1. Sound(r, path)
  BY DEF RunSound
<1>2. r.step \in OpenSteps => UnseenFrom(r, Units) /\ r.err = "none"
  BY DEF RunSound, Opening
<1>3. CASE r.step = "guard"
  <2>1. x \in AfterGuard(r, result)
    BY <1>3 DEF After
  <2>2. r.state.identified /\ result \in Results \ {"refused"}
    BY <1>3 DEF RunSound, Opening, OpenSteps
  <2> QED
    BY <1>1, <1>2, <1>3, <2>1, <2>2, AfterGuardSound DEF OpenSteps
<1>4. CASE r.step \in {"before", "inventory", "after", "basic"}
  <2>1. x \in AfterIdentification(r, result)
    BY <1>4 DEF After
  <2>2. result \in (Results \ {"refused"}) \cup {"over"} /\ (result = "over" => r.step # "basic")
    BY <1>4
  <2> QED
    BY <1>1, <1>2, <1>4, <2>1, <2>2, AfterIdentificationSound DEF OpenSteps
<1>5. CASE r.step = "search"
  <2>1. x \in AfterSearch(r, result)
    BY <1>5 DEF After
  <2>2. path = "sdongle" /\ result \in Results \ {"refused"}
    BY <1>5 DEF RunSound, Opening, OpenSteps
  <2> QED
    BY <1>1, <1>2, <1>5, <2>1, <2>2, AfterSearchSound DEF OpenSteps
<1>6. CASE r.step = "tuple"
  <2>1. x \in AfterTuple(r, result)
    BY <1>6 DEF After
  <2>2. path = "sdongle"
    BY <1>6 DEF RunSound, Opening, OpenSteps
  <2> QED
    BY <1>1, <1>2, <1>6, <2>1, <2>2, AfterTupleSound DEF OpenSteps
<1>7. CASE r.step \in AdmissionSteps
  <2>1. x \in AfterAdmission(r, result)
    BY <1>7 DEF After, AdmissionSteps
  <2>2. Serving(r)
    BY <1>7 DEF RunSound, ChildSteps, AdmissionSteps
  <2>3. r.step # "group"
    BY <1>7 DEF AdmissionSteps
  <2> QED
    BY <1>1, <1>7, <2>1, <2>2, <2>3, AfterAdmissionSound
<1>8. CASE r.step = "group"
  <2>1. x \in AfterGroup(r, result)
    BY <1>8 DEF After
  <2>2. AtGroup(r) /\ result \in Results
    BY <1>8 DEF RunSound
  <2> QED
    BY <1>1, <1>8, <2>1, <2>2, AfterGroupSound
<1> QED
  BY <1>3, <1>4, <1>5, <1>6, <1>7, <1>8 DEF Steps, OpenSteps, ChildSteps, AdmissionSteps

-----------------------------------------------------------------------------
(* Attempts                                                                *)

(* x is r but for the progress of its read.                                *)
Marked(x, r) ==
    /\ IsRun(x)
    /\ x.session = r.session /\ x.generation = r.generation /\ x.cycle = r.cycle
    /\ x.unit = r.unit /\ x.state = r.state /\ x.out = r.out
    /\ PlanAlike(x, r)

LEMMA MarkedSound ==
    ASSUME NEW path, NEW r, RunSound(r, path), NEW x, Marked(x, r)
    PROVE  /\ Sound(x, path) /\ Follows(x, r)
           /\ x.step = r.step /\ x.err = r.err => RunSound(x, path)
           /\ x.step = "done" /\ x.err # "none" => RunSound(x, path)
<1>1. IsRun(r) /\ IsRun(x) /\ Sound(r, path)
  BY DEF RunSound, Sound, Marked
<1>2. RunAlike(x, r) /\ OutputAlike(x, r) /\ PlanAlike(x, r)
  BY <1>1 DEF RunAlike, StateAlike, OutputAlike, Marked, IsRun
<1>3. Sound(x, path) /\ Follows(x, r)
  BY <1>1, <1>2, AlikeSound
<1>4. ASSUME x.step = r.step, x.err = r.err PROVE RunSound(x, path)
  <2>1. /\ Serving(r) => Serving(x)
        /\ Serves(r) => Serves(x)
        /\ Serves(r) /\ PlanAlike(x, r) /\ AtGroup(r) => AtGroup(x)
    BY <1>2, <1>4, AlikeServing
  <2>2. Opening(r, path) => Opening(x, path)
    BY <1>4 DEF Opening, UnseenFrom, Marked
  <2>3. Routing(r) => Routing(x)
    BY <1>4 DEF Routing, UnseenFrom, Marked
  <2>4. Ended(r) => Ended(x)
    BY <1>4 DEF Ended, Marked
  <2>5. AtGroup(r) => AtGroup(x)
    BY <1>2, <2>1 DEF AtGroup
  <2> QED
    BY <1>3, <1>4, <2>1, <2>2, <2>3, <2>4, <2>5 DEF RunSound
<1>5. x.step = "done" /\ x.err # "none" => RunSound(x, path)
  BY <1>3 DEF RunSound, Steps, OpenSteps, ChildSteps, Ended
<1> QED
  BY <1>3, <1>4, <1>5

LEMMA AttemptMarks ==
    ASSUME NEW r, IsRun(r),
           NEW reply \in {"answered", "exception", "refused", "timeout", "transport"}
    PROVE  LET a == Attempt(r, reply)
           IN  /\ Marked(a.run, r) /\ a.run.step = r.step /\ a.run.err = r.err
               /\ a.result \in Results \cup {"again"}
               /\ a.result = "refused" <=> reply = "refused"
<1> DEFINE a == Attempt(r, reply)
           definitive == Definitive(reply)
           forgiven == Forgiven(r, reply)
           exhausted == Exhausted(r)
           spent == Again([r EXCEPT !.allowance = FALSE])
           counted == [r EXCEPT !.failed = @ + 1]
           repeated == Again([r EXCEPT !.failed = @ + 1])
<1>1. a = CASE definitive -> [result |-> reply, run |-> r]
            [] forgiven -> [result |-> "again", run |-> spent]
            [] ~definitive /\ ~forgiven /\ exhausted -> [result |-> "failed", run |-> counted]
            [] OTHER -> [result |-> "again", run |-> repeated]
  BY DEF Attempt
<1>2. Marked(r, r)
  BY DEF Marked, PlanAlike
<1>3. Marked(spent, r) /\ spent.step = r.step /\ spent.err = r.err
  BY DEF Marked, PlanAlike, IsRun, RunFields, Again
<1>4. Marked(counted, r) /\ counted.step = r.step /\ counted.err = r.err
  BY DEF Marked, PlanAlike, IsRun, RunFields
<1>5. Marked(repeated, r) /\ repeated.step = r.step /\ repeated.err = r.err
  BY DEF Marked, PlanAlike, IsRun, RunFields, Again
<1>6. ~(definitive /\ forgiven)
  BY DEF Definitive, Forgiven
<1>7. definitive <=> reply \in {"answered", "exception", "refused"}
  BY DEF Definitive
<1> HIDE DEF a, definitive, forgiven, exhausted, spent, counted, repeated
<1>8. CASE definitive
  <2>1. a = [result |-> reply, run |-> r]
    BY <1>1, <1>6, <1>8
  <2> QED
    BY <1>2, <1>7, <1>8, <2>1 DEF Results, a
<1>9. CASE forgiven
  <2>1. a = [result |-> "again", run |-> spent]
    BY <1>1, <1>6, <1>9
  <2> QED
    BY <1>3, <1>6, <1>7, <1>9, <2>1 DEF a
<1>10. CASE ~definitive /\ ~forgiven /\ exhausted
  <2>1. a = [result |-> "failed", run |-> counted]
    BY <1>1, <1>10
  <2> QED
    BY <1>4, <1>7, <1>10, <2>1 DEF Results, a
<1>11. CASE ~definitive /\ ~forgiven /\ ~exhausted
  <2>1. a = [result |-> "again", run |-> repeated]
    BY <1>1, <1>11
  <2> QED
    BY <1>5, <1>7, <1>11, <2>1 DEF a
<1> QED
  BY <1>8, <1>9, <1>10, <1>11

-----------------------------------------------------------------------------
(* The connection lifecycle                                                *)

(* What a lifecycle call must establish: it leaves the cycle in progress,  *)
(* what was returned and what was refused alone.                           *)
LEMMA LifecycleKept ==
    ASSUME HuaweiInv, UNCHANGED <<run, returned, refusals>>,
           IsCore(core'), sessions' \in [1 .. MaxGeneration -> Fates], caller' \in Callers,
           core'.path = core.path, core'.cycle = core.cycle, core'.busy = core.busy,
           core.closed => core'.closed,
           \/ store' = store
           \/ store' = Bound(store)
           \/ store' = Unbound(store)
           \/ store' = Bound(Unbound(store)),
           store'.identified =>
             store' = store /\ core'.started /\ core'.generation = core.generation,
           Connected', RunConnected'
    PROVE  HuaweiInv'
<1>1. IsState(store)
  BY DEF HuaweiInv, Typed
<1>2. /\ IsState(store')
      /\ store'.verdict = store.verdict /\ store'.gatewayFenced = store.gatewayFenced
      /\ store'.identityGeneration = store.identityGeneration
      /\ store'.identifiedAt = store.identifiedAt
      /\ store'.children = store.children /\ store'.carried = store.carried
  <2>1. CASE store' = store
    BY <1>1, <2>1
  <2>2. CASE store' = Bound(store)
    BY <1>1, <2>2 DEF Bound, IsState, StateFields
  <2>3. CASE store' = Unbound(store)
    BY <1>1, <2>3 DEF Unbound, IsState, StateFields
  <2>4. CASE store' = Bound(Unbound(store))
    BY <1>1, <2>4 DEF Bound, Unbound, IsState, StateFields
  <2> QED
    BY <2>1, <2>2, <2>3, <2>4
<1>3. (InProgress <=> InProgress') /\ run' = run /\ returned' = returned /\ refusals' = refusals
  BY DEF InProgress
<1>4. Typed'
  BY <1>2, <1>3 DEF HuaweiInv, Typed
<1>5. StoreKept'
  <2>1. StateSound(store', core'.cycle, core'.path)
    BY <1>2 DEF HuaweiInv, StoreKept, StateSound
  <2>2. IdentifiedOn(store', core'.generation)
    BY <1>2 DEF HuaweiInv, StoreKept, IdentifiedOn
  <2> QED
    BY <2>1, <2>2 DEF StoreKept
<1>6. RefusalsKept'
  BY <1>2, <1>3 DEF HuaweiInv, RefusalsKept, Remembered
<1>7. EmittedReadingIsOwned'
  BY <1>2, <1>3 DEF HuaweiInv, EmittedReadingIsOwned
<1>8. CurrentIsFresh'
  BY <1>2, <1>3 DEF HuaweiInv, CurrentIsFresh
<1>9. BackoffsKept' /\ BackoffReported'
  BY <1>2, <1>3 DEF HuaweiInv, BackoffsKept, BackoffReported, SameBackoff
<1> QED
  BY <1>4, <1>5, <1>6, <1>7, <1>8, <1>9 DEF HuaweiInv

LEMMA CoreBound ==
    ASSUME NEW c, IsCore(c)
    PROVE  LET x == Bind(c)
           IN  /\ IsCore(x) /\ x.path = c.path /\ x.cycle = c.cycle /\ x.busy = c.busy
               /\ x.generation = c.generation + 1 /\ x.started
               /\ x.session = c.generation + 1
               /\ x.closing = c.closing /\ x.closed = c.closed
BY DEF IsCore, CoreFields, Bind

LEMMA CoreUnbound ==
    ASSUME NEW c, IsCore(c)
    PROVE  LET x == Unbind(c)
           IN  /\ IsCore(x) /\ x.path = c.path /\ x.cycle = c.cycle /\ x.busy = c.busy
               /\ x.generation = c.generation + 1 /\ ~x.started
               /\ x.closing = c.closing /\ x.closed = c.closed
BY DEF IsCore, CoreFields, Unbind

LEMMA StoreUnbound ==
    ASSUME IsState(store)
    PROVE  /\ ~Bound(store).identified /\ ~Unbound(store).identified
           /\ ~Bound(Unbound(store)).identified
BY DEF IsState, StateFields, Bound, Unbound

LEMMA StartKept ==
    ASSUME HuaweiInv, Start
    PROVE  HuaweiInv'
<1>1. /\ IsCore(core) /\ core.generation \in Nat /\ core.generation < MaxGeneration
      /\ sessions \in [1 .. MaxGeneration -> Fates] /\ ~core.started /\ ~core.closed
      /\ ~core.closing /\ core' = Bind(core) /\ store' = Bound(store) /\ IsState(store)
      /\ sessions' = [sessions EXCEPT ![core'.session] = "bound"] /\ caller' = caller
      /\ UNCHANGED <<run, returned, refusals>>
  BY DEF HuaweiInv, Typed, Start, IsCore
<1>2. /\ IsCore(core') /\ core'.path = core.path /\ core'.cycle = core.cycle
      /\ core'.busy = core.busy /\ core'.generation = core.generation + 1
      /\ core'.started /\ core'.session = core.generation + 1
      /\ core'.closing = core.closing /\ core'.closed = core.closed
  BY <1>1, CoreBound
<1>3. /\ sessions' \in [1 .. MaxGeneration -> Fates]
      /\ core'.session \in 1 .. MaxGeneration /\ sessions'[core'.session] = "bound"
      /\ \A g \in (1 .. MaxGeneration) \ {core'.session} : sessions'[g] = sessions[g]
  BY <1>1, <1>2 DEF Fates
<1>4. Connected'
  BY <1>1, <1>2, <1>3 DEF HuaweiInv, Connected
<1>5. RunConnected'
  <2> SUFFICES ASSUME run.step # "idle"
               PROVE  /\ run.session =< run.generation
                      /\ run.generation =< core.generation + 1
                      /\ run.cycle = core.cycle
                      /\ \A g \in 1 .. run.session - 1 :
                            g \in DOMAIN sessions' => sessions'[g] \notin {"bound", "closing"}
    BY <1>1, <1>2 DEF HuaweiInv, RunConnected, InProgress
  <2>1. IsRun(run)
    BY DEF HuaweiInv, Typed, NoRun, RunSound, Sound, InProgress
  <2>2. run.session \in Nat /\ run.generation \in Nat
    BY <2>1 DEF IsRun
  <2>3. /\ run.session =< run.generation /\ run.generation =< core.generation
        /\ run.cycle = core.cycle
        /\ \A g \in 1 .. run.session - 1 :
              g \in DOMAIN sessions => sessions[g] \notin {"bound", "closing"}
    BY DEF HuaweiInv, RunConnected, InProgress
  <2> QED
    BY <1>1, <1>2, <1>3, <2>2, <2>3
<1>6. ~store'.identified
  BY <1>1, StoreUnbound
<1> QED
  BY <1>1, <1>2, <1>3, <1>4, <1>5, <1>6, LifecycleKept DEF HuaweiInv, Typed

(* What the cycle in progress knows of the connections.                    *)
LEMMA RunBefore ==
    ASSUME HuaweiInv, InProgress
    PROVE  /\ IsRun(run) /\ RunSound(run, core.path) /\ core.busy
           /\ run.session \in 1 .. MaxGeneration
           /\ run.session \in Nat /\ run.generation \in Nat
           /\ run.session =< run.generation /\ run.generation =< core.generation
           /\ run.cycle = core.cycle
           /\ \A g \in 1 .. run.session - 1 :
                 g \in DOMAIN sessions => sessions[g] \notin {"bound", "closing"}
           /\ run.generation = core.generation /\ ~core.closed => core.started
<1>1. RunSound(run, core.path) /\ core.busy
  BY DEF HuaweiInv, Typed, NoRun, InProgress
<1>2. IsRun(run)
  BY <1>1 DEF RunSound, Sound
<1> QED
  BY <1>1, <1>2 DEF HuaweiInv, RunConnected, IsRun

LEMMA DetachKept ==
    ASSUME HuaweiInv, ~core.closed, ~core.closing, core.started,
           NEW op \in {"stop", "reconnect"},
           op = "reconnect" => core.generation + 1 < MaxGeneration,
           Detach(op)
    PROVE  HuaweiInv'
<1>1. /\ IsCore(core) /\ core.generation \in Nat /\ core.session = core.generation
      /\ core.session \in 1 .. MaxGeneration
      /\ sessions \in [1 .. MaxGeneration -> Fates]
      /\ core' = [Unbind(core) EXCEPT !.closing = TRUE]
      /\ store' = Unbound(store) /\ IsState(store)
      /\ sessions' = [sessions EXCEPT ![core.session] = "closing"]
      /\ caller' = [op |-> op, session |-> core.session]
      /\ UNCHANGED <<run, returned, refusals>>
  BY DEF HuaweiInv, Typed, Connected, Detach, IsCore
<1>2. /\ IsCore(core') /\ core'.path = core.path /\ core'.cycle = core.cycle
      /\ core'.busy = core.busy /\ core'.generation = core.generation + 1
      /\ ~core'.started /\ core'.closing /\ core'.closed = core.closed
  <2> DEFINE x == Unbind(core)
  <2>1. /\ IsCore(x) /\ x.path = core.path /\ x.cycle = core.cycle /\ x.busy = core.busy
        /\ x.generation = core.generation + 1 /\ ~x.started
        /\ x.closing = core.closing /\ x.closed = core.closed
    BY <1>1, CoreUnbound
  <2>2. core' = [x EXCEPT !.closing = TRUE]
    BY <1>1
  <2> HIDE DEF x
  <2> QED
    BY <2>1, <2>2 DEF IsCore, CoreFields
<1>3. /\ sessions' \in [1 .. MaxGeneration -> Fates] /\ sessions'[core.session] = "closing"
      /\ \A g \in (1 .. MaxGeneration) \ {core.session} : sessions'[g] = sessions[g]
  BY <1>1 DEF Fates
<1>4. caller' \in Callers /\ caller'.op = op /\ caller'.session = core.session
  BY <1>1 DEF Callers
<1>5. Connected'
  BY <1>1, <1>2, <1>3, <1>4 DEF HuaweiInv, Connected
<1>6. RunConnected'
  <2> SUFFICES ASSUME InProgress
               PROVE  /\ run.session =< run.generation
                      /\ run.generation =< core.generation
                      /\ run.cycle = core.cycle
                      /\ \A g \in 1 .. run.session - 1 :
                            g \in DOMAIN sessions' => sessions'[g] \notin {"bound", "closing"}
    BY <1>1, <1>2, RunBefore DEF RunConnected, InProgress
  <2> QED
    BY <1>1, <1>3, RunBefore
<1>7. ~store'.identified
  BY <1>1, StoreUnbound
<1> QED
  BY <1>1, <1>2, <1>3, <1>4, <1>5, <1>6, <1>7, LifecycleKept

LEMMA StopKept ==
    ASSUME HuaweiInv, Stop
    PROVE  HuaweiInv'
<1> DEFINE op == "stop"
<1>1. /\ op \in {"stop", "reconnect"} /\ op # "reconnect" /\ Detach(op)
      /\ ~core.closed /\ ~core.closing /\ core.started
  BY DEF Stop
<1> HIDE DEF op
<1> QED
  BY <1>1, DetachKept

LEMMA ReconnectKept ==
    ASSUME HuaweiInv, Reconnect
    PROVE  HuaweiInv'
<1>1. CASE core.started
  <2> DEFINE op == "reconnect"
  <2>1. /\ op \in {"stop", "reconnect"} /\ core.generation + 1 < MaxGeneration /\ Detach(op)
        /\ ~core.closed /\ ~core.closing
    BY <1>1 DEF Reconnect
  <2> HIDE DEF op
  <2> QED
    BY <1>1, <2>1, DetachKept
<1>2. CASE ~core.started
  <2>1. /\ ~core.closed /\ ~core.closing /\ core.generation + 1 < MaxGeneration
        /\ core' = [core EXCEPT !.closing = TRUE]
        /\ caller' = [op |-> "reconnect", session |-> 0]
        /\ UNCHANGED <<store, run, sessions, returned, refusals>>
        /\ IsCore(core) /\ core.generation \in Nat
        /\ sessions \in [1 .. MaxGeneration -> Fates]
    BY <1>2 DEF Reconnect, HuaweiInv, Typed, IsCore
  <2>2. /\ IsCore(core') /\ core'.path = core.path /\ core'.cycle = core.cycle
        /\ core'.busy = core.busy /\ core'.generation = core.generation
        /\ core'.started = core.started /\ core'.closing /\ core'.closed = core.closed
    BY <2>1 DEF IsCore, CoreFields
  <2>3. caller' \in Callers /\ caller'.op = "reconnect" /\ caller'.session = 0
    BY <2>1 DEF Callers
  <2>4. Connected'
    BY <1>2, <2>1, <2>2, <2>3 DEF HuaweiInv, Connected
  <2>5. RunConnected'
    BY <2>1, <2>2 DEF HuaweiInv, RunConnected, InProgress
  <2>6. ~store'.identified
    BY <1>2, <2>1 DEF HuaweiInv, StoreKept
  <2> QED
    BY <2>1, <2>2, <2>3, <2>4, <2>5, <2>6, LifecycleKept
<1> QED
  BY <1>1, <1>2

LEMMA CloseKept ==
    ASSUME HuaweiInv, Close
    PROVE  HuaweiInv'
<1>1. /\ IsCore(core) /\ core.generation \in Nat /\ ~core.closed
      /\ sessions \in [1 .. MaxGeneration -> Fates]
      /\ core' = [Unbind(core) EXCEPT !.closed = TRUE] /\ IsState(store)
      /\ caller' = caller /\ caller \in Callers
      /\ UNCHANGED <<run, returned, refusals>>
  BY DEF HuaweiInv, Typed, Close, IsCore
<1>2. /\ IsCore(core') /\ core'.path = core.path /\ core'.cycle = core.cycle
      /\ core'.busy = core.busy /\ core'.generation = core.generation + 1
      /\ ~core'.started /\ core'.closing = core.closing /\ core'.closed
  <2> DEFINE x == Unbind(core)
  <2>1. /\ IsCore(x) /\ x.path = core.path /\ x.cycle = core.cycle /\ x.busy = core.busy
        /\ x.generation = core.generation + 1 /\ ~x.started
        /\ x.closing = core.closing /\ x.closed = core.closed
    BY <1>1, CoreUnbound
  <2>2. core' = [x EXCEPT !.closed = TRUE]
    BY <1>1
  <2> HIDE DEF x
  <2> QED
    BY <2>1, <2>2 DEF IsCore, CoreFields
<1>3. /\ sessions' \in [1 .. MaxGeneration -> Fates]
      /\ \A g \in 1 .. MaxGeneration : sessions'[g] # "bound"
      /\ \A g \in 1 .. MaxGeneration :
            sessions'[g] = "closing" =>
              sessions[g] = "closing" \/ (core.started /\ g = core.generation)
      /\ \/ store' = store /\ ~core.started
         \/ store' = Unbound(store)
  <2>1. CASE core.started
    <3>1. /\ sessions' = [sessions EXCEPT ![core.session] = "closing"]
          /\ store' = Unbound(store)
          /\ core.session = core.generation /\ core.session \in 1 .. MaxGeneration
      BY <1>1, <2>1 DEF Close, HuaweiInv, Connected
    <3>2. \A g \in 1 .. MaxGeneration : sessions[g] = "bound" => g = core.session
      BY <1>1 DEF HuaweiInv, Connected
    <3> QED
      BY <1>1, <2>1, <3>1, <3>2 DEF Fates
  <2>2. CASE ~core.started
    <3>1. sessions' = sessions /\ store' = store
      BY <2>2 DEF Close
    <3>2. \A g \in 1 .. MaxGeneration : sessions[g] # "bound"
      BY <1>1, <2>2 DEF HuaweiInv, Connected
    <3> QED
      BY <1>1, <2>2, <3>1, <3>2
  <2> QED
    BY <2>1, <2>2
<1>4. Connected'
  BY <1>1, <1>2, <1>3 DEF HuaweiInv, Connected
<1>5. RunConnected'
  <2> SUFFICES ASSUME InProgress
               PROVE  /\ run.session =< run.generation
                      /\ run.generation =< core.generation
                      /\ run.cycle = core.cycle
                      /\ \A g \in 1 .. run.session - 1 :
                            g \in DOMAIN sessions' => sessions'[g] \notin {"bound", "closing"}
    BY <1>1, <1>2, RunBefore DEF RunConnected, InProgress
  <2> QED
    BY <1>1, <1>3, RunBefore
<1>6. ~store'.identified
  BY <1>1, <1>3, StoreUnbound DEF HuaweiInv, StoreKept
<1>7. \/ store' = store \/ store' = Bound(store) \/ store' = Unbound(store)
      \/ store' = Bound(Unbound(store))
  BY <1>3
<1> QED
  BY <1>1, <1>2, <1>3, <1>4, <1>5, <1>6, <1>7, LifecycleKept

LEMMA ReleasedKept ==
    ASSUME HuaweiInv, Released
    PROVE  HuaweiInv'
<1> DEFINE freed == IF caller.session = 0 THEN sessions
                    ELSE [sessions EXCEPT ![caller.session] = "closed"]
           binds == caller.op = "reconnect" /\ ~core.closed /\ ~core.started
<1>1. /\ IsCore(core) /\ core.generation \in Nat /\ core.closing /\ ~core.started
      /\ sessions \in [1 .. MaxGeneration -> Fates] /\ IsState(store)
      /\ core' = [IF binds THEN Bind(core) ELSE core EXCEPT !.closing = FALSE]
      /\ store' = IF binds THEN Bound(store) ELSE store
      /\ sessions' = IF binds THEN [freed EXCEPT ![core'.session] = "bound"] ELSE freed
      /\ caller' = [op |-> "none", session |-> 0]
      /\ UNCHANGED <<run, returned, refusals>>
  BY DEF HuaweiInv, Typed, Connected, Released, IsCore
<1>2. /\ freed \in [1 .. MaxGeneration -> Fates]
      /\ \A g \in 1 .. MaxGeneration :
            /\ freed[g] # "bound"
            /\ freed[g] = "closing" => sessions[g] = "closing" /\ core.closed
  <2>1. \A g \in 1 .. MaxGeneration :
          /\ sessions[g] # "bound"
          /\ sessions[g] = "closing" => core.closed \/ caller.session = g
    BY <1>1 DEF HuaweiInv, Connected
  <2>2. sessions \in [1 .. MaxGeneration -> Fates]
    BY <1>1
  <2>3. CASE caller.session = 0
    BY <2>1, <2>2, <2>3
  <2>4. CASE caller.session # 0
    <3>1. freed = [sessions EXCEPT ![caller.session] = "closed"]
      BY <2>4
    <3> HIDE DEF freed
    <3> QED
      BY <2>1, <2>2, <3>1 DEF Fates
  <2> QED
    BY <2>3, <2>4
<1> HIDE DEF freed
<1>3. caller' \in Callers /\ caller'.op = "none" /\ caller'.session = 0
  BY <1>1 DEF Callers
<1>4. CASE binds
  <2>1. core.generation < MaxGeneration
    BY <1>4 DEF HuaweiInv, Connected
  <2>2. /\ IsCore(core') /\ core'.path = core.path /\ core'.cycle = core.cycle
        /\ core'.busy = core.busy /\ core'.generation = core.generation + 1
        /\ core'.started /\ core'.session = core.generation + 1
        /\ ~core'.closing /\ core'.closed = core.closed
    <3> DEFINE x == Bind(core)
    <3>1. /\ IsCore(x) /\ x.path = core.path /\ x.cycle = core.cycle /\ x.busy = core.busy
          /\ x.generation = core.generation + 1 /\ x.started
          /\ x.session = core.generation + 1
          /\ x.closing = core.closing /\ x.closed = core.closed
      BY <1>1, CoreBound
    <3>2. core' = [x EXCEPT !.closing = FALSE]
      BY <1>1, <1>4
    <3> HIDE DEF x
    <3> QED
      BY <3>1, <3>2 DEF IsCore, CoreFields
  <2>3. /\ sessions' \in [1 .. MaxGeneration -> Fates]
        /\ core'.session \in 1 .. MaxGeneration /\ sessions'[core'.session] = "bound"
        /\ \A g \in (1 .. MaxGeneration) \ {core'.session} : sessions'[g] = freed[g]
    BY <1>1, <1>2, <1>4, <2>1, <2>2 DEF Fates
  <2>4. Connected'
    BY <1>1, <1>2, <1>3, <1>4, <2>2, <2>3 DEF Connected
  <2>5. RunConnected'
    <3> SUFFICES ASSUME InProgress
                 PROVE  /\ run.session =< run.generation
                        /\ run.generation =< core.generation
                        /\ run.cycle = core.cycle
                        /\ \A g \in 1 .. run.session - 1 :
                              g \in DOMAIN sessions' =>
                                sessions'[g] \notin {"bound", "closing"}
      BY <1>1, <2>2, RunBefore DEF RunConnected, InProgress
    <3> QED
      BY <1>1, <1>2, <1>4, <2>2, <2>3, RunBefore
  <2>6. ~store'.identified
    BY <1>1, <1>4, StoreUnbound
  <2>7. store' = Bound(store)
    BY <1>1, <1>4
  <2> QED
    BY <1>1, <1>3, <2>2, <2>3, <2>4, <2>5, <2>6, <2>7, LifecycleKept
<1>5. CASE ~binds
  <2>1. core' = [core EXCEPT !.closing = FALSE] /\ store' = store /\ sessions' = freed
    BY <1>1, <1>5
  <2>2. /\ IsCore(core') /\ core'.path = core.path /\ core'.cycle = core.cycle
        /\ core'.busy = core.busy /\ core'.generation = core.generation
        /\ core'.started = core.started /\ ~core'.closing /\ core'.closed = core.closed
    BY <1>1, <2>1 DEF IsCore, CoreFields
  <2>3. Connected'
    BY <1>1, <1>2, <1>3, <2>1, <2>2 DEF Connected
  <2>4. RunConnected'
    <3> SUFFICES ASSUME InProgress
                 PROVE  /\ run.session \in 1 .. MaxGeneration
                        /\ run.session =< run.generation
                        /\ run.generation =< core.generation
                        /\ run.cycle = core.cycle
                        /\ run.generation = core.generation /\ ~core.closed => core.started
                        /\ \A g \in 1 .. run.session - 1 :
                              g \in DOMAIN sessions' =>
                                sessions'[g] \notin {"bound", "closing"}
      BY <1>1, <2>2 DEF RunConnected, InProgress
    <3> QED
      BY <1>1, <1>2, <2>1, RunBefore
  <2>5. ~store'.identified
    BY <1>1, <2>1 DEF HuaweiInv, StoreKept
  <2> QED
    BY <1>1, <1>2, <1>3, <2>1, <2>2, <2>3, <2>4, <2>5, LifecycleKept
<1> QED
  BY <1>4, <1>5

LEMMA TickKept ==
    ASSUME HuaweiInv, Tick
    PROVE  HuaweiInv'
<1>1. /\ IsCore(core) /\ core' = [core EXCEPT !.early = FALSE]
      /\ UNCHANGED <<store, run, sessions, caller, returned, refusals>>
      /\ sessions \in [1 .. MaxGeneration -> Fates] /\ caller \in Callers
  BY DEF HuaweiInv, Typed, Tick
<1>2. /\ IsCore(core') /\ core'.path = core.path /\ core'.cycle = core.cycle
      /\ core'.busy = core.busy /\ core'.generation = core.generation
      /\ core'.session = core.session /\ core'.started = core.started
      /\ core'.closing = core.closing /\ core'.closed = core.closed
  BY <1>1 DEF IsCore, CoreFields
<1>3. Connected'
  BY <1>1, <1>2 DEF HuaweiInv, Connected
<1>4. RunConnected'
  BY <1>1, <1>2 DEF HuaweiInv, RunConnected, InProgress
<1>5. store'.identified =>
        store' = store /\ core'.started /\ core'.generation = core.generation
  BY <1>1, <1>2 DEF HuaweiInv, StoreKept
<1> QED
  BY <1>1, <1>2, <1>3, <1>4, <1>5, LifecycleKept

-----------------------------------------------------------------------------
(* The steps of a cycle                                                    *)

(* What a step of the cycle must establish.                                *)
LEMMA CycleKept ==
    ASSUME HuaweiInv, InProgress, UNCHANGED <<core, store, sessions, caller, returned>>,
           RunSound(run', core.path), Follows(run', run),
           \/ refusals' = refusals
           \/ /\ run.unit \in Units /\ run.group \in Groups
              /\ refusals' = refusals \cup {<<run.unit, run.group>>}
              /\ run.group \in Remembered(run'.state, run.unit)
    PROVE  HuaweiInv'
<1>1. run'.step \in Steps /\ run'.step # "idle"
  BY DEF RunSound, Steps, OpenSteps, ChildSteps
<1>2. InProgress'
  BY <1>1 DEF InProgress
<1>3. refusals' \subseteq Units \X Groups
  BY DEF HuaweiInv, Typed
<1>4. Typed'
  BY <1>2, <1>3 DEF HuaweiInv, Typed
<1>5. Connected' /\ StoreKept'
  BY DEF HuaweiInv, Connected, StoreKept
<1>6. RunConnected'
  BY DEF HuaweiInv, RunConnected, InProgress, Follows
<1>7. RefusalsKept'
  <2>1. ASSUME NEW u \in Units
        PROVE  /\ \A g \in Groups : <<u, g>> \in refusals' => g \in Remembered(run'.state, u)
               /\ store.children[u].known => run'.state.children[u].known
               /\ ~run'.state.children[u].known =>
                     run'.state.carried[u] \subseteq store.carried[u]
    <3>1. /\ \A g \in Groups : <<u, g>> \in refusals => g \in Remembered(run.state, u)
          /\ store.children[u].known => run.state.children[u].known
          /\ ~run.state.children[u].known => run.state.carried[u] \subseteq store.carried[u]
      BY DEF HuaweiInv, RefusalsKept
    <3>2. /\ run.state.children[u].known => run'.state.children[u].known
          /\ Remembered(run.state, u) \subseteq Remembered(run'.state, u)
          /\ ~run'.state.children[u].known =>
                run'.state.carried[u] = run.state.carried[u]
      BY DEF Follows, StateFollows
    <3>3. ASSUME NEW g \in Groups, <<u, g>> \in refusals'
          PROVE  g \in Remembered(run'.state, u)
      <4>1. CASE <<u, g>> \in refusals
        BY <3>1, <3>2, <4>1
      <4>2. CASE <<u, g>> \notin refusals
        BY <3>3, <4>2
      <4> QED
        BY <4>1, <4>2
    <3> QED
      BY <3>1, <3>2, <3>3
  <2> QED
    BY <1>2, <2>1 DEF RefusalsKept
<1>8. EmittedReadingIsOwned' /\ CurrentIsFresh'
  BY DEF HuaweiInv, EmittedReadingIsOwned, CurrentIsFresh
<1>9. BackoffsKept' /\ BackoffReported'
  BY DEF HuaweiInv, BackoffsKept, BackoffReported, Follows, BackoffFollows, SameBackoff
<1> QED
  BY <1>4, <1>5, <1>6, <1>7, <1>8, <1>9 DEF HuaweiInv

LEMMA ReadInProgress ==
    ASSUME HuaweiInv, Reading
    PROVE  /\ InProgress /\ RunSound(run, core.path) /\ IsRun(run)
           /\ run.step \in Steps \ {"route", "done"}
BY RunBefore DEF Reading, InProgress, RunSound

(* A cycle that is cut short.                                              *)
LEMMA CutSound ==
    ASSUME NEW path, NEW r, RunSound(r, path), NEW err, err # "none"
    PROVE  LET x == [r EXCEPT !.step = "done", !.err = err]
           IN  RunSound(x, path) /\ Follows(x, r)
<1> DEFINE x == [r EXCEPT !.step = "done", !.err = err]
<1>1. IsRun(r)
  BY DEF RunSound, Sound
<1>2. Marked(x, r) /\ x.step = "done" /\ x.err = err
  BY <1>1 DEF Marked, PlanAlike, IsRun, RunFields
<1> HIDE DEF x
<1>3. RunSound(x, path) /\ Follows(x, r)
  BY <1>2, MarkedSound
<1> QED
  BY <1>3 DEF x

LEMMA GateKept ==
    ASSUME HuaweiInv, Gate
    PROVE  HuaweiInv'
<1>1. /\ InProgress /\ RunSound(run, core.path) /\ IsRun(run)
      /\ run.step \in Steps \ {"route", "done"}
  BY ReadInProgress DEF Gate
<1>2. UNCHANGED <<core, store, sessions, caller, returned>> /\ refusals' = refusals
  BY DEF Gate
<1>3. CASE \E err \in {"fenced", "cancelled"} : run' = [run EXCEPT !.step = "done", !.err = err]
  <2>1. PICK err \in {"fenced", "cancelled"} : run' = [run EXCEPT !.step = "done", !.err = err]
    BY <1>3
  <2> DEFINE x == [run EXCEPT !.step = "done", !.err = err]
             path == core.path
  <2>2. err # "none" /\ RunSound(run, path)
    BY <1>1
  <2>3. RunSound(x, path) /\ Follows(x, run)
    <3> HIDE DEF path
    <3> QED
      BY <2>2, CutSound
  <2>4. RunSound(run', core.path) /\ Follows(run', run)
    BY <2>1, <2>3
  <2> QED
    BY <1>1, <1>2, <2>4, CycleKept
<1>4. CASE run.step \in {"inventory", "after"} /\ run' \in After(run, "over")
  <2> DEFINE result == "over"
             x == run'
             path == core.path
  <2>1. /\ run.step = "group" => result \in Results
        /\ run.step # "group" => result \in (Results \ {"refused"}) \cup {"over"}
        /\ result = "over" => run.step \in {"inventory", "after"}
        /\ x \in After(run, result) /\ RunSound(run, path)
    BY <1>1, <1>4
  <2> HIDE DEF result, x, path
  <2>2. Continues(x, run, path)
    BY <1>1, <2>1, AfterSound
  <2>3. RunSound(run', core.path) /\ Follows(run', run)
    BY <2>2 DEF Continues, x, path
  <2> QED
    BY <1>1, <1>2, <2>3, CycleKept
<1>5. CASE run' = [run EXCEPT !.mode = "send"]
  <2>1. Marked(run', run) /\ run'.step = run.step /\ run'.err = run.err
    BY <1>1, <1>5 DEF Marked, PlanAlike, IsRun, RunFields
  <2> DEFINE x == run'
             path == core.path
  <2>2. RunSound(run, path) /\ Marked(x, run) /\ x.step = run.step /\ x.err = run.err
    BY <1>1, <2>1
  <2> HIDE DEF x, path
  <2>3. RunSound(x, path) /\ Follows(x, run)
    BY <2>2, MarkedSound
  <2>4. RunSound(run', core.path) /\ Follows(run', run)
    BY <2>3 DEF x, path
  <2> QED
    BY <1>1, <1>2, <2>4, CycleKept
<1> QED
  BY <1>3, <1>4, <1>5 DEF Gate

LEMMA SendKept ==
    ASSUME HuaweiInv, Send
    PROVE  HuaweiInv'
<1>1. InProgress /\ RunSound(run, core.path) /\ IsRun(run)
  BY ReadInProgress DEF Send
<1>2. UNCHANGED <<core, store, sessions, caller, returned>> /\ refusals' = refusals
  BY DEF Send
<1>3. run' = [run EXCEPT !.mode = "wire", !.sent = TRUE]
  BY DEF Send
<1>4. Marked(run', run) /\ run'.step = run.step /\ run'.err = run.err
  BY <1>1, <1>3 DEF Marked, PlanAlike, IsRun, RunFields
<1> DEFINE x == run'
           path == core.path
<1>5. RunSound(run, path) /\ Marked(x, run) /\ x.step = run.step /\ x.err = run.err
  BY <1>1, <1>4
<1>6. RunSound(x, path) /\ Follows(x, run)
  <2> HIDE DEF x, path
  <2> QED
    BY <1>5, MarkedSound
<1> QED
  BY <1>1, <1>2, <1>6, CycleKept

LEMMA RouteKept ==
    ASSUME HuaweiInv, Route
    PROVE  HuaweiInv'
<1> DEFINE path == core.path
<1>1. InProgress /\ RunSound(run, path) /\ path \in Paths
  BY RunBefore DEF Route, InProgress, HuaweiInv, Typed, IsCore
<1>2. Sound(run, path) /\ Routing(run)
  BY <1>1 DEF RunSound, Route
<1>3. UNCHANGED <<core, store, sessions, caller, returned>> /\ refusals' = refusals
  BY DEF Route
<1>4. run' = IF path = "smartlogger" THEN SmartLoggerRoute(run) ELSE Finish(run, "complete")
  BY DEF Route, SDongleRoute
<1>5. Continues(run', run, path)
  <2> HIDE DEF path
  <2>1. CASE path = "smartlogger"
    <3>1. path # "sdongle"
      BY <2>1
    <3>2. Continues(SmartLoggerRoute(run), run, path)
      BY <1>2, <3>1, SmartLoggerRouteSound
    <3> QED
      BY <1>4, <2>1, <3>2
  <2>2. CASE path # "smartlogger"
    <3>1. Continues(Finish(run, "complete"), run, path)
      BY <1>2, CompleteSound
    <3> QED
      BY <1>4, <2>2, <3>1
  <2> QED
    BY <2>1, <2>2
<1>6. RunSound(run', core.path) /\ Follows(run', run)
  BY <1>5 DEF Continues
<1> QED
  BY <1>1, <1>3, <1>6, CycleKept

(* A read the caller gave up: the refusal it decoded is still remembered.  *)
LEMMA StoppedSound ==
    ASSUME NEW path, NEW r, RunSound(r, path), NEW reply,
           reply = "refused" => r.step = "group"
    PROVE  LET x == Stopped(r, reply)
           IN  /\ RunSound(x, path) /\ Follows(x, r)
               /\ reply = "refused" => r.group \in Remembered(x.state, r.unit)
<1> DEFINE err == "cancelled"
           ended == [r EXCEPT !.step = "done", !.err = err]
           x == Stopped(r, reply)
<1>1. IsRun(r) /\ err # "none"
  BY DEF RunSound, Sound
<1>2. RunSound(ended, path) /\ Follows(ended, r)
  <2> HIDE DEF err
  <2> QED
    BY <1>1, CutSound
<1>3. CASE reply # "refused"
  <2>1. x = ended
    BY <1>3 DEF Stopped
  <2> QED
    BY <1>2, <1>3, <2>1
<1>4. CASE reply = "refused"
  <2> DEFINE u == r.unit
             c == r.state.children[u]
             more == {r.group}
             ia == r.state.identifiedAt
             cycle == r.cycle
             d == [c EXCEPT !.refused = @ \cup more]
             y == [ended EXCEPT !.state.children[u] = d]
  <2>1. /\ r.state.identified /\ u \in Units /\ c.known /\ r.group \in Groups
        /\ r.out.children[u] = Unseen /\ Sound(r, path)
    <3>1. Visiting(r) /\ AtGroup(r)
      BY <1>4 DEF RunSound, AtGroup, Serves, Serving
    <3> QED
      BY <1>1, <3>1, ServingAhead DEF Visiting, AtGroup, RunSound
  <2>2. /\ IsChild(c) /\ ChildSound(c, cycle, ia) /\ cycle \in Nat /\ ia \in Nat
        /\ more \in SUBSET Groups
    BY <1>1, <2>1 DEF Sound, IsRun, IsState, StateSound
  <2>3. /\ IsChild(d) /\ ChildSound(d, cycle, ia)
        /\ d.known = c.known /\ d.refused = c.refused \cup more /\ d.reading = c.reading
        /\ d.generation = c.generation /\ d.identity = c.identity /\ SameBackoff(d, c)
    <3> HIDE DEF c, more, ia, cycle
    <3> QED
      BY <2>2, RefusalAdded
  <2>4. /\ ended.step = "done" /\ ended.err = err /\ ended.state = r.state
        /\ ended.out = r.out /\ ended.cycle = r.cycle
    BY <1>1 DEF IsRun, RunFields
  <2>5. x = y
    <3>1. [ended EXCEPT !.state.children[r.unit].refused = @ \cup {r.group}]
            = [ended EXCEPT !.state.children[u] =
                 [ended.state.children[u] EXCEPT !.refused = @ \cup more]]
      BY <1>2 DEF RunSound, Sound, IsRun, RunFields, IsState, StateFields, IsChild, ChildFields
    <3>2. x = [ended EXCEPT !.state.children[r.unit].refused = @ \cup {r.group}]
      BY <1>4 DEF Stopped
    <3> HIDE DEF x, ended
    <3> QED
      BY <2>4, <3>1, <3>2
  <2> HIDE DEF x, d, ended
  <2>6. RunPut(y, ended, u, d) /\ y.step = ended.step
    <3>1. IsRun(ended) /\ u \in Units
      BY <1>2, <2>1 DEF RunSound, Sound
    <3> HIDE DEF u
    <3> QED
      BY <2>3, <3>1, PutRun
  <2> HIDE DEF y
  <2>7. /\ Sound(ended, path) /\ ended.state.identified
        /\ ended.state.children[u].known /\ ended.out.children[u] = Unseen
        /\ ChildSound(d, ended.cycle, ended.state.identifiedAt) /\ d.known
        /\ ended.state.children[u].refused \subseteq d.refused
        /\ SameBackoff(d, ended.state.children[u])
    BY <1>2, <2>1, <2>3, <2>4 DEF RunSound
  <2>8. Sound(y, path) /\ Follows(y, ended)
    BY <2>1, <2>3, <2>6, <2>7, PutSound
  <2>9. RunSound(y, path)
    BY <1>1, <2>4, <2>6, <2>8 DEF RunSound, RunPut, Steps, OpenSteps, ChildSteps, Ended
  <2>10. Follows(y, r)
    BY <1>2, <2>8, FollowsOn
  <2>11. r.group \in Remembered(y.state, r.unit)
    BY <2>1, <2>3, <2>6 DEF Remembered, RunPut
  <2> QED
    BY <2>5, <2>9, <2>10, <2>11 DEF x
<1> QED
  BY <1>3, <1>4

LEMMA ReplyKept ==
    ASSUME HuaweiInv, Reply
    PROVE  HuaweiInv'
<1> DEFINE path == core.path
<1>1. /\ InProgress /\ RunSound(run, path) /\ IsRun(run)
      /\ run.step \in Steps \ {"route", "done"}
  BY ReadInProgress DEF Reply
<1>2. UNCHANGED <<core, store, sessions, caller, returned>>
  BY DEF Reply
<1>3. PICK reply \in Replies(run) :
        LET attempt == Attempt(run, reply)
        IN  /\ \/ run' = Stopped(run, reply)
               \/ attempt.result = "again" /\ run' = attempt.run
               \/ attempt.result # "again" /\ run' \in After(attempt.run, attempt.result)
            /\ refusals' = IF reply = "refused"
                           THEN refusals \cup {<<run.unit, run.group>>} ELSE refusals
  BY DEF Reply
<1> DEFINE attempt == Attempt(run, reply)
<1>4. /\ reply \in {"answered", "exception", "refused", "timeout", "transport"}
      /\ reply = "refused" => run.step = "group"
  BY DEF Replies
<1>5. /\ Marked(attempt.run, run) /\ attempt.run.step = run.step /\ attempt.run.err = run.err
      /\ attempt.result \in Results \cup {"again"}
      /\ attempt.result = "refused" <=> reply = "refused"
  BY <1>1, <1>4, AttemptMarks
<1> HIDE DEF attempt
<1>6. /\ RunSound(attempt.run, path) /\ Follows(attempt.run, run)
      /\ attempt.run.unit = run.unit /\ attempt.run.group = run.group
  <2> DEFINE x == attempt.run
  <2>1. Marked(x, run) /\ x.step = run.step /\ x.err = run.err
    BY <1>5
  <2> HIDE DEF x, path
  <2>2. RunSound(x, path) /\ Follows(x, run)
    BY <1>1, <2>1, MarkedSound
  <2> QED
    BY <2>1, <2>2 DEF x, Marked, PlanAlike
<1>7. /\ RunSound(run', path) /\ Follows(run', run)
      /\ reply = "refused" => run.group \in Remembered(run'.state, run.unit)
  <2>1. CASE run' = Stopped(run, reply)
    <3> DEFINE x == Stopped(run, reply)
    <3>1. /\ RunSound(x, path) /\ Follows(x, run)
          /\ reply = "refused" => run.group \in Remembered(x.state, run.unit)
      <4> HIDE DEF path
      <4> QED
        BY <1>1, <1>4, StoppedSound
    <3> HIDE DEF x
    <3>2. run' = x
      BY <2>1 DEF x
    <3> QED
      BY <3>1, <3>2
  <2>2. CASE attempt.result = "again" /\ run' = attempt.run
    BY <1>5, <1>6, <2>2
  <2>3. CASE attempt.result # "again" /\ run' \in After(attempt.run, attempt.result)
    <3> DEFINE r == attempt.run
               result == attempt.result
               x == run'
    <3>1. /\ RunSound(r, path) /\ r.step \in Steps \ {"route", "done"}
          /\ r.step = "group" => result \in Results
          /\ r.step # "group" => result \in (Results \ {"refused"}) \cup {"over"}
          /\ result = "over" => r.step \in {"inventory", "after"}
          /\ x \in After(r, result)
      BY <1>1, <1>4, <1>5, <1>6, <2>3 DEF Results
    <3> HIDE DEF r, result, x, path
    <3>2. /\ Continues(x, r, path)
          /\ r.step = "group" /\ result = "refused" =>
               r.group \in Remembered(x.state, r.unit)
      BY <3>1, AfterSound
    <3>3. RunSound(x, path) /\ Follows(x, r)
      BY <3>2 DEF Continues
    <3>4. Follows(r, run)
      BY <1>6 DEF r
    <3>5. Follows(x, run)
      BY <3>3, <3>4, FollowsOn
    <3>6. reply = "refused" => run.group \in Remembered(x.state, run.unit)
      BY <1>4, <1>5, <1>6, <3>2 DEF r, result
    <3> QED
      BY <3>3, <3>5, <3>6 DEF x
  <2> QED
    BY <1>3, <2>1, <2>2, <2>3 DEF attempt
<1>8. \/ refusals' = refusals
      \/ /\ run.unit \in Units /\ run.group \in Groups
         /\ refusals' = refusals \cup {<<run.unit, run.group>>}
         /\ run.group \in Remembered(run'.state, run.unit)
  <2>1. CASE reply = "refused"
    <3>1. run.unit \in Units /\ run.group \in Groups
      BY <1>1, <1>4, <2>1 DEF RunSound, AtGroup, Serves, Serving, Visiting
    <3> QED
      BY <1>3, <1>7, <2>1, <3>1
  <2>2. CASE reply # "refused"
    BY <1>3, <2>2
  <2> QED
    BY <2>1, <2>2
<1> QED
  BY <1>1, <1>2, <1>7, <1>8, CycleKept

-----------------------------------------------------------------------------
(* A refresh begins                                                        *)

LEMMA LaterSound ==
    ASSUME NEW path, NEW s, IsState(s), NEW cycle \in Nat, StateSound(s, cycle, path)
    PROVE  StateSound(s, cycle + 1, path)
<1>1. \A u \in Units : ChildSound(s.children[u], cycle + 1, s.identifiedAt)
  BY DEF StateSound, ChildSound, BackoffSound, IsState, IsChild
<1> QED
  BY <1>1 DEF StateSound, IsState

LEMMA NewRunSound ==
    ASSUME IsCore(core), core.generation # 0, IsState(store),
           StateSound(store, core.cycle, core.path), IdentifiedOn(store, core.generation)
    PROVE  LET x == NewRun(store)
           IN  /\ Sound(x, core.path) /\ UnseenFrom(x, Units) /\ x.err = "none"
               /\ x.state = store /\ x.session = core.session
               /\ x.generation = core.generation /\ x.cycle = core.cycle + 1
<1> DEFINE x == NewRun(store)
           path == core.path
           cycle == core.cycle
<1>1. /\ x.err = "none" /\ x.state = store /\ x.session = core.session
      /\ x.generation = core.generation /\ x.cycle = core.cycle + 1
      /\ x.out = NewOutput /\ DOMAIN x = RunFields
  BY DEF NewRun, RunFields
<1>2. x.allowance \in BOOLEAN /\ x.sent \in BOOLEAN /\ x.fits \in BOOLEAN
  BY DEF NewRun, IsCore
<1>3. /\ x.failed = 0 /\ x.unit = 0 /\ x.group = 0 /\ x.count = 0 /\ x.answered = {}
      /\ x.reason = "read"
  BY DEF NewRun
<1>4. /\ DOMAIN NewOutput = OutputFields /\ DOMAIN NewOutput.children = Units
      /\ \A u \in Units : NewOutput.children[u] = Unseen
  BY DEF NewOutput, OutputFields
<1>5. IsObservation(Unseen) /\ Unseen.reading = NoReading /\ Unseen.evidence # "current"
  BY DEF Unseen, IsObservation, Readings
<1> HIDE DEF x
<1>6. IsOutput(x.out)
  BY <1>1, <1>4, <1>5 DEF IsOutput
<1>7. IsRun(x)
  BY <1>1, <1>2, <1>3, <1>6 DEF IsRun, IsCore, Reasons
<1>8. UnseenFrom(x, Units)
  <2>1. ASSUME NEW u \in Units PROVE store.children[u].failedAt < core.cycle + 1
    BY DEF StateSound, ChildSound, BackoffSound, IsState, IsChild, IsCore
  <2> QED
    BY <1>1, <1>4, <2>1 DEF UnseenFrom
<1>9. OutputSound(x)
  BY <1>5, <1>8 DEF UnseenFrom, OutputSound, Reported, Unseen
<1>10. StateSound(store, cycle + 1, path)
  <2>1. IsState(store) /\ cycle \in Nat /\ StateSound(store, cycle, path)
    BY DEF IsCore
  <2> HIDE DEF cycle, path
  <2> QED
    BY <2>1, LaterSound
<1>11. Sound(x, path)
  BY <1>1, <1>7, <1>9, <1>10 DEF Sound
<1> QED
  BY <1>1, <1>8, <1>11 DEF x

LEMMA BeginKept ==
    ASSUME HuaweiInv, BeginRefresh
    PROVE  HuaweiInv'
<1> DEFINE r == NewRun(store)
           path == core.path
           next == [core EXCEPT !.busy = TRUE, !.cycle = @ + 1]
<1>1. /\ IsCore(core) /\ core.started /\ ~core.closed /\ ~core.busy /\ ~InProgress
      /\ core.generation \in Nat /\ core.session = core.generation
      /\ core.session \in 1 .. MaxGeneration /\ ~core.closing
      /\ sessions \in [1 .. MaxGeneration -> Fates]
      /\ IsState(store) /\ StateSound(store, core.cycle, core.path)
      /\ IdentifiedOn(store, core.generation)
  BY DEF HuaweiInv, Typed, Connected, StoreKept, BeginRefresh, IsCore
<1>2. /\ core' = next /\ run' = FirstRead(r) /\ returned' = NoResult
      /\ UNCHANGED <<store, sessions, caller, refusals>>
  BY DEF BeginRefresh
<1>3. /\ IsCore(next) /\ next.path = core.path /\ next.cycle = core.cycle + 1
      /\ next.generation = core.generation /\ next.session = core.session
      /\ next.started = core.started /\ next.closed = core.closed
      /\ next.closing = core.closing /\ next.busy
  <2>1. /\ DOMAIN next = CoreFields /\ next.path = core.path /\ next.cycle = core.cycle + 1
        /\ next.generation = core.generation /\ next.session = core.session
        /\ next.sent = core.sent /\ next.early = core.early /\ next.last = core.last
        /\ next.started = core.started /\ next.closed = core.closed
        /\ next.closing = core.closing
    BY <1>1 DEF IsCore, CoreFields
  <2>2. next.busy = TRUE
    BY <1>1 DEF IsCore, CoreFields
  <2> HIDE DEF next
  <2>3. next.busy \in BOOLEAN
    BY <2>2
  <2> QED
    BY <1>1, <2>1, <2>2, <2>3 DEF IsCore
<1> HIDE DEF next
<1>4. /\ Sound(r, path) /\ UnseenFrom(r, Units) /\ r.err = "none"
      /\ r.state = store /\ r.session = core.session
      /\ r.generation = core.generation /\ r.cycle = core.cycle + 1
  <2>1. core.generation # 0
    BY <1>1
  <2> QED
    BY <1>1, <2>1, NewRunSound
<1> HIDE DEF r
<1>5. Continues(run', r, path)
  <2> DEFINE step == IF path = "smartlogger"
                     THEN IF Guarded(r.state, r.generation) THEN "guard" ELSE "before"
                     ELSE "search"
  <2>1. run' = Exchange(r, step)
    BY <1>2 DEF FirstRead, SmartLoggerFirst
  <2>2. /\ step \in OpenSteps
        /\ step = "guard" => r.state.identified
        /\ step \in {"search", "tuple"} => path = "sdongle"
    BY <1>1 DEF OpenSteps, Guarded, IsCore
  <2> HIDE DEF step, path
  <2>3. Continues(Exchange(r, step), r, path)
    BY <1>4, <2>2, ExchangeOpen
  <2> QED
    BY <2>1, <2>3
<1>6. /\ RunSound(run', path) /\ StateFollows(run'.state, store)
      /\ run'.session = core.session /\ run'.generation = core.generation
      /\ run'.cycle = core.cycle + 1
  BY <1>4, <1>5 DEF Continues, Follows
<1>7. InProgress'
  BY <1>6 DEF InProgress, RunSound, Steps, OpenSteps, ChildSteps
<1>8. Typed'
  BY <1>1, <1>2, <1>3, <1>6, <1>7 DEF HuaweiInv, Typed
<1>9. Connected'
  BY <1>2, <1>3 DEF HuaweiInv, Connected
<1>10. StoreKept'
  <2> DEFINE cycle == core.cycle
  <2>1. StateSound(store, cycle + 1, path)
    <3>1. cycle \in Nat /\ StateSound(store, cycle, path)
      BY <1>1 DEF IsCore
    <3> HIDE DEF cycle, path
    <3> QED
      BY <1>1, <3>1, LaterSound
  <2> QED
    BY <1>1, <1>2, <1>3, <2>1 DEF StoreKept
<1>11. RunConnected'
  <2>1. \A g \in 1 .. core.session - 1 :
          g \in DOMAIN sessions => sessions[g] \notin {"bound", "closing"}
    BY <1>1 DEF HuaweiInv, Connected
  <2> QED
    BY <1>1, <1>2, <1>3, <1>6, <1>7, <2>1 DEF RunConnected
<1>12. RefusalsKept'
  <2>1. ASSUME NEW u \in Units
        PROVE  /\ \A g \in Groups : <<u, g>> \in refusals => g \in Remembered(run'.state, u)
               /\ store.children[u].known => run'.state.children[u].known
               /\ ~run'.state.children[u].known =>
                     run'.state.carried[u] \subseteq store.carried[u]
    <3>1. \A g \in Groups : <<u, g>> \in refusals => g \in Remembered(store, u)
      BY <1>1 DEF HuaweiInv, RefusalsKept
    <3> QED
      BY <1>6, <3>1 DEF StateFollows
  <2> QED
    BY <1>2, <1>7, <2>1 DEF RefusalsKept
<1>13. EmittedReadingIsOwned' /\ CurrentIsFresh'
  BY <1>2 DEF EmittedReadingIsOwned, CurrentIsFresh, NoResult
<1>14. BackoffsKept' /\ BackoffReported'
  <2>1. \A u \in Units : run'.out.children[u] = Unseen =>
          SameBackoff(store.children[u], run'.state.children[u])
    BY <1>4, <1>5 DEF Continues, Follows, BackoffFollows, SameBackoff
  <2> QED
    BY <1>2, <2>1 DEF BackoffsKept, BackoffReported, NoResult
<1> QED
  BY <1>8, <1>9, <1>10, <1>11, <1>12, <1>13, <1>14 DEF HuaweiInv

-----------------------------------------------------------------------------
(* A refresh ends                                                          *)

LEMMA RefusalsCarried ==
    ASSUME NEW path, NEW s, IsState(s), NEW cycle, StateSound(s, cycle, path),
           NEW f, IsState(f)
    PROVE  LET x == CarryRefusals(s, f)
           IN  /\ IsState(x) /\ StateSound(x, cycle, path)
               /\ x.identified = s.identified
               /\ x.identityGeneration = s.identityGeneration
               /\ x.gatewayFenced = s.gatewayFenced /\ x.verdict = s.verdict
               /\ \A u \in Units :
                     /\ f.children[u].refused \subseteq Remembered(x, u)
                     /\ ~s.children[u].known => s.carried[u] \subseteq Remembered(x, u)
<1> DEFINE kid(u) == WithRefusals(s, f, u)
           kids == [u \in Units |-> kid(u)]
           places == [u \in Units |-> IF s.children[u].known THEN s.carried[u]
                                      ELSE s.carried[u] \cup f.children[u].refused]
           x == [s EXCEPT !.children = kids, !.carried = places]
<1>1. CarryRefusals(s, f) = x
  BY DEF CarryRefusals
<1>2. ASSUME NEW u \in Units
      PROVE  /\ IsChild(kid(u)) /\ ChildSound(kid(u), cycle, s.identifiedAt)
             /\ kid(u).known = s.children[u].known
             /\ kid(u).identity = s.children[u].identity
             /\ kid(u).known => f.children[u].refused \subseteq kid(u).refused
  <2> DEFINE c == s.children[u]
             more == f.children[u].refused
             d == [c EXCEPT !.refused = @ \cup more]
  <2>1. kid(u) = IF c.known THEN d ELSE c
    BY DEF WithRefusals
  <2>2. /\ IsChild(c) /\ ChildSound(c, cycle, s.identifiedAt) /\ s.identifiedAt \in Nat
        /\ more \subseteq Groups
    BY DEF IsState, IsChild, StateSound
  <2>3. /\ IsChild(d)
        /\ d.known = c.known /\ d.refused = c.refused \cup more /\ d.reading = c.reading
        /\ d.generation = c.generation /\ d.identity = c.identity
        /\ d.since = c.since /\ d.admittedAt = c.admittedAt
        /\ SameBackoff(d, c) /\ d.skipUntil = c.skipUntil
    <3> HIDE DEF c, more
    <3>1. /\ DOMAIN d = ChildFields
          /\ d.known = c.known /\ d.refused = c.refused \cup more /\ d.reading = c.reading
          /\ d.generation = c.generation /\ d.identity = c.identity
          /\ d.since = c.since /\ d.admittedAt = c.admittedAt
          /\ d.definitive = c.definitive /\ d.ineligible = c.ineligible
          /\ d.failures = c.failures /\ d.failedAt = c.failedAt
          /\ d.skipUntil = c.skipUntil
      BY <2>2 DEF IsChild, ChildFields
    <3> HIDE DEF d
    <3> QED
      BY <2>2, <3>1 DEF IsChild, SameBackoff
  <2>4. ChildSound(d, cycle, s.identifiedAt)
    <3> HIDE DEF d, c
    <3> QED
      BY <2>2, <2>3, SameWait DEF ChildSound
  <2> HIDE DEF d, kid, c
  <2> QED
    BY <2>1, <2>2, <2>3, <2>4 DEF c
<1> HIDE DEF kid
<1>3. /\ x.identified = s.identified /\ x.identityGeneration = s.identityGeneration
      /\ x.gatewayFenced = s.gatewayFenced /\ x.verdict = s.verdict
      /\ x.identifiedAt = s.identifiedAt /\ x.children = kids /\ x.carried = places
      /\ DOMAIN x = StateFields /\ x.reidentify = s.reidentify
      /\ x.unstable = s.unstable /\ x.endpointFailures = s.endpointFailures
      /\ x.listing = s.listing
  BY DEF IsState, StateFields
<1>4. places \in [Units -> SUBSET Groups]
  BY DEF IsState, IsChild
<1>5. /\ DOMAIN kids = Units
      /\ \A u \in Units : kids[u] = kid(u)
  OBVIOUS
<1>6. \A u \in Units : places[u] = IF s.children[u].known THEN s.carried[u]
                                   ELSE s.carried[u] \cup f.children[u].refused
  OBVIOUS
<1> HIDE DEF x, kids, places
<1>7. IsState(x)
  BY <1>2, <1>3, <1>4, <1>5 DEF IsState
<1>8. StateSound(x, cycle, path)
  BY <1>2, <1>3, <1>5 DEF StateSound
<1>9. \A u \in Units :
        /\ f.children[u].refused \subseteq Remembered(x, u)
        /\ ~s.children[u].known => s.carried[u] \subseteq Remembered(x, u)
  <2> SUFFICES ASSUME NEW u \in Units
               PROVE  /\ f.children[u].refused \subseteq Remembered(x, u)
                      /\ ~s.children[u].known => s.carried[u] \subseteq Remembered(x, u)
    OBVIOUS
  <2>1. CASE s.children[u].known
    <3>1. Remembered(x, u) = kid(u).refused
      BY <1>2, <1>3, <1>5, <2>1 DEF Remembered
    <3> QED
      BY <1>2, <2>1, <3>1
  <2>2. CASE ~s.children[u].known
    <3>1. Remembered(x, u) = s.carried[u] \cup f.children[u].refused
      BY <1>2, <1>3, <1>5, <1>6, <2>2 DEF Remembered
    <3> QED
      BY <3>1
  <2> QED
    BY <2>1, <2>2
<1>10. /\ IsState(x) /\ StateSound(x, cycle, path)
       /\ x.identified = s.identified
       /\ x.identityGeneration = s.identityGeneration
       /\ x.gatewayFenced = s.gatewayFenced /\ x.verdict = s.verdict
       /\ \A u \in Units :
             /\ f.children[u].refused \subseteq Remembered(x, u)
             /\ ~s.children[u].known => s.carried[u] \subseteq Remembered(x, u)
  BY <1>3, <1>7, <1>8, <1>9
<1> HIDE DEF x
<1> QED
  BY <1>1, <1>10

LEMMA EndKept ==
    ASSUME HuaweiInv, EndRefresh
    PROVE  HuaweiInv'
<1> DEFINE fenced == core.generation # run.generation
           commits == ~core.closed /\ ~fenced /\ run.err = "none"
           free == [core EXCEPT !.busy = FALSE]
           paced == [core EXCEPT !.busy = FALSE, !.sent = run.sent, !.early = TRUE]
           done == [paced EXCEPT !.last = run.cycle]
           path == core.path
           cycle == core.cycle
<1>1. /\ core' = CASE core.closed \/ fenced -> free
                   [] commits /\ run.out.outcome = "complete" -> done
                   [] OTHER -> paced
      /\ store' = CASE commits -> run.state
                    [] core.closed -> store
                    [] OTHER -> CarryRefusals(store, run.state)
      /\ returned' = IF commits
                     THEN [cycle |-> run.cycle, generation |-> run.generation,
                           out |-> run.out]
                     ELSE NoResult
      /\ run' = NoRun
      /\ UNCHANGED <<sessions, caller, refusals>>
  BY DEF EndRefresh
<1>2. /\ InProgress /\ IsRun(run) /\ RunSound(run, path)
      /\ run.step = "done" /\ run.cycle = cycle
      /\ run.generation = core.generation /\ ~core.closed => core.started
      /\ IsCore(core) /\ IsState(store) /\ IsState(run.state) /\ core.closed \in BOOLEAN
  BY RunBefore DEF EndRefresh, InProgress, HuaweiInv, Typed, IsRun, IsCore
<1>3. ASSUME NEW x \in {free, paced, done}
      PROVE  /\ IsCore(x) /\ x.path = core.path /\ x.cycle = core.cycle
             /\ x.generation = core.generation /\ x.session = core.session
             /\ x.started = core.started /\ x.closed = core.closed
             /\ x.closing = core.closing /\ ~x.busy
  <2>1. /\ DOMAIN x = CoreFields /\ x.path = core.path /\ x.cycle = core.cycle
        /\ x.generation = core.generation /\ x.session = core.session
        /\ x.started = core.started /\ x.closed = core.closed
        /\ x.closing = core.closing
    <3>1. CASE x = free
      BY <1>2, <3>1 DEF IsCore, CoreFields
    <3>2. CASE x = paced
      BY <1>2, <3>2 DEF IsCore, CoreFields
    <3>3. CASE x = done
      BY <1>2, <3>3 DEF IsCore, CoreFields
    <3> QED
      BY <3>1, <3>2, <3>3
  <2>2. x.busy = FALSE
    BY <1>2 DEF IsCore, CoreFields
  <2>3. x.sent = core.sent \/ x.sent = run.sent
    BY <1>2 DEF IsCore, CoreFields
  <2>4. x.early = core.early \/ x.early = TRUE
    BY <1>2 DEF IsCore, CoreFields
  <2>5. x.last = core.last \/ x.last = run.cycle
    BY <1>2 DEF IsCore, CoreFields
  <2>6. x.sent \in BOOLEAN
    BY <1>2, <2>3 DEF IsCore, IsRun
  <2>7. x.early \in BOOLEAN
    BY <1>2, <2>4 DEF IsCore
  <2>8. x.busy \in BOOLEAN
    BY <2>2
  <2> HIDE DEF path, cycle
  <2> QED
    BY <1>2, <2>1, <2>2, <2>5, <2>6, <2>7, <2>8 DEF IsCore, IsRun
<1>4. core' \in {free, paced, done}
  <2> HIDE DEF free, paced, done, commits, fenced
  <2>1. CASE core.closed \/ fenced
    <3>1. ~(commits /\ run.out.outcome = "complete")
      BY <2>1 DEF commits
    <3> QED
      BY <1>1, <2>1, <3>1
  <2>2. CASE ~(core.closed \/ fenced) /\ commits /\ run.out.outcome = "complete"
    BY <1>1, <2>2
  <2>3. CASE ~(core.closed \/ fenced) /\ ~(commits /\ run.out.outcome = "complete")
    BY <1>1, <2>3
  <2> QED
    BY <2>1, <2>2, <2>3
<1>5. /\ IsCore(core') /\ core'.path = core.path /\ core'.cycle = core.cycle
      /\ core'.generation = core.generation /\ core'.session = core.session
      /\ core'.started = core.started /\ core'.closed = core.closed
      /\ core'.closing = core.closing /\ ~core'.busy
  <2> HIDE DEF free, paced, done
  <2> QED
    BY <1>3, <1>4
<1>6. \/ commits /\ store' = run.state
      \/ ~commits /\ core.closed /\ store' = store
      \/ ~commits /\ ~core.closed /\ store' = CarryRefusals(store, run.state)
  <2>1. CASE commits
    <3>1. ~core.closed
      BY <2>1
    <3> HIDE DEF commits
    <3> QED
      BY <1>1, <2>1, <3>1
  <2>2. CASE ~commits /\ core.closed
    <3> HIDE DEF commits
    <3> QED
      BY <1>1, <2>2
  <2>3. CASE ~commits /\ ~core.closed
    <3> HIDE DEF commits
    <3> QED
      BY <1>1, <2>3
  <2> QED
    BY <2>1, <2>2, <2>3
<1>7. ~InProgress'
  BY <1>1 DEF InProgress, NoRun
<1>8. Connected'
  BY <1>1, <1>5 DEF HuaweiInv, Connected
<1>9. RunConnected'
  BY <1>7 DEF RunConnected
<1> DEFINE carried == CarryRefusals(store, run.state)
<1>10. /\ IsState(carried) /\ StateSound(carried, cycle, path)
       /\ carried.identified = store.identified
       /\ carried.identityGeneration = store.identityGeneration
       /\ carried.gatewayFenced = store.gatewayFenced /\ carried.verdict = store.verdict
       /\ \A u \in Units :
             /\ run.state.children[u].refused \subseteq Remembered(carried, u)
             /\ ~store.children[u].known => store.carried[u] \subseteq Remembered(carried, u)
  <2> DEFINE f == run.state
             s == store
  <2>1. IsState(s) /\ StateSound(s, cycle, path) /\ IsState(f)
    BY <1>2 DEF HuaweiInv, StoreKept
  <2> HIDE DEF f, s, path, cycle
  <2>2. LET x == CarryRefusals(s, f)
        IN  /\ IsState(x) /\ StateSound(x, cycle, path)
            /\ x.identified = s.identified
            /\ x.identityGeneration = s.identityGeneration
            /\ x.gatewayFenced = s.gatewayFenced /\ x.verdict = s.verdict
            /\ \A u \in Units :
                  /\ f.children[u].refused \subseteq Remembered(x, u)
                  /\ ~s.children[u].known => s.carried[u] \subseteq Remembered(x, u)
    BY <2>1, RefusalsCarried
  <2> QED
    BY <2>2 DEF f, s
<1> HIDE DEF carried
<1>11. store' = carried \/ store' = store \/ store' = run.state
  BY <1>6 DEF carried
<1>12. Typed'
  <2>1. IsState(store')
    BY <1>2, <1>10, <1>11
  <2> QED
    BY <1>1, <1>5, <1>7, <2>1 DEF HuaweiInv, Typed
<1>13. StoreKept'
  <2>1. CASE commits
    <3>1. store' = run.state
      BY <1>6, <2>1
    <3>2. core.started /\ run.generation = core.generation
      BY <1>2, <2>1
    <3>3. StateSound(run.state, cycle, path) /\ IdentifiedOn(run.state, run.generation)
      BY <1>2 DEF RunSound, Sound
    <3> QED
      BY <1>5, <3>1, <3>2, <3>3 DEF StoreKept
  <2>2. CASE ~commits /\ core.closed
    <3>1. store' = store
      BY <1>6, <2>2
    <3> QED
      BY <1>5, <3>1 DEF HuaweiInv, StoreKept
  <2>3. CASE ~commits /\ ~core.closed
    <3>1. store' = carried
      BY <1>6, <2>3 DEF carried
    <3> QED
      BY <1>5, <1>10, <3>1 DEF HuaweiInv, StoreKept, IdentifiedOn
  <2> QED
    BY <1>2, <2>1, <2>2, <2>3
<1>14. RefusalsKept'
  <2> SUFFICES ASSUME ~core.closed, NEW u \in Units, NEW g \in Groups, <<u, g>> \in refusals
               PROVE  g \in Remembered(store', u)
    BY <1>1, <1>5, <1>7 DEF RefusalsKept
  <2>1. /\ g \in Remembered(run.state, u)
        /\ store.children[u].known => run.state.children[u].known
        /\ ~run.state.children[u].known => run.state.carried[u] \subseteq store.carried[u]
    BY <1>2 DEF HuaweiInv, RefusalsKept
  <2>2. CASE commits
    BY <1>6, <2>1, <2>2
  <2>3. CASE ~commits
    <3>1. store' = carried
      BY <1>6, <2>3 DEF carried
    <3>2. CASE run.state.children[u].known
      BY <1>10, <2>1, <3>1, <3>2 DEF Remembered
    <3>3. CASE ~run.state.children[u].known
      <4>1. g \in store.carried[u] /\ ~store.children[u].known
        BY <2>1, <3>3 DEF Remembered
      <4> QED
        BY <1>10, <3>1, <4>1
    <3> QED
      BY <3>2, <3>3
  <2> QED
    BY <2>2, <2>3
<1>15. EmittedReadingIsOwned' /\ CurrentIsFresh'
  <2>1. CASE ~commits
    <3>1. returned' = NoResult
      BY <1>1, <2>1
    <3> QED
      BY <3>1 DEF EmittedReadingIsOwned, CurrentIsFresh, NoResult
  <2>2. CASE commits
    <3>1. /\ returned'.out = run.out /\ returned'.cycle = run.cycle
          /\ returned'.generation = run.generation /\ store' = run.state
          /\ run.err = "none"
      BY <1>1, <1>6, <2>2
    <3>2. /\ Sound(run, path) /\ Ended(run) /\ run.generation # 0
      BY <1>2 DEF RunSound, IsRun
    <3>3. ASSUME NEW u \in Units
          PROVE  LET c == run.state.children[u]
                     o == run.out.children[u]
                 IN  /\ o.reading # NoReading =>
                          /\ run.state.verdict = "match" /\ c.identity
                          /\ \A g \in Groups : o.reading[g] # 0 => o.reading[g] >= c.since
                     /\ o.evidence = "current" =>
                          /\ run.out.outcome = "complete"
                          /\ c.generation = run.generation
                          /\ run.state.identityGeneration = run.generation
                          /\ c.admittedAt >= run.state.identifiedAt
                          /\ \A g \in Groups \ c.refused : o.reading[g] = run.cycle
      <4> DEFINE c == run.state.children[u]
                 o == run.out.children[u]
      <4>1. /\ Reported(run, u) /\ IsChild(c)
            /\ ChildSound(c, run.cycle, run.state.identifiedAt)
        BY <1>2, <3>2 DEF Sound, OutputSound, StateSound, IsState
      <4>2. ASSUME o.reading # NoReading
            PROVE  /\ run.state.verdict = "match" /\ c.identity
                   /\ \A g \in Groups : o.reading[g] # 0 => o.reading[g] >= c.since
        <5>1. o.reading = c.reading /\ c.identity /\ run.state.verdict = "match"
          BY <4>1, <4>2 DEF Reported
        <5>2. DOMAIN c.reading = Groups
          BY <4>1, <4>2, <5>1 DEF IsChild, Readings
        <5> QED
          BY <4>1, <5>1, <5>2 DEF ChildSound
      <4>3. ASSUME o.evidence = "current"
            PROVE  /\ run.out.outcome = "complete"
                   /\ c.generation = run.generation
                   /\ run.state.identityGeneration = run.generation
                   /\ c.admittedAt >= run.state.identifiedAt
                   /\ \A g \in Groups \ c.refused : o.reading[g] = run.cycle
        <5>1. /\ run.state.identified /\ c.generation = run.generation
              /\ \A g \in Groups \ c.refused : o.reading[g] = run.cycle
          BY <4>1, <4>3 DEF Reported
        <5>2. run.out.outcome = "complete"
          BY <3>1, <3>2, <4>3 DEF Ended
        <5>3. run.state.identityGeneration = run.generation
          BY <3>2, <5>1 DEF Sound, IdentifiedOn
        <5>4. c.admittedAt >= run.state.identifiedAt
          BY <3>2, <4>1, <5>1 DEF ChildSound
        <5> QED
          BY <5>1, <5>2, <5>3, <5>4
      <4> QED
        BY <4>2, <4>3
    <3> QED
      BY <3>1, <3>3 DEF EmittedReadingIsOwned, CurrentIsFresh
  <2> QED
    BY <2>1, <2>2
<1>16. BackoffsKept' /\ BackoffReported'
  <2>1. CASE ~commits
    <3>1. returned' = NoResult
      BY <1>1, <2>1
    <3> QED
      BY <1>7, <3>1 DEF BackoffsKept, BackoffReported, NoResult
  <2>2. CASE commits
    <3>1. returned'.out = run.out /\ returned'.cycle = run.cycle /\ store' = run.state
      BY <1>1, <1>6, <2>2
    <3>2. OutputSound(run)
      BY <1>2 DEF RunSound, Sound
    <3> QED
      BY <1>7, <3>1, <3>2 DEF BackoffsKept, BackoffReported, OutputSound, Reported
  <2> QED
    BY <2>1, <2>2
<1> QED
  BY <1>8, <1>9, <1>12, <1>13, <1>14, <1>15, <1>16 DEF HuaweiInv

-----------------------------------------------------------------------------
(* The theorems                                                            *)

LEMMA InitKept ==
    ASSUME Init
    PROVE  HuaweiInv
<1>1. PICK path \in Paths :
        core = [path |-> path, session |-> 0, generation |-> 0, started |-> FALSE,
                closed |-> FALSE, busy |-> FALSE, closing |-> FALSE, sent |-> FALSE,
                cycle |-> 0, early |-> FALSE, last |-> 0]
  BY DEF Init
<1>2. /\ IsCore(core) /\ ~core.started /\ ~core.closed /\ ~core.busy /\ ~core.closing
      /\ core.cycle = 0 /\ core.generation = 0
  BY <1>1 DEF IsCore, CoreFields
<1>3. /\ store = NewState /\ run = NoRun /\ returned = NoResult /\ refusals = {}
      /\ sessions = [g \in 1 .. MaxGeneration |-> "unbound"]
      /\ caller = [op |-> "none", session |-> 0]
  BY DEF Init
<1>4. /\ DOMAIN NewState = StateFields /\ ~NewState.identified
      /\ NewState.identified \in BOOLEAN /\ NewState.identityGeneration = 0
      /\ NewState.reidentify \in BOOLEAN /\ NewState.gatewayFenced = FALSE
      /\ NewState.unstable = 0 /\ NewState.endpointFailures = 0
      /\ NewState.listing \in [Units -> Classes]
      /\ NewState.carried \in [Units -> SUBSET Groups]
      /\ NewState.verdict = "none" /\ NewState.identifiedAt = 0
      /\ DOMAIN NewState.children = Units
      /\ \A u \in Units : NewState.children[u] = NewChild
  BY DEF NewState, StateFields, Classes
<1>5. /\ IsChild(NewChild) /\ ChildSound(NewChild, 0, 0)
      /\ ~NewChild.known /\ ~NewChild.identity
  <2>1. /\ ~NewChild.known /\ ~NewChild.identity /\ NewChild.reading = NoReading
        /\ NewChild.generation = 0 /\ NewChild.since = 0
        /\ NewChild.failures = 0 /\ NewChild.skipUntil = 0 /\ NewChild.failedAt = 0
    BY DEF NewChild
  <2>2. IsChild(NewChild)
    BY DEF IsChild, ChildFields, NewChild, Readings
  <2>3. BackoffSound(NewChild, 0, 0)
    <3>1. 0 \in Nat /\ NewChild.failedAt =< 0
      BY <2>1
    <3> QED
      BY <2>1, <2>2, <3>1, NoWait
  <2>4. ChildSound(NewChild, 0, 0)
    BY <2>1, <2>3, NoWords DEF ChildSound
  <2> QED
    BY <2>1, <2>2, <2>4
<1>6. IsState(store)
  <2>1. NewState.gatewayFenced \in BOOLEAN
    BY <1>4
  <2> QED
    BY <1>3, <1>4, <1>5, <2>1 DEF IsState, Verdicts
<1>7. ~InProgress
  BY <1>3 DEF InProgress, NoRun
<1>8. /\ sessions \in [1 .. MaxGeneration -> Fates]
      /\ \A g \in 1 .. MaxGeneration : sessions[g] = "unbound"
  BY <1>3 DEF Fates
<1>9. caller \in Callers /\ caller.op = "none"
  BY <1>3 DEF Callers
<1>10. Typed
  BY <1>2, <1>3, <1>6, <1>7, <1>8, <1>9 DEF Typed
<1>11. Connected
  BY <1>2, <1>8, <1>9 DEF Connected
<1>12. StoreKept
  BY <1>2, <1>3, <1>4, <1>5 DEF StoreKept, StateSound, IdentifiedOn
<1>13. RunConnected /\ RefusalsKept
  BY <1>3, <1>7 DEF RunConnected, RefusalsKept
<1>14. EmittedReadingIsOwned /\ CurrentIsFresh
  BY <1>3 DEF EmittedReadingIsOwned, CurrentIsFresh, NoResult
<1>15. BackoffsKept /\ BackoffReported
  BY <1>3, <1>7 DEF BackoffsKept, BackoffReported, NoResult
<1> QED
  BY <1>10, <1>11, <1>12, <1>13, <1>14, <1>15 DEF HuaweiInv

LEMMA StutterKept ==
    ASSUME HuaweiInv, UNCHANGED vars
    PROVE  HuaweiInv'
<1>1. UNCHANGED <<core, store, run, sessions, caller, returned, refusals>>
  BY DEF vars
<1>2. Typed' /\ Connected' /\ StoreKept' /\ RunConnected' /\ RefusalsKept'
  BY <1>1 DEF HuaweiInv, Typed, Connected, StoreKept, RunConnected, RefusalsKept, InProgress
<1>3. EmittedReadingIsOwned' /\ CurrentIsFresh'
  BY <1>1 DEF HuaweiInv, EmittedReadingIsOwned, CurrentIsFresh
<1>4. BackoffsKept' /\ BackoffReported'
  BY <1>1 DEF HuaweiInv, BackoffsKept, BackoffReported, InProgress
<1> QED
  BY <1>2, <1>3, <1>4 DEF HuaweiInv

LEMMA NextKept ==
    ASSUME HuaweiInv, [Next]_vars
    PROVE  HuaweiInv'
<1>1. CASE Start
  BY <1>1, StartKept
<1>2. CASE Stop
  BY <1>2, StopKept
<1>3. CASE Reconnect
  BY <1>3, ReconnectKept
<1>4. CASE Close
  BY <1>4, CloseKept
<1>5. CASE Released
  BY <1>5, ReleasedKept
<1>6. CASE Tick
  BY <1>6, TickKept
<1>7. CASE BeginRefresh
  BY <1>7, BeginKept
<1>8. CASE Gate
  BY <1>8, GateKept
<1>9. CASE Send
  BY <1>9, SendKept
<1>10. CASE Reply
  BY <1>10, ReplyKept
<1>11. CASE Route
  BY <1>11, RouteKept
<1>12. CASE EndRefresh
  BY <1>12, EndKept
<1>13. CASE UNCHANGED vars
  BY <1>13, StutterKept
<1> QED
  BY <1>1, <1>2, <1>3, <1>4, <1>5, <1>6, <1>7, <1>8, <1>9, <1>10, <1>11, <1>12, <1>13
     DEF Next, Lifecycle, Cycle

(* The invariant holds in every reachable state, however Start, Stop,      *)
(* Reconnect and Close interleave with the reads of a refresh.             *)
THEOREM HuaweiInvariant == Spec => []HuaweiInv
<1>1. Init => HuaweiInv
  BY InitKept
<1>2. HuaweiInv /\ [Next]_vars => HuaweiInv'
  BY NextKept
<1> QED
  BY <1>1, <1>2, PTL DEF Spec

(* Start, Stop, Reconnect and Close never leave two sessions bound, and    *)
(* exchange() sends no read on a session while one bound before it is not  *)
(* closed yet.                                                             *)
THEOREM ConnectionsAreExclusive == Spec => []OneConnection
<1>1. ASSUME HuaweiInv PROVE OneConnection
  <2>1. \A g, h \in DOMAIN sessions :
          sessions[g] = "bound" /\ sessions[h] = "bound" => g = h
    BY <1>1 DEF HuaweiInv, Connected
  <2>2. ASSUME OnWire, NEW g \in 1 .. run.session - 1
        PROVE  sessions[g] \notin {"bound", "closing"}
    <3>1. InProgress
      BY <2>2 DEF OnWire, Reading, InProgress
    <3>2. DOMAIN sessions = 1 .. MaxGeneration
      BY <1>1 DEF HuaweiInv, Typed
    <3>3. run.session \in 1 .. MaxGeneration /\
          \A h \in 1 .. run.session - 1 :
             h \in DOMAIN sessions => sessions[h] \notin {"bound", "closing"}
      BY <1>1, <3>1, RunBefore
    <3> QED
      BY <3>2, <3>3
  <2> QED
    BY <2>1, <2>2 DEF OneConnection
<1> QED
  BY <1>1, HuaweiInvariant, PTL

(* refresh() commits a cycle only on the connection it ran on, so an       *)
(* identified gateway matched its card on the connection bound now.        *)
THEOREM IdentityStaysBound == Spec => []IdentityIsBound
<1>1. ASSUME HuaweiInv PROVE IdentityIsBound
  BY <1>1 DEF HuaweiInv, StoreKept, IdentifiedOn, IdentityIsBound
<1> QED
  BY <1>1, HuaweiInvariant, PTL

(* A monitoring group that got exception 3 is never sent again, through    *)
(* every commit, cancellation, fence and meeting of its child:             *)
(* carryRefusals and child() lose none.                                    *)
THEOREM RefusalsAreFinal == Spec => []RefusedNeverSent
<1>1. ASSUME HuaweiInv PROVE RefusedNeverSent
  <2> SUFFICES ASSUME OnWire, run.step = "group"
               PROVE  <<run.unit, run.group>> \notin refusals
    BY DEF RefusedNeverSent
  <2>1. InProgress /\ RunSound(run, core.path)
    BY <1>1, ReadInProgress DEF OnWire
  <2>2. /\ run.unit \in Units /\ run.state.children[run.unit].known
        /\ run.group \in Groups \ run.state.children[run.unit].refused
    BY <2>1 DEF RunSound, AtGroup, Serves, Serving, Visiting
  <2>3. run.group \notin Remembered(run.state, run.unit)
    BY <2>2 DEF Remembered
  <2> QED
    BY <1>1, <2>1, <2>2, <2>3 DEF HuaweiInv, RefusalsKept
<1> QED
  BY <1>1, HuaweiInvariant, PTL

(* Refresh emits a child's reading only when the latest evaluated tuple    *)
(* matched the card and the child still has its identity, and every kept   *)
(* group was read since that identity was bound.                           *)
THEOREM ReadingsAreOwned == Spec => []EmittedReadingIsOwned
<1>1. HuaweiInv => EmittedReadingIsOwned
  BY DEF HuaweiInv
<1> QED
  BY <1>1, HuaweiInvariant, PTL

(* A child Refresh reports as current was admitted on the connection of    *)
(* the cycle since the gateway was last identified, and each of its groups *)
(* was answered in this very cycle or refused.                             *)
THEOREM CurrentReadingsAreFresh == Spec => []CurrentIsFresh
<1>1. HuaweiInv => CurrentIsFresh
  BY DEF HuaweiInv
<1> QED
  BY <1>1, HuaweiInvariant, PTL

(* A child whose reads failed is left alone for exactly the documented     *)
(* cycles: backedOff() lets serveChild read it in none of them unless the  *)
(* gateway was identified again, and Refresh returns it as backing off in  *)
(* no later one.                                                           *)
THEOREM BackoffsAreExact == Spec => []BackoffIsExact
<1>1. ASSUME HuaweiInv PROVE BackoffIsExact
  <2>1. ASSUME OnWire, run.step \in ChildSteps
        PROVE  LET c == store.children[run.unit]
               IN  \/ run.cycle > c.failedAt + DocumentedWait(c.failures)
                   \/ run.state.identifiedAt > c.failedAt
    <3>1. InProgress /\ RunSound(run, core.path) /\ IsRun(run)
      BY <1>1, <2>1, ReadInProgress DEF OnWire
    <3>2. Visiting(run) /\ Due(run)
      BY <2>1, <3>1 DEF RunSound, Serving
    <3>3. run.unit \in Units /\ run.out.children[run.unit] = Unseen
      BY <3>1, <3>2, ServingAhead DEF Visiting
    <3>4. SameBackoff(store.children[run.unit], run.state.children[run.unit])
      BY <1>1, <3>1, <3>3 DEF HuaweiInv, BackoffsKept
    <3> QED
      BY <3>2, <3>4 DEF Due, SameBackoff
  <2>2. BackoffReported
    BY <1>1 DEF HuaweiInv
  <2> QED
    BY <2>1, <2>2 DEF BackoffIsExact, BackoffReported
<1> QED
  BY <1>1, HuaweiInvariant, PTL
====
