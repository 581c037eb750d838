---------------------------- MODULE SunSpecLayout ----------------------------
(***************************************************************************)
(* How the words of one SunSpec occurrence become facts: the flat models,  *)
(* whose points follow each other and whose last group may repeat          *)
(* (sunspec_model_catalog.go, sunspec_decoder.go), and the nested ones,    *)
(* whose groups repeat by counts found in the occurrence itself and whose  *)
(* facts keep their path and their physical registers                      *)
(* (sunspec_nested_layout*.go, sunspec_structural_projection.go).          *)
(*                                                                         *)
(* A span is [view, at, words]: so many words of a logical view, from the  *)
(* PDU offset on.  A group is [name, repeat, base, fields, children], with *)
(* repeat the name of a count or None; a field is [name, words, emit,      *)
(* point] and point its value metadata or None.  Names, units and symbols  *)
(* are model values: the tables of points are constants.                   *)
(*                                                                         *)
(* What the words of a point say is sunspec_value.go.  A word is a number  *)
(* below WordSize, two bytes below ByteSize; a bit mask is the set of its  *)
(* bits.  A point is [name, type, size, scale, fixed, symbols, known,      *)
(* mandatory]; scale names a point of type "sunssf" or is None, fixed is a *)
(* constant exponent or None.  The content of a value is [kind, of], or    *)
(* None where the code leaves all its has-flags unset.                     *)
(***************************************************************************)
EXTENDS Integers, Sequences, FiniteSets, SequencesExt

CONSTANTS
    None,
    WordSize, ByteSize, WordBits,       \* 65536; 256; 16
    LargestScale,                       \* 10
    LargestSigned,                      \* math.MaxInt64
    CanonicalNaN, Infinity,             \* 0x7fc00000, 0x7f800000
    ValidText(_),                       \* utf8.Valid
    MaxWords,           \* maxSunSpecOccurrenceWords, 65536
    MaxDepth,           \* maxSunSpecNestedLayoutDepth, 16
    Revisions,          \* SunSpecModelsRevisionV1 and V2
    FixedModels,        \* revision -> <<[id, length, points], ...>>
    CountedModels,      \* revision -> {[id, head, group, count], ...}
    OpenModels,         \* revision -> {[id, head, group], ...}: models 302 to 304
    MaxOpenLength,      \* maxAddressableSunSpecModelLength
    ProjectedRevision, ProjectedTemplate,   \* V2, derTripLVV2StructuralProjectionTemplate
    PointsAt, CurvesAt,                     \* 5, 6: the counts of model 707
    FixedWords, CurveWords, PointWords,     \* 7, 4, 9: its length by the counts
    Templates, Wires                        \* the inputs; a wire is [words, spans]

VARIABLE reading

---------------------------------------------------------------------------
(* Values. *)

Number(words) == FoldLeft(LAMBDA n, w : n * WordSize + w, 0, words)
Space(words) == FoldLeft(LAMBDA n, w : n * WordSize, 1, words)

(* Two's complement. *)
TwosComplement(n, space) == IF n >= space \div 2 THEN n - space ELSE n

Signed(words) == TwosComplement(Number(words), Space(words))

SignedTypes == {"int16", "int32", "sunssf"}
UnsignedTypes == {"uint16", "count", "uint32", "uint64"}
AccumulatorTypes == {"acc32", "acc64"}
BitfieldTypes == {"bitfield16", "bitfield32"}

BitsOf(words) == {b \in 0 .. WordBits * Len(words) - 1 : (Number(words) \div 2^b) % 2 = 1}

BytesOf(words) == FlattenSeq([i \in DOMAIN words |-> <<words[i] \div ByteSize, words[i] % ByteSize>>])

(* The raw words that say "no value". *)
SaysNothing(type, n, space) ==
    CASE type \in SignedTypes -> n = space \div 2
      [] type \in UnsignedTypes \cup BitfieldTypes \cup {"enum16"} -> n = space - 1
      [] type \in AccumulatorTypes \cup {"string"} -> n = 0
      [] type = "float32" -> n = CanonicalNaN
      [] OTHER -> FALSE

Sentinel(type, words) == SaysNothing(type, Number(words), Space(words))

(* Faulty variant: what follows the first NUL is not looked at.            *)
TextUpToNul(bytes) ==
    LET nul == {i \in DOMAIN bytes : bytes[i] = 0}
        end == IF nul = {} THEN Len(bytes) ELSE (CHOOSE i \in nul : \A j \in nul : i <= j) - 1
    IN IF ValidText(SubSeq(bytes, 1, end)) THEN SubSeq(bytes, 1, end) ELSE None

(* decodeSunSpecString: the text, or None.  A NUL and 0x80 in front of     *)
(* nothing but NULs is the empty text; otherwise the text ends at the first*)
(* NUL and nothing may follow.                                             *)
Text(bytes) ==
    LET nul == {i \in DOMAIN bytes : bytes[i] = 0}
        end == IF nul = {} THEN Len(bytes) ELSE (CHOOSE i \in nul : \A j \in nul : i <= j) - 1
        ClearAfter(i) == \A j \in DOMAIN bytes : j > i => bytes[j] = 0
    IN IF Len(bytes) >= 2 /\ bytes[1] = 0 /\ bytes[2] = ByteSize \div 2
       THEN IF ClearAfter(2) THEN <<>> ELSE None
       ELSE IF ClearAfter(end) /\ ValidText(SubSeq(bytes, 1, end)) THEN SubSeq(bytes, 1, end) ELSE None

(* setSunSpecBitfield. *)
Bitfield(point, bits) ==
    [kind |-> "bits", of |-> bits, unknown |-> bits \ point.known,
     symbols |-> {point.symbols[b] : b \in bits \cap point.known \cap DOMAIN point.symbols}]

(* The content of words that are no sentinel, or None. *)
Content(point, words) ==
    LET Is(kind, x) == [kind |-> kind, of |-> x]
        Integer(n) ==
            IF point.type = "sunssf" /\ n \notin -LargestScale .. LargestScale THEN None ELSE Is("signed", n)
        Float(n, space) == IF n % (space \div 2) >= Infinity THEN None ELSE Is("float", n)
        Enum(n) ==
            [kind |-> "enum", of |-> n, symbol |-> IF n \in DOMAIN point.symbols THEN point.symbols[n] ELSE None]
        Characters(text) == IF text = None THEN None ELSE Is("text", text)
    IN CASE point.type \in SignedTypes -> Integer(Signed(words))
         [] point.type \in UnsignedTypes \cup AccumulatorTypes -> Is("unsigned", Number(words))
         [] point.type = "float32" -> Float(Number(words), Space(words))
         [] point.type = "enum16" -> Enum(Number(words))
         [] point.type \in BitfieldTypes -> Bitfield(point, BitsOf(words))
         [] point.type = "string" -> Characters(Text(BytesOf(words)))
         [] point.type = "pad" -> IF words[1] = WordSize \div 2 THEN Is("none", 0) ELSE None
         [] OTHER -> None

(* applySunSpecScale.  A wide unsigned type keeps its whole range.         *)
Scaled(value, scale) ==
    LET number == value.content  As(sign) ==
            [value EXCEPT !.decimal = [sign |-> sign, coefficient |-> number.of, exponent |-> scale.content.of]] IN
    IF scale = None THEN [value EXCEPT !.state = "invalid_encoding"]
    ELSE IF scale.state = "invalid_encoding" THEN [value EXCEPT !.state = "invalid_encoding"]
    ELSE IF scale.state # "valid" THEN [value EXCEPT !.state = "not_implemented"]
    ELSE IF number.kind = "signed" THEN As("signed")
    ELSE IF number.kind = "unsigned" /\ value.type = "uint64" THEN As("unsigned")
    ELSE IF number.kind # "unsigned" THEN [value EXCEPT !.state = "invalid_encoding"]
    ELSE IF number.of > LargestSigned THEN [value EXCEPT !.state = "invalid_encoding"]
    ELSE As("signed")

(* A value that has its content, with its scale if it takes one.           *)
Valued(point, value, content, scale) ==
    LET valid == [value EXCEPT !.state = "valid", !.content = content] IN
    IF content = None THEN value
    ELSE IF point.type # "string" /\ (point.scale # None \/ point.fixed # None) THEN Scaled(valid, scale)
    ELSE valid

(* decodeSunSpecValue. *)
Decode(point, words, scale) ==
    LET value == [type |-> point.type, state |-> "invalid_encoding", raw |-> words, content |-> None, decimal |-> None]
    IN IF Len(words) # point.size THEN value
       ELSE IF Sentinel(point.type, words)
            THEN [value EXCEPT !.state =
                    IF point.type \in AccumulatorTypes THEN "not_accumulated" ELSE "not_implemented"]
       ELSE Valued(point, value, Content(point, words), scale)

(* mandatorySunSpecValueQualifies. *)
ValueQualifies(value) ==
    /\ value.state = "valid"
    /\ value.content.kind = "enum" => value.content.symbol # None
    /\ value.content.kind = "bits" => value.content.unknown = {}

---------------------------------------------------------------------------
(* Source spans. *)

SpanFits(s) == s.view # 0 /\ s.words # 0 /\ s.at + s.words <= MaxWords

Total(spans) == FoldLeft(LAMBDA n, s : n + s.words, 0, spans)

(* NewSunSpecOccurrenceSourceRange, or None.                               *)
SourceRange(offset, count, spans) ==
    IF /\ count # 0 /\ offset < MaxWords /\ count <= MaxWords - offset
       /\ spans # <<>> /\ \A s \in Range(spans) : SpanFits(s)
       /\ Total(spans) = count
    THEN [offset |-> offset, count |-> count, spans |-> spans] ELSE None

(* The part of a span that starts at `from` in the occurrence and lies in  *)
(* offset .. offset + count - 1.                                           *)
Part(s, from, offset, count) ==
    LET start == IF offset > from THEN offset - from ELSE 0
        finish == IF offset + count < from + s.words THEN offset + count - from ELSE s.words
    IN [s EXCEPT !.at = @ + start, !.words = finish - start]

(* Faulty variant: the part of a span that begins before the range keeps   *)
(* the offset of the whole span.                                           *)
SelectUnmoved(offset, count, spans) ==
    IF /\ spans # <<>> /\ \A s \in Range(spans) : SpanFits(s)
       /\ Total(spans) <= MaxWords
       /\ count # 0 /\ offset < Total(spans) /\ count <= Total(spans) - offset
    THEN LET From(i) == Total(SubSeq(spans, 1, i - 1))
             inside == SetToSortSeq({i \in DOMAIN spans : From(i) + spans[i].words > offset /\ From(i) < offset + count}, <)
         IN SourceRange(offset, count,
                [k \in DOMAIN inside |->
                    [Part(spans[inside[k]], From(inside[k]), offset, count) EXCEPT !.at = spans[inside[k]].at]])
    ELSE None

(* NewSunSpecOccurrenceSourceRangeFromSpans, or None.                      *)
Select(offset, count, spans) ==
    IF /\ spans # <<>> /\ \A s \in Range(spans) : SpanFits(s)
       /\ Total(spans) <= MaxWords
       /\ count # 0 /\ offset < Total(spans) /\ count <= Total(spans) - offset
    THEN LET From(i) == Total(SubSeq(spans, 1, i - 1))
             inside == SetToSortSeq({i \in DOMAIN spans : From(i) + spans[i].words > offset /\ From(i) < offset + count}, <)
         IN SourceRange(offset, count,
                [k \in DOMAIN inside |-> Part(spans[inside[k]], From(inside[k]), offset, count)])
    ELSE None

---------------------------------------------------------------------------
(* Nested templates. *)

(* validateSunSpecNestedLayoutGroup. *)
RECURSIVE ValidGroup(_, _, _)
ValidGroup(g, counts, depth) ==
    /\ depth <= MaxDepth
    /\ depth > 0 => g.name # None
    /\ IF g.repeat = None THEN g.base = 0 ELSE g.repeat \in counts
    /\ \A f \in Range(g.fields) : f.name # None /\ f.words # 0 /\ (f.point # None => f.emit)
    /\ \A child \in Range(g.children) : ValidGroup(child, counts, depth + 1)

(* newSunSpecNestedLayoutTemplate accepts. *)
ValidTemplate(t) ==
    /\ t.revision \in Revisions /\ t.id # 0
    /\ \A i \in DOMAIN t.counts :
          /\ t.counts[i].name # None
          /\ t.counts[i].min <= t.counts[i].max /\ t.counts[i].max < t.counts[i].unavailable
          /\ \A j \in DOMAIN t.counts :
                t.counts[i].name = t.counts[j].name \/ t.counts[i].offset = t.counts[j].offset => i = j
    /\ t.root.name = None /\ t.root.repeat = None /\ t.root.base = 0
    /\ ValidGroup(t.root, {c.name : c \in Range(t.counts)}, 0)

(* resolveSunSpecNestedCounts, or None. *)
Counts(specs, words) ==
    IF \A c \in Range(specs) :
          /\ c.offset < Len(words)
          /\ words[c.offset + 1] # c.unavailable /\ words[c.offset + 1] \in c.min .. c.max
    THEN [name \in {c.name : c \in Range(specs)} |->
             words[(CHOOSE c \in Range(specs) : c.name = name).offset + 1]]
    ELSE None

(* One field of sunSpecNestedLayoutWalk.walk.  The walk is [offset,        *)
(* entries], or None once it has failed; the code walks twice, first for   *)
(* the extent and the number of entries, and the second time keeps them.   *)
PlaceField(w, f, path, words, spans) ==
    LET Emit(sources) ==
            IF Len(w.entries) >= words \/ sources = None THEN None
            ELSE [offset |-> w.offset + f.words,
                  entries |-> Append(w.entries,
                                 [path |-> Append(path, <<f.name>>), range |-> sources, point |-> f.point])]
    IN IF w = None THEN None
       ELSE IF f.words > words - w.offset THEN None
       ELSE IF ~f.emit THEN [w EXCEPT !.offset = @ + f.words]
       ELSE Emit(Select(w.offset, f.words, spans))

(* sunSpecNestedLayoutWalk.walk. *)
RECURSIVE Walk(_, _, _, _, _, _)
Walk(w, g, path, counts, words, spans) ==
    LET times == IF g.repeat = None THEN 1 ELSE counts[g.repeat]
        Segment(k) == IF g.name = None THEN <<>>
                      ELSE IF g.repeat = None THEN <<<<g.name>>>>
                      ELSE <<<<g.name, g.base + k - 1>>>>
        Once(v, k) ==
            LET here == path \o Segment(k)
                fields == FoldLeft(LAMBDA x, f : PlaceField(x, f, here, words, spans), v, g.fields)
            IN FoldLeft(LAMBDA x, child : Walk(x, child, here, counts, words, spans), fields, g.children)
    IN FoldLeft(LAMBDA v, k : IF v = None THEN None ELSE Once(v, k), w, [k \in 1 .. times |-> k])

(* buildSunSpecNestedOccurrenceLayout: the entries, or None.               *)
Layout(t, words, spans) ==
    LET n == Len(words)
        counts == Counts(t.counts, words)
        header == n \in 2 .. MaxWords /\ words[1] = t.id /\ words[2] + 2 = n
        covered == spans # <<>> /\ (\A s \in Range(spans) : SpanFits(s)) /\ Total(spans) = n
        Whole(walked) == IF walked = None THEN None ELSE IF walked.offset = n THEN walked.entries ELSE None
    IN IF ~header \/ ~covered THEN None
       ELSE IF counts = None THEN None
       ELSE Whole(Walk([offset |-> 0, entries |-> <<>>], t.root, <<>>, counts, n, spans))

---------------------------------------------------------------------------
(* Facts of a nested occurrence. *)

EntryWords(words, e) == SubSeq(words, e.range.offset + 1, e.range.offset + e.range.count)

EntryPoint(e) == [e.point EXCEPT !.size = e.range.count]

(* projectSunSpecStructuralLayout: the facts, or None.  Of several scale   *)
(* factors with one name the last is used.                                 *)
Project(words, entries) ==
    LET scales == {i \in DOMAIN entries : EntryPoint(entries[i]).type = "sunssf"}
        Named(name) == {i \in scales : EntryPoint(entries[i]).name = name}
        Chosen(name) == CHOOSE i \in Named(name) : \A j \in Named(name) : j <= i
        Scale(name) ==
            IF name = None THEN None
            ELSE LET e == entries[Chosen(name)] IN Decode(EntryPoint(e), EntryWords(words, e), None)
    IN IF entries = None THEN None
       ELSE IF \E e \in Range(entries) : e.point = None THEN None
       ELSE IF \E e \in Range(entries) : e.point.scale # None /\ Named(e.point.scale) = {} THEN None
       ELSE [i \in DOMAIN entries |->
                LET e == entries[i]  point == EntryPoint(e) IN
                [point |-> point, path |-> e.path, range |-> e.range,
                 value |-> Decode(point, EntryWords(words, e), Scale(point.scale))]]

---------------------------------------------------------------------------
(* Flat models. *)

(* appendSunSpecDefinition: each point's offset, or None.                  *)
Definition(id, length, points, count) ==
    LET Before(i) == FoldLeft(LAMBDA n, p : n + p.size, 0, SubSeq(points, 1, i)) IN
    IF /\ \A p \in Range(points) : p.size # 0
       /\ Before(Len(points)) <= MaxWords
       /\ Before(Len(points)) = length + 2
    THEN [id |-> id, length |-> length, count |-> count,
          points |-> [i \in DOMAIN points |-> [points[i] EXCEPT !.offset = Before(i - 1)]]]
    ELSE None

Extent(points) == FoldLeft(LAMBDA n, p : n + p.size, 0, points)

Repeated(group, times) == FlattenSeq([k \in 1 .. times |-> [i \in DOMAIN group |-> [group[i] EXCEPT !.index = k]]])

(* mpptSunSpecDefinition, derDCMeasureV2SunSpecDefinition,                 *)
(* bessBankV2SunSpecDefinition and bessStringV2SunSpecDefinition; the      *)
(* geometry check of what they define is Geometry.                         *)
CountedDefinition(m, length) ==
    LET head == Extent(m.head) - 2  words == Extent(m.group) IN
    IF length >= head /\ (length - head) % words = 0
    THEN Definition(m.id, length, m.head \o Repeated(m.group, (length - head) \div words), m)
    ELSE None

(* environmentalSunSpecDefinition: no count, at least one group.           *)
OpenDefinition(m, length) ==
    IF length \in 1 .. MaxOpenLength /\ length % Extent(m.group) = 0
    THEN Definition(m.id, length, m.head \o Repeated(m.group, length \div Extent(m.group)), None)
    ELSE None

(* SunSpecDecoderRegistry.definition, or None. *)
DefinitionOf(revision, id, length) ==
    LET fixed == {m \in Range(FixedModels[revision]) : m.id = id /\ m.length = length}
        counted == {m \in CountedModels[revision] : m.id = id}
        open == {m \in OpenModels[revision] : m.id = id}
    IN CASE fixed # {} -> LET m == CHOOSE x \in fixed : TRUE IN Definition(id, length, m.points, None)
         [] fixed = {} /\ counted # {} -> CountedDefinition(CHOOSE x \in counted : TRUE, length)
         [] fixed = {} /\ counted = {} /\ open # {} -> OpenDefinition(CHOOSE x \in open : TRUE, length)
         [] OTHER -> None

(* standardSunSpecDecoderKeys and environmentalSunSpecDecoderKeys. *)
DecoderKeys(revision) ==
    LET Key(m, length) == <<m.id, length>>
        Fixed(m) == Extent(m.head) - 2
        Times(m) == (WordSize - 1 - Fixed(m)) \div Extent(m.group)
    IN {Key(m, m.length) : m \in Range(FixedModels[revision])}
       \cup UNION {{Key(m, Fixed(m) + Extent(m.group) * k) : k \in 0 .. Times(m)} : m \in CountedModels[revision]}
       \cup UNION {{Key(m, n) : n \in {n \in 1 .. MaxOpenLength : n % Extent(m.group) = 0}} : m \in OpenModels[revision]}

(* The geometry of a counted definition: the count says how many groups.   *)
Geometry(d, words) ==
    d.count # None =>
        /\ Len(words) = d.length + 2 /\ Len(words) > d.count.at
        /\ words[d.count.at + 1] # WordSize - 1
        /\ d.length = Extent(d.count.head) - 2 + Extent(d.count.group) * words[d.count.at + 1]

Constant(exponent) == [state |-> "valid", content |-> [kind |-> "signed", of |-> exponent]]

(* DecodeOccurrence: [geometry, qualifies, facts], or None where it is an  *)
(* error.  The header is no fact.                                          *)
DecodeOccurrence(d, words) ==
    LET Slice(p) == SubSeq(words, p.offset + 1, p.offset + p.size)
        Scales(name) == {i \in DOMAIN d.points : d.points[i].type = "sunssf" /\ d.points[i].name = name}
        Scale(p) ==
            IF p.scale # None
            THEN LET i == CHOOSE j \in Scales(p.scale) : \A k \in Scales(p.scale) : k <= j IN
                 Decode(d.points[i], Slice(d.points[i]), None)
            ELSE IF p.fixed # None THEN Constant(p.fixed) ELSE None
        kept == SelectSeq(d.points, LAMBDA p : p.offset >= 2)
        Decoded(facts) ==
            [geometry |-> TRUE, facts |-> facts,
             qualifies |-> \A i \in DOMAIN facts : facts[i].point.mandatory => ValueQualifies(facts[i].value)]
    IN IF d = None THEN None
       ELSE IF ~(Len(words) = d.length + 2 /\ words[1] = d.id /\ words[2] = d.length) THEN None
       ELSE IF ~Geometry(d, words) THEN [geometry |-> FALSE, qualifies |-> FALSE, facts |-> <<>>]
       ELSE IF \E p \in Range(kept) : p.scale # None /\ Scales(p.scale) = {} THEN None
       ELSE Decoded([i \in DOMAIN kept |->
                        [point |-> kept[i], value |-> Decode(kept[i], Slice(kept[i]), Scale(kept[i]))]])

---------------------------------------------------------------------------
(* The machine: an occurrence arrives, and is read one way or the other.   *)

(* sunSpecV2DERTripLVStructuralCandidate accepts the words: their length   *)
(* is the one their counts give.                                           *)
TripLength(words) ==
    /\ Len(words) > CurvesAt /\ words[1] = ProjectedTemplate.id /\ words[2] + 2 = Len(words)
    /\ words[PointsAt + 1] # WordSize - 1 /\ words[CurvesAt + 1] # WordSize - 1
    /\ words[2] = FixedWords + words[CurvesAt + 1] * (CurveWords + PointWords * words[PointsAt + 1])

Reading(step, template, wire, of) == [step |-> step, template |-> template, wire |-> wire, of |-> of]

Arrive == reading = None /\ \E wire \in Wires : reading' = Reading("wire", None, wire, None)

Read(step, template, of) ==
    /\ of # None
    /\ reading' = Reading(step, template, reading.wire, of)

IsWire == reading # None /\ reading.step = "wire"

(* The layout of a template the package or a test of it makes. *)
Place(t) ==
    /\ IsWire /\ ValidTemplate(t)
    /\ Read("layout", t, Layout(t, reading.wire.words, reading.wire.spans))

(* The candidate of a chain that opted in, projected by                    *)
(* ProjectSunSpecStructuralFacts.                                          *)
Structural ==
    /\ IsWire /\ TripLength(reading.wire.words)
    /\ LET words == reading.wire.words IN
       Read("facts", ProjectedTemplate, Project(words, Layout(ProjectedTemplate, words, reading.wire.spans)))

Flat(revision) ==
    /\ IsWire
    /\ LET words == reading.wire.words IN
       Read("flat", None, DecodeOccurrence(DefinitionOf(revision, words[1], words[2]), words))

Init == reading = None

Next ==
    \/ Arrive
    \/ \E t \in Templates : Place(t)
    \/ Structural
    \/ \E revision \in Revisions : Flat(revision)

---------------------------------------------------------------------------
(* Properties. *)

At(step) == reading # None /\ reading.step \in step

(* The registers of some spans, one after the other.                       *)
Registers(spans) == FlattenSeq([i \in DOMAIN spans |-> [k \in 1 .. spans[i].words |-> <<spans[i].view, spans[i].at + k - 1>>]])

(* A nested entry names exactly the registers its words came from, however *)
(* the occurrence was cut into views: an entry that straddles two spans,   *)
(* or begins inside one, is where an offset is lost.  Entries follow each  *)
(* other without overlap and no two have the same path                     *)
(* (NewSunSpecOccurrenceSourceRangeFromSpans, sunSpecNestedLayoutWalk).    *)
LayoutIsExact ==
    At({"layout", "facts"}) =>
        LET entries == reading.of  all == Registers(reading.wire.spans) IN
        /\ \A i \in DOMAIN entries : LET r == entries[i].range IN
              /\ Registers(r.spans) = SubSeq(all, r.offset + 1, r.offset + r.count)
              /\ i < Len(entries) => r.offset + r.count <= entries[i + 1].range.offset
        /\ Cardinality({e.path : e \in Range(entries)}) = Len(entries)

(* The closed form of model 707's length and the walk over its template    *)
(* accept the same words: the chain offers a candidate by the first and    *)
(* keeps the layout of the second, and a difference loses an occurrence    *)
(* without a word.                                                         *)
CandidateIsExact ==
    At({"wire"}) =>
        LET wire == reading.wire IN
        Total(wire.spans) = Len(wire.words) /\ (\A s \in Range(wire.spans) : SpanFits(s)) =>
        (TripLength(wire.words) <=> Layout(ProjectedTemplate, wire.words, wire.spans) # None)

(* The words a content stands for: what a reader of the fact can recover.  *)
Encoded(point, value) ==
    LET c == value.content  space == Space(value.raw)
        Digits(n) == [i \in 1 .. point.size |-> (n \div WordSize ^ (point.size - i)) % WordSize]
        Padded(bytes) == bytes \o [i \in 1 .. 2 * point.size - Len(bytes) |-> 0]
        Pairs(bytes) == [i \in 1 .. point.size |-> bytes[2 * i - 1] * ByteSize + bytes[2 * i]]
    IN CASE c.kind = "signed" -> Digits((c.of + space) % space)
         [] c.kind = "bits" -> Digits(FoldSet(LAMBDA b, n : n + 2 ^ b, 0, c.of))
         [] c.kind = "text" -> Pairs(Padded(IF c.of = <<>> THEN <<0, ByteSize \div 2>> ELSE c.of))
         [] c.kind = "none" -> Digits(space \div 2)
         [] OTHER -> Digits(c.of)

FactsRead ==
    IF At({"facts"}) THEN reading.of ELSE IF At({"flat"}) THEN reading.of.facts ELSE <<>>

(* A valid value loses nothing: its words can be written back from it, so  *)
(* no two readings of a device are reported as one, no sentinel is a       *)
(* number, and a scaled value has the exponent its own occurrence holds.   *)
ValuesAreLossless ==
    \A i \in DOMAIN FactsRead : LET f == FactsRead[i]  v == f.value IN
        /\ v.state = "valid" => Encoded(f.point, v) = v.raw /\ ~Sentinel(v.type, v.raw)
        /\ v.state = "valid" /\ f.point.scale # None /\ v.type # "string" =>
              /\ v.decimal.coefficient = v.content.of
              /\ v.decimal.sign = "signed" => v.decimal.coefficient <= LargestSigned
              /\ \E k \in DOMAIN FactsRead :
                    /\ FactsRead[k].point.name = f.point.scale /\ FactsRead[k].value.state = "valid"
                    /\ Signed(FactsRead[k].value.raw) = v.decimal.exponent
              /\ v.decimal.exponent \in -LargestScale .. LargestScale

(* The two readers agree: a nested occurrence, read as the flat model of   *)
(* its own entries, gives the same values.                                 *)
ReadersAgree ==
    At({"facts"}) =>
        LET facts == reading.of  words == reading.wire.words
            Agrees(flat) ==
                /\ flat # None
                /\ [i \in DOMAIN flat.facts |-> flat.facts[i].value] = [i \in 1 .. Len(facts) - 2 |-> facts[i + 2].value]
        IN Agrees(DecodeOccurrence(Definition(words[1], words[2], [i \in DOMAIN facts |-> facts[i].point], None), words))

(* A model that repeats has as many groups as its own words say, numbered  *)
(* from 1, and any other geometry yields no fact.                          *)
GroupsAreCounted ==
    At({"flat"}) =>
        LET words == reading.wire.words
            m == {x \in UNION {CountedModels[r] : r \in Revisions} : x.id = words[1]}
            numbers == {reading.of.facts[i].point.index : i \in DOMAIN reading.of.facts}
        IN m # {} => LET count == words[(CHOOSE x \in m : TRUE).at + 1] IN
              IF reading.of.geometry THEN numbers \ {0} = 1 .. count ELSE reading.of.facts = <<>>

(* The keys a registry lists and the lengths its definitions accept are    *)
(* computed apart, up to the last word of the address space.               *)
KeysAreDefinable ==
    reading = None =>
        \A revision \in Revisions :
            LET keys == DecoderKeys(revision) IN
            \A m \in CountedModels[revision] \cup OpenModels[revision], length \in 0 .. WordSize - 1 :
                <<m.id, length>> \in keys <=> DefinitionOf(revision, m.id, length) # None

ReadingIsExact == KeysAreDefinable /\ LayoutIsExact /\ CandidateIsExact /\ ValuesAreLossless /\ ReadersAgree /\ GroupsAreCounted

=============================================================================
