------------------------------- MODULE Images -------------------------------
(***************************************************************************)
(* A program as a file: image.cpp in src/common writes and reads the       *)
(* streams of an image, PrepareLoadImage in loadimage.cpp decides whether  *)
(* a device can be loaded with it.  A program makes an image, the file may *)
(* be damaged, another one reads it.  A stream is a name of its type, its  *)
(* numbers in the order of the octets, and what follows them: octets, or   *)
(* names, which are sequences of octets that are not 0.                    *)
(***************************************************************************)
EXTENDS Integers, Sequences, FiniteSets

LOCAL INSTANCE SequencesExt

CONSTANTS
  Junk,     \* octets a damaged place may hold
  SectionStarts,   \* starts of the sections of a program, besides the address table
  SectionSizes     \* sizes of its sections

ASSUME ImagesAssumption ==
  /\ Junk \subseteq 0 .. 255
  /\ \A a \in SectionStarts : a \in Nat /\ a < 65536
  /\ \A n \in SectionSizes : n \in Nat /\ n < 256

VARIABLES
  file,     \* the octets of the image
  source,   \* history: the streams it was written from, <<>> when damaged
  image,    \* what fromArray made of it
  loadable,  \* what PrepareLoadImage looks at
  verdict    \* and what it says

imvars == <<file, source, image, loadable, verdict>>

----------------------------------------------------------------------------
(* The type in octets 3 and 4, the widths of the numbers, what follows.    *)
Stream(type, widths, rest) == [type |-> type, widths |-> widths, rest |-> rest]
TwoOctets(n) == [i \in 1 .. n |-> 2]

Code == Stream(1, <<>>, "octets")
BCU1Size == Stream(2, TwoOctets(4), "none")
BCU2Size == Stream(3, TwoOctets(6), "none")
BCUType == Stream(100, TwoOctets(1), "none")
BCU2Start == Stream(101, TwoOctets(21) \o <<1>>, "none")
BCU2Key == Stream(102, <<>>, "keys")
StringParameter == Stream(500, TwoOctets(2), "name")
IntParameter == Stream(501, <<2, 1>>, "name")
FloatParameter == Stream(502, TwoOctets(1), "name")
ListParameter == Stream(503, TwoOctets(1), "list")
GroupObject == Stream(504, <<1>>, "name")
UnknownStream == Stream(77, <<>>, "octets")

Streams ==
  [Code |-> Code, BCU1Size |-> BCU1Size, BCU2Size |-> BCU2Size, BCUType |-> BCUType,
   BCU2Start |-> BCU2Start, BCU2Key |-> BCU2Key, StringParameter |-> StringParameter,
   IntParameter |-> IntParameter, FloatParameter |-> FloatParameter,
   ListParameter |-> ListParameter, GroupObject |-> GroupObject, Unknown |-> UnknownStream]

WordOctets(n) == <<n \div 256, n % 256>>
Octets(n, width) == IF width = 1 THEN <<n % 256>> ELSE WordOctets(n)
Number(c) == FoldLeft(LAMBDA n, o : n * 256 + o, 0, c)
(* Where number i begins among the octets of the numbers. *)
Before(widths, i) == FoldLeft(LAMBDA n, w : n + w, 0, SubSeq(widths, 1, i - 1))
Terminated(names) == FlattenSeq([i \in DOMAIN names |-> Append(names[i], 0)])

(* toArray of a stream. *)
StreamArray(s) ==
  LET l == Streams[s.kind]
      numbers == FlattenSeq([i \in DOMAIN l.widths |-> Octets(s.numbers[i], l.widths[i])])
      rest == CASE l.rest = "name" -> Terminated(s.rest)
                [] l.rest = "list" -> WordOctets(Len(s.rest) - 1) \o Terminated(s.rest)
                [] OTHER -> s.rest
      d == WordOctets(IF s.kind = "Unknown" THEN s.type ELSE l.type) \o numbers \o rest
  IN WordOctets(Len(d)) \o d
ToArrayOfStream(s) == IF s.kind = "Invalid" THEN s.rest ELSE StreamArray(s)

(* init: a name ends with the octets, a list has as many names as it says, *)
(* and one at least; keys come in fours.                                   *)
Zeros(c) == {i \in DOMAIN c : c[i] = 0}
OneName(c) == c # <<>> /\ Zeros(c) = {Len(c)}
NamesIn(c) ==
  LET ends == SetToSortSeq(Zeros(c), <) IN
  [i \in DOMAIN ends |-> SubSeq(c, IF i = 1 THEN 1 ELSE ends[i - 1] + 1, ends[i] - 1)]

RestRead(l, c) ==
  CASE l.rest = "octets" -> [ok |-> TRUE, rest |-> c]
    [] l.rest = "none" -> [ok |-> c = <<>>, rest |-> <<>>]
    [] l.rest = "keys" -> [ok |-> Len(c) % 4 = 0 /\ Len(c) >= 4, rest |-> c]
    [] l.rest = "name" -> [ok |-> OneName(c), rest |-> IF OneName(c) THEN NamesIn(c) ELSE <<>>]
    [] l.rest = "list" ->
         LET ok == /\ Len(c) >= 3 /\ c[Len(c)] = 0
                   /\ Cardinality(Zeros(SubSeq(c, 3, Len(c)))) = Number(SubSeq(c, 1, 2)) + 1
                   /\ Number(SubSeq(c, 1, 2)) > 0
         IN [ok |-> ok, rest |-> IF ok THEN NamesIn(SubSeq(c, 3, Len(c))) ELSE <<>>]

Invalid(c) == [kind |-> "Invalid", type |-> 0, numbers |-> <<>>, rest |-> c]

(* STR_Stream::fromArray. *)
StreamOf(c) ==
  LET type == Number(SubSeq(c, 3, 4))
      known == {k \in DOMAIN Streams : Streams[k].type = type}
      kind == IF known = {} THEN "Unknown" ELSE CHOOSE k \in known : TRUE
      l == Streams[kind]
      size == Before(l.widths, Len(l.widths) + 1)
      at(i) == 5 + Before(l.widths, i)
      read == RestRead(l, SubSeq(c, 5 + size, Len(c)))
  IN IF Len(c) < 4 + size \/ ~read.ok THEN Invalid(c)
     ELSE [kind |-> kind, type |-> type, rest |-> read.rest,
           numbers |-> [i \in DOMAIN l.widths |-> Number(SubSeq(c, at(i), at(i) + l.widths[i] - 1))]]

----------------------------------------------------------------------------
(* Image::toArray and Image::fromArray.                                    *)
Magic == <<188, 104, 12, 5>>
ToArray(streams) ==
  LET d == FlattenSeq([i \in DOMAIN streams |-> ToArrayOfStream(streams[i])]) IN
  Magic \o Magic \o WordOctets(Len(d) + 10) \o d

NoImage == <<[kind |-> "none", type |-> 0, numbers |-> <<>>, rest |-> <<>>]>>
StreamsFrom[c \in Seq(0 .. 255)] ==
  IF c = <<>> THEN <<>>
  ELSE IF Len(c) <= 4 THEN NoImage
  ELSE LET len == Number(SubSeq(c, 1, 2)) + 2
           others == StreamsFrom[SubSeq(c, len + 1, Len(c))]
       IN IF len > Len(c) \/ len < 4 \/ others = NoImage THEN NoImage
          ELSE <<StreamOf(SubSeq(c, 1, len))>> \o others

FromArray(c) ==
  IF Len(c) < 10 \/ SubSeq(c, 1, 8) # Magic \o Magic \/ Number(SubSeq(c, 9, 10)) # Len(c)
  THEN NoImage
  ELSE StreamsFrom[SubSeq(c, 11, Len(c))]

----------------------------------------------------------------------------
(* PrepareLoadImage.  A program: the type of the device it is for, which    *)
(* streams there are, the sizes it states, the sections of a BCU2 (a       *)
(* negative size: it ends before its start).                               *)
Section(start, size) == [start |-> start, size |-> size]
Sections == {"assoctab", "readonly", "eeprom", "param"}
Good ==
  [type |-> 32, streams |-> {"BCUType", "Code", "BCU1Size", "BCU2Size", "BCU2Start"}, keys |-> 3,
   code |-> 64, text |-> 64, lo |-> 18, hi |-> 24, checklim |-> 8, objects |-> 255,
   addrtab |-> Section(278, 4),
   sections |-> [s \in Sections |-> Section(282, 0)]]

Changed(f, values) == {[Good EXCEPT ![f] = v] : v \in values}
OfLength(lengths) == {[Good EXCEPT !.text = n, !.code = n] : n \in lengths}
Based ==
  {Good} \cup Changed("lo", {18, 19}) \cup Changed("code", {63})
         \cup Changed("streams", {Good.streams \ {"BCU1Size"}})
         \cup Changed("checklim", {7, 65, 66}) \cup OfLength({23, 24, 25, 254, 255})
OfType(types) == {[p EXCEPT !.type = t] : t \in types, p \in Based}
TwoKeys == [Good EXCEPT !.streams = @ \cup {"BCU2Key"}, !.keys = 2]
EndsEarly(s) == [Good EXCEPT !.sections = [@ EXCEPT ![s].size = -2]]
Programs ==
  UNION {Changed("streams", {Good.streams \ {s} : s \in Good.streams} \cup {Good.streams \cup {"BCU2Key"}}),
         OfType({18, 33, 99}),
         Changed("lo", {19}), Changed("hi", {25}), Changed("code", {63}), Changed("objects", {256}),
         Changed("addrtab", {Section(279, 4), Section(278, 3), Section(278, 256)}),
         {TwoKeys}, OfLength({23, 879, 880}),
         {EndsEarly(s) : s \in Sections \ {"assoctab"}}}
SectionsIn == [Sections -> {Section(a, n) : a \in SectionStarts, n \in SectionSizes}]

(* AddSegmentOverlap, for a section and the ones before it. *)
OverlapIgnoringContained(p, q) ==
  p.size > 0 /\ q.size > 0 /\ p.start >= q.start /\ p.start < q.start + q.size
Overlap(p, q) ==
  /\ p.size > 0 /\ q.size > 0
  /\ \/ p.start >= q.start /\ p.start < q.start + q.size
     \/ q.start >= p.start /\ q.start < p.start + p.size
Clashes(p, section, others) ==
  \E q \in {p.addrtab} \cup {p.sections[s] : s \in others} : Overlap(p.sections[section], q)

(* The first condition that holds refuses the program. *)
Failing(checks) == {i \in DOMAIN checks : checks[i][1]}
Verdict(checks) ==
  IF Failing(checks) = {} THEN "LOADABLE"
  ELSE checks[CHOOSE i \in Failing(checks) : \A j \in Failing(checks) : i <= j][2]
Without(p, s, error) == <<s \notin p.streams, error>>

CheckBCU1(p) ==
  <<Without(p, "BCU1Size", "NO_SIZE"), <<p.lo > 18, "LODATA_OVERFLOW">>,
    <<p.text > 254, "TEXT_OVERFLOW">>, <<p.text # p.code, "WRONG_SIZE">>,
    <<p.text < 24, "NO_ADDRESS">>,
    <<p.checklim < 8 \/ p.checklim > p.code + 1, "WRONG_CHECKLIM">>>>

CheckBCU2(p) ==
  <<Without(p, "BCU2Size", "NO_SIZE"), <<p.lo > 18, "LODATA_OVERFLOW">>,
    <<p.hi > 24, "HIDATA_OVERFLOW">>, <<p.text > 879, "TEXT_OVERFLOW">>,
    <<p.text # p.code, "WRONG_SIZE">>, <<p.text < 24, "NO_ADDRESS">>,
    Without(p, "BCU2Start", "NO_START"),
    <<p.addrtab.start # 278 \/ p.addrtab.size < 4, "WRONG_ADDRTAB">>,
    <<p.addrtab.size > 255, "ADDRTAB_OVERFLOW">>,
    <<Clashes(p, "assoctab", {}), "OVERLAP_ASSOCTAB">>,
    <<p.sections["assoctab"].size > 255, "ADDRTAB_OVERFLOW">>,
    <<p.sections["readonly"].size < 0, "NEGATIV_TEXT_SIZE">>,
    <<Clashes(p, "readonly", {"assoctab"}), "OVERLAP_TEXT">>,
    <<p.sections["param"].size < 0 \/ p.sections["eeprom"].size < 0, "NEGATIV_TEXT_SIZE">>,
    <<Clashes(p, "eeprom", {"assoctab", "readonly"}), "OVERLAP_EEPROM">>,
    <<Clashes(p, "param", {"assoctab", "readonly", "eeprom"}), "OVERLAP_PARAM">>,
    <<p.objects > 255, "OBJTAB_OVERFLOW">>,
    <<p.sections["param"].start + p.sections["param"].size > p.code + 256, "WRONG_LOADCTL">>,
    <<"BCU2Key" \in p.streams /\ p.keys # 3, "INVALID_KEY">>>>

CheckProgram(p) ==
  Verdict(<<Without(p, "BCUType", "NO_BCUTYPE"), Without(p, "Code", "NO_CODE")>>
          \o (CASE p.type = 18 -> CheckBCU1(p)
                [] p.type \in {32, 33} -> CheckBCU2(p)
                [] OTHER -> <<<<TRUE, "UNKNOWN_BCUTYPE">>>>))

----------------------------------------------------------------------------
Name == <<65, 66>>
Sample(kind, rest) ==
  [kind |-> kind, type |-> Streams[kind].type, rest |-> rest,
   numbers |-> [i \in DOMAIN Streams[kind].widths |->
                  IF Streams[kind].widths[i] = 1 THEN i ELSE 256 * i + 2 * i]]
Samples ==
  UNION {{Sample("Code", r) : r \in {<<>>, <<7, 0, 8>>}}, {Sample("Unknown", <<9>>)},
         {Sample(k, <<>>) : k \in {"BCU1Size", "BCU2Size", "BCUType", "BCU2Start"}},
         {Sample("BCU2Key", r) : r \in {<<1, 2, 3, 4>>, <<1, 2, 3, 4, 5, 6, 7, 8>>}},
         {Sample(k, <<n>>) : k \in {"StringParameter", "IntParameter", "FloatParameter", "GroupObject"},
                             n \in {<<>>, Name}},
         {Sample("ListParameter", r) : r \in {<<Name>>, <<Name, <<>>>>, <<<<>>, Name, Name>>}}}

ImagesInit ==
  file = <<>> /\ source = <<>> /\ image = NoImage /\ loadable = Good /\ verdict = "none"

WriteImage ==
  /\ file = <<>> /\ verdict = "none"
  /\ \E n \in 1 .. 2 : \E streams \in [1 .. n -> Samples] :
       file' = ToArray(streams) /\ source' = streams
  /\ UNCHANGED <<image, loadable, verdict>>

(* One octet of an image of one stream changes, or the last one is lost.   *)
Damage ==
  /\ Len(source) = 1 /\ image = NoImage /\ source' = <<>>
  /\ \/ \E i \in DOMAIN file, o \in Junk : file' = [file EXCEPT ![i] = o]
     \/ file' = SubSeq(file, 1, Len(file) - 1)
  /\ UNCHANGED <<image, loadable, verdict>>

ReadImage ==
  /\ file # <<>> /\ image = NoImage /\ FromArray(file) # NoImage
  /\ image' = FromArray(file)
  /\ UNCHANGED <<file, source, loadable, verdict>>

PrepareProgram ==
  /\ file = <<>> /\ verdict = "none"
  /\ \/ loadable' \in Programs
     \/ \E s \in SectionsIn : loadable' = [Good EXCEPT !.sections = s]
  /\ verdict' = CheckProgram(loadable')
  /\ UNCHANGED <<file, source, image>>

ImagesNext == WriteImage \/ Damage \/ ReadImage \/ PrepareProgram

----------------------------------------------------------------------------
(* What an image is read as is written to the same octets, whatever they   *)
(* are; and it is what it was written from, unless a list parameter has no *)
(* elements.  Only an image whose last stream is empty cannot be read.     *)
Readable(s) == s.kind = "ListParameter" => Len(s.rest) > 1
ImageKept ==
  /\ image # NoImage => ToArray(image) = file
  /\ image # NoImage /\ source # <<>> =>
       \A i \in DOMAIN source :
         image[i] = IF Readable(source[i]) THEN source[i] ELSE Invalid(StreamArray(source[i]))
  /\ source # <<>> /\ FromArray(file) = NoImage =>
       source[Len(source)].kind = "Code" /\ source[Len(source)].rest = <<>>

(* A program for a BCU2 that may be loaded has  sections that share no      *)
(* octet, and its parameters end with its code.                            *)
Places(s) == s.start .. s.start + s.size - 1
SectionsApart ==
  verdict = "LOADABLE" /\ loadable.type # 18 =>
    /\ \A s \in Sections :
         /\ Places(loadable.sections[s]) \cap Places(loadable.addrtab) = {}
         /\ \A t \in Sections \ {s} : Places(loadable.sections[s]) \cap Places(loadable.sections[t]) = {}
    /\ Places(loadable.sections["param"]) \subseteq 0 .. 255 + loadable.code

ImagesSpec == ImagesInit /\ [][ImagesNext]_imvars
=============================================================================
