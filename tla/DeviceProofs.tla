---------------------------- MODULE DeviceProofs ----------------------------
(***************************************************************************)
(* Proofs that what a program is told of a device is so (Truthful), for    *)
(* every image, device and interleaving that Images, Management and        *)
(* Loading allow.  Each of the three modules has its own invariant:        *)
(* ImagesInv says what the sections counted so far have passed, MgInv that *)
(* the request an order waits for, the telegrams under way and the replies *)
(* queued belong together while nothing was late or lost, and LdInv that a *)
(* device holds what the client has written and read back of it.           *)
(***************************************************************************)
EXTENDS Management, NumberFacts, TLAPS

-----------------------------------------------------------------------------
(* The image of a program.                                                     *)

(* A program that may be loaded has passed every check.                    *)
LEMMA NoCheckFails ==
  ASSUME NEW checks, DOMAIN checks \subseteq Nat, \A i \in DOMAIN checks : checks[i][2] # "LOADABLE",
         Verdict(checks) = "LOADABLE"
  PROVE  \A i \in DOMAIN checks : ~checks[i][1]
<1> DEFINE F == Failing(checks)
<1>1. F \subseteq Nat /\ F \subseteq DOMAIN checks
  BY DEF Failing
<1>2. ASSUME F # {} PROVE FALSE
  <2>1. \E i \in F : \A j \in F : i <= j
    <3> HIDE DEF F
    <3> QED
      BY <1>1, <1>2, LeastNatural
  <2>2. (CHOOSE i \in F : \A j \in F : i <= j) \in F
    BY <2>1
  <2> QED
    BY <1>1, <1>2, <2>2 DEF Verdict
<1> QED
  BY <1>2 DEF Failing

LEMMA ChecksBehind ==
  ASSUME NEW T, NEW a \in T, NEW b \in T, NEW c \in Seq(T)
  PROVE  /\ <<a, b>> \o c \in Seq(T)
         /\ \A k \in DOMAIN c : k + 2 \in DOMAIN (<<a, b>> \o c) /\ (<<a, b>> \o c)[k + 2] = c[k]
         /\ \A i \in DOMAIN (<<a, b>> \o c) :
              \/ (<<a, b>> \o c)[i] \in {a, b}
              \/ \E k \in DOMAIN c : (<<a, b>> \o c)[i] = c[k]
<1>1. /\ DOMAIN c = 1 .. Len(c) /\ Len(c) \in Nat
      /\ DOMAIN (<<a, b>> \o c) = 1 .. Len(c) + 2
      /\ (<<a, b>> \o c)[1] = a /\ (<<a, b>> \o c)[2] = b
      /\ \A k \in 1 .. Len(c) : (<<a, b>> \o c)[k + 2] = c[k]
  OBVIOUS
<1>2. ASSUME NEW i \in DOMAIN (<<a, b>> \o c), i # 1, i # 2
      PROVE  \E k \in DOMAIN c : (<<a, b>> \o c)[i] = c[k]
  <2>1. i - 2 \in 1 .. Len(c) /\ (i - 2) + 2 = i
    BY <1>1, <1>2
  <2> QED
    BY <1>1, <2>1
<1> QED
  BY <1>1, <1>2

LEMMA ThreeChecks ==
  ASSUME NEW a, NEW b, NEW c
  PROVE  LET v == <<a, b>> \o <<c>> IN DOMAIN v = 1 .. 3 /\ v[1] = a /\ v[2] = b /\ v[3] = c
OBVIOUS

(* What the checks of a program for a BCU2 say.                            *)
LEMMA ChecksOfBCU2 ==
  ASSUME NEW p, p.type # 18, CheckProgram(p) = "LOADABLE"
  PROVE  /\ ~Clashes(p, "assoctab", {}) /\ ~Clashes(p, "readonly", {"assoctab"})
         /\ ~Clashes(p, "eeprom", {"assoctab", "readonly"})
         /\ ~Clashes(p, "param", {"assoctab", "readonly", "eeprom"})
         /\ ~(p.sections["param"].start + p.sections["param"].size > p.code + 256)
<1> DEFINE c == CheckBCU2(p)
           h == <<Without(p, "BCUType", "NO_BCUTYPE"), Without(p, "Code", "NO_CODE")>>
           T == {h[1], h[2]} \cup {c[k] : k \in DOMAIN c}
<1>1. c \in Seq(T) /\ DOMAIN c = 1 .. 19
  <2>1. Len(c) = 19 /\ DOMAIN c = 1 .. 19
    BY DEF CheckBCU2
  <2>2. \A k \in 1 .. 19 : c[k] \in T
    BY <2>1
  <2>3. c = [k \in 1 .. 19 |-> c[k]]
    BY DEF CheckBCU2
  <2> HIDE DEF c, T
  <2>4. [k \in 1 .. 19 |-> c[k]] \in Seq(T)
    BY <2>2
  <2> QED
    BY <2>1, <2>3, <2>4
<1>2. h[1][2] # "LOADABLE" /\ h[2][2] # "LOADABLE" /\ h = <<h[1], h[2]>>
  BY DEF Without
<1>3. p.type \in {32, 33} /\ Verdict(h \o c) = "LOADABLE"
  <2> DEFINE u == <<<<TRUE, "UNKNOWN_BCUTYPE">>>>
  <2>1. p.type \in {32, 33} => CheckProgram(p) = Verdict(h \o c)
    BY DEF CheckProgram
  <2>2. p.type \notin {32, 33} => CheckProgram(p) = Verdict(h \o u)
    BY DEF CheckProgram
  <2>3. ASSUME Verdict(h \o u) = "LOADABLE" PROVE FALSE
    <3> DEFINE v == h \o u
    <3>1. DOMAIN v = 1 .. 3 /\ v[1] = h[1] /\ v[2] = h[2] /\ v[3] = u[1]
      <4> DEFINE e == <<TRUE, "UNKNOWN_BCUTYPE">>
      <4> HIDE DEF h, e
      <4>1. LET w == <<h[1], h[2]>> \o <<e>> IN
              DOMAIN w = 1 .. 3 /\ w[1] = h[1] /\ w[2] = h[2] /\ w[3] = e
        BY ThreeChecks
      <4>2. v = <<h[1], h[2]>> \o <<e>> /\ u[1] = e
        BY <1>2 DEF e
      <4> HIDE DEF v, u
      <4> QED
        BY <4>1, <4>2
    <3>2. v[3][1] = TRUE /\ v[3][2] = "UNKNOWN_BCUTYPE"
      <4> HIDE DEF v, h
      <4> QED
        BY <3>1
    <3> HIDE DEF v, h, u
    <3>3. \A i \in DOMAIN v : v[i][2] # "LOADABLE"
      BY <1>2, <3>1, <3>2
    <3>4. DOMAIN v \subseteq Nat /\ Verdict(v) = "LOADABLE"
      BY <2>3, <3>1 DEF v
    <3>5. ~v[3][1]
      BY <3>1, <3>3, <3>4, NoCheckFails
    <3> QED
      BY <3>2, <3>5
  <2> QED
    BY <2>1, <2>2, <2>3
<1>4. \A k \in 1 .. 19 : c[k][2] # "LOADABLE"
  <2>1. /\ c[1][2] # "LOADABLE"
        /\ c[2][2] # "LOADABLE"
        /\ c[3][2] # "LOADABLE"
        /\ c[4][2] # "LOADABLE"
        /\ c[5][2] # "LOADABLE"
        /\ c[6][2] # "LOADABLE"
        /\ c[7][2] # "LOADABLE"
        /\ c[8][2] # "LOADABLE"
        /\ c[9][2] # "LOADABLE"
        /\ c[10][2] # "LOADABLE"
        /\ c[11][2] # "LOADABLE"
        /\ c[12][2] # "LOADABLE"
        /\ c[13][2] # "LOADABLE"
        /\ c[14][2] # "LOADABLE"
        /\ c[15][2] # "LOADABLE"
        /\ c[16][2] # "LOADABLE"
        /\ c[17][2] # "LOADABLE"
        /\ c[18][2] # "LOADABLE"
        /\ c[19][2] # "LOADABLE"
    BY DEF CheckBCU2, Without
  <2> HIDE DEF c
  <2> QED
    BY <2>1
<1>5. \A k \in 1 .. 19 : ~c[k][1]
  <2> DEFINE v == h \o c
  <2> HIDE DEF c, h
  <2>1. /\ v \in Seq(T) /\ \A k \in DOMAIN c : k + 2 \in DOMAIN v /\ v[k + 2] = c[k]
        /\ \A i \in DOMAIN v : v[i] \in {h[1], h[2]} \/ \E k \in DOMAIN c : v[i] = c[k]
    <3>1. h[1] \in T /\ h[2] \in T
      OBVIOUS
    <3>2. c \in Seq(T)
      BY <1>1
    <3> HIDE DEF T
    <3> DEFINE a == h[1]
               b == h[2]
    <3>3. v = <<a, b>> \o c
      BY <1>2
    <3> HIDE DEF a, b, v
    <3>4. a \in T /\ b \in T
      BY <3>1 DEF a, b
    <3>5. /\ <<a, b>> \o c \in Seq(T)
          /\ \A k \in DOMAIN c : k + 2 \in DOMAIN (<<a, b>> \o c) /\ (<<a, b>> \o c)[k + 2] = c[k]
          /\ \A i \in DOMAIN (<<a, b>> \o c) :
               \/ (<<a, b>> \o c)[i] \in {a, b}
               \/ \E k \in DOMAIN c : (<<a, b>> \o c)[i] = c[k]
      BY <3>2, <3>4, ChecksBehind
    <3> QED
      BY <3>3, <3>5 DEF a, b
  <2>2. DOMAIN v \subseteq Nat
    BY <2>1
  <2> HIDE DEF v, T
  <2>3. \A i \in DOMAIN v : v[i][2] # "LOADABLE"
    <3> SUFFICES ASSUME NEW i \in DOMAIN v PROVE v[i][2] # "LOADABLE"
      OBVIOUS
    <3>1. v[i] \in {h[1], h[2]} \/ \E k \in DOMAIN c : v[i] = c[k]
      BY <2>1
    <3>2. h[1][2] # "LOADABLE" /\ h[2][2] # "LOADABLE"
      BY <1>2
    <3>3. \A k \in DOMAIN c : c[k][2] # "LOADABLE"
      BY <1>1, <1>4
    <3> HIDE DEF c, h
    <3> QED
      BY <3>1, <3>2, <3>3
  <2>4. Verdict(v) = "LOADABLE"
    BY <1>3 DEF v
  <2>5. \A i \in DOMAIN v : ~v[i][1]
    BY <2>2, <2>3, <2>4, NoCheckFails
  <2> QED
    BY <1>1, <2>1, <2>5
<1>6. /\ c[10][1] <=> Clashes(p, "assoctab", {})
      /\ c[13][1] <=> Clashes(p, "readonly", {"assoctab"})
      /\ c[15][1] <=> Clashes(p, "eeprom", {"assoctab", "readonly"})
      /\ c[16][1] <=> Clashes(p, "param", {"assoctab", "readonly", "eeprom"})
      /\ c[18][1] <=> p.sections["param"].start + p.sections["param"].size > p.code + 256
  BY DEF CheckBCU2
<1> HIDE DEF c
<1> QED
  BY <1>5, <1>6

(* What PrepareLoadImage looks at.                                         *)
Area == [start : Nat, size : Int]
Names == SUBSET {"BCUType", "Code", "BCU1Size", "BCU2Size", "BCU2Start", "BCU2Key"}
ProgramRecords ==
  [type : Nat, streams : Names, keys : Nat, code : Nat, text : Nat, lo : Nat, hi : Nat,
   checklim : Nat, objects : Nat, addrtab : Area, sections : [Sections -> Area]]

LEMMA Apart ==
  ASSUME NEW p \in Area, NEW q \in Area, ~Overlap(p, q)
  PROVE  Places(p) \cap Places(q) = {} /\ Places(q) \cap Places(p) = {}
BY DEF Area, Overlap, Places

LEMMA ProgramsTyped ==
  /\ Good \in ProgramRecords /\ Programs \subseteq ProgramRecords
  /\ \A s \in SectionsIn : [Good EXCEPT !.sections = s] \in ProgramRecords
<1>0. \A a \in Nat, n \in Int : Section(a, n) \in Area
  BY DEF Section, Area
<1>1. Good \in ProgramRecords
  <2>1. [s \in Sections |-> Section(282, 0)] \in [Sections -> Area] /\ Section(278, 4) \in Area
    BY <1>0
  <2>2. {"BCUType", "Code", "BCU1Size", "BCU2Size", "BCU2Start"} \in Names
    BY DEF Names
  <2> QED
    BY <2>1, <2>2 DEF Good, ProgramRecords
<1>2. Good.streams \in Names /\ Good.sections \in [Sections -> Area]
  BY <1>1 DEF ProgramRecords
<1>3. /\ \A n \in Nat : /\ [Good EXCEPT !.lo = n] \in ProgramRecords
                        /\ [Good EXCEPT !.hi = n] \in ProgramRecords /\ [Good EXCEPT !.code = n] \in ProgramRecords
                        /\ [Good EXCEPT !.checklim = n] \in ProgramRecords
                        /\ [Good EXCEPT !.objects = n] \in ProgramRecords
      /\ \A x \in Names : [Good EXCEPT !.streams = x] \in ProgramRecords
      /\ \A x \in Area : [Good EXCEPT !.addrtab = x] \in ProgramRecords
      /\ \A x \in [Sections -> Area] : [Good EXCEPT !.sections = x] \in ProgramRecords
  BY <1>1 DEF ProgramRecords
<1>4. ASSUME NEW X, X \subseteq Nat
      PROVE  /\ Changed("lo", X) \subseteq ProgramRecords /\ Changed("hi", X) \subseteq ProgramRecords
             /\ Changed("code", X) \subseteq ProgramRecords /\ Changed("checklim", X) \subseteq ProgramRecords
             /\ Changed("objects", X) \subseteq ProgramRecords
  <2>1. \A n \in X : n \in Nat
    BY <1>4
  <2>2. Changed("lo", X) \subseteq ProgramRecords
    BY <1>3, <2>1 DEF Changed
  <2>3. Changed("hi", X) \subseteq ProgramRecords
    BY <1>3, <2>1 DEF Changed
  <2>4. Changed("code", X) \subseteq ProgramRecords
    BY <1>3, <2>1 DEF Changed
  <2>5. Changed("checklim", X) \subseteq ProgramRecords
    BY <1>3, <2>1 DEF Changed
  <2>6. Changed("objects", X) \subseteq ProgramRecords
    BY <1>3, <2>1 DEF Changed
  <2> QED
    BY <2>2, <2>3, <2>4, <2>5, <2>6
<1>5. ASSUME NEW X, X \subseteq Names PROVE Changed("streams", X) \subseteq ProgramRecords
  BY <1>3, <1>5 DEF Changed
<1>6. ASSUME NEW X, X \subseteq Nat PROVE OfLength(X) \subseteq ProgramRecords
  <2> SUFFICES ASSUME NEW n \in X PROVE [Good EXCEPT !.text = n, !.code = n] \in ProgramRecords
    BY DEF OfLength
  <2> QED
    BY <1>1, <1>6 DEF ProgramRecords
<1>7. ASSUME NEW X, X \subseteq Nat PROVE OfType(X) \subseteq ProgramRecords
  <2>1. {Good.streams \ {"BCU1Size"}} \subseteq Names
    BY <1>2 DEF Names
  <2>2. Changed("streams", {Good.streams \ {"BCU1Size"}}) \subseteq ProgramRecords
    BY <1>5, <2>1
  <2>3. /\ Changed("lo", {18, 19}) \subseteq ProgramRecords /\ Changed("code", {63}) \subseteq ProgramRecords
        /\ Changed("checklim", {7, 65, 66}) \subseteq ProgramRecords
        /\ OfLength({23, 24, 25, 254, 255}) \subseteq ProgramRecords
    BY <1>4, <1>6
  <2>4. ASSUME NEW p \in ProgramRecords, NEW t \in X PROVE [p EXCEPT !.type = t] \in ProgramRecords
    BY <1>7, <2>4 DEF ProgramRecords
  <2>5. \A p \in Based : p \in ProgramRecords
    BY <1>1, <2>2, <2>3 DEF Based
  <2> QED
    BY <2>4, <2>5 DEF OfType
<1>8. TwoKeys \in ProgramRecords
  <2>1. Good.streams \cup {"BCU2Key"} \in Names
    BY <1>2 DEF Names
  <2> QED
    BY <1>1, <2>1 DEF ProgramRecords, TwoKeys
<1>9. ASSUME NEW s \in Sections PROVE EndsEarly(s) \in ProgramRecords
  <2>1. [Good.sections EXCEPT ![s].size = -2] \in [Sections -> Area]
    BY <1>2 DEF Area
  <2>2. EndsEarly(s) = [Good EXCEPT !.sections = [Good.sections EXCEPT ![s].size = -2]]
    BY DEF EndsEarly
  <2> QED
    BY <1>3, <2>1, <2>2
<1>10. Programs \subseteq ProgramRecords
  <2>1. {Good.streams \ {s} : s \in Good.streams} \cup {Good.streams \cup {"BCU2Key"}} \subseteq Names
    BY <1>2 DEF Names
  <2>2. Changed("streams", {Good.streams \ {s} : s \in Good.streams} \cup {Good.streams \cup {"BCU2Key"}})
          \subseteq ProgramRecords
    BY <1>5, <2>1
  <2>3. /\ OfType({18, 33, 99}) \subseteq ProgramRecords /\ OfLength({23, 879, 880}) \subseteq ProgramRecords
    BY <1>6, <1>7
  <2>4. /\ Changed("lo", {19}) \subseteq ProgramRecords /\ Changed("hi", {25}) \subseteq ProgramRecords
        /\ Changed("code", {63}) \subseteq ProgramRecords /\ Changed("objects", {256}) \subseteq ProgramRecords
    BY <1>4
  <2>5. Changed("addrtab", {Section(279, 4), Section(278, 3), Section(278, 256)}) \subseteq ProgramRecords
    <3>1. \A x \in {Section(279, 4), Section(278, 3), Section(278, 256)} : x \in Area
      BY <1>0
    <3> QED
      BY <1>3, <3>1 DEF Changed
  <2>6. {EndsEarly(s) : s \in Sections \ {"assoctab"}} \subseteq ProgramRecords
    BY <1>9
  <2> SUFFICES ASSUME NEW p \in Programs PROVE p \in ProgramRecords
    OBVIOUS
  <2> DEFINE A == Changed("streams", {Good.streams \ {s} : s \in Good.streams} \cup {Good.streams \cup {"BCU2Key"}})
             B == Changed("addrtab", {Section(279, 4), Section(278, 3), Section(278, 256)})
             C == {EndsEarly(s) : s \in Sections \ {"assoctab"}}
  <2>7. p \in UNION {A, OfType({18, 33, 99}), Changed("lo", {19}), Changed("hi", {25}), Changed("code", {63}),
                     Changed("objects", {256}), B, {TwoKeys}, OfLength({23, 879, 880}), C}
    BY DEF Programs
  <2> HIDE DEF A, B, C
  <2>8. \/ p \in A \/ p \in OfType({18, 33, 99}) \/ p \in Changed("lo", {19}) \/ p \in Changed("hi", {25})
        \/ p \in Changed("code", {63}) \/ p \in Changed("objects", {256}) \/ p \in B
        \/ p = TwoKeys \/ p \in OfLength({23, 879, 880}) \/ p \in C
    BY <2>7
  <2>9. A \subseteq ProgramRecords /\ B \subseteq ProgramRecords /\ C \subseteq ProgramRecords
    BY <2>2, <2>5, <2>6 DEF A, B, C
  <2> QED
    BY <1>8, <2>3, <2>4, <2>8, <2>9
<1>11. ASSUME NEW s \in SectionsIn PROVE [Good EXCEPT !.sections = s] \in ProgramRecords
  <2>1. /\ s \in [Sections -> {Section(a, n) : a \in SectionStarts, n \in SectionSizes}]
    BY <1>11 DEF SectionsIn
  <2>3. (\A a \in SectionStarts : a \in Nat) /\ \A n \in SectionSizes : n \in Int
    BY ImagesAssumption
  <2>4. \A x \in {Section(a, n) : a \in SectionStarts, n \in SectionSizes} : x \in Area
    BY <1>0, <2>3
  <2>5. s \in [Sections -> Area]
    BY <2>1, <2>4
  <2> QED
    BY <1>3, <2>5
<1> QED
  BY <1>1, <1>10, <1>11

(* A verdict is the one of the program.                                    *)
ImagesInv ==
  /\ loadable \in ProgramRecords
  /\ verdict \in {"none", CheckProgram(loadable)}

LEMMA LoadableApart ==
  ASSUME ImagesInv PROVE SectionsApart
<1> SUFFICES ASSUME verdict = "LOADABLE", loadable.type # 18
             PROVE  /\ \A s \in Sections :
                         /\ Places(loadable.sections[s]) \cap Places(loadable.addrtab) = {}
                         /\ \A t \in Sections \ {s} :
                              Places(loadable.sections[s]) \cap Places(loadable.sections[t]) = {}
                    /\ Places(loadable.sections["param"]) \subseteq 0 .. 255 + loadable.code
  BY DEF SectionsApart
<1>1. CheckProgram(loadable) = "LOADABLE"
  BY DEF ImagesInv
<1> DEFINE p == loadable
<1>2. /\ ~Clashes(p, "assoctab", {}) /\ ~Clashes(p, "readonly", {"assoctab"})
      /\ ~Clashes(p, "eeprom", {"assoctab", "readonly"})
      /\ ~Clashes(p, "param", {"assoctab", "readonly", "eeprom"})
      /\ ~(p.sections["param"].start + p.sections["param"].size > p.code + 256)
  BY <1>1, ChecksOfBCU2
<1>3. \A s \in Sections : ~Overlap(p.sections[s], p.addrtab)
  BY <1>2 DEF Clashes, Sections
<1>4. /\ ~Overlap(p.sections["readonly"], p.sections["assoctab"])
      /\ ~Overlap(p.sections["eeprom"], p.sections["assoctab"])
      /\ ~Overlap(p.sections["eeprom"], p.sections["readonly"])
      /\ ~Overlap(p.sections["param"], p.sections["assoctab"])
      /\ ~Overlap(p.sections["param"], p.sections["readonly"])
      /\ ~Overlap(p.sections["param"], p.sections["eeprom"])
  BY <1>2 DEF Clashes
<1>5. p.addrtab \in Area /\ p.code \in Int /\ \A s \in Sections : p.sections[s] \in Area
  BY DEF ImagesInv, ProgramRecords
<1>6. \A s \in Sections : Places(p.sections[s]) \cap Places(p.addrtab) = {}
  BY <1>3, <1>5, Apart
<1>7. \A s \in Sections : \A t \in Sections \ {s} :
        Overlap(p.sections[s], p.sections[t]) => Overlap(p.sections[t], p.sections[s])
  BY <1>5 DEF Overlap, Area
<1>8. \A s \in Sections : \A t \in Sections \ {s} : ~Overlap(p.sections[s], p.sections[t])
  BY <1>4, <1>7 DEF Sections
<1>9. \A s \in Sections : \A t \in Sections \ {s} : Places(p.sections[s]) \cap Places(p.sections[t]) = {}
  BY <1>5, <1>8, Apart
<1>10. Places(p.sections["param"]) \subseteq 0 .. 255 + p.code
  BY <1>2, <1>5 DEF Places, Area, Sections
<1> QED
  BY <1>6, <1>9, <1>10

(* SectionsApart: in a program that may be loaded no section lies over     *)
(* another, and the parameters lie in the memory (PrepareLoadImage).       *)
THEOREM ImagesApart == ImagesSpec => []SectionsApart
<1>1. ImagesInit => ImagesInv
  BY ProgramsTyped DEF ImagesInit, ImagesInv
<1>2. ImagesInv /\ [ImagesNext]_imvars => ImagesInv'
  <2> SUFFICES ASSUME ImagesInv, [ImagesNext]_imvars PROVE ImagesInv'
    OBVIOUS
  <2>1. CASE WriteImage
    BY <2>1 DEF ImagesInv, WriteImage
  <2>2. CASE Damage
    BY <2>2 DEF ImagesInv, Damage
  <2>3. CASE ReadImage
    BY <2>3 DEF ImagesInv, ReadImage
  <2>4. CASE PrepareProgram
    BY <2>4, ProgramsTyped DEF ImagesInv, PrepareProgram
  <2>5. CASE UNCHANGED imvars
    BY <2>5 DEF ImagesInv, imvars
  <2> QED
    BY <2>1, <2>2, <2>3, <2>4, <2>5 DEF ImagesNext
<1>3. ImagesInv => SectionsApart
  BY LoadableApart
<1> QED
  BY <1>1, <1>2, <1>3, PTL DEF ImagesSpec

-----------------------------------------------------------------------------
(* Management connections.                                                     *)

(* What is asked and answered of the programming mode is 0 or 1.           *)
Bits == {0, 1}
Items == {"prog", "cell", "prop"}
Kinds == {"read", "write", "mask", "adc", "auth", "key", "propread", "propwrite", "desc", "restart",
          "memory", "descriptor", "level", "keylevel", "value", "description",
          "mode", "plain", "scan", "wrong", "none"}
Messages == [type : Kinds, at : Nat, value : Nat]
AskTyped(q) == q.type = "write" /\ q.at = ProgMode => q.value \in Bits
ToldTyped(a) == a.type = "memory" /\ a.at = ProgMode => a.value \in Bits
AsksTyped(s) == s \in Seq(Messages) /\ \A i \in DOMAIN s : AskTyped(s[i])
ToldsTyped(s) == s \in Seq(Messages) /\ \A i \in DOMAIN s : ToldTyped(s[i])

NoOrder == Order("none", 0, 0)
MgType ==
  /\ link \in {"off", "opening", "connection", "individual"}
  /\ order \in Orders \cup {NoOrder} /\ stage \in {0, 1, 2} /\ place \in Nat \X Nat /\ keep \in Nat
  /\ AsksTyped(asks) /\ ToldsTyped(told)
  /\ held \in [Items -> Nat] /\ held["prog"] \in Bits
  /\ ever \in [Items -> SUBSET Nat] /\ ever["prog"] \subseteq Bits
  /\ order.type # "none" => \A x \in Items : held[x] \in ever[x]

(* The order under way, and what is written and read again.                *)
OrderOK ==
  /\ link \in {"off", "opening"} => order.type = "none" /\ stage = 0
  /\ stage > 0 => order.type \notin {"none", "wrong", "plain", "restart"}
  /\ stage = 2 =>
       \/ order.type = "scan"
       \/ order.type = "write" /\ keep = order.value
       \/ /\ order.type = "mode" /\ order.value \in {On, Off, Toggle} /\ keep \in Bits
          /\ order.value = On => keep = 1
          /\ order.value = Off => keep = 0
          /\ order.value = Toggle /\ sure => 1 - keep \in ever["prog"]

(* Unless an answer was late or lost, one answer at most is to come: to    *)
(* what the order waits for, and with what is true of the device.          *)
HasAnswer(q) == q.type \notin {"write", "restart"}
Quiet(s) == \A i \in DOMAIN s : ~HasAnswer(s[i])
Right(a) ==
  /\ isResponse(a, Awaited)
  /\ order.type \in {"mode", "read", "write"} => a.value \in ever[Item(order.at)]
  /\ order.type = "propread" => a.value \in ever["prop"]
  /\ order.type = "propwrite" => order.value \in ever["prop"]
  /\ order.type = "auth" => a.value = order.value
  /\ order.type = "scan" /\ stage = 1 => a.value = Described(place[1], place[2])
AskedLast(s, q) ==
  s # <<>> /\ s[Len(s)] = q /\ \A i \in 1 .. Len(s) - 1 : ~HasAnswer(s[i])
Pending ==
  \/ told = <<>> /\ Quiet(asks)
  \/ Waits /\ told = <<>> /\ AskedLast(asks, Awaited)
  \/ Waits /\ Len(told) = 1 /\ Quiet(asks) /\ Right(told[1])

(* A scan has found what is before its place.                              *)
FoundBefore(o, i) ==
  UNION {{<<p, Table[p][j]>> : j \in {k \in DOMAIN Table[p] : p < o \/ k <= i}} : p \in {p \in Objects : p <= o}}
Scanning ==
  /\ place[1] \in Objects \/ (place[1] - 1 \in Objects \cup {-1} /\ place[2] = 0)
  /\ place[1] \in Objects => place[2] \in 0 .. Len(Table[place[1]])
  /\ stage = 2 => /\ place[1] \in Objects /\ place[2] < Len(Table[place[1]])
                  /\ Table[place[1]][place[2] + 1] = 1
  /\ found = FoundBefore(place[1], place[2])

MgInv ==
  /\ MgType /\ OrderOK
  /\ sure => Pending
  /\ sure /\ order.type = "scan" /\ stage > 0 => Scanning
  /\ RepliesTrue

----------------------------------------------------------------------------
(* What the orders ask.                                                    *)
LEMMA OrdersTyped ==
  ASSUME NEW o \in Orders
  PROVE  /\ o \in Messages
         /\ o.type \in {"mode", "write", "plain", "propwrite", "read", "mask", "adc", "propread",
                        "auth", "key", "desc", "scan", "restart", "wrong"}
         /\ o.type = "mode" => o.at = ProgMode /\ o.value \in {On, Off, Toggle, Status}
         /\ o.type \in {"read", "write", "plain"} => o.at = 7
<1>1. \/ \E v \in {Off, On, Toggle, Status} : o = Order("mode", ProgMode, v)
      \/ \E t \in {"write", "plain", "propwrite"}, v \in {0, 1} : o = Order(t, 7, v)
      \/ \E t \in {"read", "mask", "adc", "propread"} : o = Order(t, 7, 0)
      \/ \E v \in {0, 1} : o = Order("auth", 7, v)
      \/ o = Order("key", 2, 5) \/ o = Order("desc", 0, 0) \/ o = Order("scan", 0, 0)
      \/ o = Order("restart", 0, 0) \/ o = Order("wrong", 0, 0)
  BY DEF Orders
<1>2. ASSUME NEW t \in Kinds, NEW n \in Nat, NEW v \in Nat, o = Order(t, n, v)
      PROVE  o \in Messages /\ o.type = t /\ o.at = n /\ o.value = v
  BY <1>2 DEF Order, Messages
<1>3. CASE \E v \in {Off, On, Toggle, Status} : o = Order("mode", ProgMode, v)
  <2>1. PICK v \in {Off, On, Toggle, Status} : o = Order("mode", ProgMode, v)
    BY <1>3
  <2>2. v \in Nat /\ ProgMode \in Nat
    BY DEF Off, On, Toggle, Status, ProgMode
  <2> QED
    BY <1>2, <2>1, <2>2 DEF Kinds
<1>4. CASE \E t \in {"write", "plain", "propwrite"}, v \in {0, 1} : o = Order(t, 7, v)
  BY <1>2, <1>4 DEF Kinds
<1>5. CASE \E t \in {"read", "mask", "adc", "propread"} : o = Order(t, 7, 0)
  BY <1>2, <1>5 DEF Kinds
<1>6. CASE \E v \in {0, 1} : o = Order("auth", 7, v)
  BY <1>2, <1>6 DEF Kinds
<1>7. CASE \/ o = Order("key", 2, 5) \/ o = Order("desc", 0, 0) \/ o = Order("scan", 0, 0)
           \/ o = Order("restart", 0, 0) \/ o = Order("wrong", 0, 0)
  BY <1>2, <1>7 DEF Kinds
<1> QED
  BY <1>1, <1>3, <1>4, <1>5, <1>6, <1>7

LEMMA FirstAsked ==
  ASSUME NEW o \in Orders, o.type \notin {"wrong", "plain", "restart"}
  PROVE  /\ FirstQuery(o) = <<FirstQuery(o)[1]>>
         /\ FirstQuery(o)[1] \in Messages /\ AskTyped(FirstQuery(o)[1])
         /\ FirstQuery(o)[1].type \notin {"write", "restart"}
         /\ o.type \in {"mode", "read", "write"} => FirstQuery(o)[1] = Query("read", o.at, 0)
         /\ o.type \in Simple => FirstQuery(o)[1] = Query(o.type, o.at, o.value)
         /\ o.type = "scan" => FirstQuery(o)[1] = Query("desc", 0, 0)
<1>1. CASE o.type \in Simple
  <2>1. FirstQuery(o) = <<Query(o.type, o.at, o.value)>>
    BY <1>1 DEF FirstQuery, Simple
  <2> QED
    BY <1>1, <2>1, OrdersTyped DEF Query, Messages, Kinds, AskTyped, Simple
<1>2. CASE o.type \in {"mode", "read", "write"}
  <2>1. FirstQuery(o) = <<Query("read", o.at, 0)>>
    BY <1>2 DEF FirstQuery, Simple
  <2>2. FirstQuery(o)[1] = Query("read", o.at, 0) /\ FirstQuery(o) = <<FirstQuery(o)[1]>>
    BY <2>1
  <2>3. o.at \in Nat /\ o.type # "scan" /\ o.type \notin Simple
    BY <1>2, OrdersTyped DEF Messages, Simple
  <2> QED
    BY <1>2, <2>2, <2>3 DEF Query, Messages, Kinds, AskTyped
<1>3. CASE o.type = "scan"
  <2>1. FirstQuery(o) = <<Query("desc", 0, 0)>>
    BY <1>3 DEF FirstQuery, Simple
  <2>2. FirstQuery(o)[1] = Query("desc", 0, 0) /\ FirstQuery(o) = <<FirstQuery(o)[1]>>
    BY <2>1
  <2> QED
    BY <1>3, <2>2 DEF Query, Messages, Kinds, AskTyped, Simple
<1> QED
  BY <1>1, <1>2, <1>3, OrdersTyped DEF Simple

(* Appending to and taking from what was asked.                            *)
LEMMA QuietJoins ==
  ASSUME NEW s \in Seq(Messages), Quiet(s), NEW q \in Messages, NEW w \in Messages
  PROVE  /\ AskedLast(s \o <<q>>, q)
         /\ ~HasAnswer(w) => AskedLast(s \o <<w, q>>, q) /\ Quiet(s \o <<w>>)
<1>1. Len(s) \in Nat /\ DOMAIN s = 1 .. Len(s)
  OBVIOUS
<1> DEFINE a == s \o <<q>>
           b == s \o <<w, q>>
           c == s \o <<w>>
<1>2. /\ Len(a) = Len(s) + 1 /\ a[Len(s) + 1] = q /\ \A i \in 1 .. Len(s) : a[i] = s[i]
      /\ a \in Seq(Messages)
  OBVIOUS
<1>3. /\ Len(b) = Len(s) + 2 /\ b[Len(s) + 1] = w /\ b[Len(s) + 2] = q /\ \A i \in 1 .. Len(s) : b[i] = s[i]
      /\ b \in Seq(Messages)
  OBVIOUS
<1>4. /\ Len(c) = Len(s) + 1 /\ c[Len(s) + 1] = w /\ \A i \in 1 .. Len(s) : c[i] = s[i]
      /\ c \in Seq(Messages) /\ DOMAIN c = 1 .. Len(s) + 1
  OBVIOUS
<1> HIDE DEF a, b, c
<1>5. AskedLast(a, q)
  BY <1>1, <1>2 DEF AskedLast, Quiet
<1>6. ~HasAnswer(w) => AskedLast(b, q) /\ Quiet(c)
  BY <1>1, <1>3, <1>4 DEF AskedLast, Quiet
<1> QED
  BY <1>5, <1>6 DEF a, b, c

LEMMA QuietTail ==
  ASSUME NEW s \in Seq(Messages), s # <<>>, NEW q
  PROVE  /\ Quiet(s) => Quiet(Tail(s)) /\ ~HasAnswer(Head(s))
         /\ AskedLast(s, q) =>
              \/ Tail(s) = <<>> /\ Head(s) = q
              \/ ~HasAnswer(Head(s)) /\ AskedLast(Tail(s), q)
<1> DEFINE t == Tail(s)
<1>1. /\ Len(s) \in Nat \ {0} /\ DOMAIN s = 1 .. Len(s) /\ Head(s) = s[1]
      /\ Len(t) = Len(s) - 1 /\ DOMAIN t = 1 .. Len(s) - 1 /\ \A i \in 1 .. Len(s) - 1 : t[i] = s[i + 1]
      /\ t \in Seq(Messages)
  OBVIOUS
<1> HIDE DEF t
<1>4. t = <<>> <=> Len(s) = 1
  BY <1>1
<1>2. Quiet(s) => Quiet(t) /\ ~HasAnswer(Head(s))
  BY <1>1 DEF Quiet
<1>3. AskedLast(s, q) =>
        \/ t = <<>> /\ Head(s) = q
        \/ ~HasAnswer(Head(s)) /\ AskedLast(t, q)
  BY <1>1, <1>4 DEF AskedLast
<1> QED
  BY <1>2, <1>3 DEF t

LEMMA AsksJoin ==
  ASSUME NEW s, AsksTyped(s), NEW q \in Messages, AskTyped(q), NEW w \in Messages, AskTyped(w)
  PROVE  AsksTyped(s \o <<q>>) /\ AsksTyped(s \o <<w, q>>) /\ (s # <<>> => AsksTyped(Tail(s)))
<1>0. s \in Seq(Messages) /\ Len(s) \in Nat /\ DOMAIN s = 1 .. Len(s)
  BY DEF AsksTyped
<1> DEFINE a == s \o <<q>>
           b == s \o <<w, q>>
           t == Tail(s)
<1>1. a \in Seq(Messages) /\ \A i \in DOMAIN a : a[i] = q \/ \E j \in DOMAIN s : a[i] = s[j]
  BY <1>0
<1>2. b \in Seq(Messages) /\ \A i \in DOMAIN b : b[i] = q \/ b[i] = w \/ \E j \in DOMAIN s : b[i] = s[j]
  BY <1>0
<1>3. s # <<>> => t \in Seq(Messages) /\ \A i \in DOMAIN t : \E j \in DOMAIN s : t[i] = s[j]
  BY <1>0
<1> HIDE DEF a, b, t
<1> QED
  BY <1>1, <1>2, <1>3 DEF AsksTyped, a, b, t

LEMMA ToldsJoin ==
  ASSUME NEW s, ToldsTyped(s), NEW q \in Messages
  PROVE  (ToldTyped(q) => ToldsTyped(Append(s, q))) /\ (s # <<>> => ToldsTyped(Tail(s)) /\ Head(s) \in Messages /\ ToldTyped(Head(s)))
<1>0. s \in Seq(Messages) /\ Len(s) \in Nat /\ DOMAIN s = 1 .. Len(s)
  BY DEF ToldsTyped
<1> DEFINE a == Append(s, q)
           t == Tail(s)
<1>1. a \in Seq(Messages) /\ \A i \in DOMAIN a : a[i] = q \/ \E j \in DOMAIN s : a[i] = s[j]
  BY <1>0
<1>2. s # <<>> => /\ t \in Seq(Messages) /\ \A i \in DOMAIN t : \E j \in DOMAIN s : t[i] = s[j]
                  /\ Head(s) = s[1] /\ 1 \in DOMAIN s /\ s[1] \in Messages
  BY <1>0
<1> HIDE DEF a, t
<1> QED
  BY <1>1, <1>2 DEF ToldsTyped, a, t

----------------------------------------------------------------------------
(* What the order under way waits for.                                     *)
LEMMA AwaitedTyped ==
  ASSUME MgType, OrderOK, Waits
  PROVE  Awaited \in Messages /\ HasAnswer(Awaited) /\ AskTyped(Awaited)
<1>1. CASE link = "opening"
  <2>1. Awaited = Query("mask", 7, 0)
    BY <1>1 DEF Awaited
  <2> QED
    BY <2>1 DEF Query, Messages, Kinds, HasAnswer, AskTyped
<1>2. CASE link # "opening"
  <2>1. stage > 0 /\ order \in Orders /\ order.type \notin {"wrong", "plain", "restart"}
        /\ place[1] \in Nat /\ place[2] \in Nat
    BY <1>2 DEF Waits, MgType, OrderOK, NoOrder, Order
  <2>2. CASE order.type = "scan"
    <3>1. Awaited = Query("propread", place[1], 0) \/ Awaited = Query("desc", place[1], place[2])
      BY <1>2, <2>2 DEF Awaited
    <3> QED
      BY <2>1, <3>1 DEF Query, Messages, Kinds, HasAnswer, AskTyped
  <2>3. CASE order.type # "scan"
    <3>1. Awaited = FirstQuery(order)[1]
      BY <1>2, <2>3 DEF Awaited
    <3> QED
      BY <2>1, <3>1, FirstAsked DEF HasAnswer
  <2> QED
    BY <2>2, <2>3
<1> QED
  BY <1>1, <1>2

LEMMA QuietAtRest == sure /\ Pending /\ ~Waits => told = <<>> /\ Quiet(asks)
BY DEF Pending

LEMMA ManagementStarts == ManagementInit => MgInv
<1> SUFFICES ASSUME ManagementInit PROVE MgInv
  OBVIOUS
<1>1. MgType
  BY DEF ManagementInit, MgType, NoOrder, Order, AsksTyped, ToldsTyped, Items, Bits
<1>2. OrderOK
  BY DEF ManagementInit, OrderOK, Order
<1>3. Pending
  BY DEF ManagementInit, Pending, Quiet
<1>4. RepliesTrue
  BY DEF ManagementInit, RepliesTrue
<1>5. order.type # "scan"
  BY DEF ManagementInit, Order
<1> QED
  BY <1>1, <1>2, <1>3, <1>4, <1>5 DEF MgInv

(* The device, and what is on the way, with the order as it was.           *)
Kept == UNCHANGED <<link, handler, sure>>
Grows ==
  /\ ever' \in [Items -> SUBSET Nat] /\ ever'["prog"] \subseteq Bits
  /\ \A x \in Items : ever[x] \subseteq ever'[x]
  /\ held' \in [Items -> Nat] /\ held'["prog"] \in Bits
  /\ order.type # "none" => \A x \in Items : held'[x] \in ever'[x]

LEMMA OrderKept ==
  ASSUME MgInv, Kept, Grows, AsksTyped(asks'), ToldsTyped(told'), sure => Pending'
  PROVE  MgInv'
<1>0. UNCHANGED <<link, order, stage, keep, place, found, reply, sure>>
  BY DEF Kept, handler
<1>1. MgType'
  BY <1>0 DEF MgInv, MgType, Grows
<1>2. OrderOK'
  BY <1>0 DEF MgInv, OrderOK, Grows, Items
<1>3. Scanning' = Scanning
  BY <1>0 DEF Scanning
<1>4. RepliesTrue'
  <2>1. ever["prog"] = {0, 1} => ever'["prog"] = {0, 1}
    BY DEF Grows, Bits, Items
  <2>2. /\ \A v : v \in ever["prog"] => v \in ever'["prog"]
        /\ \A v : v \in ever["cell"] => v \in ever'["cell"]
        /\ \A v : v \in ever["prop"] => v \in ever'["prop"]
    BY DEF Grows, Items
  <2>3. RepliesTrue
    BY DEF MgInv
  <2> QED
    BY <1>0, <2>1, <2>2, <2>3 DEF RepliesTrue
<1> QED
  BY <1>0, <1>1, <1>2, <1>3, <1>4 DEF MgInv

LEMMA PendingKept ==
  ASSUME MgInv, Kept, Grows, sure, told' = told,
         \/ asks' = asks
         \/ asks # <<>> /\ asks' = Tail(asks)
         \/ asks' = <<>>
  PROVE  Pending'
<1>0. UNCHANGED <<link, order, stage, keep, place, found, reply, sure>> /\ Pending /\ asks \in Seq(Messages)
  BY DEF Kept, handler, MgInv, MgType, AsksTyped
<1>1. Awaited' = Awaited /\ Waits' = Waits
  BY <1>0 DEF Awaited, Waits
<1>2. Quiet(asks) => Quiet(asks')
  BY <1>0, QuietTail DEF Quiet
<1>3. AskedLast(asks, Awaited) => AskedLast(asks', Awaited) \/ Quiet(asks')
  <2>1. CASE asks' = asks
    BY <2>1
  <2>2. CASE asks' = <<>>
    BY <2>2 DEF Quiet
  <2>3. CASE asks # <<>> /\ asks' = Tail(asks)
    BY <1>0, <2>3, QuietTail DEF Quiet
  <2> QED
    BY <2>1, <2>2, <2>3
<1>4. CASE told = <<>> /\ Quiet(asks)
  BY <1>2, <1>4 DEF Pending
<1>5. CASE Waits /\ told = <<>> /\ AskedLast(asks, Awaited)
  BY <1>1, <1>3, <1>5 DEF Pending
<1>6. CASE Waits /\ Len(told) = 1 /\ Quiet(asks) /\ Right(told[1])
  <2>1. Right(told[1])'
    <3>1. told[1]' = told[1] /\ Item(order.at) \in Items
      BY DEF Item, Items
    <3> QED
      BY <1>0, <1>1, <1>6, <3>1 DEF Right, Grows, Items
  <2> QED
    BY <1>1, <1>2, <1>6, <2>1 DEF Pending
<1> QED
  BY <1>0, <1>4, <1>5, <1>6 DEF Pending

LEMMA LoseStep == MgInv /\ (Lose \/ End) => MgInv'
<1> SUFFICES ASSUME MgInv, Lose \/ End PROVE MgInv'
  OBVIOUS
<1>1. Kept /\ told' = told /\ held' = held /\ ever' = ever
  BY DEF Lose, End, Kept, unitvars
<1>2. (asks # <<>> /\ asks' = Tail(asks)) \/ asks' = <<>>
  BY DEF Lose, End
<1>3. Grows
  BY <1>1 DEF Grows, MgInv, MgType
<1>4. AsksTyped(asks') /\ ToldsTyped(told')
  <2>1. AsksTyped(asks) /\ ToldsTyped(told)
    BY DEF MgInv, MgType
  <2>2. AsksTyped(<<>>)
    BY DEF AsksTyped
  <2>3. asks # <<>> => AsksTyped(Tail(asks))
    <3>1. Query("mask", 7, 0) \in Messages /\ AskTyped(Query("mask", 7, 0))
      BY DEF Query, Messages, Kinds, AskTyped
    <3> QED
      BY <2>1, <3>1, AsksJoin
  <2> QED
    BY <1>1, <1>2, <2>1, <2>2, <2>3
<1> QED
  BY <1>1, <1>2, <1>3, <1>4, PendingKept, OrderKept

LEMMA TakenGrows ==
  ASSUME MgInv, Kept, NEW item \in Items, NEW v \in Nat, Takes(item, v), item = "prog" => v \in Bits
  PROVE  Grows /\ v \in ever'[item]
<1>1. /\ held \in [Items -> Nat] /\ held["prog"] \in Bits
      /\ ever \in [Items -> SUBSET Nat] /\ ever["prog"] \subseteq Bits
      /\ (order.type # "none" => \A x \in Items : held[x] \in ever[x])
  BY DEF MgInv, MgType
<1>2. held' = [held EXCEPT ![item] = v] /\ ever' = [ever EXCEPT ![item] = ever[item] \cup {v}]
  BY DEF Takes
<1>3. ever[item] \cup {v} \in SUBSET Nat /\ (item = "prog" => ever[item] \cup {v} \subseteq Bits)
  BY <1>1
<1>4. ever' \in [Items -> SUBSET Nat] /\ held' \in [Items -> Nat]
  BY <1>1, <1>2, <1>3
<1>5. held'["prog"] \in Bits /\ ever'["prog"] \subseteq Bits /\ \A x \in Items : ever[x] \subseteq ever'[x]
  BY <1>1, <1>2, <1>3 DEF Items
<1>6. order.type # "none" => \A x \in Items : held'[x] \in ever'[x]
  BY <1>1, <1>2, <1>4
<1> QED
  BY <1>1, <1>2, <1>4, <1>5, <1>6 DEF Grows

LEMMA ButtonStep == MgInv /\ PressAgain => MgInv'
<1> SUFFICES ASSUME MgInv, PressAgain PROVE MgInv'
  OBVIOUS
<1>1. Kept /\ told' = told /\ asks' = asks /\ Takes("prog", 1 - held["prog"])
  BY DEF PressAgain, Kept
<1>2. 1 - held["prog"] \in Nat /\ 1 - held["prog"] \in Bits /\ "prog" \in Items
  BY DEF MgInv, MgType, Bits, Items
<1>3. Grows
  BY <1>1, <1>2, TakenGrows
<1>4. AsksTyped(asks') /\ ToldsTyped(told')
  BY <1>1 DEF MgInv, MgType
<1> QED
  BY <1>1, <1>3, <1>4, PendingKept, OrderKept

(* The device does what was asked first.                                   *)
LEMMA AwaitedIs ==
  ASSUME MgType, OrderOK, Waits
  PROVE  /\ link = "opening" => Awaited = Query("mask", 7, 0) /\ order.type = "none"
         /\ link # "opening" =>
              \/ order.type \in {"mode", "read", "write"} /\ Awaited = Query("read", order.at, 0)
              \/ order.type \in Simple /\ Awaited = Query(order.type, order.at, order.value)
              \/ order.type = "scan" /\ stage = 1 /\ Awaited = Query("desc", place[1], place[2])
              \/ order.type = "scan" /\ stage = 2 /\ Awaited = Query("propread", place[1], 0)
<1>1. CASE link = "opening"
  BY <1>1 DEF Awaited, OrderOK
<1>2. CASE link # "opening"
  <2>1. stage \in {1, 2} /\ order \in Orders /\ order.type \notin {"wrong", "plain", "restart"}
    BY <1>2 DEF Waits, MgType, OrderOK, NoOrder, Order
  <2>2. CASE order.type = "scan"
    BY <1>2, <2>1, <2>2 DEF Awaited
  <2>3. CASE order.type # "scan"
    <3>1. Awaited = FirstQuery(order)[1]
      BY <1>2, <2>3 DEF Awaited
    <3>2. order.type \in {"mode", "read", "write"} \/ order.type \in Simple
      BY <2>1, <2>3, OrdersTyped DEF Simple
    <3> QED
      BY <1>2, <2>1, <3>1, <3>2, FirstAsked
  <2> QED
    BY <2>2, <2>3
<1> QED
  BY <1>1, <1>2

LEMMA AnswerTold ==
  ASSUME MgInv, Kept, Grows, asks # <<>>, asks' = Tail(asks), HasAnswer(Head(asks)),
         NEW a \in Messages, ToldTyped(a), told' = Append(told, a),
         sure /\ Waits /\ Head(asks) = Awaited => Right(a)'
  PROVE  MgInv'
<1>1. AsksTyped(asks') /\ ToldsTyped(told')
  <2>1. AsksTyped(asks) /\ ToldsTyped(told)
    BY DEF MgInv, MgType
  <2>2. Query("mask", 7, 0) \in Messages /\ AskTyped(Query("mask", 7, 0))
    BY DEF Query, Messages, Kinds, AskTyped
  <2>3. AsksTyped(asks')
    BY <2>1, <2>2, AsksJoin
  <2> QED
    BY <2>1, <2>3, ToldsJoin
<1>2. ASSUME sure PROVE Pending'
  <2>1. asks \in Seq(Messages) /\ Pending
    BY <1>2 DEF MgInv, MgType, AsksTyped
  <2>2. ~Quiet(asks)
    BY <2>1, QuietTail
  <2>3. Waits /\ told = <<>> /\ AskedLast(asks, Awaited)
    BY <2>1, <2>2 DEF Pending
  <2>4. Tail(asks) = <<>> /\ Head(asks) = Awaited
    BY <2>1, <2>3, QuietTail
  <2>5. Len(told') = 1 /\ told'[1] = a
    BY <2>3
  <2>6. Quiet(asks')
    BY <2>4 DEF Quiet
  <2>7. Right(a)'
    BY <1>2, <2>3, <2>4
  <2>8. Waits' = Waits
    BY DEF Kept, handler, Waits
  <2>9. Right(told[1])'
    BY <2>5, <2>7 DEF Right
  <2> QED
    BY <2>3, <2>5, <2>6, <2>8, <2>9 DEF Pending
<1> QED
  BY <1>1, <1>2, OrderKept

(* An answer to what is awaited is right if its contents are.              *)
LEMMA AnswerRight ==
  ASSUME MgInv, Kept, Waits, NEW a \in Messages, NEW q, q = Awaited,
         a.type = Response[q.type], a.at = q.at,
         q.type = "read" => a.value \in ever'[Item(q.at)],
         q.type = "propread" => a.value \in ever'["prop"],
         q.type = "propwrite" => q.value \in ever'["prop"],
         q.type = "auth" => a.value = q.value,
         q.type = "desc" => a.value = Described(q.at, q.value)
  PROVE  Right(a)'
<1>0. UNCHANGED <<link, order, stage, keep, place, found, reply, sure>> /\ MgType /\ OrderOK
  BY DEF Kept, handler, MgInv
<1>1. Awaited' = Awaited /\ isResponse(a, Awaited)
  BY <1>0 DEF Awaited, isResponse
<1>2. CASE link = "opening"
  BY <1>0, <1>1, <1>2, AwaitedIs DEF Right
<1>3. CASE link # "opening"
  <2>1. CASE order.type \in {"mode", "read", "write"} /\ Awaited = Query("read", order.at, 0)
    BY <1>0, <1>1, <2>1 DEF Right, Query
  <2>2. CASE order.type \in Simple /\ Awaited = Query(order.type, order.at, order.value)
    BY <1>0, <1>1, <2>2 DEF Right, Query, Simple
  <2>3. CASE order.type = "scan" /\ stage = 1 /\ Awaited = Query("desc", place[1], place[2])
    BY <1>0, <1>1, <2>3 DEF Right, Query
  <2>4. CASE order.type = "scan" /\ stage = 2 /\ Awaited = Query("propread", place[1], 0)
    BY <1>0, <1>1, <2>4 DEF Right, Query
  <2> QED
    BY <1>0, <1>3, <2>1, <2>2, <2>3, <2>4, AwaitedIs
<1> QED
  BY <1>2, <1>3

LEMMA DescribedTyped ==
  ASSUME NEW o \in Nat, NEW i \in Nat PROVE Described(o, i) \in Nat
<1>1. CASE o \in Objects /\ i < Len(Table[o])
  <2>1. Table[o] \in Seq(Nat \ {0})
    BY <1>1, ManagementAssumption DEF Objects
  <2>2. i + 1 \in DOMAIN Table[o]
    BY <1>1, <2>1
  <2> QED
    BY <1>1, <2>1, <2>2 DEF Described
<1>2. CASE ~(o \in Objects /\ i < Len(Table[o]))
  BY <1>2 DEF Described
<1> QED
  BY <1>1, <1>2

LEMMA DeviceStep == MgInv /\ DeviceAnswers => MgInv'
<1> SUFFICES ASSUME MgInv, DeviceAnswers PROVE MgInv'
  OBVIOUS
<1> DEFINE q == Head(asks)
<1>0. /\ asks # <<>> /\ asks' = Tail(asks) /\ Kept
  BY DEF DeviceAnswers, Kept
<1>1. q \in Messages /\ AskTyped(q) /\ AsksTyped(Tail(asks)) /\ ToldsTyped(told)
  <2>1. AsksTyped(asks) /\ ToldsTyped(told)
    BY DEF MgInv, MgType
  <2>2. Query("mask", 7, 0) \in Messages /\ AskTyped(Query("mask", 7, 0))
    BY DEF Query, Messages, Kinds, AskTyped
  <2>3. AsksTyped(Tail(asks))
    BY <1>0, <2>1, <2>2, AsksJoin
  <2>4. asks \in Seq(Messages) /\ asks[1] = q /\ 1 \in DOMAIN asks
    BY <1>0, <2>1 DEF AsksTyped
  <2> QED
    BY <2>1, <2>3, <2>4 DEF AsksTyped
<1>2. ASSUME told' = told, Grows PROVE MgInv'
  BY <1>0, <1>1, <1>2, PendingKept, OrderKept
<1>3. held' = held /\ ever' = ever => Grows
  BY DEF Grows, MgInv, MgType
<1>4. ASSUME NEW v \in Nat, Tells(q, v), Grows,
             q.type \in {"read", "propread", "propwrite", "mask", "adc", "key", "auth", "desc"},
             q.type = "read" /\ q.at = ProgMode => v \in Bits,
             sure /\ Waits /\ q = Awaited =>
               /\ q.type = "read" => v \in ever'[Item(q.at)]
               /\ q.type = "propread" => v \in ever'["prop"]
               /\ q.type = "propwrite" => q.value \in ever'["prop"]
               /\ q.type = "auth" => v = q.value
               /\ q.type = "desc" => v = Described(q.at, q.value)
      PROVE  MgInv'
  <2>1. CASE told' = told
    BY <1>2, <1>4, <2>1
  <2>2. CASE TellsAll(q, v)
    <3>1. PICK a : a = [type |-> Response[q.type], at |-> q.at, value |-> v]
      OBVIOUS
    <3>2. a \in Messages /\ a.type = Response[q.type] /\ a.at = q.at /\ a.value = v /\ HasAnswer(q)
          /\ (a.type = "memory" => q.type = "read")
      BY <1>1, <1>4, <3>1 DEF Messages, Kinds, Response, HasAnswer
    <3>3. ToldTyped(a) /\ told' = Append(told, a)
      BY <1>4, <2>2, <3>1, <3>2 DEF ToldTyped, TellsAll
    <3>4. sure /\ Waits /\ q = Awaited => Right(a)'
      <4> SUFFICES ASSUME sure, Waits, q = Awaited PROVE Right(a)'
        OBVIOUS
      <4> HIDE DEF q
      <4> QED
        BY <1>0, <1>4, <3>2, AnswerRight
    <3> QED
      BY <1>0, <1>4, <3>2, <3>3, <3>4, AnswerTold
  <2> QED
    BY <1>4, <2>1, <2>2 DEF Tells
<1>5. /\ held \in [Items -> Nat] /\ held["prog"] \in Bits
      /\ (order.type # "none" => \A x \in Items : held[x] \in ever[x]) /\ order = order
  BY DEF MgInv, MgType
<1>6. sure /\ Waits /\ q = Awaited /\ q.type \in {"read", "propread"} => order.type # "none"
  <2>1. MgType /\ OrderOK
    BY DEF MgInv
  <2> QED
    BY <2>1, AwaitedIs DEF Query, Simple
<1> HIDE DEF q
<1>10. CASE /\ q.type = "read" /\ Tells(q, held[Item(q.at)]) /\ UNCHANGED <<held, ever, ended>>
  <2>1. Item(q.at) \in Items /\ (q.at = ProgMode => Item(q.at) = "prog")
    BY DEF Item, Items
  <2>2. held[Item(q.at)] \in Nat /\ (q.at = ProgMode => held[Item(q.at)] \in Bits)
    BY <1>5, <2>1
  <2>3. sure /\ Waits /\ q = Awaited => held[Item(q.at)] \in ever'[Item(q.at)]
    BY <1>5, <1>6, <1>10, <2>1
  <2> QED
    BY <1>3, <1>4, <1>10, <2>2, <2>3
<1>11. CASE /\ q.type = "write" /\ UNCHANGED <<told, ended>>
            /\ IF fixed THEN UNCHANGED <<held, ever>> ELSE Takes(Item(q.at), q.value)
  <2>1. Item(q.at) \in Items /\ (Item(q.at) = "prog" => q.at = ProgMode) /\ q.value \in Nat
    BY <1>1 DEF Item, Items, Messages
  <2>2. Grows
    BY <1>0, <1>1, <1>3, <1>11, <2>1, TakenGrows DEF AskTyped
  <2> QED
    BY <1>2, <1>11, <2>2
<1>12. CASE /\ q.type = "propread" /\ Tells(q, held["prop"]) /\ UNCHANGED <<held, ever, ended>>
  <2>1. held["prop"] \in Nat /\ (sure /\ Waits /\ q = Awaited => held["prop"] \in ever'["prop"])
    BY <1>5, <1>6, <1>12 DEF Items
  <2> QED
    BY <1>3, <1>4, <1>12, <2>1
<1>13. CASE /\ q.type = "propwrite" /\ Takes("prop", q.value) /\ Tells(q, q.value) /\ UNCHANGED ended
  <2>1. q.value \in Nat /\ "prop" \in Items
    BY <1>1 DEF Messages, Items
  <2>2. Grows /\ q.value \in ever'["prop"]
    BY <1>0, <1>13, <2>1, TakenGrows
  <2> QED
    BY <1>4, <1>13, <2>1, <2>2
<1>14. CASE /\ q.type \in {"mask", "adc", "key"} /\ Tells(q, q.at) /\ UNCHANGED <<held, ever, ended>>
  <2>1. q.at \in Nat
    BY <1>1 DEF Messages
  <2> QED
    BY <1>3, <1>4, <1>14, <2>1
<1>15. CASE /\ q.type = "auth" /\ Tells(q, q.value) /\ UNCHANGED <<held, ever, ended>>
  <2>1. q.value \in Nat
    BY <1>1 DEF Messages
  <2> QED
    BY <1>3, <1>4, <1>15, <2>1
<1>16. CASE /\ q.type = "desc" /\ Tells(q, Described(q.at, q.value)) /\ UNCHANGED <<held, ever, ended>>
  <2>1. q.value \in Nat /\ q.at \in Nat
    BY <1>1 DEF Messages
  <2>2. Described(q.at, q.value) \in Nat
    BY <2>1, DescribedTyped
  <2> QED
    BY <1>3, <1>4, <1>16, <2>2
<1>17. CASE /\ q.type = "restart" /\ ended' = TRUE /\ UNCHANGED <<told, held, ever>>
  BY <1>2, <1>3, <1>17
<1> QED
  BY <1>10, <1>11, <1>12, <1>13, <1>14, <1>15, <1>16, <1>17 DEF DeviceAnswers, q

----------------------------------------------------------------------------
(* The program.                                                            *)
LEMMA EmptyTyped == AsksTyped(<<>>) /\ ToldsTyped(<<>>) /\ Quiet(<<>>)
BY DEF AsksTyped, ToldsTyped, Quiet

LEMMA MaskAsked ==
  /\ Query("mask", 7, 0) \in Messages /\ AskTyped(Query("mask", 7, 0))
  /\ AsksTyped(<<Query("mask", 7, 0)>>) /\ AskedLast(<<Query("mask", 7, 0)>>, Query("mask", 7, 0))
<1>1. Query("mask", 7, 0) \in Messages /\ AskTyped(Query("mask", 7, 0))
  BY DEF Query, Messages, Kinds, AskTyped
<1> QED
  BY <1>1 DEF AsksTyped, AskedLast

LEMMA OpenStep == MgInv /\ OpenDevice => MgInv'
<1> SUFFICES ASSUME MgInv, OpenDevice PROVE MgInv'
  OBVIOUS
<1>1. /\ UNCHANGED <<order, stage, keep, place, found, told, ended, held, ever, sure>>
      /\ link = "off" /\ order.type = "none" /\ stage = 0 /\ MgType
      /\ link' \in {"opening", "individual", "off"}
      /\ IF link' = "opening" THEN asks' = <<Query("mask", 7, 0)>> ELSE asks' = asks
  BY DEF OpenDevice, MgInv, OrderOK
<1>2. MgType'
  BY <1>1, MaskAsked DEF MgType
<1>3. OrderOK'
  BY <1>1 DEF OrderOK
<1>4. ASSUME sure PROVE Pending'
  <2>1. told = <<>> /\ Quiet(asks)
    BY <1>1, <1>4 DEF MgInv, Pending, Waits
  <2>2. CASE link' = "opening"
    <3>1. Awaited' = Query("mask", 7, 0) /\ Waits'
      BY <2>2 DEF Awaited, Waits
    <3>2. AskedLast(asks', Awaited')
      BY <1>1, <2>2, <3>1, MaskAsked
    <3> QED
      BY <1>1, <2>1, <3>1, <3>2 DEF Pending
  <2>3. CASE link' # "opening"
    BY <1>1, <2>1, <2>3 DEF Pending
  <2> QED
    BY <2>2, <2>3
<1>5. RepliesTrue'
  BY <1>1 DEF RepliesTrue
<1> QED
  BY <1>1, <1>2, <1>3, <1>4, <1>5 DEF MgInv

LEMMA LeaveStep == MgInv /\ LeaveDevice => MgInv'
<1> SUFFICES ASSUME MgInv, LeaveDevice PROVE MgInv'
  OBVIOUS
<1>1. /\ UNCHANGED <<stage, keep, place, found, reply, held, ever>>
      /\ stage = 0 /\ MgType /\ link' = "off" /\ told' = <<>> /\ order' = NoOrder
      /\ (asks' = <<>> \/ asks' = asks) /\ sure' = (asks' = <<>>)
  BY DEF LeaveDevice, MgInv, NoOrder, unitvars
<1>2. order'.type = "none"
  BY <1>1 DEF NoOrder, Order
<1>3. MgType'
  BY <1>1, <1>2, EmptyTyped DEF MgType
<1>4. OrderOK'
  BY <1>1, <1>2 DEF OrderOK
<1>5. sure' => Pending'
  BY <1>1, EmptyTyped DEF Pending
<1>6. RepliesTrue'
  BY <1>2 DEF RepliesTrue
<1> QED
  BY <1>2, <1>3, <1>4, <1>5, <1>6 DEF MgInv

LEMMA FailStep == MgInv /\ ExchangeFails => MgInv'
<1> SUFFICES ASSUME MgInv, ExchangeFails PROVE MgInv'
  OBVIOUS
<1>1. /\ UNCHANGED <<order, keep, place, found, held, ever>> /\ stage' = 0 /\ MgType /\ OrderOK
      /\ Waits /\ (asks' = <<>> \/ asks' = asks) /\ reply'[1] # "done"
      /\ link' \in {link, "off"} /\ link' = IF link = "opening" THEN "off" ELSE link
  BY DEF ExchangeFails, MgInv, Rejected, unitvars
<1>2. ~sure'
  <2>1. CASE told # <<>> /\ ~isResponse(Head(told), Awaited) /\ sure' = sure
    <3> SUFFICES ASSUME sure PROVE FALSE
      BY <2>1
    <3>1. Len(told) = 1 /\ Right(told[1])
      BY <2>1 DEF MgInv, Pending
    <3>2. Head(told) = told[1]
      BY <2>1
    <3> QED
      BY <2>1, <3>1, <3>2 DEF Right
  <2> QED
    BY <2>1 DEF ExchangeFails
<1>3. ToldsTyped(told')
  <2>1. told' = told \/ (told # <<>> /\ told' = Tail(told))
    BY DEF ExchangeFails
  <2>2. ToldsTyped(told)
    BY <1>1 DEF MgType
  <2> QED
    BY <2>1, <2>2, MaskAsked, ToldsJoin
<1>4. MgType'
  BY <1>1, <1>3, EmptyTyped DEF MgType
<1>5. OrderOK'
  BY <1>1 DEF OrderOK
<1>6. RepliesTrue'
  BY <1>2 DEF RepliesTrue
<1> QED
  BY <1>2, <1>4, <1>5, <1>6 DEF MgInv

LEMMA OrderBegins == MgInv /\ ReadMessage => MgInv'
<1> SUFFICES ASSUME MgInv, ReadMessage PROVE MgInv'
  OBVIOUS
<1>1. PICK o \in Orders : order' = o /\ BeginOrder(o)
  BY DEF ReadMessage, Individually
<1>2. /\ stage = 0 /\ link \in {"connection", "individual"} /\ MgType /\ ever' = Now
      /\ UNCHANGED <<link, told, held, sure>>
  BY DEF ReadMessage, MgInv, unitvars
<1>3. /\ held' \in [Items -> Nat] /\ held'["prog"] \in Bits /\ ever' \in [Items -> SUBSET Nat]
      /\ ever'["prog"] \subseteq Bits /\ \A x \in Items : held'[x] \in ever'[x]
  <2>1. held \in [Items -> Nat] /\ held["prog"] \in Bits
    BY <1>2 DEF MgType
  <2>2. ever' = [x \in Items |-> {held[x]}]
    BY <1>2, <2>1 DEF Now
  <2>3. ever' \in [Items -> SUBSET Nat]
    BY <2>1, <2>2
  <2> QED
    BY <1>2, <2>1, <2>2, <2>3 DEF Items
<1>4. AsksTyped(asks) /\ ToldsTyped(told) /\ asks \in Seq(Messages)
  BY <1>2 DEF MgType, AsksTyped
<1>5. sure => told = <<>> /\ Quiet(asks)
  BY <1>2 DEF MgInv, Pending, Waits
<1>6. /\ link' \in {"off", "opening", "connection", "individual"} /\ link' \notin {"off", "opening"}
      /\ keep \in Nat /\ place \in Nat \X Nat
  BY <1>2 DEF MgType
<1>7. CASE o.type = "wrong"
  <2>1. /\ stage' = 0 /\ UNCHANGED <<keep, place, found, asks>> /\ reply'[1] # "done"
    BY <1>1, <1>7 DEF BeginOrder, Rejected
  <2>2. MgType'
    BY <1>1, <1>2, <1>3, <1>4, <1>6, <2>1 DEF MgType
  <2>3. OrderOK'
    BY <1>6, <2>1 DEF OrderOK
  <2>4. sure' => Pending'
    BY <1>2, <1>5, <2>1 DEF Pending
  <2>5. RepliesTrue'
    BY <2>1 DEF RepliesTrue
  <2> QED
    BY <2>1, <2>2, <2>3, <2>4, <2>5 DEF MgInv
<1>8. CASE o.type \in {"plain", "restart"}
  <2> DEFINE q == Query(IF o.type = "plain" THEN "write" ELSE o.type, o.at, o.value)
  <2>1. /\ stage' = 0 /\ UNCHANGED <<keep, place, found>> /\ (asks' = asks \/ asks' = asks \o <<q>>)
    BY <1>1, <1>8 DEF BeginOrder, Done, SendsOn
  <2>2. q \in Messages /\ AskTyped(q) /\ ~HasAnswer(q)
    BY <1>8, OrdersTyped DEF Query, Messages, Kinds, AskTyped, HasAnswer, ProgMode
  <2> HIDE DEF q
  <2>3. AsksTyped(asks')
    BY <1>4, <2>1, <2>2, AsksJoin
  <2>4. MgType'
    BY <1>1, <1>2, <1>3, <1>4, <1>6, <2>1, <2>3 DEF MgType
  <2>5. OrderOK'
    BY <1>6, <2>1 DEF OrderOK
  <2>6. sure' => Pending'
    BY <1>2, <1>4, <1>5, <2>1, <2>2, QuietJoins DEF Pending
  <2>7. order'.type \in {"plain", "restart"}
    BY <1>1, <1>8
  <2>8. RepliesTrue'
    BY <2>7 DEF RepliesTrue
  <2> QED
    BY <2>1, <2>4, <2>5, <2>6, <2>7, <2>8 DEF MgInv
<1>9. CASE o.type \notin {"wrong", "plain", "restart"}
  <2> DEFINE q == FirstQuery(o)[1]
  <2>1. /\ stage' = 1 /\ place' = <<0, 0>> /\ found' = {} /\ UNCHANGED keep
        /\ (asks' = asks \/ asks' = asks \o FirstQuery(o))
    BY <1>1, <1>9 DEF BeginOrder, SendsOn
  <2>2. q \in Messages /\ AskTyped(q) /\ FirstQuery(o) = <<q>>
        /\ (o.type = "scan" => q = Query("desc", 0, 0))
    BY <1>9, FirstAsked
  <2> HIDE DEF q
  <2>3. AsksTyped(asks')
    BY <1>4, <2>1, <2>2, AsksJoin
  <2>4. MgType'
    BY <1>1, <1>2, <1>3, <1>4, <1>6, <2>1, <2>3 DEF MgType
  <2>5. OrderOK'
    <3>1. o.type # "none"
      BY OrdersTyped
    <3> QED
      BY <1>1, <1>6, <1>9, <2>1, <3>1 DEF OrderOK
  <2>6. Waits' /\ Awaited' = q
    BY <1>1, <1>6, <2>1, <2>2 DEF Waits, Awaited, q
  <2>7. sure' => Pending'
    <3>1. sure => (asks' = asks /\ Quiet(asks')) \/ AskedLast(asks', q)
      BY <1>4, <1>5, <2>1, <2>2, QuietJoins
    <3> QED
      BY <1>2, <1>5, <2>6, <3>1 DEF Pending
  <2>8. Scanning'
    <3>1. place'[1] = 0 /\ place'[2] = 0 /\ stage' # 2
      BY <2>1
    <3>2. 0 \in Objects => Len(Table[0]) \in Nat /\ DOMAIN Table[0] = 1 .. Len(Table[0])
      BY ManagementAssumption DEF Objects
    <3>3. FoundBefore(0, 0) = {}
      <4>1. \A p \in Objects : p \in Nat
        BY ManagementAssumption, FS_CardinalityType DEF Objects
      <4>2. \A p \in Objects : DOMAIN Table[p] = 1 .. Len(Table[p])
        BY ManagementAssumption DEF Objects
      <4>3. \A p \in Objects : p <= 0 => {k \in DOMAIN Table[p] : p < 0 \/ k <= 0} = {}
        BY <4>1, <4>2
      <4> QED
        BY <4>3 DEF FoundBefore
    <3> QED
      BY <2>1, <3>1, <3>2, <3>3 DEF Scanning
  <2>9. RepliesTrue'
    BY <2>1 DEF RepliesTrue
  <2> QED
    BY <2>4, <2>5, <2>7, <2>8, <2>9 DEF MgInv
<1> QED
  BY <1>7, <1>8, <1>9

(* What is done with an answer.                                            *)
Finished(value) == Done(value) /\ UNCHANGED asks
LEMMA AnswerHandled ==
  ASSUME NEW v, GotAnswer(v), Waits, OrderOK, MgType
  PROVE  \/ link = "opening" /\ Finished(0)
         \/ link # "opening" /\ order.type = "scan" /\ Scanned(v)
         \/ link # "opening" /\ order.type = "mode" /\ order.value # Status /\ stage = 1 /\ WriteAndRead(WantedMode(v))
         \/ link # "opening" /\ order.type = "write" /\ stage = 1 /\ v # order.value /\ WriteAndRead(order.value)
         \/ /\ link # "opening" /\ order.type \in {"mode", "write"} /\ stage = 2 /\ UNCHANGED asks
            /\ IF v = keep THEN Done(0) ELSE Rejected(IF order.type = "write" THEN "VERIFY" ELSE "reject")
         \/ /\ link # "opening" /\ Finished(0)
            /\ order.type \in {"propwrite", "key"} \/ (order.type = "write" /\ stage = 1 /\ v = order.value)
         \/ /\ link # "opening" /\ Finished(v)
            /\ \/ order.type \in {"read", "mask", "adc", "propread", "auth", "desc"}
               \/ order.type = "mode" /\ order.value = Status /\ stage = 1
<1>1. CASE link = "opening"
  BY <1>1 DEF GotAnswer, Finished, OrderOK
<1>2. CASE link # "opening"
  <2>1. stage \in {1, 2} /\ order \in Orders /\ order.type \notin {"wrong", "plain", "restart", "none"}
    BY <1>2 DEF Waits, MgType, OrderOK, NoOrder, Order
  <2>2. order.type \in {"mode", "write", "propwrite", "read", "mask", "adc", "propread", "auth", "key", "desc", "scan"}
    BY <2>1, OrdersTyped
  <2>3. stage = 2 => order.type \in {"scan", "write", "mode"} /\ (order.type = "mode" => order.value # Status)
    BY DEF OrderOK, On, Off, Toggle, Status
  <2>4. CASE order.type = "scan"
    BY <1>2, <2>4 DEF GotAnswer
  <2>5. CASE order.type = "mode"
    <3>1. CASE order.value # Status /\ stage = 1
      BY <1>2, <2>5, <3>1 DEF GotAnswer
    <3>2. CASE stage = 2
      BY <1>2, <2>5, <3>2 DEF GotAnswer
    <3>3. CASE order.value = Status /\ stage = 1
      BY <1>2, <2>5, <3>3 DEF GotAnswer, Finished
    <3> QED
      BY <2>1, <3>1, <3>2, <3>3
  <2>6. CASE order.type = "write"
    <3>1. CASE v # order.value /\ stage = 1
      BY <1>2, <2>6, <3>1 DEF GotAnswer
    <3>2. CASE stage = 2
      BY <1>2, <2>6, <3>2 DEF GotAnswer
    <3>3. CASE v = order.value /\ stage = 1
      BY <1>2, <2>6, <3>3 DEF GotAnswer, Finished
    <3> QED
      BY <2>1, <3>1, <3>2, <3>3
  <2>7. CASE order.type \in {"propwrite", "key"}
    BY <1>2, <2>7 DEF GotAnswer, Finished
  <2>8. CASE order.type \in {"read", "mask", "adc", "propread", "auth", "desc"}
    BY <1>2, <2>8 DEF GotAnswer, Finished
  <2> QED
    BY <2>2, <2>4, <2>5, <2>6, <2>7, <2>8
<1> QED
  BY <1>1, <1>2

(* An answer that was heard.                                               *)
ReplyTaken ==
  /\ told # <<>> /\ told' = Tail(told) /\ UNCHANGED <<order, held, ever, sure, ended>>
  /\ link' = IF link = "opening" THEN "connection" ELSE link
  /\ isResponse(Head(told), Awaited)

LEMMA HeardTyped ==
  ASSUME MgInv, ReplyTaken, Waits, AsksTyped(asks'), stage' \in {0, 1, 2}, keep' \in Nat, place' \in Nat \X Nat
  PROVE  /\ MgType'
         /\ Head(told) \in Messages /\ ToldTyped(Head(told))
         /\ sure => told' = <<>> /\ Quiet(asks) /\ Right(Head(told))
<1>1. MgType
  BY DEF MgInv
<1>2. ToldsTyped(told') /\ Head(told) \in Messages /\ ToldTyped(Head(told))
  BY <1>1, MaskAsked, ToldsJoin DEF ReplyTaken, MgType
<1>3. MgType'
  BY <1>1, <1>2 DEF ReplyTaken, MgType
<1>4. ASSUME sure PROVE told' = <<>> /\ Quiet(asks) /\ Right(Head(told))
  <2>1. Len(told) = 1 /\ Quiet(asks) /\ Right(told[1])
    BY <1>4 DEF MgInv, Pending, ReplyTaken
  <2>2. told \in Seq(Messages) /\ told # <<>>
    BY <1>1 DEF MgType, ToldsTyped, ReplyTaken
  <2>3. Head(told) = told[1] /\ Tail(told) = <<>>
    <3> DEFINE t == Tail(told)
    <3>1. Head(told) = told[1] /\ t \in Seq(Messages) /\ Len(t) = 0
      BY <2>1, <2>2
    <3> HIDE DEF t
    <3>2. t = <<>>
      BY <3>1
    <3> QED
      BY <3>1, <3>2 DEF t
  <2> QED
    BY <2>1, <2>3 DEF ReplyTaken
<1> QED
  BY <1>2, <1>3, <1>4

LEMMA HeardEnd ==
  ASSUME MgInv, ReplyTaken, Waits, stage' = 0, UNCHANGED <<keep, place, found, asks>>, RepliesTrue'
  PROVE  MgInv'
<1>1. AsksTyped(asks') /\ keep' \in Nat /\ place' \in Nat \X Nat
  BY DEF MgInv, MgType
<1>2. MgType' /\ (sure => told' = <<>> /\ Quiet(asks))
  BY <1>1, HeardTyped
<1>3. OrderOK'
  BY DEF MgInv, OrderOK, ReplyTaken
<1>4. sure' => Pending'
  BY <1>2 DEF Pending, ReplyTaken
<1> QED
  BY <1>2, <1>3, <1>4 DEF MgInv

LEMMA HeardWrite ==
  ASSUME MgInv, ReplyTaken, Waits, link # "opening", NEW v \in Nat, WriteAndRead(v),
         order.type \in {"mode", "write"}, stage = 1,
         order.type = "write" => v = order.value,
         order.type = "mode" =>
           /\ order.value \in {On, Off, Toggle} /\ v \in Bits
           /\ order.value = On => v = 1
           /\ order.value = Off => v = 0
           /\ order.value = Toggle /\ sure => 1 - v \in ever["prog"]
  PROVE  MgInv'
<1> DEFINE w == Query("write", order.at, v)
           r == Query("read", order.at, 0)
<1>1. /\ keep' = v /\ stage' = 2 /\ UNCHANGED <<reply, place, found>>
      /\ (asks' = asks \/ asks' = asks \o <<w, r>>)
  BY DEF WriteAndRead, SendsOn
<1>2. MgType /\ OrderOK /\ AsksTyped(asks) /\ asks \in Seq(Messages) /\ order \in Orders
  BY DEF MgInv, MgType, AsksTyped, NoOrder, Order
<1>3. /\ order.at \in Nat /\ (order.type = "write" => order.at = 7)
  BY <1>2, OrdersTyped DEF Messages
<1>4. w \in Messages /\ r \in Messages /\ AskTyped(w) /\ AskTyped(r) /\ ~HasAnswer(w)
  BY <1>3 DEF Query, Messages, Kinds, AskTyped, HasAnswer, ProgMode
<1> HIDE DEF w, r
<1>5. AsksTyped(asks')
  BY <1>1, <1>2, <1>4, AsksJoin
<1>6. MgType' /\ (sure => told' = <<>> /\ Quiet(asks))
  BY <1>1, <1>2, <1>5, HeardTyped DEF MgType
<1>7. OrderOK'
  BY <1>1, <1>2 DEF OrderOK, ReplyTaken
<1>8. Awaited' = r /\ Waits'
  <2>1. FirstQuery(order)[1] = Query("read", order.at, 0)
    BY <1>2, FirstAsked
  <2> QED
    BY <1>1, <2>1 DEF Awaited, Waits, ReplyTaken, r
<1>9. sure' => Pending'
  <2>1. sure => (asks' = asks /\ Quiet(asks')) \/ AskedLast(asks', r)
    BY <1>1, <1>2, <1>4, <1>6, QuietJoins
  <2> QED
    BY <1>6, <1>8, <2>1 DEF Pending, ReplyTaken
<1>10. RepliesTrue'
  BY <1>1 DEF RepliesTrue
<1>11. order'.type # "scan"
  BY DEF ReplyTaken
<1> QED
  BY <1>6, <1>7, <1>9, <1>10, <1>11 DEF MgInv

(* The objects, and what a scan has found.                                 *)
LEMMA ObjectsNumbered ==
  /\ \E n \in Nat : Objects = 0 .. n - 1
  /\ \A o \in Objects : /\ Table[o] \in Seq(Nat \ {0}) /\ Len(Table[o]) \in Nat \ {0}
                        /\ DOMAIN Table[o] = 1 .. Len(Table[o])
                        /\ \A i \in 1 .. Len(Table[o]) : Table[o][i] \in Nat \ {0}
<1>1. Cardinality(Objects) \in Nat /\ Objects = 0 .. Cardinality(Objects) - 1
  BY ManagementAssumption, FS_CardinalityType DEF Objects
<1>2. ASSUME NEW o \in Objects
      PROVE  /\ Table[o] \in Seq(Nat \ {0}) /\ Len(Table[o]) \in Nat \ {0}
             /\ DOMAIN Table[o] = 1 .. Len(Table[o])
             /\ \A i \in 1 .. Len(Table[o]) : Table[o][i] \in Nat \ {0}
  <2>1. Table[o] \in Seq(Nat \ {0}) /\ Table[o] # <<>>
    BY <1>2, ManagementAssumption DEF Objects
  <2> QED
    BY <2>1
<1> QED
  BY <1>1, <1>2

LEMMA FoundIs ==
  ASSUME NEW o, NEW i, NEW x
  PROVE  x \in FoundBefore(o, i) <=>
           \E p \in Objects : \E k \in DOMAIN Table[p] :
             p <= o /\ (p < o \/ k <= i) /\ x = <<p, Table[p][k]>>
BY DEF FoundBefore

LEMMA FoundNext ==
  ASSUME NEW o \in Objects, NEW i \in Nat
  PROVE  /\ i < Len(Table[o]) => FoundBefore(o, i + 1) = FoundBefore(o, i) \cup {<<o, Table[o][i + 1]>>}
         /\ i = Len(Table[o]) => FoundBefore(o + 1, 0) = FoundBefore(o, i)
<1>1. (\A p \in Objects : p \in Nat /\ DOMAIN Table[p] = 1 .. Len(Table[p])) /\ o \in Nat /\ Len(Table[o]) \in Nat
  BY ObjectsNumbered
<1>2. ASSUME i < Len(Table[o]), NEW x
      PROVE  x \in FoundBefore(o, i + 1) <=> x \in FoundBefore(o, i) \/ x = <<o, Table[o][i + 1]>>
  <2>1. ASSUME NEW p \in Objects, NEW k \in DOMAIN Table[p], p <= o, p < o \/ k <= i + 1
        PROVE  (p < o \/ k <= i) \/ (p = o /\ k = i + 1)
    BY <1>1, <2>1
  <2>2. i + 1 \in DOMAIN Table[o] /\ o <= o
    BY <1>1, <1>2
  <2>3. ASSUME NEW p \in Objects, NEW k \in DOMAIN Table[p], p <= o, p < o \/ k <= i
        PROVE  p < o \/ k <= i + 1
    BY <1>1, <2>3
  <2> QED
    BY <2>1, <2>2, <2>3, FoundIs
<1>3. ASSUME i = Len(Table[o]), NEW x
      PROVE  x \in FoundBefore(o + 1, 0) <=> x \in FoundBefore(o, i)
  <2>1. ASSUME NEW p \in Objects, NEW k \in DOMAIN Table[p]
        PROVE  p <= o + 1 /\ (p < o + 1 \/ k <= 0) <=> p <= o /\ (p < o \/ k <= i)
    <3>1. p \in Nat /\ k \in Nat /\ 1 <= k /\ k <= Len(Table[p]) /\ Len(Table[p]) \in Nat
      BY <1>1
    <3>2. p = o => k <= i
      BY <1>3, <3>1
    <3> HIDE <1>3
    <3> QED
      BY <1>1, <3>1, <3>2
  <2> QED
    BY <2>1, FoundIs
<1> QED
  BY <1>2, <1>3

LEMMA FoundAll ==
  ASSUME NEW o \in Nat, o \notin Objects, o - 1 \in Objects \cup {-1}
  PROVE  FoundBefore(o, 0) = ScanOf
<1>1. PICK n \in Nat : Objects = 0 .. n - 1
  BY ObjectsNumbered
<1>2. o = n
  BY <1>1
<1>3. \A p \in Objects : p < o /\ p <= o
  BY <1>1, <1>2
<1>4. ASSUME NEW x PROVE x \in FoundBefore(o, 0) <=> x \in ScanOf
  <2>1. x \in ScanOf <=> \E p \in Objects : \E k \in DOMAIN Table[p] : x = <<p, Table[p][k]>>
    BY DEF ScanOf
  <2> QED
    BY <1>3, <2>1, FoundIs
<1> QED
  BY <1>4

LEMMA HeardScan ==
  ASSUME MgInv, ReplyTaken, Waits, link # "opening", order.type = "scan", Scanned(Head(told).value)
  PROVE  MgInv'
<1> DEFINE v == Head(told).value
           o == place[1]
           i == place[2]
<1>1. MgType /\ OrderOK /\ AsksTyped(asks) /\ asks \in Seq(Messages) /\ stage \in {1, 2}
      /\ place = <<o, i>> /\ o \in Nat /\ i \in Nat /\ keep \in Nat
  BY DEF MgInv, MgType, AsksTyped, Waits
<1>2. ASSUME sure
      PROVE  /\ Scanning /\ (stage = 1 => v = Described(o, i))
  <2>1. AsksTyped(asks) /\ ToldsTyped(told) /\ Len(told) = 1 /\ Right(told[1]) /\ told # <<>>
    BY <1>1, <1>2 DEF MgInv, MgType, Pending, ReplyTaken
  <2>2. Head(told) = told[1]
    BY <2>1 DEF ToldsTyped
  <2>3. stage > 0
    BY <1>1
  <2> QED
    BY <1>2, <2>1, <2>2, <2>3 DEF Right, MgInv
<1> HIDE DEF v
<1>3. ASSUME NEW q \in Messages, AskTyped(q), asks' = asks \/ asks' = asks \o <<q>>,
             stage' \in {1, 2}, UNCHANGED <<reply, keep>>, place' \in Nat \X Nat, Awaited' = q,
             sure => Scanning'
      PROVE  MgInv'
  <2>1. AsksTyped(asks')
    BY <1>1, <1>3, AsksJoin
  <2>2. MgType' /\ (sure => told' = <<>> /\ Quiet(asks))
    BY <1>1, <1>3, <2>1, HeardTyped
  <2>3. OrderOK'
    BY <1>1, <1>3 DEF OrderOK, ReplyTaken
  <2>4. Waits'
    BY <1>3 DEF Waits
  <2>5. sure' => Pending'
    <3>1. sure => (asks' = asks /\ Quiet(asks')) \/ AskedLast(asks', q)
      BY <1>1, <1>3, <2>2, QuietJoins
    <3> QED
      BY <1>3, <2>2, <2>4, <3>1 DEF Pending, ReplyTaken
  <2>6. RepliesTrue'
    BY <1>3 DEF RepliesTrue
  <2> QED
    BY <1>3, <2>2, <2>3, <2>5, <2>6 DEF MgInv, ReplyTaken
<1>4. link' # "opening" /\ order' = order
  BY DEF ReplyTaken
<1>5. CASE /\ stage = 1 /\ v = 1
           /\ stage' = 2 /\ SendsOn(<<Query("propread", place[1], 0)>>)
           /\ UNCHANGED <<reply, keep, place, found>>
  <2> DEFINE q == Query("propread", o, 0)
  <2>1. q \in Messages /\ AskTyped(q)
    BY <1>1 DEF Query, Messages, Kinds, AskTyped
  <2>2. Awaited' = q
    BY <1>4, <1>5 DEF Awaited
  <2>3. asks' = asks \/ asks' = asks \o <<q>>
    BY <1>5 DEF SendsOn
  <2> HIDE DEF q
  <2>4. ASSUME sure PROVE Scanning'
    <3>1. Scanning /\ Described(o, i) = 1
      BY <1>2, <1>5, <2>4
    <3>2. o \in Objects /\ i < Len(Table[o]) /\ Table[o][i + 1] = 1
      BY <3>1 DEF Described
    <3> QED
      BY <1>5, <3>1, <3>2 DEF Scanning
  <2> QED
    BY <1>1, <1>3, <1>5, <2>1, <2>2, <2>3, <2>4
<1>6. ASSUME NEW p \in Nat, NEW j \in Nat, ScanNext(<<p, j>>),
             sure => /\ found' = FoundBefore(p, j)
                     /\ p \in Objects \/ (p - 1 \in Objects \cup {-1} /\ j = 0)
                     /\ p \in Objects => j \in 0 .. Len(Table[p])
      PROVE  MgInv'
  <2> DEFINE q == Query("desc", p, j)
  <2>1. q \in Messages /\ AskTyped(q)
    BY <1>6 DEF Query, Messages, Kinds, AskTyped
  <2>2. /\ place' = <<p, j>> /\ stage' = 1 /\ UNCHANGED <<reply, keep>>
        /\ (asks' = asks \/ asks' = asks \o <<q>>)
    BY <1>6 DEF ScanNext, SendsOn
  <2>3. Awaited' = q
    BY <1>4, <2>2 DEF Awaited
  <2> HIDE DEF q
  <2>4. sure => Scanning'
    BY <1>6, <2>2 DEF Scanning
  <2> QED
    BY <1>3, <2>1, <2>2, <2>3, <2>4
<1>7. CASE /\ stage = 2 \/ v > 1
           /\ found' = found \cup {<<place[1], IF stage = 2 THEN 1 ELSE v>>}
           /\ ScanNext(<<place[1], place[2] + 1>>)
  <2>1. ASSUME sure
        PROVE  /\ found' = FoundBefore(o, i + 1) /\ o \in Objects /\ i + 1 \in 0 .. Len(Table[o])
    <3>1. Scanning /\ (stage = 1 => v = Described(o, i))
      BY <1>2, <2>1
    <3>2. o \in Objects /\ i < Len(Table[o]) /\ Table[o][i + 1] = IF stage = 2 THEN 1 ELSE v
      <4>1. CASE stage = 2
        BY <3>1, <4>1 DEF Scanning
      <4>2. CASE stage # 2
        <5>1. Described(o, i) > 1
          BY <1>1, <1>7, <3>1, <4>2
        <5> QED
          BY <1>1, <3>1, <4>2, <5>1 DEF Described
      <4> QED
        BY <4>1, <4>2
    <3>3. FoundBefore(o, i + 1) = FoundBefore(o, i) \cup {<<o, Table[o][i + 1]>>}
      BY <1>1, <3>2, FoundNext
    <3>4. Len(Table[o]) \in Nat
      BY <3>2, ObjectsNumbered
    <3> QED
      BY <1>1, <1>7, <3>1, <3>2, <3>3, <3>4 DEF Scanning
  <2>2. i + 1 \in Nat
    BY <1>1
  <2> QED
    BY <1>1, <1>6, <1>7, <2>1, <2>2
<1>8. CASE /\ stage = 1 /\ v = 0 /\ place[2] > 0
           /\ found' = found /\ ScanNext(<<place[1] + 1, 0>>)
  <2>1. ASSUME sure
        PROVE  /\ found' = FoundBefore(o + 1, 0)
               /\ (o + 1) - 1 \in Objects
               /\ o + 1 \in Objects => 0 \in 0 .. Len(Table[o + 1])
    <3>1. Scanning /\ Described(o, i) = 0
      BY <1>2, <1>8, <2>1
    <3>2. o \in Objects
      BY <1>1, <1>8, <3>1 DEF Scanning
    <3>3. i = Len(Table[o])
      <4>1. i \in 0 .. Len(Table[o]) /\ Len(Table[o]) \in Nat
        BY <1>1, <3>1, <3>2, ObjectsNumbered DEF Scanning
      <4>2. i < Len(Table[o]) => Described(o, i) # 0
        BY <1>1, <3>2, ObjectsNumbered DEF Described
      <4> QED
        BY <3>1, <4>1, <4>2
    <3>4. FoundBefore(o + 1, 0) = FoundBefore(o, i)
      BY <1>1, <3>2, <3>3, FoundNext
    <3>5. o + 1 \in Objects => Len(Table[o + 1]) \in Nat
      BY ObjectsNumbered
    <3> QED
      BY <1>1, <1>8, <3>1, <3>2, <3>4, <3>5 DEF Scanning
  <2>2. o + 1 \in Nat
    BY <1>1
  <2> QED
    BY <1>1, <1>6, <1>8, <2>1, <2>2
<1>9. CASE /\ stage = 1 /\ v = 0 /\ place[2] = 0
           /\ Done(found) /\ UNCHANGED asks
  <2>1. stage' = 0 /\ UNCHANGED <<keep, place, found, asks>> /\ reply' = <<"done", found>>
    BY <1>9 DEF Done
  <2>2. ASSUME sure PROVE found = ScanOf
    <3>1. Scanning /\ Described(o, i) = 0
      BY <1>2, <1>9, <2>2
    <3>2. o \notin Objects
      <4> SUFFICES ASSUME o \in Objects PROVE FALSE
        OBVIOUS
      <4>1. 0 < Len(Table[o]) /\ Table[o][0 + 1] # 0
        BY ObjectsNumbered
      <4> QED
        BY <1>9, <3>1, <4>1 DEF Described
    <3>3. o - 1 \in Objects \cup {-1}
      BY <3>1, <3>2 DEF Scanning
    <3> QED
      BY <1>1, <1>9, <3>1, <3>2, <3>3, FoundAll DEF Scanning
  <2>3. RepliesTrue'
    BY <1>4, <2>1, <2>2 DEF RepliesTrue, ReplyTaken
  <2> QED
    BY <2>1, <2>3, HeardEnd
<1> QED
  BY <1>5, <1>7, <1>8, <1>9 DEF Scanned, v

LEMMA HearStep == MgInv /\ HearAnswer => MgInv'
<1> SUFFICES ASSUME MgInv, HearAnswer PROVE MgInv'
  OBVIOUS
<1> DEFINE v == Head(told).value
<1>1. ReplyTaken /\ Waits /\ GotAnswer(v) /\ MgType /\ OrderOK /\ order' = order /\ ever' = ever
  BY DEF HearAnswer, ReplyTaken, MgInv, unitvars
<1>2. AsksTyped(asks) /\ keep \in Nat /\ place \in Nat \X Nat
  BY <1>1 DEF MgType
<1>3. /\ Head(told) \in Messages /\ ToldTyped(Head(told)) /\ v \in Nat
      /\ sure => Right(Head(told))
  <2>1. ToldsTyped(told) /\ told # <<>>
    BY <1>1 DEF MgType, ReplyTaken
  <2>2. Head(told) \in Messages /\ ToldTyped(Head(told))
    BY <2>1, MaskAsked, ToldsJoin
  <2>3. sure => Len(told) = 1 /\ Right(told[1])
    BY <2>1 DEF MgInv, Pending
  <2>4. Head(told) = told[1]
    BY <2>1 DEF ToldsTyped
  <2> QED
    BY <2>2, <2>3, <2>4 DEF Messages
<1>4. order.type = "mode" => order.at = ProgMode /\ order.value \in {On, Off, Toggle, Status}
  <2>1. order.type = "mode" => order \in Orders
    BY <1>1 DEF MgType, NoOrder, Order
  <2> QED
    BY <2>1, OrdersTyped
<1>5. order.type = "write" => order.value \in Nat
  <2>1. order.type = "write" => order \in Orders
    BY <1>1 DEF MgType, NoOrder, Order
  <2> QED
    BY <2>1, OrdersTyped DEF Messages
<1>6. /\ Item(ProgMode) = "prog" /\ Item(7) = "cell"
  BY DEF Item, ProgMode
<1>7. order.type \in {"write", "read"} => order.at = 7
  <2>1. order.type \in {"write", "read"} => order \in Orders
    BY <1>1 DEF MgType, NoOrder, Order
  <2> QED
    BY <2>1, OrdersTyped
<1>8. /\ sure /\ order.type = "mode" => v \in ever["prog"]
      /\ sure /\ order.type \in {"read", "write"} => v \in ever["cell"]
      /\ sure /\ order.type = "propread" => v \in ever["prop"]
      /\ sure /\ order.type = "propwrite" => order.value \in ever["prop"]
      /\ sure /\ order.type = "auth" => v = order.value
  BY <1>3, <1>4, <1>6, <1>7 DEF Right
<1> HIDE DEF v
<1>10. CASE link = "opening" /\ Finished(0)
  <2>1. stage' = 0 /\ UNCHANGED <<keep, place, found, asks>> /\ order'.type = "none"
    BY <1>1, <1>10 DEF Finished, Done, OrderOK
  <2>2. RepliesTrue'
    BY <2>1 DEF RepliesTrue
  <2> QED
    BY <1>1, <2>1, <2>2, HeardEnd
<1>11. CASE link # "opening" /\ order.type = "scan" /\ Scanned(v)
  BY <1>1, <1>11, HeardScan DEF v
<1>12. CASE link # "opening" /\ order.type = "mode" /\ order.value # Status /\ stage = 1 /\ WriteAndRead(WantedMode(v))
  <2>1. order.value \in {On, Off, Toggle}
    BY <1>4, <1>12
  <2>2. Head(told).type = "memory" /\ Head(told).at = ProgMode
    <3>1. Awaited = Query("read", order.at, 0)
      BY <1>1, <1>12, AwaitedIs DEF Simple
    <3>2. isResponse(Head(told), Awaited)
      BY <1>1 DEF ReplyTaken
    <3> QED
      BY <1>4, <1>12, <3>1, <3>2 DEF isResponse, Query, Response
  <2>3. v \in Bits
    BY <1>3, <2>2 DEF ToldTyped, v
  <2>4. /\ WantedMode(v) \in Bits /\ WantedMode(v) \in Nat
        /\ order.value = On => WantedMode(v) = 1
        /\ order.value = Off => WantedMode(v) = 0
        /\ order.value = Toggle => WantedMode(v) = 1 - v
    BY <2>1, <2>3 DEF WantedMode, Bits, On, Off, Toggle
  <2>5. order.value = Toggle /\ sure => 1 - WantedMode(v) \in ever["prog"]
    <3>1. 1 - (1 - v) = v
      BY <2>3 DEF Bits
    <3> QED
      BY <1>8, <1>12, <2>4, <3>1
  <2> QED
    BY <1>1, <1>12, <2>1, <2>4, <2>5, HeardWrite
<1>13. CASE link # "opening" /\ order.type = "write" /\ stage = 1 /\ v # order.value /\ WriteAndRead(order.value)
  BY <1>1, <1>5, <1>13, HeardWrite
<1>14. CASE /\ link # "opening" /\ order.type \in {"mode", "write"} /\ stage = 2 /\ UNCHANGED asks
            /\ IF v = keep THEN Done(0) ELSE Rejected(IF order.type = "write" THEN "VERIFY" ELSE "reject")
  <2>1. stage' = 0 /\ UNCHANGED <<keep, place, found, asks>>
    BY <1>14 DEF Done, Rejected
  <2>2. CASE v = keep
    <3>1. \/ order.type = "write" /\ keep = order.value
          \/ /\ order.type = "mode" /\ order.value \in {On, Off, Toggle} /\ keep \in Bits
             /\ order.value = On => keep = 1
             /\ order.value = Off => keep = 0
             /\ order.value = Toggle /\ sure => 1 - keep \in ever["prog"]
      BY <1>1, <1>14 DEF OrderOK
    <3>2. ever["prog"] \subseteq Bits
      BY <1>1 DEF MgType
    <3>3. sure /\ order.type = "write" => order.value \in ever["cell"]
      BY <1>8, <2>2, <3>1
    <3>4. sure /\ order.type = "mode" =>
            /\ order.value # Status
            /\ order.value = On => 1 \in ever["prog"]
            /\ order.value = Off => 0 \in ever["prog"]
            /\ order.value = Toggle => ever["prog"] = {0, 1}
      BY <1>8, <2>2, <3>1, <3>2 DEF Bits, On, Off, Toggle, Status
    <3>5. RepliesTrue'
      BY <1>1, <1>14, <3>3, <3>4 DEF RepliesTrue, ReplyTaken, On, Off, Toggle, Status
    <3> QED
      BY <1>1, <2>1, <3>5, HeardEnd
  <2>3. CASE v # keep
    <3>1. reply'[1] # "done"
      BY <1>14, <2>3 DEF Rejected
    <3>2. RepliesTrue'
      BY <3>1 DEF RepliesTrue
    <3> QED
      BY <1>1, <2>1, <3>2, HeardEnd
  <2> QED
    BY <2>2, <2>3
<1>15. CASE /\ link # "opening" /\ Finished(0)
            /\ order.type \in {"propwrite", "key"} \/ (order.type = "write" /\ stage = 1 /\ v = order.value)
  <2>1. stage' = 0 /\ UNCHANGED <<keep, place, found, asks>>
    BY <1>15 DEF Finished, Done
  <2>2. /\ sure /\ order.type = "propwrite" => order.value \in ever["prop"]
        /\ sure /\ order.type = "write" => order.value \in ever["cell"]
    BY <1>8, <1>15
  <2>3. RepliesTrue'
    BY <1>1, <1>15, <2>2 DEF RepliesTrue, ReplyTaken
  <2> QED
    BY <1>1, <2>1, <2>3, HeardEnd
<1>16. CASE /\ link # "opening" /\ Finished(v)
            /\ \/ order.type \in {"read", "mask", "adc", "propread", "auth", "desc"}
               \/ order.type = "mode" /\ order.value = Status /\ stage = 1
  <2>1. stage' = 0 /\ UNCHANGED <<keep, place, found, asks>> /\ reply'[2] = v
    BY <1>16 DEF Finished, Done
  <2>2. RepliesTrue'
    BY <1>1, <1>8, <1>16, <2>1 DEF RepliesTrue, ReplyTaken, On, Off, Toggle, Status
  <2> QED
    BY <1>1, <2>1, <2>2, HeardEnd
<1> QED
  BY <1>1, <1>10, <1>11, <1>12, <1>13, <1>14, <1>15, <1>16, AnswerHandled

LEMMA StutterStep == MgInv /\ UNCHANGED mgvars => MgInv'
<1> SUFFICES ASSUME MgInv, UNCHANGED mgvars PROVE MgInv'
  OBVIOUS
<1>1. Kept /\ UNCHANGED <<asks, told, held, ever>>
  BY DEF mgvars, unitvars, Kept
<1>2. Grows /\ AsksTyped(asks') /\ ToldsTyped(told')
  BY <1>1 DEF Grows, MgInv, MgType
<1> QED
  BY <1>1, <1>2, PendingKept, OrderKept

(* RepliesTrue: unless an answer was late or lost, a management connection *)
(* answers what the device said: no reply of an order before it is taken   *)
(* for its own (EIBC_ of managementclient.cpp, layer7.cpp).                *)
THEOREM RepliesAreTrue == ManagementSpec => []RepliesTrue
<1>1. MgInv /\ [ManagementNext]_mgvars => MgInv'
  BY OpenStep, LeaveStep, OrderBegins, HearStep, FailStep, DeviceStep, LoseStep, ButtonStep, StutterStep
     DEF ManagementNext
<1>2. MgInv => RepliesTrue
  BY DEF MgInv
<1> QED
  BY <1>1, <1>2, ManagementStarts, PTL DEF ManagementSpec

-----------------------------------------------------------------------------
(* Loading a program.                                                          *)

Contents == {Old, New, Initial}
StateAsks == {"unload", "load", "alloc", "set", "finish"}
OtherAsks == {"mask", "authorize", "key"}
Asked ==
  [ask : {"read", "write"} \cup StateAsks \cup OtherAsks, obj : Region \cup 0 .. 3,
   at : Nat, n : Nat, data : Seq(Contents)]
InRegion(q) == q.obj \in Region /\ q.at + q.n <= Cells[q.obj] /\ (q.n > 0 \/ Cells[q.obj] = 0)
RequestTyped(q) ==
  /\ q \in Asked
  /\ q.ask \in {"read", "write"} => InRegion(q)
  /\ q.ask = "write" => /\ q.n > 0 /\ Len(q.data) = q.n /\ q.data[1] \in {New, Initial}
                        /\ \A i \in 1 .. q.n : q.data[i] = q.data[1]
  /\ q.ask \in StateAsks => q.obj \in 1 .. 3
Replied(a) ==
  /\ a \in Asked /\ a.ask # "write"
  /\ a.ask = "read" => InRegion(a) /\ Len(a.data) = a.n
  /\ a.ask # "read" => Len(a.data) = 1
  /\ a.ask \in StateAsks => a.obj \in 1 .. 3

LdType ==
  /\ unit \in {"bcu1", "bcu2"} /\ step \in -1 .. Len(Steps)
  /\ phase \in {"begin", "read", "verify", "control"}
  /\ width \in {Block, Small} /\ from \in Nat /\ prev \in Seq(Contents) /\ failed \in BOOLEAN
  /\ outcome = "LOADED" => step = -1
  /\ step < 1 => phase = "begin"
  /\ requests \in Seq(Asked) /\ \A i \in DOMAIN requests : RequestTyped(requests[i])
  /\ answers \in Seq(Asked) /\ \A i \in DOMAIN answers : Replied(answers[i])
  /\ \A r \in Region : mem[r] \in [1 .. Cells[r] -> Contents]
  /\ DOMAIN mem = Region
  /\ state \in [1 .. 3 -> {"unloaded", "loading", "loaded", "error"}]

(* Writes on their way, and cells.                                         *)
Writes(q, r, v) == q.ask = "write" /\ q.obj = r /\ q.data[1] = v
NonePending(r, v) == \A i \in DOMAIN requests : ~Writes(requests[i], r, v)
NoNew(r) == \A c \in 1 .. Cells[r] : mem[r][c] # New
All(r, v) == \A c \in 1 .. Cells[r] : mem[r][c] = v

InOrderWrites ==
  \A i, j \in DOMAIN requests : \A r \in Region :
    i < j /\ Writes(requests[i], r, New) => ~Writes(requests[j], r, Initial)
Steady(r) == r # "flags" \/ (unit = "bcu1" /\ (step = 11 \/ outcome = "LOADED"))
KeepsNew ==
  \A r \in Region : \A c \in 1 .. Cells[r] : Steady(r) /\ mem[r][c] = New => NonePending(r, Initial)
AnswersNew ==
  \A j \in DOMAIN answers : \A i \in 1 .. answers[j].n :
    answers[j].ask = "read" /\ Steady(answers[j].obj) /\ answers[j].data[i] = New
      => mem[answers[j].obj][answers[j].at + i] = New
EarlyOld ==
  /\ unit = "bcu1" /\ step \in 0 .. 4 =>
       \A r \in Region : NonePending(r, New) /\ (r # "flags" => NoNew(r))
  /\ unit = "bcu2" => \A r \in Region : NonePending(r, Initial)
WrittenBefore ==
  \A k \in DOMAIN Steps :
    k < step /\ Steps[k].region \notin {"none", "flags"} /\ Steps[k].value = New => All(Steps[k].region, New)
Progress ==
  step > 0 /\ phase \in {"read", "verify"} =>
    /\ S.region # "none"
    /\ phase = "read" => Len(prev) = from /\ (from < Length \/ from = 0)
    /\ phase = "verify" => Len(prev) = Length /\ from < Length
    /\ S.value = New =>
         /\ \A i \in DOMAIN prev : prev[i] = New => mem[S.region][i] = New
         /\ phase = "verify" => failed \/ \A i \in 1 .. from : mem[S.region][i] = New

(* The error flags of a BCU1.                                              *)
OfFlags(a) == a.ask = "read" /\ a.obj = "flags"
FlagsOff ==
  unit = "bcu1" /\ step \in 0 .. 10 =>
    /\ NonePending("flags", New)
    /\ \A i \in DOMAIN answers :
         OfFlags(answers[i]) /\ answers[i].data[1] = Initial =>
           /\ mem["flags"][1] = Initial
           /\ \A j \in DOMAIN answers : i < j /\ OfFlags(answers[j]) => answers[j].data[1] = Initial
    /\ step > 2 => /\ mem["flags"][1] = Initial
                   /\ \A i \in DOMAIN answers : OfFlags(answers[i]) => answers[i].data[1] = Initial

(* The program of a BCU2.                                                  *)
Unloads(q) == q.ask = "unload" /\ q.obj = 3
Finishes(q) == q.ask = "finish" /\ q.obj = 3
ProgramOff ==
  unit = "bcu2" =>
    /\ \A i \in DOMAIN requests :
         Finishes(requests[i]) => i = Len(requests) /\ (step = -1 \/ (step = 30 /\ phase = "control"))
    /\ \A i \in DOMAIN answers : Finishes(answers[i]) =>
         /\ (step = -1 \/ (step = 30 /\ phase = "control"))
         /\ requests = <<>>
         /\ answers[i].data = <<New>> => state[3] = "loaded"
    /\ \A i \in DOMAIN answers :
         step \in 0 .. 8 /\ Unloads(answers[i]) /\ answers[i].data = <<New>> => state[3] # "loaded"

(* Nothing is touched; it does not run and will not; it is complete.       *)
ProgramRegions == Used \ {"flags"}
Idle == Has(Old) /\ \A r \in ProgramRegions : NonePending(r, New) /\ NonePending(r, Initial)
WillRun == IF unit = "bcu1" THEN ~NonePending("flags", New) ELSE \E i \in DOMAIN requests : Finishes(requests[i])
Halted == ~Runs /\ ~WillRun
Complete == Has(New)
LastIdle == IF unit = "bcu1" THEN 2 ELSE 8
Stages ==
  /\ step \in 0 .. LastIdle => Idle /\ ~WillRun
  /\ step \in LastIdle + 1 .. Len(Steps) - 1 => Halted
  /\ step = Len(Steps) => Complete
  /\ step = -1 => (Idle /\ ~WillRun) \/ Halted \/ Complete
  /\ outcome = "LOADED" => /\ Complete /\ Runs
                           /\ unit = "bcu2" => requests = <<>>

LdInv ==
  /\ LdType /\ InOrderWrites /\ KeepsNew /\ AnswersNew /\ EarlyOld /\ WrittenBefore /\ Progress
  /\ FlagsOff /\ ProgramOff /\ Stages

----------------------------------------------------------------------------
(* What the proof needs of a step k of LoadImage.                          *)
Formed(s) ==
  /\ s.region \in Region \cup {"none"} /\ s.value \in {New, Initial}
  /\ s.ask \in {"none"} \cup StateAsks \cup OtherAsks /\ s.obj \in 0 .. 3
  /\ s.ask \in StateAsks => s.obj \in 1 .. 3
  /\ s.ask = "none" => s.region # "none"
  /\ s.error # "LOADED"

LEMMA FirstSteps ==
  ASSUME NEW k \in 1 .. 11
  PROVE  /\ Len(StepsBCU1) = 11 /\ DOMAIN StepsBCU1 = 1 .. 11
         /\ Formed(StepsBCU1[k])
         /\ StepsBCU1[k].region = "flags" <=> k \in {2, 11}
         /\ StepsBCU1[k].value = Initial <=> k \in {2, 3, 4}
         /\ StepsBCU1[k].region = "none" <=> k = 1
         /\ StepsBCU1[k].ask = "none" <=> k # 1
<1> USE DEF StepsBCU1, Step, Control, WriteRegion, Formed, Region, StateAsks, OtherAsks, New, Initial
<1>1. Len(StepsBCU1) = 11 /\ DOMAIN StepsBCU1 = 1 .. 11
  OBVIOUS
<1>2. k \in {1, 2, 3, 4, 5, 6, 7, 8, 9, 10, 11}
  OBVIOUS
<1>3. CASE k \in {1, 2, 3, 4}
  BY <1>1, <1>3
<1>4. CASE k \in {5, 6, 7, 8}
  BY <1>1, <1>4
<1>5. CASE k \in {9, 10, 11}
  BY <1>1, <1>5
<1> QED
  BY <1>2, <1>3, <1>4, <1>5
LEMMA StepsJoin ==
  ASSUME NEW T, NEW a \in Seq(T), NEW b \in Seq(T)
  PROVE  /\ Len(a \o b) = Len(a) + Len(b) /\ DOMAIN (a \o b) = 1 .. Len(a) + Len(b)
         /\ \A l \in 1 .. Len(a) + Len(b) : (a \o b)[l] = IF l <= Len(a) THEN a[l] ELSE b[l - Len(a)]
OBVIOUS

LEMMA LaterSteps ==
  ASSUME NEW k \in 1 .. 30
  PROVE  LET steps == Authorized \o PrepareLoadImage IN
         /\ Len(steps) = 30 /\ DOMAIN steps = 1 .. 30
         /\ Formed(steps[k]) /\ steps[k].region # "flags" /\ steps[k].value = New
         /\ steps[k].ask = "unload" /\ steps[k].obj = 3 <=> k = 8
         /\ steps[k].ask = "finish" /\ steps[k].obj = 3 <=> k = 30
         /\ k <= 9 \/ k = 30 => steps[k].region = "none"
<1> DEFINE steps == Authorized \o PrepareLoadImage
           FitStep(s, l) ==
             /\ Formed(s) /\ s.region # "flags" /\ s.value = New
             /\ s.ask = "unload" /\ s.obj = 3 <=> l = 8
             /\ s.ask = "finish" /\ s.obj = 3 <=> l = 30
             /\ l <= 9 \/ l = 30 => s.region = "none"
<1>1. Len(Authorized) = 5 /\ \A l \in 1 .. 5 : FitStep(Authorized[l], l)
  <2> USE DEF Authorized, Step, Control, WriteRegion, Formed, Region, StateAsks, OtherAsks, New, Initial
  <2>1. Len(Authorized) = 5
    OBVIOUS
  <2>2. ASSUME NEW l \in 1 .. 5 PROVE FitStep(Authorized[l], l)
    BY l \in {1, 2, 3, 4, 5}
  <2> QED
    BY <2>1, <2>2
<1>2. Len(PrepareLoadImage) = 25 /\ \A l \in 1 .. 25 : FitStep(PrepareLoadImage[l], l + 5)
  <2> USE DEF PrepareLoadImage, Step, Control, WriteRegion, Formed, Region, StateAsks, OtherAsks, New, Initial
  <2>1. Len(PrepareLoadImage) = 25
    OBVIOUS
  <2>2. ASSUME NEW l \in 1 .. 5 PROVE FitStep(PrepareLoadImage[l], l + 5)
    BY l \in {1, 2, 3, 4, 5}
  <2>3. ASSUME NEW l \in 6 .. 10 PROVE FitStep(PrepareLoadImage[l], l + 5)
    BY l \in {6, 7, 8, 9, 10}
  <2>4. ASSUME NEW l \in 11 .. 15 PROVE FitStep(PrepareLoadImage[l], l + 5)
    BY l \in {11, 12, 13, 14, 15}
  <2>5. ASSUME NEW l \in 16 .. 20 PROVE FitStep(PrepareLoadImage[l], l + 5)
    BY l \in {16, 17, 18, 19, 20}
  <2>6. ASSUME NEW l \in 21 .. 25 PROVE FitStep(PrepareLoadImage[l], l + 5)
    BY l \in {21, 22, 23, 24, 25}
  <2>7. \A l \in 1 .. 25 : l \in 1 .. 5 \/ l \in 6 .. 10 \/ l \in 11 .. 15 \/ l \in 16 .. 20 \/ l \in 21 .. 25
    OBVIOUS
  <2> HIDE DEF FitStep, PrepareLoadImage
  <2> QED
    BY <2>1, <2>2, <2>3, <2>4, <2>5, <2>6, <2>7
<1>3. \E T : Authorized \in Seq(T) /\ PrepareLoadImage \in Seq(T)
  <2> DEFINE T == {Authorized[l] : l \in 1 .. 5} \cup {PrepareLoadImage[l] : l \in 1 .. 25}
  <2>1. Authorized = [l \in 1 .. 5 |-> Authorized[l]]
    BY DEF Authorized
  <2>2. PrepareLoadImage = [l \in 1 .. 25 |-> PrepareLoadImage[l]]
    BY DEF PrepareLoadImage
  <2>3. (\A l \in 1 .. 5 : Authorized[l] \in T) /\ (\A l \in 1 .. 25 : PrepareLoadImage[l] \in T)
    OBVIOUS
  <2> HIDE DEF T
  <2>4. [l \in 1 .. 5 |-> Authorized[l]] \in Seq(T) /\ [l \in 1 .. 25 |-> PrepareLoadImage[l]] \in Seq(T)
    BY <2>3
  <2> QED
    BY <2>1, <2>2, <2>4
<1>4. PICK T : Authorized \in Seq(T) /\ PrepareLoadImage \in Seq(T)
  BY <1>3
<1>5. /\ Len(steps) = 30 /\ DOMAIN steps = 1 .. 30
      /\ \A l \in 1 .. 30 : steps[l] = IF l <= 5 THEN Authorized[l] ELSE PrepareLoadImage[l - 5]
  <2>1. Len(Authorized) = 5 /\ Len(PrepareLoadImage) = 25
    BY <1>1, <1>2
  <2> HIDE DEF FitStep
  <2>2. /\ Len(steps) = Len(Authorized) + Len(PrepareLoadImage)
        /\ DOMAIN steps = 1 .. Len(Authorized) + Len(PrepareLoadImage)
        /\ \A l \in 1 .. Len(Authorized) + Len(PrepareLoadImage) :
             steps[l] = IF l <= Len(Authorized) THEN Authorized[l] ELSE PrepareLoadImage[l - Len(Authorized)]
    BY <1>4, StepsJoin, Zenon
  <2> HIDE DEF steps
  <2>3. Len(Authorized) + Len(PrepareLoadImage) = 30
    BY <2>1
  <2> QED
    BY <2>1, <2>2, <2>3
<1>6. FitStep(steps[k], k)
  <2> HIDE DEF FitStep, steps
  <2>1. CASE k <= 5
    BY <1>1, <1>5, <2>1
  <2>2. CASE k > 5
    <3>1. k - 5 \in 1 .. 25 /\ (k - 5) + 5 = k
      BY <2>2
    <3> QED
      BY <1>2, <1>5, <2>2, <3>1
  <2> QED
    BY <2>1, <2>2
<1> HIDE DEF steps
<1>7. /\ Len(steps) = 30 /\ DOMAIN steps = 1 .. 30
      /\ Formed(steps[k]) /\ steps[k].region # "flags" /\ steps[k].value = New
      /\ steps[k].ask = "unload" /\ steps[k].obj = 3 <=> k = 8
      /\ steps[k].ask = "finish" /\ steps[k].obj = 3 <=> k = 30
      /\ k <= 9 \/ k = 30 => steps[k].region = "none"
  BY <1>5, <1>6
<1> QED
  BY <1>7 DEF steps

LEMMA StepsAre ==
  ASSUME unit \in {"bcu1", "bcu2"}
  PROVE  /\ DOMAIN Steps = 1 .. Len(Steps) /\ \A k \in DOMAIN Steps : Formed(Steps[k])
         /\ unit = "bcu1" =>
              /\ Len(Steps) = 11
              /\ \A k \in 1 .. 11 :
                   /\ Steps[k].region = "flags" <=> k \in {2, 11}
                   /\ Steps[k].value = Initial <=> k \in {2, 3, 4}
                   /\ Steps[k].region = "none" <=> k = 1
                   /\ Steps[k].ask = "none" <=> k # 1
         /\ unit = "bcu2" =>
              /\ Len(Steps) = 30
              /\ \A k \in 1 .. 30 :
                   /\ Steps[k].region # "flags" /\ Steps[k].value = New
                   /\ Unloads(Steps[k]) <=> k = 8
                   /\ Finishes(Steps[k]) <=> k = 30
                   /\ k <= 9 \/ k = 30 => Steps[k].region = "none"
<1>1. CASE unit = "bcu1"
  <2>1. Steps = StepsBCU1
    BY <1>1 DEF Steps
  <2>2. Len(StepsBCU1) = 11 /\ DOMAIN StepsBCU1 = 1 .. 11
    BY FirstSteps
  <2>3. /\ \A k \in 1 .. 11 : Formed(StepsBCU1[k])
        /\ \A k \in 1 .. 11 : StepsBCU1[k].region = "flags" <=> k \in {2, 11}
        /\ \A k \in 1 .. 11 : StepsBCU1[k].value = Initial <=> k \in {2, 3, 4}
        /\ \A k \in 1 .. 11 : StepsBCU1[k].region = "none" <=> k = 1
        /\ \A k \in 1 .. 11 : StepsBCU1[k].ask = "none" <=> k # 1
    BY FirstSteps
  <2> QED
    BY <1>1, <2>1, <2>2, <2>3
<1>2. CASE unit = "bcu2"
  <2> DEFINE steps == Authorized \o PrepareLoadImage
  <2>1. unit # "bcu1" /\ Steps = steps
    BY <1>2 DEF Steps
  <2>2. /\ Len(steps) = 30 /\ DOMAIN steps = 1 .. 30
        /\ \A k \in 1 .. 30 : Formed(steps[k])
        /\ \A k \in 1 .. 30 : steps[k].region # "flags" /\ steps[k].value = New
        /\ \A k \in 1 .. 30 : Unloads(steps[k]) <=> k = 8
        /\ \A k \in 1 .. 30 : Finishes(steps[k]) <=> k = 30
        /\ \A k \in 1 .. 30 : k <= 9 \/ k = 30 => steps[k].region = "none"
    <3>1. \A k \in 1 .. 30 :
            /\ Len(steps) = 30 /\ DOMAIN steps = 1 .. 30
            /\ Formed(steps[k]) /\ steps[k].region # "flags" /\ steps[k].value = New
            /\ steps[k].ask = "unload" /\ steps[k].obj = 3 <=> k = 8
            /\ steps[k].ask = "finish" /\ steps[k].obj = 3 <=> k = 30
            /\ k <= 9 \/ k = 30 => steps[k].region = "none"
      BY LaterSteps, Zenon
    <3> HIDE DEF steps
    <3>2. Len(steps) = 30 /\ DOMAIN steps = 1 .. 30
      <4>1. 1 \in 1 .. 30
        OBVIOUS
      <4> QED
        BY <3>1, <4>1
    <3> QED
      BY <3>1, <3>2 DEF Unloads, Finishes
  <2> HIDE DEF steps
  <2> QED
    BY <2>1, <2>2
<1> QED
  BY <1>1, <1>2

LEMMA ProgramWritten ==
  ASSUME unit \in {"bcu1", "bcu2"}, NEW r \in ProgramRegions
  PROVE  r \in Region /\ \E k \in DOMAIN Steps : k < Len(Steps) /\ Steps[k].region = r /\ Steps[k].value = New
<1>1. PICK k \in DOMAIN Steps : Steps[k].region = r /\ r # "none" /\ r # "flags"
  BY DEF ProgramRegions, Used
<1>2. r \in Region /\ k \in 1 .. Len(Steps)
  BY <1>1, StepsAre DEF Formed
<1>3. CASE unit = "bcu1"
  <2>1. Len(Steps) = 11 /\ k \in 3 .. 10 /\ DOMAIN Steps = 1 .. 11
    <3>1. Len(Steps) = 11 /\ DOMAIN Steps = 1 .. 11
      BY <1>3, StepsAre
    <3>2. k \in 1 .. 11 /\ k # 1 /\ k \notin {2, 11}
      BY <1>1, <1>2, <1>3, <3>1, StepsAre
    <3> QED
      BY <3>1, <3>2
  <2>2. k \notin {3, 4} => Steps[k].value = New
    BY <1>3, <2>1, StepsAre DEF Formed
  <2>3. Steps[10].region = Steps[3].region /\ Steps[8].region = Steps[4].region
    BY <1>3 DEF Steps, StepsBCU1, WriteRegion, Step
  <2>4. Steps[10].value = New /\ Steps[8].value = New
    BY <1>3, <2>1, StepsAre DEF Formed
  <2>5. CASE k = 3
    BY <1>1, <1>2, <2>1, <2>3, <2>4, <2>5
  <2>6. CASE k = 4
    BY <1>1, <1>2, <2>1, <2>3, <2>4, <2>6
  <2>7. CASE k \notin {3, 4}
    BY <1>1, <1>2, <2>1, <2>2, <2>7
  <2> QED
    BY <2>5, <2>6, <2>7
<1>4. CASE unit = "bcu2"
  <2>1. Len(Steps) = 30 /\ k \in 1 .. 30
    BY <1>2, <1>4, StepsAre
  <2>2. k # 30 /\ Steps[k].value = New
    BY <1>1, <1>4, <2>1, StepsAre
  <2>3. k < Len(Steps)
    BY <2>1, <2>2
  <2> QED
    BY <1>1, <1>2, <2>2, <2>3
<1> QED
  BY <1>3, <1>4

LEMMA SameSteps ==
  ASSUME unit' = unit
  PROVE  Steps' = Steps /\ Used' = Used /\ ProgramRegions' = ProgramRegions /\ LastIdle' = LastIdle
<1>1. Steps' = Steps
  BY DEF Steps
<1>2. Used' = Used
  BY <1>1 DEF Used
<1> QED
  BY <1>1, <1>2 DEF ProgramRegions, LastIdle

LEMMA Numbers ==
  /\ Small \in Nat /\ Block \in Nat /\ Small > 0 /\ Block > Small
  /\ \A r \in Region : Cells[r] \in Nat
  /\ "flags" \in Region /\ Cells["flags"] = 1 /\ 1 .. Cells["flags"] = {1}
<1>1. Small \in Nat \ {0} /\ Block > Small /\ Cells \in [Region -> Nat] /\ Cells["flags"] = 1
  BY LoadingAssumption
<1>2. Block \in Nat
  BY LoadingAssumption
<1>3. "flags" \in Region
  BY DEF Region
<1> QED
  BY <1>1, <1>2, <1>3

LEMMA RunsIs == LdType /\ unit = "bcu1" => (Runs <=> mem["flags"][1] = New)
<1> SUFFICES ASSUME LdType PROVE unit = "bcu1" => (Runs <=> mem["flags"][1] = New)
  OBVIOUS
<1>1. mem["flags"] \in [{1} -> Contents]
  BY Numbers DEF LdType
<1>2. mem["flags"] = [i \in {1} |-> mem["flags"][1]]
  BY <1>1
<1>3. <<New>> = [i \in {1} |-> New]
  <2>1. DOMAIN <<New>> = {1} /\ <<New>>[1] = New
    OBVIOUS
  <2> QED
    BY <2>1
<1>4. mem["flags"] = <<New>> <=> mem["flags"][1] = New
  BY <1>2, <1>3
<1> QED
  BY <1>4 DEF Runs

LEMMA RunsThen == LdType' /\ unit' = "bcu1" => (Runs' <=> mem'["flags"][1] = New)
<1>1. (LdType /\ unit = "bcu1" => (Runs <=> mem["flags"][1] = New))'
  BY RunsIs, PTL
<1> QED
  BY <1>1

LEMMA LoadingStarts == LoadingInit => LdInv
<1> SUFFICES ASSUME LoadingInit PROVE LdInv
  OBVIOUS
<1>1. /\ unit \in {"bcu1", "bcu2"} /\ step = 0 /\ phase = "begin" /\ width = Block /\ from = 0
      /\ prev = <<>> /\ failed = FALSE /\ outcome = "none" /\ requests = <<>> /\ answers = <<>>
      /\ mem = [r \in Region |-> [i \in 1 .. Cells[r] |-> IF r = "flags" THEN New ELSE Old]]
      /\ state = [o \in 1 .. 3 |-> "loaded"]
  BY DEF LoadingInit
<1>2. /\ DOMAIN requests = {} /\ DOMAIN answers = {} /\ DOMAIN prev = {}
      /\ requests \in Seq(Asked) /\ answers \in Seq(Asked) /\ prev \in Seq(Contents)
  BY <1>1
<1>3. Len(Steps) \in {11, 30}
  BY <1>1, StepsAre
<1>4. LdType
  <2>1. DOMAIN mem = Region /\ \A r \in Region : mem[r] \in [1 .. Cells[r] -> Contents]
    BY <1>1 DEF Contents
  <2>2. state \in [1 .. 3 -> {"unloaded", "loading", "loaded", "error"}]
    BY <1>1
  <2>3. step \in -1 .. Len(Steps)
    BY <1>1, <1>3
  <2>4. width \in {Block, Small} /\ from \in Nat /\ failed \in BOOLEAN /\ outcome # "LOADED"
    BY <1>1
  <2> QED
    BY <1>1, <1>2, <2>1, <2>2, <2>3, <2>4 DEF LdType
<1>5. \A r \in Region : r # "flags" => \A c \in 1 .. Cells[r] : mem[r][c] = Old
  BY <1>1
<1>6. InOrderWrites /\ AnswersNew /\ FlagsOff /\ ProgramOff
  BY <1>1, <1>2 DEF InOrderWrites, AnswersNew, FlagsOff, ProgramOff, NonePending
<1>7. KeepsNew /\ EarlyOld
  BY <1>2, <1>5 DEF KeepsNew, EarlyOld, NonePending, NoNew, Old, New
<1>8. WrittenBefore /\ Progress
  BY <1>1, <1>3, StepsAre DEF WrittenBefore, Progress
<1>9. Stages
  <2>1. ~WillRun
    BY <1>2 DEF WillRun, NonePending
  <2>2. Has(Old)
    <3>1. \A r \in ProgramRegions : r \in Region /\ r # "flags"
      BY <1>1, ProgramWritten DEF ProgramRegions
    <3>2. \A r \in ProgramRegions : \A i \in DOMAIN mem[r] : mem[r][i] = Old
      BY <1>1, <3>1
    <3> QED
      BY <3>2 DEF Has, ProgramRegions
  <2>3. Idle
    BY <1>2, <2>2 DEF Idle, NonePending
  <2>4. step = 0 /\ outcome # "LOADED" /\ LastIdle \in {2, 8} /\ Len(Steps) \in {11, 30}
    BY <1>1, <1>3 DEF LastIdle
  <2>5. step \notin LastIdle + 1 .. Len(Steps) - 1 /\ step # Len(Steps) /\ step # -1
    BY <2>4
  <2> QED
    BY <2>1, <2>3, <2>4, <2>5 DEF Stages
<1> QED
  BY <1>4, <1>6, <1>7, <1>8, <1>9 DEF LdInv

LEMMA NothingLeft ==
  ASSUME NEW T, NEW s \in Seq(T), Len(s) = 0
  PROVE  s = <<>>
OBVIOUS

LEMMA TailIs ==
  ASSUME NEW T, NEW s \in Seq(T), s # <<>>
  PROVE  /\ Tail(s) \in Seq(T) /\ Len(s) \in Nat /\ Len(s) > 0 /\ Len(Tail(s)) = Len(s) - 1
         /\ DOMAIN s = 1 .. Len(s) /\ DOMAIN Tail(s) = 1 .. Len(s) - 1
         /\ Head(s) = s[1] /\ 1 \in DOMAIN s
         /\ \A i \in DOMAIN Tail(s) : i + 1 \in DOMAIN s /\ Tail(s)[i] = s[i + 1]
<1>1. /\ Tail(s) \in Seq(T) /\ Len(s) \in Nat /\ Len(s) > 0 /\ Len(Tail(s)) = Len(s) - 1
      /\ DOMAIN s = 1 .. Len(s) /\ Head(s) = s[1]
  OBVIOUS
<1>2. \A i \in 1 .. Len(s) - 1 : Tail(s)[i] = s[i + 1]
  BY <1>1
<1>3. DOMAIN Tail(s) = 1 .. Len(s) - 1
  BY <1>1
<1> QED
  BY <1>1, <1>2, <1>3

LEMMA AppendIs ==
  ASSUME NEW T, NEW s \in Seq(T), NEW e \in T
  PROVE  /\ Append(s, e) \in Seq(T) /\ Len(s) \in Nat /\ Len(Append(s, e)) = Len(s) + 1
         /\ DOMAIN s = 1 .. Len(s) /\ DOMAIN Append(s, e) = 1 .. Len(s) + 1
         /\ Append(s, e)[Len(s) + 1] = e
         /\ \A i \in DOMAIN s : Append(s, e)[i] = s[i]
OBVIOUS

(* The device takes a request from the queue.                              *)
ServesFirst ==
  /\ requests # <<>> /\ requests' = Tail(requests)
  /\ UNCHANGED <<unit, step, phase, width, from, prev, failed, outcome>>

LEMMA TakesOne ==
  ASSUME LdInv, ServesFirst
  PROVE  /\ requests' \in Seq(Asked) /\ \A i \in DOMAIN requests' : RequestTyped(requests'[i])
         /\ Len(requests') = Len(requests) - 1 /\ Len(requests) \in Nat /\ Len(requests) > 0
         /\ DOMAIN requests' = 1 .. Len(requests) - 1 /\ DOMAIN requests = 1 .. Len(requests)
         /\ \A i \in DOMAIN requests' : i + 1 \in DOMAIN requests /\ requests'[i] = requests[i + 1]
         /\ \A r \in Region : \A v \in Contents : NonePending(r, v) => NonePending(r, v)'
         /\ RequestTyped(Head(requests)) /\ Head(requests) = requests[1] /\ 1 \in DOMAIN requests
<1>1. requests \in Seq(Asked) /\ requests # <<>> /\ requests' = Tail(requests)
  BY DEF LdInv, LdType, ServesFirst
<1>2. /\ requests' \in Seq(Asked) /\ Len(requests') = Len(requests) - 1
      /\ Len(requests) \in Nat /\ Len(requests) > 0
      /\ DOMAIN requests' = 1 .. Len(requests) - 1 /\ DOMAIN requests = 1 .. Len(requests)
      /\ \A i \in DOMAIN requests' : i + 1 \in DOMAIN requests /\ requests'[i] = requests[i + 1]
      /\ Head(requests) = requests[1] /\ 1 \in DOMAIN requests
  BY <1>1, TailIs
<1>3. \A i \in DOMAIN requests : RequestTyped(requests[i])
  BY DEF LdInv, LdType
<1>4. /\ \A i \in DOMAIN requests' : RequestTyped(requests'[i])
      /\ RequestTyped(Head(requests))
  BY <1>2, <1>3
<1>5. \A r \in Region : \A v \in Contents : NonePending(r, v) => NonePending(r, v)'
  BY <1>2 DEF NonePending
<1> QED
  BY <1>2, <1>4, <1>5

LEMMA TakesOrdered ==
  ASSUME LdInv, ServesFirst
  PROVE  InOrderWrites' /\ (unit = "bcu2" => \A i \in DOMAIN requests' :
           Finishes(requests'[i]) => i = Len(requests') /\ (step = -1 \/ (step = 30 /\ phase = "control")))
<1>1. InOrderWrites /\ ProgramOff
  BY DEF LdInv
<1>2. /\ Len(requests') = Len(requests) - 1 /\ Len(requests) \in Nat
      /\ DOMAIN requests' = 1 .. Len(requests) - 1
      /\ \A i \in DOMAIN requests' : i + 1 \in DOMAIN requests /\ requests'[i] = requests[i + 1]
  BY TakesOne
<1>3. ASSUME NEW i \in DOMAIN requests', NEW j \in DOMAIN requests', NEW r \in Region,
             i < j, Writes(requests'[i], r, New)
      PROVE  ~Writes(requests'[j], r, Initial)
  <2>1. i + 1 < j + 1
    BY <1>2, <1>3
  <2> QED
    BY <1>1, <1>2, <1>3, <2>1 DEF InOrderWrites
<1>4. ASSUME unit = "bcu2", NEW i \in DOMAIN requests', Finishes(requests'[i])
      PROVE  i = Len(requests') /\ (step = -1 \/ (step = 30 /\ phase = "control"))
  <2>1. i + 1 = Len(requests) /\ (step = -1 \/ (step = 30 /\ phase = "control"))
    BY <1>1, <1>2, <1>4 DEF ProgramOff
  <2> QED
    BY <1>2, <2>1
<1> QED
  BY <1>3, <1>4 DEF InOrderWrites

(* It answers q, and its program may be unloaded or finished by that.      *)
RepliesTo(q, a) ==
  /\ ServesFirst /\ q = Head(requests) /\ Replied(a) /\ answers' = Append(answers, a)
  /\ mem' = mem /\ state' \in [1 .. 3 -> {"unloaded", "loading", "loaded", "error"}]
  /\ a.ask = q.ask /\ a.obj = q.obj
  /\ a.ask = "read" => \A i \in 1 .. a.n : a.data[i] = mem[a.obj][a.at + i]
  /\ state'[3] = "loaded" => state[3] = "loaded" \/ Finishes(q)
  /\ a.data = <<New>> => (Unloads(q) => state'[3] # "loaded") /\ (Finishes(q) => state'[3] = "loaded")

LEMMA AnswerAdded ==
  ASSUME LdInv, NEW q, NEW a, RepliesTo(q, a)
  PROVE  /\ answers' \in Seq(Asked) /\ \A i \in DOMAIN answers' : Replied(answers'[i])
         /\ Len(answers) \in Nat /\ DOMAIN answers = 1 .. Len(answers)
         /\ DOMAIN answers' = 1 .. Len(answers) + 1
         /\ answers'[Len(answers) + 1] = a /\ \A i \in DOMAIN answers : answers'[i] = answers[i]
<1>1. answers \in Seq(Asked) /\ \A i \in DOMAIN answers : Replied(answers[i])
  BY DEF LdInv, LdType
<1>2. a \in Asked /\ Replied(a) /\ answers' = Append(answers, a)
  BY DEF RepliesTo, Replied
<1>3. /\ answers' \in Seq(Asked) /\ Len(answers) \in Nat /\ DOMAIN answers = 1 .. Len(answers)
      /\ DOMAIN answers' = 1 .. Len(answers) + 1
      /\ answers'[Len(answers) + 1] = a /\ \A i \in DOMAIN answers : answers'[i] = answers[i]
  BY <1>1, <1>2, AppendIs
<1>4. ASSUME NEW i \in DOMAIN answers' PROVE Replied(answers'[i])
  <2>1. i \in DOMAIN answers \/ i = Len(answers) + 1
    BY <1>3
  <2> QED
    BY <1>1, <1>2, <1>3, <2>1
<1> QED
  BY <1>3, <1>4

LEMMA ReplyType ==
  ASSUME LdInv, NEW q, NEW a, RepliesTo(q, a)
  PROVE  LdType' /\ Steps' = Steps /\ Used' = Used /\ ProgramRegions' = ProgramRegions /\ LastIdle' = LastIdle /\ S' = S
<1>1. LdType /\ unit' = unit /\ step' = step
  BY DEF LdInv, RepliesTo, ServesFirst
<1>2. Steps' = Steps /\ Used' = Used /\ ProgramRegions' = ProgramRegions /\ LastIdle' = LastIdle
  BY <1>1, SameSteps
<1>3. S' = S
  BY <1>1, <1>2 DEF S
<1>4. requests' \in Seq(Asked) /\ \A i \in DOMAIN requests' : RequestTyped(requests'[i])
  BY TakesOne DEF RepliesTo
<1>5. answers' \in Seq(Asked) /\ \A i \in DOMAIN answers' : Replied(answers'[i])
  BY AnswerAdded
<1>6. LdType'
  BY <1>1, <1>2, <1>4, <1>5 DEF LdType, RepliesTo, ServesFirst
<1> QED
  BY <1>2, <1>3, <1>6

LEMMA ReplyKeeps ==
  ASSUME LdInv, NEW q, NEW a, RepliesTo(q, a)
  PROVE  KeepsNew' /\ AnswersNew' /\ EarlyOld' /\ WrittenBefore' /\ Progress'
<1>1. /\ mem' = mem /\ unit' = unit /\ step' = step /\ phase' = phase /\ from' = from /\ prev' = prev
      /\ failed' = failed /\ outcome' = outcome
  BY DEF RepliesTo, ServesFirst
<1>2. Steps' = Steps /\ S' = S
  BY ReplyType
<1>3. \A r \in Region : \A v \in Contents : NonePending(r, v) => NonePending(r, v)'
  BY TakesOne DEF RepliesTo
<1>4. New \in Contents /\ Initial \in Contents
  BY DEF Contents
<1>5. KeepsNew'
  <2>1. KeepsNew
    BY DEF LdInv
  <2> QED
    BY <1>1, <1>3, <1>4, <2>1 DEF KeepsNew, Steady
<1>6. EarlyOld'
  <2>1. EarlyOld
    BY DEF LdInv
  <2> QED
    BY <1>1, <1>3, <1>4, <2>1 DEF EarlyOld, NoNew
<1>7. WrittenBefore'
  <2>1. WrittenBefore
    BY DEF LdInv
  <2> QED
    BY <1>1, <1>2, <2>1 DEF WrittenBefore, All
<1>8. Progress'
  <2>1. Progress
    BY DEF LdInv
  <2> QED
    BY <1>1, <1>2, <2>1 DEF Progress, Length
<1>9. AnswersNew'
  <2>1. AnswersNew
    BY DEF LdInv
  <2>2. ASSUME NEW j \in DOMAIN answers', NEW i \in 1 .. answers'[j].n,
               answers'[j].ask = "read", answers'[j].data[i] = New,
               answers'[j].obj # "flags" \/ (unit' = "bcu1" /\ (step' = 11 \/ outcome' = "LOADED"))
        PROVE  mem'[answers'[j].obj][answers'[j].at + i] = New
    <3>1. Steady(answers'[j].obj)
      BY <1>1, <2>2 DEF Steady
    <3>2. CASE j \in DOMAIN answers
      <4>1. answers'[j] = answers[j]
        BY <3>2, AnswerAdded
      <4> QED
        BY <1>1, <2>1, <2>2, <3>1, <3>2, <4>1 DEF AnswersNew
    <3>3. CASE j \notin DOMAIN answers
      <4>1. answers'[j] = a
        BY <3>3, AnswerAdded
      <4> QED
        BY <1>1, <2>2, <4>1 DEF RepliesTo
    <3> QED
      BY <3>2, <3>3
  <2> QED
    BY <2>2 DEF AnswersNew, Steady
<1> QED
  BY <1>5, <1>6, <1>7, <1>8, <1>9

LEMMA ReplyFlags ==
  ASSUME LdInv, NEW q, NEW a, RepliesTo(q, a)
  PROVE  FlagsOff'
<1> SUFFICES ASSUME unit = "bcu1", step \in 0 .. 10 PROVE FlagsOff'
  BY DEF FlagsOff, RepliesTo, ServesFirst
<1>1. /\ mem' = mem /\ unit' = unit /\ step' = step
  BY DEF RepliesTo, ServesFirst
<1>2. /\ NonePending("flags", New)
      /\ \A i \in DOMAIN answers :
           OfFlags(answers[i]) /\ answers[i].data[1] = Initial =>
             /\ mem["flags"][1] = Initial
             /\ \A j \in DOMAIN answers : i < j /\ OfFlags(answers[j]) => answers[j].data[1] = Initial
      /\ step > 2 => mem["flags"][1] = Initial
      /\ step > 2 => \A i \in DOMAIN answers : OfFlags(answers[i]) => answers[i].data[1] = Initial
  BY DEF LdInv, FlagsOff
<1>3. NonePending("flags", New)'
  BY <1>2, Numbers, TakesOne DEF RepliesTo, Contents
<1>4. OfFlags(a) => a.data[1] = mem["flags"][1]
  <2> SUFFICES ASSUME OfFlags(a) PROVE a.data[1] = mem["flags"][1]
    OBVIOUS
  <2>1. a.at \in Nat /\ a.n \in Nat /\ a.at + a.n <= 1 /\ a.n > 0
    BY Numbers DEF OfFlags, RepliesTo, Replied, InRegion, Asked
  <2>2. a.at = 0 /\ a.n = 1
    BY <2>1
  <2>3. 1 \in 1 .. a.n /\ a.at + 1 = 1
    BY <2>2
  <2>4. a.data[1] = mem[a.obj][a.at + 1]
    BY <2>3 DEF OfFlags, RepliesTo
  <2> QED
    BY <2>3, <2>4 DEF OfFlags
<1>5. /\ Len(answers) \in Nat /\ DOMAIN answers = 1 .. Len(answers)
      /\ DOMAIN answers' = 1 .. Len(answers) + 1
      /\ answers'[Len(answers) + 1] = a /\ \A i \in DOMAIN answers : answers'[i] = answers[i]
  BY AnswerAdded
<1>6. ASSUME NEW i \in DOMAIN answers', OfFlags(answers'[i]), answers'[i].data[1] = Initial
      PROVE  /\ mem'["flags"][1] = Initial
             /\ \A j \in DOMAIN answers' : i < j /\ OfFlags(answers'[j]) => answers'[j].data[1] = Initial
  <2>1. mem["flags"][1] = Initial
    <3>1. CASE i \in DOMAIN answers
      BY <1>2, <1>5, <1>6, <3>1
    <3>2. CASE i = Len(answers) + 1
      BY <1>4, <1>5, <1>6, <3>2
    <3> QED
      BY <1>5, <3>1, <3>2
  <2>2. ASSUME NEW j \in DOMAIN answers', i < j, OfFlags(answers'[j])
        PROVE  answers'[j].data[1] = Initial
    <3>1. CASE j \in DOMAIN answers
      <4>1. i \in DOMAIN answers
        BY <1>5, <2>2, <3>1
      <4> QED
        BY <1>2, <1>5, <1>6, <2>2, <3>1, <4>1
    <3>2. CASE j = Len(answers) + 1
      BY <1>4, <1>5, <2>1, <2>2, <3>2
    <3> QED
      BY <1>5, <3>1, <3>2
  <2> QED
    BY <1>1, <2>1, <2>2
<1>7. ASSUME step > 2, NEW i \in DOMAIN answers', OfFlags(answers'[i])
      PROVE  answers'[i].data[1] = Initial
  <2>1. CASE i \in DOMAIN answers
    BY <1>2, <1>5, <1>7, <2>1
  <2>2. CASE i = Len(answers) + 1
    BY <1>2, <1>4, <1>5, <1>7, <2>2
  <2> QED
    BY <1>5, <2>1, <2>2
<1>8. step > 2 => mem'["flags"][1] = Initial
  BY <1>1, <1>2
<1> QED
  BY <1>1, <1>3, <1>6, <1>7, <1>8 DEF FlagsOff

LEMMA ReplyProgram ==
  ASSUME LdInv, NEW q, NEW a, RepliesTo(q, a)
  PROVE  ProgramOff'
<1> SUFFICES ASSUME unit = "bcu2" PROVE ProgramOff'
  BY DEF ProgramOff, RepliesTo, ServesFirst
<1>1. ServesFirst /\ unit' = unit /\ step' = step /\ phase' = phase
  BY DEF RepliesTo, ServesFirst
<1>2. ProgramOff
  BY DEF LdInv
<1>3. Finishes(a) = Finishes(q) /\ Unloads(a) = Unloads(q)
  BY DEF Finishes, Unloads, RepliesTo
<1>4. /\ requests # <<>> /\ 1 \in DOMAIN requests /\ q = requests[1]
      /\ requests' \in Seq(Asked) /\ Len(requests') = Len(requests) - 1
  BY TakesOne DEF RepliesTo, ServesFirst
<1>5. Finishes(q) => requests' = <<>> /\ (step = -1 \/ (step = 30 /\ phase = "control"))
  <2> SUFFICES ASSUME Finishes(q) PROVE requests' = <<>> /\ (step = -1 \/ (step = 30 /\ phase = "control"))
    OBVIOUS
  <2>1. 1 = Len(requests) /\ (step = -1 \/ (step = 30 /\ phase = "control"))
    BY <1>2, <1>4 DEF ProgramOff
  <2>2. Len(requests') = Len(requests) - 1 /\ Len(requests) = 1
    BY <1>4, <2>1, Zenon
  <2> DEFINE n == Len(requests)
  <2>4. Len(requests') = n - 1 /\ n = 1
    BY <2>2
  <2> HIDE DEF n
  <2>5. Len(requests') = 0
    BY <2>4
  <2>3. requests' = <<>>
    BY <1>4, <2>5, NothingLeft
  <2> QED
    BY <2>1, <2>3
<1>6. /\ DOMAIN answers' = 1 .. Len(answers) + 1
      /\ answers'[Len(answers) + 1] = a /\ \A i \in DOMAIN answers : answers'[i] = answers[i]
      /\ Len(answers) \in Nat /\ DOMAIN answers = 1 .. Len(answers)
  BY AnswerAdded
<1>7. ASSUME NEW i \in DOMAIN answers', Finishes(answers'[i])
      PROVE  /\ (step' = -1 \/ (step' = 30 /\ phase' = "control"))
             /\ requests' = <<>>
             /\ answers'[i].data = <<New>> => state'[3] = "loaded"
  <2>1. i \notin DOMAIN answers
    BY <1>2, <1>4, <1>6, <1>7 DEF ProgramOff
  <2>2. answers'[i] = a
    BY <1>6, <2>1
  <2>3. Finishes(q)
    BY <1>3, <1>7, <2>2
  <2> QED
    BY <1>1, <1>5, <2>2, <2>3 DEF RepliesTo
<1>8. ASSUME NEW i \in DOMAIN answers', step' \in 0 .. 8, Unloads(answers'[i]), answers'[i].data = <<New>>
      PROVE  state'[3] # "loaded"
  <2>1. CASE i \in DOMAIN answers
    <3>1. state[3] # "loaded" /\ ~Finishes(q)
      BY <1>1, <1>2, <1>5, <1>6, <1>8, <2>1 DEF ProgramOff
    <3> QED
      BY <3>1 DEF RepliesTo
  <2>2. CASE i \notin DOMAIN answers
    BY <1>3, <1>6, <1>8, <2>2 DEF RepliesTo
  <2> QED
    BY <2>1, <2>2
<1>9. \A i \in DOMAIN requests' :
        Finishes(requests'[i]) => i = Len(requests') /\ (step' = -1 \/ (step' = 30 /\ phase' = "control"))
  BY <1>1, TakesOrdered
<1> QED
  BY <1>7, <1>8, <1>9 DEF ProgramOff

LEMMA ReplyStages ==
  ASSUME LdInv, NEW q, NEW a, RepliesTo(q, a)
  PROVE  Stages'
<1>1. /\ mem' = mem /\ unit' = unit /\ step' = step /\ outcome' = outcome /\ Stages /\ LdType
      /\ requests # <<>>
  BY DEF LdInv, RepliesTo, ServesFirst
<1>2. Steps' = Steps /\ Used' = Used /\ ProgramRegions' = ProgramRegions /\ LastIdle' = LastIdle
  BY ReplyType
<1>3. /\ DOMAIN requests' = 1 .. Len(requests) - 1 /\ DOMAIN requests = 1 .. Len(requests)
      /\ \A i \in DOMAIN requests' : i + 1 \in DOMAIN requests /\ requests'[i] = requests[i + 1]
      /\ \A r \in Region : \A v \in Contents : NonePending(r, v) => NonePending(r, v)'
      /\ 1 \in DOMAIN requests /\ q = requests[1]
  BY TakesOne DEF RepliesTo
<1>4. New \in Contents /\ Initial \in Contents /\ "flags" \in Region /\ \A r \in ProgramRegions : r \in Region
  BY <1>1, Numbers, ProgramWritten DEF Contents, LdType
<1>5. Has(Old)' = Has(Old) /\ Complete' = Complete
  BY <1>1, <1>2 DEF Has, Complete
<1>6. Idle => Idle'
  BY <1>2, <1>3, <1>4, <1>5 DEF Idle
<1>7. WillRun' => WillRun
  <2>1. CASE unit = "bcu1"
    BY <1>1, <1>3, <1>4, <2>1 DEF WillRun
  <2>2. CASE unit # "bcu1"
    BY <1>1, <1>3, <2>2 DEF WillRun
  <2> QED
    BY <2>1, <2>2
<1>8. Runs' => Runs \/ WillRun
  <2>1. CASE unit = "bcu1"
    BY <1>1, <2>1 DEF Runs
  <2>2. CASE unit # "bcu1"
    BY <1>1, <1>3, <2>2 DEF Runs, WillRun, RepliesTo
  <2> QED
    BY <2>1, <2>2
<1>9. Halted => Halted'
  BY <1>7, <1>8 DEF Halted
<1>10. outcome = "LOADED" => Complete' /\ Runs' /\ unit = "bcu1"
  <2> SUFFICES ASSUME outcome = "LOADED" PROVE Complete' /\ Runs' /\ unit = "bcu1"
    OBVIOUS
  <2>1. Complete /\ Runs /\ unit = "bcu1"
    BY <1>1 DEF Stages, LdType
  <2> QED
    BY <1>1, <1>5, <2>1 DEF Runs
<1> QED
  BY <1>1, <1>2, <1>5, <1>6, <1>7, <1>9, <1>10 DEF Stages

LEMMA ReplyStep ==
  ASSUME LdInv, NEW q, NEW a, RepliesTo(q, a)
  PROVE  LdInv'
<1>1. ServesFirst
  BY DEF RepliesTo
<1> QED
  BY <1>1, ReplyType, ReplyKeeps, ReplyFlags, ReplyProgram, ReplyStages, TakesOrdered DEF LdInv

(* It writes.                                                              *)
Written(q) ==
  /\ ServesFirst /\ q = Head(requests) /\ q.ask = "write" /\ answers' = answers /\ state' = state
  /\ mem' = [mem EXCEPT ![q.obj] = [i \in DOMAIN @ |->
       IF i \in q.at + 1 .. q.at + q.n /\ <<q.obj, i>> \notin rom
       THEN q.data[i - q.at] ELSE @[i]]]

LEMMA WrittenIs ==
  ASSUME LdInv, NEW q, Written(q)
  PROVE  /\ q = requests[1] /\ 1 \in DOMAIN requests /\ q.obj \in Region /\ q.data[1] \in {New, Initial}
         /\ Writes(q, q.obj, q.data[1])
         /\ DOMAIN mem' = Region /\ \A r \in Region : mem'[r] \in [1 .. Cells[r] -> Contents]
         /\ \A r \in Region : r # q.obj => mem'[r] = mem[r]
         /\ \A r \in Region : \A c \in 1 .. Cells[r] :
              mem'[r][c] = mem[r][c] \/ (r = q.obj /\ mem'[r][c] = q.data[1])
<1>1. q = requests[1] /\ 1 \in DOMAIN requests /\ RequestTyped(q)
  BY TakesOne DEF Written
<1>2. /\ q.obj \in Region /\ q.data[1] \in {New, Initial} /\ q.n \in Nat /\ q.at \in Nat
      /\ \A i \in 1 .. q.n : q.data[i] = q.data[1]
  BY <1>1 DEF RequestTyped, InRegion, Written, Asked
<1>3. Writes(q, q.obj, q.data[1])
  BY DEF Writes, Written
<1>4. DOMAIN mem = Region /\ \A r \in Region : mem[r] \in [1 .. Cells[r] -> Contents]
  BY DEF LdInv, LdType
<1> DEFINE o == q.obj
           new == [i \in 1 .. Cells[o] |->
                     IF i \in q.at + 1 .. q.at + q.n /\ <<o, i>> \notin rom
                     THEN q.data[i - q.at] ELSE mem[o][i]]
<1>5. mem' = [mem EXCEPT ![o] = new]
  <2>1. DOMAIN mem[o] = 1 .. Cells[o]
    BY <1>2, <1>4
  <2> QED
    BY <2>1 DEF Written
<1>6. ASSUME NEW i \in 1 .. Cells[o] PROVE new[i] = mem[o][i] \/ new[i] = q.data[1]
  <2>1. CASE i \in q.at + 1 .. q.at + q.n /\ <<o, i>> \notin rom
    <3>1. i - q.at \in 1 .. q.n
      BY <1>2, <2>1
    <3> QED
      BY <1>2, <2>1, <3>1
  <2>2. CASE ~(i \in q.at + 1 .. q.at + q.n /\ <<o, i>> \notin rom)
    BY <2>2
  <2> QED
    BY <2>1, <2>2
<1>7. new \in [1 .. Cells[o] -> Contents]
  <2>1. \A i \in 1 .. Cells[o] : new[i] \in Contents
    BY <1>2, <1>4, <1>6 DEF Contents
  <2>2. DOMAIN new = 1 .. Cells[o] /\ new = [i \in 1 .. Cells[o] |-> new[i]]
    OBVIOUS
  <2> HIDE DEF new
  <2> QED
    BY <2>1, <2>2
<1> HIDE DEF new
<1>8. DOMAIN mem' = Region /\ mem'[o] = new /\ \A r \in Region : r # o => mem'[r] = mem[r]
  BY <1>2, <1>4, <1>5
<1>9. \A r \in Region : mem'[r] \in [1 .. Cells[r] -> Contents]
  BY <1>4, <1>7, <1>8
<1>10. \A r \in Region : \A c \in 1 .. Cells[r] :
         mem'[r][c] = mem[r][c] \/ (r = o /\ mem'[r][c] = q.data[1])
  BY <1>6, <1>8
<1> QED
  BY <1>1, <1>2, <1>3, <1>8, <1>9, <1>10

LEMMA StaysNew ==
  ASSUME LdInv, NEW q, Written(q), NEW r \in Region, Steady(r), NEW c \in 1 .. Cells[r], mem[r][c] = New
  PROVE  mem'[r][c] = New
<1>1. NonePending(r, Initial)
  BY DEF LdInv, KeepsNew
<1>2. ~Writes(q, r, Initial)
  BY <1>1, WrittenIs DEF NonePending
<1>3. q.obj = r => q.data[1] = New
  BY <1>2, WrittenIs DEF Writes
<1> QED
  BY <1>3, WrittenIs

LEMMA WrittenKeeps ==
  ASSUME LdInv, NEW q, Written(q)
  PROVE  /\ LdType' /\ KeepsNew' /\ AnswersNew' /\ EarlyOld' /\ WrittenBefore' /\ Progress'
<1>1. /\ unit' = unit /\ step' = step /\ phase' = phase /\ from' = from /\ prev' = prev
      /\ failed' = failed /\ outcome' = outcome /\ answers' = answers /\ ServesFirst /\ LdType
  BY DEF Written, ServesFirst, LdInv
<1>2. Steps' = Steps /\ S' = S
  BY <1>1, SameSteps DEF S
<1>3. \A r \in Region : \A v \in Contents : NonePending(r, v) => NonePending(r, v)'
  BY <1>1, TakesOne
<1>4. New \in Contents /\ Initial \in Contents /\ New # Initial
  BY DEF Contents, New, Initial
<1>5. LdType'
  <2>1. requests' \in Seq(Asked) /\ \A i \in DOMAIN requests' : RequestTyped(requests'[i])
    BY <1>1, TakesOne
  <2>2. DOMAIN mem' = Region /\ \A r \in Region : mem'[r] \in [1 .. Cells[r] -> Contents]
    BY WrittenIs
  <2> QED
    BY <1>1, <1>2, <2>1, <2>2 DEF LdType, Written, ServesFirst
<1>6. KeepsNew'
  <2>1. ASSUME NEW r \in Region, NEW c \in 1 .. Cells[r], Steady(r)', mem'[r][c] = New
        PROVE  NonePending(r, Initial)'
    <3>1. CASE mem[r][c] = New
      <4>1. NonePending(r, Initial)
        BY <1>1, <2>1, <3>1 DEF LdInv, KeepsNew, Steady
      <4> QED
        BY <1>3, <1>4, <4>1
    <3>2. CASE mem[r][c] # New
      <4>1. Writes(requests[1], r, New) /\ 1 \in DOMAIN requests
        BY <2>1, <3>2, WrittenIs
      <4>2. ASSUME NEW i \in DOMAIN requests' PROVE ~Writes(requests'[i], r, Initial)
        <5>1. i + 1 \in DOMAIN requests /\ requests'[i] = requests[i + 1] /\ 1 < i + 1
          BY <1>1, TakesOne
        <5> QED
          BY <4>1, <5>1 DEF LdInv, InOrderWrites
      <4> QED
        BY <4>2 DEF NonePending
    <3> QED
      BY <3>1, <3>2
  <2> QED
    BY <2>1 DEF KeepsNew
<1>7. AnswersNew'
  <2>1. ASSUME NEW j \in DOMAIN answers, NEW i \in 1 .. answers[j].n,
               answers[j].ask = "read", answers[j].data[i] = New,
               answers[j].obj # "flags" \/ (unit = "bcu1" /\ (step = 11 \/ outcome = "LOADED"))
        PROVE  mem'[answers[j].obj][answers[j].at + i] = New
    <3> DEFINE r == answers[j].obj
               c == answers[j].at + i
    <3>1. Replied(answers[j])
      BY <1>1 DEF LdType
    <3>2. r \in Region /\ answers[j].at \in Nat /\ answers[j].n \in Nat /\ answers[j].at + answers[j].n <= Cells[r]
      BY <2>1, <3>1 DEF Replied, InRegion, Asked
    <3>3. c \in 1 .. Cells[r]
      BY <3>2, Numbers
    <3>4. mem[r][c] = New /\ Steady(r)
      BY <2>1 DEF LdInv, AnswersNew, Steady
    <3> HIDE DEF r, c
    <3>5. mem'[r][c] = New
      BY <3>2, <3>3, <3>4, StaysNew
    <3> QED
      BY <3>5 DEF r, c
  <2> QED
    BY <1>1, <2>1 DEF AnswersNew, Steady
<1>8. EarlyOld'
  <2>1. EarlyOld
    BY DEF LdInv
  <2>2. ASSUME unit = "bcu1", step \in 0 .. 4, NEW r \in Region, r # "flags", NEW c \in 1 .. Cells[r]
        PROVE  mem'[r][c] # New
    <3>1. NonePending(r, New) /\ mem[r][c] # New
      BY <2>1, <2>2 DEF EarlyOld, NoNew
    <3>2. ~Writes(q, r, New)
      BY <3>1, WrittenIs DEF NonePending
    <3> QED
      BY <3>1, <3>2, WrittenIs
  <2>3. unit = "bcu1" /\ step \in 0 .. 4 => \A r \in Region : NonePending(r, New)'
    BY <1>3, <1>4, <2>1 DEF EarlyOld
  <2>4. unit = "bcu2" => \A r \in Region : NonePending(r, Initial)'
    BY <1>3, <1>4, <2>1 DEF EarlyOld
  <2> QED
    BY <1>1, <2>2, <2>3, <2>4 DEF EarlyOld, NoNew
<1>9. WrittenBefore'
  <2>1. ASSUME NEW k \in DOMAIN Steps, k < step, Steps[k].region \notin {"none", "flags"},
               Steps[k].value = New, NEW c \in 1 .. Cells[Steps[k].region]
        PROVE  mem'[Steps[k].region][c] = New
    <3>1. Steps[k].region \in Region
      BY <1>1, <2>1, StepsAre DEF LdType, Formed
    <3>2. mem[Steps[k].region][c] = New /\ Steady(Steps[k].region)
      BY <2>1 DEF LdInv, WrittenBefore, All, Steady
    <3> QED
      BY <3>1, <3>2, StaysNew
  <2> QED
    BY <1>1, <1>2, <2>1 DEF WrittenBefore, All
<1>10. Progress'
  <2> SUFFICES ASSUME step > 0, phase \in {"read", "verify"} PROVE Progress'
    BY <1>1 DEF Progress
  <2>1. /\ S.region # "none"
        /\ phase = "read" => Len(prev) = from /\ (from < Length \/ from = 0)
        /\ phase = "verify" => Len(prev) = Length /\ from < Length
        /\ S.value = New =>
             /\ \A i \in DOMAIN prev : prev[i] = New => mem[S.region][i] = New
             /\ phase = "verify" => failed \/ \A i \in 1 .. from : mem[S.region][i] = New
    BY DEF LdInv, Progress
  <2>2. step \in DOMAIN Steps /\ S.region \in Region
    <3>1. step \in DOMAIN Steps
      BY <1>1, StepsAre DEF LdType
    <3>2. Formed(S)
      BY <1>1, <3>1, StepsAre DEF LdType, S
    <3> QED
      BY <2>1, <3>1, <3>2 DEF Formed
  <2>3. S.value = New => Steady(S.region)
    <3> SUFFICES ASSUME S.value = New, S.region = "flags" PROVE Steady(S.region)
      BY DEF Steady
    <3>1. unit = "bcu1"
      BY <1>1, <2>2, StepsAre DEF LdType, S
    <3>2. Len(Steps) = 11 /\ step \in 1 .. 11
      BY <1>1, <2>2, <3>1, StepsAre
    <3>3. step \in {2, 11} /\ step # 2
      BY <1>4, <3>1, <3>2, StepsAre DEF S
    <3> QED
      BY <3>1, <3>3 DEF Steady
  <2>4. DOMAIN prev \subseteq 1 .. Cells[S.region] /\ 1 .. from \subseteq 1 .. Cells[S.region]
    BY <1>1, <2>1, <2>2, Numbers DEF Length, LdType
  <2>5. ASSUME S.value = New, NEW i \in 1 .. Cells[S.region], mem[S.region][i] = New
        PROVE  mem'[S.region][i] = New
    BY <2>2, <2>3, <2>5, StaysNew
  <2> QED
    BY <1>1, <1>2, <2>1, <2>4, <2>5 DEF Progress, Length
<1> QED
  BY <1>5, <1>6, <1>7, <1>8, <1>9, <1>10

LEMMA WrittenRest ==
  ASSUME LdInv, NEW q, Written(q)
  PROVE  FlagsOff' /\ ProgramOff'
<1>1. /\ unit' = unit /\ step' = step /\ phase' = phase /\ answers' = answers /\ state' = state
      /\ ServesFirst /\ requests # <<>>
  BY DEF Written, ServesFirst
<1>2. \A r \in Region : \A v \in Contents : NonePending(r, v) => NonePending(r, v)'
  BY <1>1, TakesOne
<1>3. New \in Contents /\ "flags" \in Region /\ 1 \in 1 .. Cells["flags"]
  BY Numbers DEF Contents
<1>4. FlagsOff'
  <2> SUFFICES ASSUME unit = "bcu1", step \in 0 .. 10 PROVE FlagsOff'
    BY <1>1 DEF FlagsOff
  <2>1. FlagsOff
    BY DEF LdInv
  <2>2. NonePending("flags", New) /\ NonePending("flags", New)'
    BY <1>2, <1>3, <2>1 DEF FlagsOff
  <2>3. ~Writes(q, "flags", New)
    BY <2>2, WrittenIs DEF NonePending
  <2>4. mem["flags"][1] = Initial => mem'["flags"][1] = Initial
    BY <1>3, <2>3, WrittenIs
  <2> QED
    BY <1>1, <2>1, <2>2, <2>4 DEF FlagsOff
<1>5. ProgramOff'
  <2> SUFFICES ASSUME unit = "bcu2" PROVE ProgramOff'
    BY <1>1 DEF ProgramOff
  <2>1. ProgramOff
    BY DEF LdInv
  <2>2. \A i \in DOMAIN answers : ~Finishes(answers[i])
    BY <1>1, <2>1 DEF ProgramOff
  <2> QED
    BY <1>1, <2>1, <2>2, TakesOrdered DEF ProgramOff
<1> QED
  BY <1>4, <1>5

LEMMA WrittenStages ==
  ASSUME LdInv, NEW q, Written(q)
  PROVE  Stages'
<1>1. /\ unit' = unit /\ step' = step /\ outcome' = outcome /\ state' = state /\ Stages /\ LdType
      /\ requests # <<>> /\ ServesFirst
  BY DEF LdInv, Written, ServesFirst
<1>2. Steps' = Steps /\ Used' = Used /\ ProgramRegions' = ProgramRegions /\ LastIdle' = LastIdle /\ LdType'
  BY <1>1, SameSteps, WrittenKeeps
<1>3. /\ DOMAIN requests' = 1 .. Len(requests) - 1 /\ DOMAIN requests = 1 .. Len(requests)
      /\ \A i \in DOMAIN requests' : i + 1 \in DOMAIN requests /\ requests'[i] = requests[i + 1]
      /\ \A r \in Region : \A v \in Contents : NonePending(r, v) => NonePending(r, v)'
  BY <1>1, TakesOne
<1>4. /\ New \in Contents /\ Initial \in Contents /\ "flags" \in Region /\ 1 \in 1 .. Cells["flags"]
      /\ \A r \in ProgramRegions : r \in Region /\ r # "flags"
  BY <1>1, Numbers, ProgramWritten DEF Contents, LdType, ProgramRegions
<1>5. /\ \A r \in Region : DOMAIN mem[r] = 1 .. Cells[r]
      /\ \A r \in Region : DOMAIN mem'[r] = 1 .. Cells[r]
  BY <1>1, WrittenIs DEF LdType
<1>6. Idle => Idle'
  <2> SUFFICES ASSUME Idle PROVE Idle'
    OBVIOUS
  <2>1. ASSUME NEW r \in ProgramRegions PROVE mem'[r] = mem[r]
    <3>1. ~Writes(q, r, New) /\ ~Writes(q, r, Initial)
      BY WrittenIs DEF Idle, NonePending
    <3>2. r # q.obj
      BY <3>1, WrittenIs
    <3> QED
      BY <1>4, <3>2, WrittenIs
  <2>2. Has(Old)'
    BY <1>2, <2>1 DEF Idle, Has, ProgramRegions
  <2> QED
    BY <1>2, <1>3, <1>4, <2>2 DEF Idle
<1>7. Complete => Complete'
  <2> SUFFICES ASSUME Complete, NEW r \in ProgramRegions, NEW c \in DOMAIN mem'[r] PROVE mem'[r][c] = New
    BY <1>2 DEF Complete, Has, ProgramRegions
  <2>1. c \in 1 .. Cells[r] /\ c \in DOMAIN mem[r] /\ Steady(r) /\ r \in Region
    BY <1>4, <1>5 DEF Steady
  <2>2. mem[r][c] = New
    BY <2>1 DEF Complete, Has, ProgramRegions
  <2> QED
    BY <2>1, <2>2, StaysNew
<1>8. WillRun' => WillRun
  <2>1. CASE unit = "bcu1"
    BY <1>1, <1>3, <1>4, <2>1 DEF WillRun
  <2>2. CASE unit # "bcu1"
    BY <1>1, <1>3, <2>2 DEF WillRun
  <2> QED
    BY <2>1, <2>2
<1>9. Runs' => Runs \/ WillRun
  <2>1. CASE unit = "bcu1"
    <3>1. Runs <=> mem["flags"][1] = New
      BY <1>1, <2>1, RunsIs
    <3>2. Runs' <=> mem'["flags"][1] = New
      BY <1>1, <1>2, <2>1, RunsThen
    <3>3. ASSUME mem'["flags"][1] = New, mem["flags"][1] # New PROVE WillRun
      <4>1. Writes(requests[1], "flags", New) /\ 1 \in DOMAIN requests
        BY <1>4, <3>3, WrittenIs
      <4> QED
        BY <2>1, <4>1 DEF WillRun, NonePending
    <3> QED
      BY <3>1, <3>2, <3>3
  <2>2. CASE unit # "bcu1"
    BY <1>1, <2>2 DEF Runs
  <2> QED
    BY <2>1, <2>2
<1>10. Halted => Halted'
  BY <1>8, <1>9 DEF Halted
<1>11. outcome = "LOADED" => Complete' /\ Runs' /\ unit = "bcu1"
  <2> SUFFICES ASSUME outcome = "LOADED" PROVE Complete' /\ Runs' /\ unit = "bcu1"
    OBVIOUS
  <2>1. Complete /\ Runs /\ unit = "bcu1"
    BY <1>1 DEF Stages, LdType
  <2>2. mem["flags"][1] = New /\ Steady("flags")
    BY <1>1, <2>1, RunsIs DEF Steady
  <2>3. mem'["flags"][1] = New
    BY <1>4, <2>2, StaysNew
  <2>4. Runs' <=> mem'["flags"][1] = New
    BY <1>1, <1>2, <2>1, RunsThen
  <2> QED
    BY <1>7, <2>1, <2>3, <2>4
<1> QED
  BY <1>1, <1>2, <1>6, <1>7, <1>8, <1>10, <1>11 DEF Stages

LEMMA WriteStep ==
  ASSUME LdInv, NEW q, Written(q)
  PROVE  LdInv'
<1>1. ServesFirst
  BY DEF Written
<1> QED
  BY <1>1, WrittenKeeps, WrittenRest, WrittenStages, TakesOrdered DEF LdInv

LEMMA CellsRead ==
  ASSUME NEW f \in Seq(Contents), NEW at \in Nat, NEW n \in Nat, at + n <= Len(f)
  PROVE  /\ SubSeq(f, at + 1, at + n) \in Seq(Contents) /\ Len(SubSeq(f, at + 1, at + n)) = n
         /\ \A i \in 1 .. n : SubSeq(f, at + 1, at + n)[i] = f[at + i]
<1> DEFINE s == SubSeq(f, at + 1, at + n)
<1>1. s = [i \in 1 .. n |-> f[at + i]]
  <2>1. s = [i \in 1 .. (at + n) - (at + 1) + 1 |-> f[i + (at + 1) - 1]]
    OBVIOUS
  <2>2. (at + n) - (at + 1) + 1 = n /\ \A i \in 1 .. n : i + (at + 1) - 1 = at + i
    OBVIOUS
  <2> QED
    BY <2>1, <2>2
<1>2. \A i \in 1 .. n : f[at + i] \in Contents
  <2>1. \A i \in 1 .. n : at + i \in 1 .. Len(f)
    OBVIOUS
  <2> QED
    BY <2>1
<1> HIDE DEF s
<1>3. s \in Seq(Contents) /\ Len(s) = n /\ \A i \in 1 .. n : s[i] = f[at + i]
  BY <1>1, <1>2
<1> QED
  BY <1>3 DEF s

LEMMA RegionIs ==
  ASSUME NEW m \in Nat, NEW f \in [1 .. m -> Contents]
  PROVE  f \in Seq(Contents) /\ Len(f) = m
OBVIOUS

LEMMA ReplyIs ==
  ASSUME NEW q \in Asked, NEW d \in Seq(Contents)
  PROVE  LET a == [q EXCEPT !.data = d] IN
         a \in Asked /\ a.ask = q.ask /\ a.obj = q.obj /\ a.at = q.at /\ a.n = q.n /\ a.data = d
BY DEF Asked

LEMMA OneCell ==
  ASSUME NEW d \in Contents
  PROVE  <<d>> \in Seq(Contents) /\ Len(<<d>>) = 1 /\ (<<d>> = <<New>> => d = New)
OBVIOUS

LEMMA ReadServed ==
  ASSUME LdInv, ServesFirst, UNCHANGED <<mem, state>>,
         NEW q, q = Head(requests), q.ask = "read", Reply(q, SubSeq(mem[q.obj], q.at + 1, q.at + q.n))
  PROVE  LdInv'
<1> DEFINE d == SubSeq(mem[q.obj], q.at + 1, q.at + q.n)
           a == [q EXCEPT !.data = d]
<1>1. q \in Asked /\ InRegion(q)
  BY TakesOne DEF RequestTyped
<1>2. /\ q.obj \in Region /\ Cells[q.obj] \in Nat /\ q.at \in Nat /\ q.n \in Nat
      /\ q.at + q.n <= Cells[q.obj] /\ mem[q.obj] \in [1 .. Cells[q.obj] -> Contents]
  BY <1>1, Numbers DEF Asked, InRegion, LdInv, LdType
<1>3. d \in Seq(Contents) /\ Len(d) = q.n /\ \A i \in 1 .. q.n : d[i] = mem[q.obj][q.at + i]
  <2> DEFINE m == Cells[q.obj]
             f == mem[q.obj]
             at == q.at
             n == q.n
  <2>1. m \in Nat /\ f \in [1 .. m -> Contents] /\ at \in Nat /\ n \in Nat /\ at + n <= m
    BY <1>2
  <2>2. d = SubSeq(f, at + 1, at + n)
    OBVIOUS
  <2> HIDE DEF m, f, at, n, d
  <2>3. f \in Seq(Contents) /\ Len(f) = m
    BY <2>1, RegionIs
  <2>4. d \in Seq(Contents) /\ Len(d) = n /\ \A i \in 1 .. n : d[i] = f[at + i]
    BY <2>1, <2>2, <2>3, CellsRead
  <2> QED
    BY <2>4 DEF f, at, n
<1> HIDE DEF d
<1>4. a \in Asked /\ a.ask = q.ask /\ a.obj = q.obj /\ a.at = q.at /\ a.n = q.n /\ a.data = d
  BY <1>1, <1>3, ReplyIs
<1>5. answers' = Append(answers, a)
  BY DEF Reply, d
<1> HIDE DEF a
<1>6. Replied(a)
  BY <1>1, <1>3, <1>4 DEF Replied, InRegion, StateAsks
<1>7. ~Unloads(q) /\ ~Finishes(q)
  BY DEF Unloads, Finishes
<1>8. RepliesTo(q, a)
  BY <1>3, <1>4, <1>5, <1>6, <1>7 DEF RepliesTo, LdInv, LdType
<1> QED
  BY <1>8, ReplyStep

LEMMA OtherServed ==
  ASSUME LdInv, ServesFirst, UNCHANGED <<mem, state>>,
         NEW q, q = Head(requests), q.ask \in OtherAsks, NEW d \in {New, Old}, Reply(q, <<d>>)
  PROVE  LdInv'
<1> DEFINE a == [q EXCEPT !.data = <<d>>]
<1>1. q \in Asked
  BY TakesOne DEF RequestTyped
<1>2. <<d>> \in Seq(Contents) /\ Len(<<d>>) = 1
  BY OneCell DEF Contents
<1>3. a \in Asked /\ a.ask = q.ask /\ a.obj = q.obj /\ a.data = <<d>>
  BY <1>1, <1>2, ReplyIs
<1>4. answers' = Append(answers, a)
  BY DEF Reply
<1> HIDE DEF a
<1>5. Replied(a) /\ a.ask # "read"
  BY <1>2, <1>3 DEF Replied, OtherAsks, StateAsks
<1>6. ~Unloads(q) /\ ~Finishes(q)
  BY DEF Unloads, Finishes, OtherAsks
<1>7. RepliesTo(q, a)
  BY <1>3, <1>4, <1>5, <1>6 DEF RepliesTo, LdInv, LdType
<1> QED
  BY <1>7, ReplyStep

LEMMA StateServed ==
  ASSUME LdInv, ServesFirst, mem' = mem, NEW q, q = Head(requests), q.ask \in StateAsks,
         NEW e \in {"unloaded", "loading", "loaded", "error"}, state' = [state EXCEPT ![q.obj] = e],
         e = "error" \/ e = StateAfter(q.obj, q.ask),
         NEW d \in {New, Old}, d = New => e # "error", Reply(q, <<d>>)
  PROVE  LdInv'
<1> DEFINE a == [q EXCEPT !.data = <<d>>]
<1>1. q \in Asked /\ q.obj \in 1 .. 3
  BY TakesOne DEF RequestTyped
<1>2. <<d>> \in Seq(Contents) /\ Len(<<d>>) = 1 /\ (<<d>> = <<New>> => d = New)
  BY OneCell DEF Contents
<1>3. a \in Asked /\ a.ask = q.ask /\ a.obj = q.obj /\ a.data = <<d>>
  BY <1>1, <1>2, ReplyIs
<1>4. answers' = Append(answers, a)
  BY DEF Reply
<1> HIDE DEF a
<1>5. Replied(a) /\ a.ask # "read"
  BY <1>1, <1>2, <1>3 DEF Replied, StateAsks
<1>6. state \in [1 .. 3 -> {"unloaded", "loading", "loaded", "error"}]
  BY DEF LdInv, LdType
<1>7. /\ state' \in [1 .. 3 -> {"unloaded", "loading", "loaded", "error"}]
      /\ state'[3] = IF q.obj = 3 THEN e ELSE state[3]
  BY <1>1, <1>6
<1>8. q.obj = 3 /\ e = "loaded" => Finishes(q)
  BY DEF StateAfter, StateAsks, Finishes
<1>9. d = New /\ Unloads(q) => e = "unloaded"
  BY DEF StateAfter, Unloads
<1>10. d = New /\ Finishes(q) => e = "loaded"
  BY DEF StateAfter, Finishes
<1>11. RepliesTo(q, a)
  <2>1. state'[3] = "loaded" => state[3] = "loaded" \/ Finishes(q)
    BY <1>7, <1>8
  <2>2. a.data = <<New>> => (Unloads(q) => state'[3] # "loaded") /\ (Finishes(q) => state'[3] = "loaded")
    BY <1>2, <1>3, <1>7, <1>9, <1>10 DEF Unloads, Finishes
  <2> QED
    BY <1>3, <1>4, <1>5, <1>7, <2>1, <2>2 DEF RepliesTo
<1> QED
  BY <1>11, ReplyStep

LEMMA ServeStep == LdInv /\ Serve => LdInv'
<1> SUFFICES ASSUME LdInv, Serve PROVE LdInv'
  OBVIOUS
<1> DEFINE q == Head(requests)
<1>1. ServesFirst
  BY DEF Serve, ServesFirst, loader
<1>2. CASE q.ask = "read" /\ Reply(q, SubSeq(mem[q.obj], q.at + 1, q.at + q.n)) /\ UNCHANGED <<mem, state>>
  BY <1>1, <1>2, ReadServed
<1>3. CASE /\ q.ask = "write"
           /\ mem' = [mem EXCEPT ![q.obj] = [i \in DOMAIN @ |->
                IF i \in q.at + 1 .. q.at + q.n /\ <<q.obj, i>> \notin rom
                THEN q.data[i - q.at] ELSE @[i]]]
           /\ UNCHANGED <<answers, state>>
  <2>1. Written(q)
    BY <1>1, <1>3 DEF Written
  <2> QED
    BY <2>1, WriteStep
<1>4. CASE /\ q.ask \in {"mask", "authorize", "key"}
           /\ \E d \in {New, Old} : Reply(q, <<d>>)
           /\ UNCHANGED <<mem, state>>
  <2>1. PICK d \in {New, Old} : Reply(q, <<d>>)
    BY <1>4
  <2>2. q.ask \in OtherAsks
    BY <1>4 DEF OtherAsks
  <2> QED
    BY <1>1, <1>4, <2>1, <2>2, OtherServed
<1>5. CASE /\ q.ask \in {"unload", "load", "alloc", "set", "finish"}
           /\ \/ /\ state' = [state EXCEPT ![q.obj] = StateAfter(q.obj, q.ask)]
                 /\ Reply(q, <<IF state'[q.obj] = "error" THEN Old ELSE New>>)
              \/ state' = [state EXCEPT ![q.obj] = "error"] /\ Reply(q, <<Old>>)
           /\ UNCHANGED mem
  <2>1. q.ask \in StateAsks
    BY <1>5 DEF StateAsks
  <2>2. CASE /\ state' = [state EXCEPT ![q.obj] = StateAfter(q.obj, q.ask)]
             /\ Reply(q, <<IF state'[q.obj] = "error" THEN Old ELSE New>>)
    <3> DEFINE e == StateAfter(q.obj, q.ask)
               d == IF state'[q.obj] = "error" THEN Old ELSE New
    <3>1. q.obj \in 1 .. 3
      BY <1>1, <2>1, TakesOne DEF RequestTyped
    <3>2. state \in [1 .. 3 -> {"unloaded", "loading", "loaded", "error"}]
      BY DEF LdInv, LdType
    <3>3. e \in {"unloaded", "loading", "loaded", "error"}
      BY <1>5 DEF StateAfter
    <3>4. state'[q.obj] = e
      BY <2>2, <3>1, <3>2
    <3>5. d \in {New, Old} /\ (d = New => e # "error")
      BY <3>4 DEF New, Old
    <3>6. state' = [state EXCEPT ![q.obj] = e] /\ Reply(q, <<d>>)
      BY <2>2
    <3>7. e = StateAfter(q.obj, q.ask) /\ mem' = mem
      BY <1>5
    <3> HIDE DEF e, d
    <3> QED
      BY <1>1, <2>1, <3>3, <3>5, <3>6, <3>7, StateServed
  <2>3. CASE state' = [state EXCEPT ![q.obj] = "error"] /\ Reply(q, <<Old>>)
    <3>1. Old \in {New, Old} /\ Old # New /\ mem' = mem
      BY <1>5 DEF Old, New
    <3> QED
      BY <1>1, <2>1, <2>3, <3>1, StateServed
  <2> QED
    BY <1>5, <2>2, <2>3
<1> QED
  BY <1>2, <1>3, <1>4, <1>5 DEF Serve

----------------------------------------------------------------------------
(* The steps of the loader: it may take an answer and send requests.       *)
Shorter == answers' = answers \/ (answers # <<>> /\ answers' = Tail(answers))
Still == UNCHANGED <<unit, mem, state>>

LEMMA ShorterIs ==
  ASSUME LdType, Shorter
  PROVE  /\ answers' \in Seq(Asked) /\ \A i \in DOMAIN answers' : Replied(answers'[i])
         /\ \E d \in {0, 1} : \A i \in DOMAIN answers' :
              i \in Nat /\ i + d \in DOMAIN answers /\ answers'[i] = answers[i + d]
<1>1. answers \in Seq(Asked) /\ \A i \in DOMAIN answers : Replied(answers[i])
  BY DEF LdType
<1>2. CASE answers' = answers
  <2>1. \A i \in DOMAIN answers' : i \in Nat /\ i + 0 \in DOMAIN answers /\ answers'[i] = answers[i + 0]
    BY <1>1, <1>2
  <2> QED
    BY <1>1, <1>2, <2>1
<1>3. CASE answers # <<>> /\ answers' = Tail(answers)
  <2>1. /\ answers' \in Seq(Asked) /\ DOMAIN answers' = 1 .. Len(answers) - 1 /\ Len(answers) \in Nat
        /\ \A i \in DOMAIN answers' : i + 1 \in DOMAIN answers /\ answers'[i] = answers[i + 1]
    BY <1>1, <1>3, TailIs
  <2>2. \A i \in DOMAIN answers' : i \in Nat
    BY <2>1
  <2> QED
    BY <1>1, <2>1, <2>2
<1> QED
  BY <1>2, <1>3 DEF Shorter

(* What is taken leaves what is true of all answers.                       *)
LEMMA ShorterNew ==
  ASSUME LdInv, Shorter, Still, \A r \in Region : Steady(r)' => Steady(r)
  PROVE  AnswersNew'
<1>1. PICK d \in {0, 1} : \A i \in DOMAIN answers' :
        i \in Nat /\ i + d \in DOMAIN answers /\ answers'[i] = answers[i + d]
  BY ShorterIs DEF LdInv
<1>2. AnswersNew /\ mem' = mem
  BY DEF LdInv, Still
<1>3. ASSUME NEW j \in DOMAIN answers', NEW i \in 1 .. answers'[j].n,
             answers'[j].ask = "read", answers'[j].data[i] = New,
             answers'[j].obj # "flags" \/ (unit' = "bcu1" /\ (step' = 11 \/ outcome' = "LOADED"))
      PROVE  mem'[answers'[j].obj][answers'[j].at + i] = New
  <2>1. j + d \in DOMAIN answers /\ answers'[j] = answers[j + d]
    BY <1>1
  <2>2. Replied(answers[j + d])
    BY <2>1 DEF LdInv, LdType
  <2>3. answers'[j].obj \in Region
    BY <1>3, <2>1, <2>2 DEF Replied, InRegion
  <2>4. answers'[j].obj # "flags" \/ (unit = "bcu1" /\ (step = 11 \/ outcome = "LOADED"))
    BY <1>3, <2>3 DEF Steady
  <2> QED
    BY <1>2, <1>3, <2>1, <2>4 DEF AnswersNew, Steady
<1> QED
  BY <1>3 DEF AnswersNew, Steady

LEMMA ShorterFlags ==
  ASSUME LdInv, Shorter, Still, unit = "bcu1", step \in 0 .. 10
  PROVE  /\ \A i \in DOMAIN answers' :
              OfFlags(answers'[i]) /\ answers'[i].data[1] = Initial =>
                /\ mem'["flags"][1] = Initial
                /\ \A j \in DOMAIN answers' : i < j /\ OfFlags(answers'[j]) => answers'[j].data[1] = Initial
         /\ step > 2 => /\ mem'["flags"][1] = Initial
                        /\ \A i \in DOMAIN answers' : OfFlags(answers'[i]) => answers'[i].data[1] = Initial
<1>1. PICK d \in {0, 1} : \A i \in DOMAIN answers' :
        i \in Nat /\ i + d \in DOMAIN answers /\ answers'[i] = answers[i + d]
  BY ShorterIs DEF LdInv
<1>2. FlagsOff /\ mem' = mem
  BY DEF LdInv, Still
<1>3. \A i, j \in DOMAIN answers' : i < j => i + d < j + d
  BY <1>1
<1> QED
  BY <1>1, <1>2, <1>3 DEF FlagsOff

(* A step goes on: what it sends is about its region or its control.       *)
OfStep(q) ==
  /\ q.ask = "write" => q.obj = S.region /\ q.data[1] = S.value
  /\ q.ask \notin {"read", "write"} => q.ask = S.ask /\ q.obj = S.obj
StepSends ==
  /\ Still /\ Shorter /\ step > 0 /\ step' = step /\ outcome' = outcome
  /\ requests' \in Seq(Asked) /\ Len(requests) <= Len(requests')
  /\ \A i \in DOMAIN requests' : RequestTyped(requests'[i])
  /\ \A i \in DOMAIN requests' :
       IF i <= Len(requests) THEN requests'[i] = requests[i] ELSE OfStep(requests'[i])
  /\ unit = "bcu2" /\ step = 30 =>
       phase = "begin" /\ phase' = "control" /\ Len(requests') <= Len(requests) + 1

LEMMA StepAt ==
  ASSUME LdType, step > 0
  PROVE  /\ step \in DOMAIN Steps /\ Formed(S)
         /\ unit = "bcu1" => /\ Len(Steps) = 11 /\ step \in 1 .. 11
                             /\ S.region = "flags" <=> step \in {2, 11}
                             /\ S.value = Initial <=> step \in {2, 3, 4}
                             /\ S.region = "none" <=> step = 1
                             /\ S.ask = "none" <=> step # 1
         /\ unit = "bcu2" => /\ Len(Steps) = 30 /\ step \in 1 .. 30
                             /\ S.region # "flags" /\ S.value = New
                             /\ Unloads(S) <=> step = 8
                             /\ Finishes(S) <=> step = 30
                             /\ step <= 9 \/ step = 30 => S.region = "none"
<1>1. unit \in {"bcu1", "bcu2"} /\ step \in -1 .. Len(Steps)
  BY DEF LdType
<1>5. DOMAIN Steps = 1 .. Len(Steps) /\ \A k \in DOMAIN Steps : Formed(Steps[k])
  BY <1>1, StepsAre, Zenon
<1>2. step \in DOMAIN Steps /\ Formed(Steps[step])
  BY <1>1, <1>5
<1>3. CASE unit = "bcu1"
  <2>1. Len(Steps) = 11 /\ step \in 1 .. 11
    BY <1>2, <1>3, StepsAre
  <2> QED
    BY <1>2, <1>3, <2>1, StepsAre DEF S
<1>4. CASE unit = "bcu2"
  <2>1. Len(Steps) = 30 /\ step \in 1 .. 30
    BY <1>2, <1>4, StepsAre
  <2> QED
    BY <1>2, <1>4, <2>1, StepsAre DEF S
<1> QED
  BY <1>1, <1>3, <1>4

LEMMA SentIs ==
  ASSUME LdInv, StepSends
  PROVE  /\ Steps' = Steps /\ Used' = Used /\ ProgramRegions' = ProgramRegions /\ LastIdle' = LastIdle /\ S' = S
         /\ \A r \in Region : \A v \in {New, Initial} :
              NonePending(r, v) /\ ~(S.region = r /\ S.value = v) => NonePending(r, v)'
         /\ \A i \in DOMAIN requests' : i > Len(requests) =>
              (\A r \in Region : \A v \in {New, Initial} :
                 Writes(requests'[i], r, v) => S.region = r /\ S.value = v)
         /\ Len(requests) \in Nat /\ DOMAIN requests = 1 .. Len(requests)
         /\ Len(requests') \in Nat /\ DOMAIN requests' = 1 .. Len(requests')
<1>1. unit' = unit /\ step' = step
  BY DEF StepSends, Still
<1>2. Steps' = Steps /\ Used' = Used /\ ProgramRegions' = ProgramRegions /\ LastIdle' = LastIdle /\ S' = S
  BY <1>1, SameSteps DEF S
<1>3. /\ Len(requests) \in Nat /\ DOMAIN requests = 1 .. Len(requests)
      /\ Len(requests') \in Nat /\ DOMAIN requests' = 1 .. Len(requests')
  BY DEF StepSends, LdInv, LdType
<1>4. ASSUME NEW i \in DOMAIN requests', i > Len(requests), NEW r \in Region, NEW v \in {New, Initial},
             Writes(requests'[i], r, v)
      PROVE  S.region = r /\ S.value = v
  <2>1. OfStep(requests'[i])
    BY <1>3, <1>4 DEF StepSends
  <2> QED
    BY <1>4, <2>1 DEF OfStep, Writes
<1>5. ASSUME NEW r \in Region, NEW v \in {New, Initial}, NonePending(r, v), ~(S.region = r /\ S.value = v),
             NEW i \in DOMAIN requests'
      PROVE  ~Writes(requests'[i], r, v)
  <2>1. CASE i <= Len(requests)
    <3>1. i \in DOMAIN requests /\ requests'[i] = requests[i]
      BY <1>3, <2>1 DEF StepSends
    <3> QED
      BY <1>5, <3>1 DEF NonePending
  <2>2. CASE i > Len(requests)
    BY <1>4, <1>5, <2>2
  <2> QED
    BY <1>3, <2>1, <2>2
<1> QED
  BY <1>2, <1>3, <1>4, <1>5 DEF NonePending

LEMMA SentWrites ==
  ASSUME LdInv, StepSends
  PROVE  InOrderWrites' /\ KeepsNew' /\ EarlyOld'
<1>1. /\ LdType /\ step > 0 /\ unit' = unit /\ mem' = mem /\ step' = step /\ outcome' = outcome
      /\ InOrderWrites /\ KeepsNew /\ EarlyOld
  BY DEF StepSends, Still, LdInv
<1>2. New # Initial /\ "none" \notin Region /\ unit \in {"bcu1", "bcu2"}
  BY <1>1 DEF New, Initial, Region, LdType
<1>3. S.value = Initial => unit = "bcu1" /\ step \in {2, 3, 4}
  BY <1>1, <1>2, StepAt
<1>4. InOrderWrites'
  <2>1. ASSUME NEW i \in DOMAIN requests', NEW j \in DOMAIN requests', NEW r \in Region,
               i < j, Writes(requests'[i], r, New), Writes(requests'[j], r, Initial)
        PROVE  FALSE
    <3>1. CASE j <= Len(requests)
      <4>1. i \in DOMAIN requests /\ j \in DOMAIN requests /\ i <= Len(requests)
        BY <2>1, <3>1, SentIs
      <4>2. requests'[i] = requests[i] /\ requests'[j] = requests[j]
        BY <2>1, <3>1, <4>1 DEF StepSends
      <4> QED
        BY <1>1, <2>1, <4>1, <4>2 DEF InOrderWrites
    <3>2. CASE j > Len(requests)
      <4>1. S.region = r /\ S.value = Initial /\ unit = "bcu1" /\ step \in 0 .. 4
        BY <1>3, <2>1, <3>2, SentIs
      <4>2. NonePending(r, New)
        BY <1>1, <4>1 DEF EarlyOld
      <4>3. NonePending(r, New)'
        BY <1>2, <4>1, <4>2, SentIs
      <4> QED
        BY <2>1, <4>3 DEF NonePending
    <3> QED
      BY <3>1, <3>2, SentIs
  <2> QED
    BY <2>1 DEF InOrderWrites
<1>5. KeepsNew'
  <2>1. ASSUME NEW r \in Region, NEW c \in 1 .. Cells[r], Steady(r), mem[r][c] = New
        PROVE  NonePending(r, Initial)'
    <3>1. NonePending(r, Initial)
      BY <1>1, <2>1 DEF KeepsNew
    <3>2. ASSUME S.region = r, S.value = Initial PROVE FALSE
      <4>1. unit = "bcu1" /\ step \in 0 .. 4 /\ step # -1 /\ step # 11
        BY <1>3, <3>2
      <4>2. r # "flags"
        BY <1>1, <2>1, <4>1 DEF Steady, LdType
      <4> QED
        BY <1>1, <2>1, <4>1, <4>2 DEF EarlyOld, NoNew
    <3> QED
      BY <3>1, <3>2, SentIs
  <2> QED
    BY <1>1, <2>1 DEF KeepsNew, Steady
<1>6. EarlyOld'
  <2>1. ASSUME unit = "bcu1", step \in 0 .. 4, NEW r \in Region PROVE NonePending(r, New)'
    <3>1. NonePending(r, New)
      BY <1>1, <2>1 DEF EarlyOld
    <3>2. ~(S.region = r /\ S.value = New)
      <4>1. step = 1 \/ step \in {2, 3, 4}
        BY <1>1, <2>1
      <4> QED
        BY <1>1, <1>2, <2>1, <4>1, StepAt
    <3> QED
      BY <3>1, <3>2, SentIs
  <2>2. ASSUME unit = "bcu2", NEW r \in Region PROVE NonePending(r, Initial)'
    <3>1. NonePending(r, Initial) /\ S.value # Initial
      BY <1>1, <1>2, <2>2, StepAt DEF EarlyOld
    <3> QED
      BY <3>1, SentIs
  <2> QED
    BY <1>1, <2>1, <2>2 DEF EarlyOld, NoNew
<1> QED
  BY <1>4, <1>5, <1>6

LEMMA SentRest ==
  ASSUME LdInv, StepSends
  PROVE  AnswersNew' /\ WrittenBefore' /\ FlagsOff' /\ ProgramOff'
<1>1. /\ LdType /\ step > 0 /\ unit' = unit /\ mem' = mem /\ step' = step /\ outcome' = outcome
      /\ state' = state /\ Shorter /\ Still
  BY DEF StepSends, Still, LdInv
<1>2. AnswersNew'
  BY <1>1, ShorterNew DEF Steady
<1>3. WrittenBefore'
  BY <1>1, SentIs DEF LdInv, WrittenBefore, All
<1>4. FlagsOff'
  <2> SUFFICES ASSUME unit = "bcu1", step \in 0 .. 10 PROVE FlagsOff'
    BY <1>1 DEF FlagsOff
  <2>1. NonePending("flags", New) /\ "flags" \in Region
    BY Numbers DEF LdInv, FlagsOff
  <2>2. ~(S.region = "flags" /\ S.value = New)
    <3> SUFFICES ASSUME S.region = "flags" PROVE S.value # New
      OBVIOUS
    <3>1. step = 2
      BY <1>1, StepAt
    <3>2. S.value = Initial
      BY <1>1, <3>1, StepAt
    <3> QED
      BY <3>2 DEF New, Initial
  <2>3. NonePending("flags", New)'
    BY <2>1, <2>2, SentIs
  <2> QED
    BY <1>1, <2>3, ShorterFlags DEF FlagsOff
<1>5. ProgramOff'
  <2> SUFFICES ASSUME unit = "bcu2" PROVE ProgramOff'
    BY <1>1 DEF ProgramOff
  <2>1. ProgramOff
    BY DEF LdInv
  <2>2. (\A i \in DOMAIN requests : ~Finishes(requests[i])) /\ (\A i \in DOMAIN answers : ~Finishes(answers[i]))
    <3>1. step # -1 /\ (step = 30 => phase = "begin")
      BY <1>1 DEF StepSends
    <3> QED
      BY <2>1, <3>1 DEF ProgramOff
  <2>3. ASSUME NEW i \in DOMAIN requests', Finishes(requests'[i])
        PROVE  i = Len(requests') /\ step' = 30 /\ phase' = "control"
    <3>1. i > Len(requests)
      <4> SUFFICES ASSUME i <= Len(requests) PROVE FALSE
        BY SentIs
      <4>1. i \in DOMAIN requests /\ requests'[i] = requests[i]
        BY SentIs DEF StepSends
      <4> QED
        BY <2>2, <2>3, <4>1
    <3>2. OfStep(requests'[i])
      BY <3>1, SentIs DEF StepSends
    <3>3. Finishes(S)
      BY <2>3, <3>2 DEF OfStep, Finishes
    <3>4. step = 30
      BY <1>1, <3>3, StepAt
    <3>5. phase' = "control" /\ Len(requests') <= Len(requests) + 1
      BY <3>4 DEF StepSends
    <3>6. i = Len(requests')
      BY <2>3, <3>1, <3>5, SentIs
    <3> QED
      BY <1>1, <3>4, <3>5, <3>6
  <2>4. PICK d \in {0, 1} : \A i \in DOMAIN answers' :
          i \in Nat /\ i + d \in DOMAIN answers /\ answers'[i] = answers[i + d]
    BY <1>1, ShorterIs
  <2>5. \A i \in DOMAIN answers' : ~Finishes(answers'[i])
    BY <2>2, <2>4
  <2>6. \A i \in DOMAIN answers' :
          step' \in 0 .. 8 /\ Unloads(answers'[i]) /\ answers'[i].data = <<New>> => state'[3] # "loaded"
    BY <1>1, <2>1, <2>4 DEF ProgramOff
  <2> QED
    BY <2>3, <2>5, <2>6 DEF ProgramOff
<1> QED
  BY <1>2, <1>3, <1>4, <1>5

LEMMA SentStages ==
  ASSUME LdInv, StepSends
  PROVE  Stages'
<1>1. /\ LdType /\ step > 0 /\ unit' = unit /\ mem' = mem /\ step' = step /\ outcome' = outcome
      /\ state' = state /\ Stages
  BY DEF StepSends, Still, LdInv
<1>2. /\ Steps' = Steps /\ Used' = Used /\ ProgramRegions' = ProgramRegions /\ LastIdle' = LastIdle
      /\ unit \in {"bcu1", "bcu2"} /\ New # Initial /\ New \in {New, Initial} /\ Initial \in {New, Initial}
      /\ "flags" \in Region /\ \A r \in ProgramRegions : r \in Region /\ r # "flags" /\ r # "none"
  BY <1>1, SentIs, Numbers, ProgramWritten DEF LdType, New, Initial, ProgramRegions, Used
<1>3. Has(Old)' = Has(Old) /\ Complete' = Complete /\ Runs' = Runs
  BY <1>1, <1>2 DEF Has, Complete, Runs
<1>4. step \in 0 .. LastIdle => (Idle => Idle')
  <2> SUFFICES ASSUME step \in 0 .. LastIdle, Idle, NEW r \in ProgramRegions
               PROVE  NonePending(r, New)' /\ NonePending(r, Initial)'
    BY <1>2, <1>3 DEF Idle
  <2>1. S.region \in {"none", "flags"}
    <3>1. CASE unit = "bcu1"
      <4>1. step = 1 \/ step = 2
        BY <1>1, <3>1 DEF LastIdle
      <4> QED
        BY <1>1, <3>1, <4>1, StepAt
    <3>2. CASE unit = "bcu2"
      <4>1. step <= 9
        BY <1>1, <3>2 DEF LastIdle
      <4> QED
        BY <1>1, <3>2, <4>1, StepAt
    <3> QED
      BY <1>2, <3>1, <3>2
  <2> QED
    BY <1>2, <2>1, SentIs DEF Idle
<1>5. step < Len(Steps) => (WillRun' => WillRun)
  <2> SUFFICES ASSUME step < Len(Steps), ~WillRun PROVE ~WillRun'
    OBVIOUS
  <2>1. CASE unit = "bcu1"
    <3>1. ~(S.region = "flags" /\ S.value = New)
      <4> SUFFICES ASSUME S.region = "flags" PROVE S.value # New
        OBVIOUS
      <4>3. Len(Steps) = 11 /\ step \in {2, 11}
        BY <1>1, <2>1, StepAt
      <4>1. step = 2
        BY <4>3
      <4>2. S.value = Initial
        BY <1>1, <2>1, <4>1, StepAt
      <4> QED
        BY <1>2, <4>2
    <3>2. NonePending("flags", New)
      BY <2>1 DEF WillRun
    <3>3. NonePending("flags", New)'
      BY <1>2, <3>1, <3>2, SentIs
    <3> QED
      BY <1>1, <2>1, <3>3 DEF WillRun
  <2>2. CASE unit = "bcu2"
    <3>3. Len(Steps) = 30 /\ step \in 1 .. 30
      BY <1>1, <2>2, StepAt
    <3>1. step # 30 /\ step # -1
      BY <3>3
    <3>2. \A i \in DOMAIN requests' : ~Finishes(requests'[i])
      BY <1>1, <2>2, <3>1, SentRest DEF ProgramOff
    <3> QED
      BY <1>1, <2>2, <3>2 DEF WillRun
  <2> QED
    BY <1>2, <2>1, <2>2
<1>6. LastIdle < Len(Steps) /\ LastIdle \in Nat /\ Len(Steps) \in Nat /\ step \in Nat
  <2>1. Len(Steps) \in {11, 30}
    BY <1>2, StepsAre
  <2>3. step \in -1 .. Len(Steps) /\ step > 0
    BY <1>1 DEF LdType
  <2>2. LastIdle \in {2, 8}
    BY DEF LastIdle
  <2>4. step \in Int /\ step > 0
    BY <2>1, <2>3
  <2> DEFINE n == Len(Steps)
  <2>5. n = 11 \/ n = 30
    BY <2>1
  <2> HIDE DEF n
  <2>6. LastIdle < n /\ LastIdle \in Nat /\ n \in Nat /\ step \in Nat
    BY <2>2, <2>4, <2>5
  <2> QED
    BY <2>6 DEF n
<1>7. step \in 0 .. LastIdle => step < Len(Steps)
  BY <1>6
<1>8. step \in LastIdle + 1 .. Len(Steps) - 1 => step < Len(Steps)
  BY <1>6
<1>9. step # -1 /\ outcome # "LOADED"
  BY <1>1 DEF LdType
<1> QED
  BY <1>1, <1>2, <1>3, <1>4, <1>5, <1>7, <1>8, <1>9 DEF Stages, Halted

(* LoadImage ends with an error.                                           *)
Ends ==
  /\ Still /\ Shorter /\ requests' = requests /\ step' = -1 /\ outcome' # "LOADED" /\ phase' = "begin"
  /\ width' \in {Block, Small} /\ from' \in Nat /\ prev' \in Seq(Contents) /\ failed' \in BOOLEAN

LEMMA EndStep ==
  ASSUME LdInv, Ends
  PROVE  LdInv'
<1>1. /\ unit' = unit /\ mem' = mem /\ state' = state /\ requests' = requests /\ step' = -1
      /\ outcome' # "LOADED" /\ phase' = "begin" /\ LdType /\ Still /\ Shorter
  BY DEF Ends, Still, LdInv
<1>2. Steps' = Steps /\ Used' = Used /\ ProgramRegions' = ProgramRegions /\ LastIdle' = LastIdle
  BY <1>1, SameSteps
<1>3. Len(Steps) \in {11, 30} /\ LastIdle \in {2, 8}
  BY <1>1, StepsAre DEF LdType, LastIdle
<1>4. LdType'
  <2>1. answers' \in Seq(Asked) /\ \A i \in DOMAIN answers' : Replied(answers'[i])
    BY <1>1, ShorterIs
  <2>2. -1 \in -1 .. Len(Steps)
    BY <1>3
  <2> QED
    BY <1>1, <1>2, <2>1, <2>2 DEF LdType, Ends
<1>5. InOrderWrites' /\ EarlyOld'
  BY <1>1 DEF LdInv, InOrderWrites, EarlyOld, NonePending
<1>6. \A r \in Region : Steady(r)' => Steady(r)
  BY <1>1 DEF Steady
<1>7. KeepsNew'
  BY <1>1, <1>6 DEF LdInv, KeepsNew, NonePending
<1>8. AnswersNew'
  BY <1>1, <1>6, ShorterNew
<1>9. WrittenBefore' /\ Progress' /\ FlagsOff'
  <2>1. DOMAIN Steps = 1 .. Len(Steps)
    BY <1>1, StepsAre DEF LdType
  <2> QED
    BY <1>1, <1>2, <2>1 DEF WrittenBefore, Progress, FlagsOff
<1>10. ProgramOff'
  <2> SUFFICES ASSUME unit = "bcu2" PROVE ProgramOff'
    BY <1>1 DEF ProgramOff
  <2>1. ProgramOff
    BY DEF LdInv
  <2>2. PICK d \in {0, 1} : \A i \in DOMAIN answers' :
          i \in Nat /\ i + d \in DOMAIN answers /\ answers'[i] = answers[i + d]
    BY <1>1, ShorterIs
  <2> QED
    BY <1>1, <2>1, <2>2 DEF ProgramOff
<1>11. Stages'
  <2>1. (Idle /\ ~WillRun) \/ Halted \/ Complete
    <3>1. Stages /\ step \in -1 .. Len(Steps)
      BY <1>1 DEF LdInv, LdType
    <3> DEFINE n == Len(Steps)
    <3>2. n = 11 \/ n = 30
      BY <1>3
    <3>3. step \in -1 .. n
      BY <3>1
    <3> HIDE DEF n
    <3>4. step = -1 \/ step \in 0 .. LastIdle \/ step \in LastIdle + 1 .. n - 1 \/ step = n
      BY <1>3, <3>2, <3>3
    <3> QED
      BY <3>1, <3>4 DEF Stages, n
  <2>2. Has(Old)' = Has(Old) /\ Complete' = Complete /\ Runs' = Runs
    BY <1>1, <1>2 DEF Has, Complete, Runs
  <2>3. WillRun' = WillRun /\ (Idle => Idle')
    BY <1>1, <1>2, <2>2 DEF WillRun, Idle, NonePending
  <2>4. step' \notin 0 .. LastIdle' /\ step' \notin LastIdle' + 1 .. Len(Steps') - 1 /\ step' # Len(Steps')
    BY <1>1, <1>2, <1>3
  <2> QED
    BY <1>1, <2>1, <2>2, <2>3, <2>4 DEF Stages, Halted
<1> QED
  BY <1>4, <1>5, <1>7, <1>8, <1>9, <1>10, <1>11 DEF LdInv

LEMMA ConnectStep == LdInv /\ Connect => LdInv'
<1> SUFFICES ASSUME LdInv, Connect PROVE LdInv'
  OBVIOUS
<1>1. /\ step = 0 /\ step' = 1 /\ UNCHANGED <<phase, width, from, prev, failed, outcome, requests, answers>>
      /\ UNCHANGED <<unit, mem, state>> /\ LdType /\ phase = "begin" /\ outcome # "LOADED"
  BY DEF Connect, OtherUnchanged, device, LdInv, LdType
<1>2. Steps' = Steps /\ Used' = Used /\ ProgramRegions' = ProgramRegions /\ LastIdle' = LastIdle
  BY <1>1, SameSteps
<1>3. DOMAIN Steps = 1 .. Len(Steps) /\ Len(Steps) \in {11, 30} /\ LastIdle \in {2, 8}
  BY <1>1, StepsAre DEF LdType, LastIdle
<1>4. LdType'
  <2>1. 1 \in -1 .. Len(Steps)
    BY <1>3
  <2> QED
    BY <1>1, <1>2, <2>1 DEF LdType
<1>5. InOrderWrites' /\ KeepsNew' /\ AnswersNew' /\ EarlyOld'
  BY <1>1 DEF LdInv, InOrderWrites, KeepsNew, AnswersNew, EarlyOld, NonePending, NoNew, Steady
<1>6. WrittenBefore' /\ Progress'
  BY <1>1, <1>2, <1>3 DEF WrittenBefore, Progress
<1>7. FlagsOff' /\ ProgramOff'
  BY <1>1 DEF LdInv, FlagsOff, ProgramOff, NonePending
<1>8. Stages'
  <2>1. Stages /\ step \in 0 .. LastIdle
    BY <1>1, <1>3 DEF LdInv
  <2>2. Idle' = Idle /\ WillRun' = WillRun
    BY <1>1, <1>2 DEF Idle, WillRun, Has, NonePending
  <2>3. step' \notin LastIdle' + 1 .. Len(Steps') - 1 /\ step' # Len(Steps') /\ step' # -1
    <3> DEFINE n == Len(Steps)
    <3>1. n \in {11, 30} /\ Len(Steps') = n
      BY <1>2, <1>3
    <3> HIDE DEF n
    <3>2. 1 \notin LastIdle + 1 .. n - 1 /\ 1 # n
      BY <1>3, <3>1
    <3> QED
      BY <1>1, <1>2, <3>1, <3>2
  <2> QED
    BY <1>1, <2>1, <2>2, <2>3 DEF Stages
<1> QED
  BY <1>4, <1>5, <1>6, <1>7, <1>8 DEF LdInv

(* A step has succeeded.                                                   *)
StepPasses ==
  /\ Still /\ Shorter /\ requests' = requests /\ step > 0
  /\ IF step = Len(Steps) THEN step' = -1 /\ outcome' = "LOADED"
     ELSE step' = step + 1 /\ outcome' = outcome
  /\ phase' = "begin" /\ width' = Block /\ from' = 0 /\ prev' = <<>> /\ failed' \in BOOLEAN
  /\ S.region # "none" /\ S.value = New => All(S.region, New)
  /\ unit = "bcu1" /\ step = 2 =>
       /\ mem["flags"][1] = Initial
       /\ \A i \in DOMAIN answers' : OfFlags(answers'[i]) => answers'[i].data[1] = Initial
  /\ unit = "bcu2" /\ step = 8 => state[3] # "loaded"
  /\ unit = "bcu2" /\ step = 30 => state[3] = "loaded" /\ requests = <<>>

LEMMA PassedIs ==
  ASSUME LdInv, StepPasses
  PROVE  /\ unit' = unit /\ mem' = mem /\ state' = state /\ requests' = requests /\ phase' = "begin"
         /\ Steps' = Steps /\ Used' = Used /\ ProgramRegions' = ProgramRegions /\ LastIdle' = LastIdle
         /\ unit \in {"bcu1", "bcu2"} /\ step \in Nat /\ step > 0 /\ outcome # "LOADED"
         /\ unit = "bcu1" => /\ Len(Steps) = 11 /\ LastIdle = 2 /\ step \in 1 .. 11
                             /\ step < 11 => step' = step + 1 /\ outcome' = outcome
                             /\ step = 11 => step' = -1 /\ outcome' = "LOADED"
         /\ unit = "bcu2" => /\ Len(Steps) = 30 /\ LastIdle = 8 /\ step \in 1 .. 30
                             /\ step < 30 => step' = step + 1 /\ outcome' = outcome
                             /\ step = 30 => step' = -1 /\ outcome' = "LOADED"
<1>1. LdType /\ unit' = unit /\ mem' = mem /\ state' = state /\ requests' = requests /\ phase' = "begin" /\ step > 0
  BY DEF LdInv, StepPasses, Still
<1>2. Steps' = Steps /\ Used' = Used /\ ProgramRegions' = ProgramRegions /\ LastIdle' = LastIdle
  BY <1>1, SameSteps
<1>3. unit \in {"bcu1", "bcu2"} /\ outcome # "LOADED"
  BY <1>1 DEF LdType
<1>4. unit = "bcu1" => Len(Steps) = 11 /\ LastIdle = 2 /\ step \in 1 .. 11
  BY <1>1, StepAt DEF LastIdle
<1>5. unit = "bcu2" => Len(Steps) = 30 /\ LastIdle = 8 /\ step \in 1 .. 30
  BY <1>1, StepAt DEF LastIdle
<1>6. step \in Nat
  BY <1>3, <1>4, <1>5
<1> DEFINE n == Len(Steps)
<1>7. IF step = n THEN step' = -1 /\ outcome' = "LOADED" ELSE step' = step + 1 /\ outcome' = outcome
  BY DEF StepPasses
<1>8. (unit = "bcu1" => n = 11) /\ (unit = "bcu2" => n = 30)
  BY <1>4, <1>5
<1> HIDE DEF n
<1>9. /\ unit = "bcu1" => (step < 11 => step' = step + 1 /\ outcome' = outcome)
                          /\ (step = 11 => step' = -1 /\ outcome' = "LOADED")
      /\ unit = "bcu2" => (step < 30 => step' = step + 1 /\ outcome' = outcome)
                          /\ (step = 30 => step' = -1 /\ outcome' = "LOADED")
  BY <1>6, <1>7, <1>8
<1> QED
  BY <1>1, <1>2, <1>3, <1>4, <1>5, <1>6, <1>9

LEMMA PassedType ==
  ASSUME LdInv, StepPasses
  PROVE  LdType' /\ InOrderWrites' /\ EarlyOld' /\ Progress'
<1>1. LdType /\ InOrderWrites /\ EarlyOld
  BY DEF LdInv
<1>2. LdType'
  <2>1. answers' \in Seq(Asked) /\ \A i \in DOMAIN answers' : Replied(answers'[i])
    BY <1>1, ShorterIs DEF StepPasses
  <2>2. step' \in -1 .. Len(Steps) /\ (outcome' = "LOADED" => step' = -1)
    <3>1. CASE unit = "bcu1"
      <4>1. step \in 1 .. 11 /\ (step < 11 => step' = step + 1) /\ (step = 11 => step' = -1)
        BY <3>1, PassedIs
      <4>2. step' \in -1 .. 11 /\ (step < 11 \/ step = 11)
        BY <4>1
      <4>3. step' \in -1 .. Len(Steps)
        BY <3>1, <4>2, PassedIs
      <4>4. outcome' = "LOADED" => step' = -1
        BY <3>1, <4>2, PassedIs
      <4> QED
        BY <4>3, <4>4
    <3>2. CASE unit = "bcu2"
      <4>1. step \in 1 .. 30 /\ (step < 30 => step' = step + 1) /\ (step = 30 => step' = -1)
        BY <3>2, PassedIs
      <4>2. step' \in -1 .. 30 /\ (step < 30 \/ step = 30)
        BY <4>1
      <4>3. step' \in -1 .. Len(Steps)
        BY <3>2, <4>2, PassedIs
      <4>4. outcome' = "LOADED" => step' = -1
        BY <3>2, <4>2, PassedIs
      <4> QED
        BY <4>3, <4>4
    <3> QED
      BY <3>1, <3>2, PassedIs
  <2>3. width' \in {Block, Small} /\ from' \in Nat /\ prev' \in Seq(Contents) /\ failed' \in BOOLEAN
    BY DEF StepPasses
  <2> QED
    BY <1>1, <2>1, <2>2, <2>3, PassedIs DEF LdType
<1>3. InOrderWrites'
  BY <1>1, PassedIs DEF InOrderWrites
<1>4. EarlyOld'
  <2>1. unit = "bcu1" /\ step' \in 0 .. 4 => step \in 0 .. 4
    <3> SUFFICES ASSUME unit = "bcu1", step' \in 0 .. 4 PROVE step \in 0 .. 4
      OBVIOUS
    <3>1. step \in 1 .. 11 /\ (step < 11 => step' = step + 1) /\ (step = 11 => step' = -1)
      BY PassedIs
    <3> QED
      BY <3>1
  <2> QED
    BY <1>1, <2>1, PassedIs DEF EarlyOld, NonePending, NoNew
<1>5. Progress'
  BY PassedIs DEF Progress
<1> QED
  BY <1>2, <1>3, <1>4, <1>5

LEMMA PassedKeeps ==
  ASSUME LdInv, StepPasses
  PROVE  KeepsNew' /\ AnswersNew' /\ WrittenBefore' /\ FlagsOff' /\ ProgramOff'
<1>1. LdType /\ KeepsNew /\ AnswersNew /\ WrittenBefore /\ FlagsOff /\ ProgramOff /\ Shorter /\ Still
  BY DEF LdInv, StepPasses
<1>2. PICK d \in {0, 1} : \A i \in DOMAIN answers' :
        i \in Nat /\ i + d \in DOMAIN answers /\ answers'[i] = answers[i + d]
  BY <1>1, ShorterIs
<1>3. New # Initial
  BY DEF New, Initial
(* When the flags begin to count, none of them is New. *)
<1>4. ASSUME NEW r \in Region, r # "flags" \/ (unit' = "bcu1" /\ (step' = 11 \/ outcome' = "LOADED")), ~Steady(r)
      PROVE  /\ r = "flags" /\ mem["flags"][1] = Initial
             /\ \A i \in DOMAIN answers' : OfFlags(answers'[i]) => answers'[i].data[1] = Initial
  <2>1. r = "flags" /\ unit = "bcu1" /\ (step' = 11 \/ outcome' = "LOADED") /\ step # 11
    BY <1>4, PassedIs DEF Steady
  <2>2. step = 10
    <3>1. step \in 1 .. 10 /\ (step < 11 => step' = step + 1 /\ outcome' = outcome) /\ outcome # "LOADED"
      BY <2>1, PassedIs
    <3> QED
      BY <2>1, <3>1
  <2> QED
    BY <1>1, <1>2, <2>1, <2>2 DEF FlagsOff
<1>5. KeepsNew'
  <2>1. ASSUME NEW r \in Region, NEW c \in 1 .. Cells[r], mem[r][c] = New,
               r # "flags" \/ (unit' = "bcu1" /\ (step' = 11 \/ outcome' = "LOADED"))
        PROVE  NonePending(r, Initial)
    <3>1. CASE Steady(r)
      BY <1>1, <2>1, <3>1 DEF KeepsNew
    <3>2. CASE ~Steady(r)
      <4>1. r = "flags" /\ mem["flags"][1] = Initial
        BY <1>4, <2>1, <3>2
      <4>2. c = 1
        BY <2>1, <4>1, Numbers
      <4> QED
        BY <1>3, <2>1, <4>1, <4>2
    <3> QED
      BY <3>1, <3>2
  <2> QED
    BY <2>1, PassedIs DEF KeepsNew, Steady, NonePending
<1>6. AnswersNew'
  <2>1. ASSUME NEW j \in DOMAIN answers', NEW i \in 1 .. answers'[j].n,
               answers'[j].ask = "read", answers'[j].data[i] = New,
               answers'[j].obj # "flags" \/ (unit' = "bcu1" /\ (step' = 11 \/ outcome' = "LOADED"))
        PROVE  mem'[answers'[j].obj][answers'[j].at + i] = New
    <3>1. j + d \in DOMAIN answers /\ answers'[j] = answers[j + d]
      BY <1>2
    <3>2. Replied(answers'[j])
      BY <1>1, <3>1 DEF LdType
    <3>3. answers'[j].obj \in Region
      BY <2>1, <3>2 DEF Replied, InRegion
    <3>4. CASE answers'[j].obj # "flags" \/ (unit = "bcu1" /\ (step = 11 \/ outcome = "LOADED"))
      BY <1>1, <2>1, <3>1, <3>4, PassedIs DEF AnswersNew, Steady
    <3>5. CASE ~(answers'[j].obj # "flags" \/ (unit = "bcu1" /\ (step = 11 \/ outcome = "LOADED")))
      <4>1. OfFlags(answers'[j]) /\ "flags" \in Region /\ ~Steady("flags")
        BY <2>1, <3>3, <3>5 DEF OfFlags, Steady
      <4>2. answers'[j].data[1] = Initial
        BY <1>4, <2>1, <4>1 DEF OfFlags
      <4>3. answers'[j].at \in Nat /\ answers'[j].n \in Nat /\ answers'[j].at + answers'[j].n <= 1
        BY <3>2, <4>1, Numbers DEF Replied, InRegion, OfFlags, Asked
      <4>4. i = 1
        BY <2>1, <4>3
      <4> QED
        BY <1>3, <2>1, <4>2, <4>4
    <3> QED
      BY <3>4, <3>5
  <2> QED
    BY <2>1 DEF AnswersNew, Steady
<1>7. WrittenBefore'
  <2>1. ASSUME NEW k \in DOMAIN Steps, k < step', Steps[k].region \notin {"none", "flags"}, Steps[k].value = New
        PROVE  All(Steps[k].region, New)
    <3>1. k \in Nat /\ step \in Nat /\ (step' = step + 1 \/ step' = -1)
      <4>1. DOMAIN Steps = 1 .. Len(Steps)
        BY <1>1, StepsAre DEF LdType
      <4> QED
        BY <4>1, PassedIs DEF StepPasses
    <3>2. k < step \/ k = step
      BY <2>1, <3>1
    <3>3. CASE k < step
      BY <1>1, <2>1, <3>3 DEF WrittenBefore
    <3>4. CASE k = step
      BY <2>1, <3>4 DEF StepPasses, S
    <3> QED
      BY <3>2, <3>3, <3>4
  <2> QED
    BY <2>1, PassedIs DEF WrittenBefore, All
<1>8. FlagsOff'
  <2> SUFFICES ASSUME unit = "bcu1", step' \in 0 .. 10 PROVE FlagsOff'
    BY PassedIs DEF FlagsOff
  <2>1. step \in 1 .. 9 /\ step' = step + 1
    <3>1. step \in 1 .. 11 /\ (step < 11 => step' = step + 1) /\ (step = 11 => step' = -1)
      BY PassedIs
    <3> QED
      BY <3>1
  <2>2. NonePending("flags", New)'
    BY <1>1, <2>1, PassedIs DEF FlagsOff, NonePending
  <2>3. step' > 2 => step = 2 \/ step > 2
    BY <2>1
  <2>4. step' > 2 => /\ mem'["flags"][1] = Initial
                     /\ \A i \in DOMAIN answers' : OfFlags(answers'[i]) => answers'[i].data[1] = Initial
    <3>1. CASE step = 2
      BY <3>1, PassedIs DEF StepPasses
    <3>2. CASE step > 2
      BY <1>1, <2>1, <3>2, ShorterFlags
    <3> QED
      BY <2>3, <3>1, <3>2
  <2> QED
    BY <1>1, <2>1, <2>2, <2>4, ShorterFlags DEF FlagsOff
<1>9. ProgramOff'
  <2> SUFFICES ASSUME unit = "bcu2" PROVE ProgramOff'
    BY PassedIs DEF ProgramOff
  <2>1. step \in 1 .. 30 /\ (step < 30 => step' = step + 1) /\ (step = 30 => step' = -1)
    BY PassedIs
  <2>2. step # -1 /\ (step = 30 => step' = -1) /\ (step' \in 0 .. 8 => step \in 0 .. 8)
    BY <2>1
  <2> QED
    BY <1>1, <1>2, <2>2, PassedIs DEF ProgramOff
<1> QED
  BY <1>5, <1>6, <1>7, <1>8, <1>9

LEMMA PassedStages ==
  ASSUME LdInv, StepPasses
  PROVE  Stages'
<1>1. LdType /\ Stages
  BY DEF LdInv
<1>2. Complete' = Complete /\ Runs' = Runs /\ Idle' = Idle /\ WillRun' = WillRun /\ Halted' = Halted
  BY PassedIs DEF Has, Complete, Runs, Idle, WillRun, Halted, NonePending
<1> DEFINE n == Len(Steps)
<1>3. /\ n \in {11, 30} /\ LastIdle \in {2, 8} /\ step \in 1 .. n /\ (n = 11 <=> unit = "bcu1") /\ (LastIdle = 2 <=> unit = "bcu1")
      /\ (step < n => step' = step + 1 /\ outcome' = outcome)
      /\ (step = n => step' = -1 /\ outcome' = "LOADED")
  <2>1. CASE unit = "bcu1"
    BY <2>1, PassedIs
  <2>2. CASE unit = "bcu2"
    <3>1. /\ n = 30 /\ LastIdle = 8 /\ step \in 1 .. 30
          /\ step < 30 => step' = step + 1 /\ outcome' = outcome
          /\ step = 30 => step' = -1 /\ outcome' = "LOADED"
      BY <2>2, PassedIs
    <3> HIDE DEF n
    <3> QED
      BY <2>2, <3>1
  <2> QED
    BY <2>1, <2>2, PassedIs
<1>4. /\ Len(Steps') = n /\ LastIdle' = LastIdle /\ outcome # "LOADED"
  BY PassedIs
<1> HIDE DEF n
<1>5. /\ step' \in 0 .. LastIdle => step \in 0 .. LastIdle
      /\ step' \in LastIdle + 1 .. n - 1 => step = LastIdle \/ step \in LastIdle + 1 .. n - 1
      /\ step' = n => step = n - 1
      /\ step' = -1 => step = n
      /\ outcome' = "LOADED" => step = n
  <2>1. step < n \/ step = n
    BY <1>3
  <2>2. CASE step < n
    BY <1>3, <1>4, <2>2
  <2>3. CASE step = n
    BY <1>3, <2>3
  <2> QED
    BY <2>1, <2>2, <2>3
<1>6. step' \in 0 .. LastIdle => Idle /\ ~WillRun
  BY <1>1, <1>5 DEF Stages
<1>7. step' \in LastIdle + 1 .. n - 1 => Halted
  <2>1. step \in LastIdle + 1 .. n - 1 => Halted
    BY <1>1 DEF Stages, n
  <2>2. ASSUME step = LastIdle PROVE Halted
    <3>1. ~WillRun
      <4>1. step \in 0 .. LastIdle
        BY <1>3, <2>2
      <4> QED
        BY <1>1, <4>1 DEF Stages
    <3>2. CASE unit = "bcu1"
      <4>1. mem["flags"][1] = Initial
        BY <1>3, <2>2, <3>2 DEF StepPasses
      <4> QED
        BY <1>1, <3>1, <3>2, <4>1, RunsIs DEF Halted, New, Initial
    <3>3. CASE unit # "bcu1"
      <4>1. state[3] # "loaded"
        BY <1>3, <2>2, <3>3, PassedIs DEF StepPasses
      <4> QED
        BY <3>1, <3>3, <4>1 DEF Halted, Runs
    <3> QED
      BY <3>2, <3>3
  <2> QED
    BY <1>5, <2>1, <2>2
<1>8. step' = n => Complete
  <2> SUFFICES ASSUME step' = n, NEW r \in ProgramRegions, NEW c \in DOMAIN mem[r] PROVE mem[r][c] = New
    BY DEF Complete, Has, ProgramRegions
  <2>1. PICK k \in DOMAIN Steps : k < n /\ Steps[k].region = r /\ Steps[k].value = New
    BY PassedIs, ProgramWritten DEF n
  <2>2. r \in Region /\ r \notin {"none", "flags"}
    BY PassedIs, ProgramWritten DEF ProgramRegions, Used
  <2>3. WrittenBefore'
    BY PassedKeeps
  <2>4. c \in 1 .. Cells[r]
    BY <1>1, <2>2 DEF LdType
  <2> QED
    BY <2>1, <2>2, <2>3, <2>4, PassedIs DEF WrittenBefore, All
<1>9. step = n => Complete /\ Runs /\ (unit = "bcu2" => requests = <<>>)
  <2> SUFFICES ASSUME step = n PROVE Complete /\ Runs /\ (unit = "bcu2" => requests = <<>>)
    OBVIOUS
  <2>1. Complete
    BY <1>1 DEF Stages, n
  <2>2. CASE unit = "bcu1"
    <3>1. step = 11
      BY <1>3, <2>2
    <3>2. S.region = "flags" /\ S.value \in {New, Initial} /\ S.value # Initial
      BY <1>1, <2>2, <3>1, StepAt DEF Formed
    <3>3. mem["flags"][1] = New
      BY <3>2, Numbers DEF StepPasses, All
    <3> QED
      BY <1>1, <2>1, <2>2, <3>3, RunsIs
  <2>3. CASE unit # "bcu1"
    <3>1. step = 30 /\ unit = "bcu2"
      BY <1>3, <2>3, PassedIs
    <3> QED
      BY <2>1, <2>3, <3>1 DEF StepPasses, Runs
  <2> QED
    BY <2>2, <2>3
<1>10. unit' = unit /\ requests' = requests
  BY PassedIs
<1> QED
  BY <1>2, <1>4, <1>5, <1>6, <1>7, <1>8, <1>9, <1>10 DEF Stages

LEMMA PassStep ==
  ASSUME LdInv, StepPasses
  PROVE  LdInv'
BY PassedType, PassedKeeps, PassedStages DEF LdInv

LEMMA GoesOn ==
  ASSUME LdInv, StepSends, phase' \in {"read", "verify", "control"}, width' \in {Block, Small},
         from' \in Nat, prev' \in Seq(Contents), failed' \in BOOLEAN, Progress'
  PROVE  LdInv'
<1>1. LdType'
  <2>1. LdType /\ step' = step /\ outcome' = outcome /\ unit' = unit /\ mem' = mem /\ state' = state /\ step > 0
    BY DEF LdInv, StepSends, Still
  <2>2. answers' \in Seq(Asked) /\ \A i \in DOMAIN answers' : Replied(answers'[i])
    BY <2>1, ShorterIs DEF StepSends
  <2>3. requests' \in Seq(Asked) /\ \A i \in DOMAIN requests' : RequestTyped(requests'[i])
    BY DEF StepSends
  <2>4. Steps' = Steps /\ ~(step < 1)
    BY <2>1, SentIs DEF LdType
  <2> QED
    BY <2>1, <2>2, <2>3, <2>4 DEF LdType
<1> QED
  BY <1>1, SentWrites, SentRest, SentStages DEF LdInv

LEMMA Joins ==
  ASSUME NEW T, NEW s \in Seq(T), NEW t \in Seq(T)
  PROVE  /\ s \o t \in Seq(T) /\ Len(s \o t) = Len(s) + Len(t) /\ Len(s) \in Nat /\ Len(t) \in Nat
         /\ \A i \in 1 .. Len(s) : (s \o t)[i] = s[i]
         /\ \A i \in 1 .. Len(t) : (s \o t)[Len(s) + i] = t[i]
OBVIOUS

LEMMA SendsAll ==
  ASSUME LdType, NEW reqs \in Seq(Asked), Send(reqs),
         \A i \in 1 .. Len(reqs) : RequestTyped(reqs[i]) /\ OfStep(reqs[i])
  PROVE  /\ requests' \in Seq(Asked) /\ Len(requests) <= Len(requests')
         /\ \A i \in DOMAIN requests' : RequestTyped(requests'[i])
         /\ \A i \in DOMAIN requests' :
              IF i <= Len(requests) THEN requests'[i] = requests[i] ELSE OfStep(requests'[i])
         /\ Len(requests') <= Len(requests) + Len(reqs)
<1>1. requests \in Seq(Asked) /\ \A i \in DOMAIN requests : RequestTyped(requests[i])
  BY DEF LdType
<1>2. Len(requests) \in Nat /\ Len(reqs) \in Nat /\ DOMAIN requests = 1 .. Len(requests)
  BY <1>1
<1>3. CASE requests' = requests
  BY <1>1, <1>2, <1>3
<1>4. CASE requests' = requests \o reqs
  <2>1. /\ requests' \in Seq(Asked) /\ Len(requests') = Len(requests) + Len(reqs)
        /\ \A i \in 1 .. Len(requests) : requests'[i] = requests[i]
        /\ \A i \in 1 .. Len(reqs) : requests'[Len(requests) + i] = reqs[i]
    BY <1>1, <1>4, Joins
  <2>2. DOMAIN requests' = 1 .. Len(requests')
    BY <2>1
  <2>3. ASSUME NEW i \in DOMAIN requests', i > Len(requests)
        PROVE  RequestTyped(requests'[i]) /\ OfStep(requests'[i])
    <3>1. i - Len(requests) \in 1 .. Len(reqs) /\ Len(requests) + (i - Len(requests)) = i
      BY <1>2, <2>1, <2>2, <2>3
    <3> QED
      BY <2>1, <3>1
  <2>4. ASSUME NEW i \in DOMAIN requests', i <= Len(requests)
        PROVE  RequestTyped(requests'[i]) /\ requests'[i] = requests[i]
    BY <1>1, <1>2, <2>1, <2>2, <2>4
  <2>5. \A i \in DOMAIN requests' : i \in Nat
    BY <2>1, <2>2
  <2>6. \A i \in DOMAIN requests' : i <= Len(requests) \/ i > Len(requests)
    BY <1>2, <2>5
  <2> QED
    BY <1>2, <2>1, <2>3, <2>4, <2>6
<1> QED
  BY <1>3, <1>4 DEF Send

LEMMA OneOrTwo ==
  ASSUME NEW T, NEW a \in T, NEW b \in T
  PROVE  /\ <<a>> \in Seq(T) /\ Len(<<a>>) = 1 /\ \A i \in 1 .. Len(<<a>>) : <<a>>[i] = a
         /\ <<a, b>> \in Seq(T) /\ Len(<<a, b>>) = 2
         /\ \A i \in 1 .. Len(<<a, b>>) : <<a, b>>[i] \in {a, b}
OBVIOUS

LEMMA ReadAsked ==
  ASSUME NEW r \in Region, NEW at \in Nat, NEW n \in Nat, at + n <= Cells[r], n > 0 \/ Cells[r] = 0
  PROVE  RequestTyped(ReadRequest(r, at, n)) /\ ReadRequest(r, at, n) \in Asked /\ OfStep(ReadRequest(r, at, n))
<1>1. <<>> \in Seq(Contents)
  OBVIOUS
<1> QED
  BY <1>1 DEF RequestTyped, ReadRequest, Asked, OfStep, InRegion, StateAsks

LEMMA ControlAsked ==
  ASSUME NEW s, Formed(s), s = S, s.ask # "none"
  PROVE  RequestTyped(ControlRequest(s)) /\ ControlRequest(s) \in Asked /\ OfStep(ControlRequest(s))
<1>1. <<>> \in Seq(Contents)
  OBVIOUS
<1>2. s.ask \in StateAsks \cup OtherAsks /\ s.ask \notin {"read", "write"}
  BY DEF Formed, StateAsks, OtherAsks
<1>3. ControlRequest(s) \in Asked
  BY <1>1, <1>2 DEF ControlRequest, Asked, Formed
<1> QED
  BY <1>2, <1>3 DEF RequestTyped, ControlRequest, OfStep, Formed

LEMMA WriteAsked ==
  ASSUME NEW at \in Nat, NEW n \in Nat, n > 0, S.region \in Region, at + n <= Cells[S.region],
         S.value \in {New, Initial}, NEW d, d = [l \in 1 .. n |-> S.value]
  PROVE  /\ RequestTyped(WriteRequest(S.region, at, d)) /\ WriteRequest(S.region, at, d) \in Asked
         /\ OfStep(WriteRequest(S.region, at, d))
<1>1. d \in Seq(Contents) /\ Len(d) = n /\ d[1] = S.value /\ \A i \in 1 .. n : d[i] = S.value
  BY DEF Contents
<1>2. WriteRequest(S.region, at, d) \in Asked
  BY <1>1 DEF WriteRequest, Asked
<1> QED
  BY <1>1, <1>2 DEF RequestTyped, WriteRequest, OfStep, InRegion, StateAsks

(* A block is read next.                                                   *)
LEMMA ChunkIs ==
  ASSUME NEW l \in Nat, NEW w \in {Block, Small}, NEW at \in Nat, at < l \/ at = 0
  PROVE  /\ Least(w, l - at) \in Nat /\ at + Least(w, l - at) <= l
         /\ Least(w, l - at) > 0 \/ l = 0
         /\ IF at + w < l THEN Least(w, l - at) = w ELSE at + Least(w, l - at) = l
<1>1. w \in Nat /\ w > 0
  BY Numbers
<1> QED
  BY <1>1 DEF Least

LEMMA ReadsOn ==
  ASSUME LdInv, Still, Shorter, step > 0, step' = step, outcome' = outcome, unit = "bcu2" => step # 30,
         S.region \in Region, ReadNext, width' \in {Block, Small}, from' \in Nat, from' < Length \/ from' = 0,
         prev' \in Seq(Contents), Len(prev') = from', failed' \in BOOLEAN,
         S.value = New => \A i \in DOMAIN prev' : prev'[i] = New => mem[S.region][i] = New
  PROVE  LdInv'
<1> DEFINE n == Least(width', Length - from')
           q == ReadRequest(S.region, from', n)
<1>1. LdType /\ unit' = unit /\ mem' = mem
  BY DEF LdInv, Still
<1>2. Length \in Nat /\ Length = Cells[S.region]
  BY Numbers DEF Length
<1>3. n \in Nat /\ from' + n <= Cells[S.region] /\ (n > 0 \/ Cells[S.region] = 0)
  BY <1>2, ChunkIs
<1>4. Send(<<q>>) /\ phase' = "read"
  BY DEF ReadNext
<1> HIDE DEF n
<1>5. RequestTyped(q) /\ q \in Asked /\ OfStep(q)
  BY <1>3, ReadAsked
<1> HIDE DEF q
<1>6. <<q>> \in Seq(Asked) /\ \A i \in 1 .. Len(<<q>>) : RequestTyped(<<q>>[i]) /\ OfStep(<<q>>[i])
  BY <1>5, OneOrTwo
<1>7. StepSends
  BY <1>1, <1>4, <1>6, SendsAll DEF StepSends
<1>8. S' = S
  BY <1>1, <1>7, SentIs
<1>9. Progress'
  <2>1. "none" \notin Region
    BY DEF Region
  <2> QED
    BY <1>1, <1>4, <1>8, <2>1 DEF Progress, Length
<1> QED
  BY <1>4, <1>7, <1>9, GoesOn

LEMMA BeginsRegion ==
  ASSUME LdInv, Still, Shorter, step > 0, BeginRegion, S.region \in Region, unit = "bcu2" => step # 30
  PROVE  LdInv'
<1>1. /\ from' = 0 /\ width' = Block /\ prev' = <<>> /\ failed' = FALSE /\ ReadNext
      /\ step' = step /\ outcome' = outcome
  BY DEF BeginRegion
<1>2. prev' \in Seq(Contents) /\ Len(prev') = 0 /\ DOMAIN prev' = {}
  BY <1>1
<1> QED
  BY <1>1, <1>2, ReadsOn

LEMMA EndsOut ==
  ASSUME LdInv, Still, Shorter, step > 0, Out, requests' = requests, failed' \in BOOLEAN
  PROVE  LdInv'
<1>1. /\ step' = -1 /\ outcome' = Steps[step].error /\ phase' = "begin" /\ width' = Block /\ from' = 0
      /\ prev' = <<>>
  BY DEF Out
<1>2. Formed(S) /\ S = Steps[step]
  BY StepAt DEF LdInv, S
<1>3. outcome' # "LOADED"
  BY <1>1, <1>2 DEF Formed
<1>4. prev' \in Seq(Contents)
  BY <1>1
<1>5. Ends
  BY <1>1, <1>3, <1>4 DEF Ends
<1> QED
  BY <1>5, EndStep

LEMMA RegionSteady ==
  ASSUME LdType, step > 0, S.region \in Region, S.value = New
  PROVE  Steady(S.region)
<1> SUFFICES ASSUME S.region = "flags" PROVE Steady(S.region)
  BY DEF Steady
<1>1. unit \in {"bcu1", "bcu2"} /\ New # Initial
  BY DEF LdType, New, Initial
<1>2. unit = "bcu1"
  BY <1>1, StepAt
<1>3. step \in {2, 11} /\ step \notin {2, 3, 4}
  BY <1>1, <1>2, StepAt
<1> QED
  BY <1>2, <1>3 DEF Steady

(* The flags are heard to be reset.                                        *)
FlagsAreReset ==
  unit = "bcu1" /\ step = 2 =>
    /\ mem["flags"][1] = Initial
    /\ \A i \in DOMAIN answers' : OfFlags(answers'[i]) => answers'[i].data[1] = Initial

LEMMA FlagsHeard ==
  ASSUME LdInv, unit = "bcu1", step = 2, answers # <<>>, answers' = Tail(answers),
         OfFlags(Head(answers)), Head(answers).data[1] = Initial
  PROVE  FlagsAreReset
<1>1. FlagsOff /\ answers \in Seq(Asked)
  BY DEF LdInv, LdType
<1>2. /\ 1 \in DOMAIN answers /\ Head(answers) = answers[1] /\ DOMAIN answers' = 1 .. Len(answers) - 1
      /\ Len(answers) \in Nat
      /\ \A i \in DOMAIN answers' : i + 1 \in DOMAIN answers /\ answers'[i] = answers[i + 1]
  BY <1>1, TailIs
<1>3. \A i \in DOMAIN answers' : 1 < i + 1
  BY <1>2
<1>4. /\ mem["flags"][1] = Initial
      /\ \A j \in DOMAIN answers : 1 < j /\ OfFlags(answers[j]) => answers[j].data[1] = Initial
  BY <1>1, <1>2 DEF FlagsOff
<1> QED
  BY <1>2, <1>3, <1>4 DEF FlagsAreReset

(* What is to be written: the first open cell, and as far as it goes.      *)
LEMMA RunIs ==
  ASSUME NEW l \in Nat, NEW open \in SUBSET Nat, \A k \in open : k < l, NEW k \in open
  PROVE  \E n \in 1 .. Block : (\A j \in k .. k + n - 1 : j \in open) /\ (n = Block \/ k + n \notin open)
<1> DEFINE M == {m \in Nat : m > 0 /\ k + m \notin open}
<1>1. k \in Nat /\ k < l /\ Block \in Nat /\ Block > 0
  BY Numbers
<1>2. l - k \in M
  BY <1>1
<1>3. PICK m \in M : \A i \in M : m <= i
  <2>1. M \in SUBSET Nat /\ M # {}
    BY <1>2
  <2> HIDE DEF M
  <2> QED
    BY <2>1, LeastNatural
<1>4. m \in Nat /\ m > 0 /\ k + m \notin open
  OBVIOUS
<1>5. ASSUME NEW j \in k .. k + m - 1 PROVE j \in open
  <2>1. j = k \/ (j - k \in Nat /\ j - k > 0 /\ k + (j - k) = j /\ ~(m <= j - k))
    BY <1>1, <1>4
  <2> QED
    BY <1>3, <2>1
<1>6. CASE m <= Block
  <2>1. m \in 1 .. Block
    BY <1>1, <1>4, <1>6
  <2> QED
    BY <1>4, <1>5, <2>1
<1>7. CASE m > Block
  <2>1. Block \in 1 .. Block /\ \A j \in k .. k + Block - 1 : j \in k .. k + m - 1
    BY <1>1, <1>4, <1>7
  <2> QED
    BY <1>5, <2>1
<1> QED
  BY <1>1, <1>4, <1>6, <1>7

LEMMA WritesOn ==
  ASSUME LdInv, Still, Shorter, step > 0, unit = "bcu2" => step # 30, S.region \in Region,
         NEW p \in Seq(Contents), Len(p) = Length, NEW i \in Nat, failed' \in BOOLEAN,
         S.value = New => \A j \in DOMAIN p : p[j] = New => mem[S.region][j] = New,
         S.value = New => failed' \/ \A j \in 1 .. i : mem[S.region][j] = New,
         ~failed' /\ (\A k \in i .. Length - 1 : ~Differs(p, k)) => FlagsAreReset,
         WriteFrom(p, i)
  PROVE  LdInv'
<1> DEFINE open == {k \in i .. Length - 1 : Differs(p, k)}
<1>1. LdType /\ unit' = unit /\ mem' = mem
  BY DEF LdInv, Still
<1>2. Length \in Nat /\ Length = Cells[S.region] /\ "none" \notin Region
  BY Numbers DEF Length, Region
<1>3. DOMAIN p = 1 .. Length
  BY <1>2
<1>4. CASE open = {}
  <2>1. (IF failed' THEN Out ELSE Continue) /\ requests' = requests
    BY <1>4 DEF WriteFrom
  <2>2. CASE failed'
    BY <2>1, <2>2, EndsOut
  <2>3. CASE ~failed'
    <3>1. \A k \in i .. Length - 1 : ~Differs(p, k)
      BY <1>4
    <3>2. ASSUME S.value = New, NEW c \in 1 .. Cells[S.region] PROVE mem[S.region][c] = New
      <4>1. CASE c <= i
        BY <1>2, <2>3, <3>2, <4>1
      <4>2. CASE c > i
        <5>1. c - 1 \in i .. Length - 1 /\ (c - 1) + 1 = c /\ c \in DOMAIN p
          BY <1>2, <1>3, <4>2
        <5>2. p[c] = New
          BY <3>1, <3>2, <5>1 DEF Differs
        <5> QED
          BY <3>2, <5>1, <5>2
      <4> QED
        BY <4>1, <4>2
    <3>3. FlagsAreReset
      BY <2>3, <3>1
    <3>4. /\ step' = (IF step = Len(Steps) THEN -1 ELSE step + 1)
          /\ outcome' = (IF step = Len(Steps) THEN "LOADED" ELSE outcome)
          /\ phase' = "begin" /\ width' = Block /\ from' = 0 /\ prev' = <<>>
      BY <2>1, <2>3 DEF Continue
    <3>5. unit = "bcu2" => step # 8 /\ step # 30
      BY <1>1, <1>2, StepAt
    <3>6. StepPasses
      BY <2>1, <3>2, <3>3, <3>4, <3>5 DEF StepPasses, All, FlagsAreReset
    <3> QED
      BY <3>6, PassStep
  <2> QED
    BY <2>2, <2>3
<1>5. CASE open # {}
  <2> DEFINE k == CHOOSE k \in open : \A l \in open : k <= l
  <2>1. k \in open /\ \A l \in open : k <= l
    <3>1. open \in SUBSET Nat
      OBVIOUS
    <3> HIDE DEF open
    <3> QED
      BY <1>5, <3>1, LeastNatural
  <2>2. k \in Nat /\ i <= k /\ k < Length /\ open \in SUBSET Nat /\ \A l \in open : l < Length
    BY <1>2, <2>1
  <2> DEFINE n == CHOOSE n \in 1 .. Block :
                    /\ \A l \in k .. k + n - 1 : l \in open
                    /\ n = Block \/ k + n \notin open
  <2>3. /\ from' = k /\ phase' = "verify" /\ prev' = p
        /\ Send(<<WriteRequest(S.region, k, [l \in 1 .. n |-> S.value]), ReadRequest(S.region, k, n)>>)
        /\ step' = step /\ width' = width /\ outcome' = outcome
    BY <1>5 DEF WriteFrom
  <2> HIDE DEF k, open
  <2>4. \E m \in 1 .. Block : (\A j \in k .. k + m - 1 : j \in open) /\ (m = Block \/ k + m \notin open)
    BY <1>2, <2>1, <2>2, RunIs
  <2>5. n \in 1 .. Block /\ \A j \in k .. k + n - 1 : j \in open
    BY <2>4
  <2> HIDE DEF n
  <2>6. n \in Nat /\ n > 0 /\ k + n - 1 \in k .. k + n - 1 /\ k + n - 1 < Length
    <3>1. n \in Nat /\ n > 0
      BY <2>5, Numbers
    <3>2. k + n - 1 \in k .. k + n - 1
      BY <2>2, <3>1
    <3> QED
      BY <2>2, <2>5, <3>1, <3>2
  <2>7. k + n <= Cells[S.region]
    BY <1>2, <2>2, <2>6
  <2> DEFINE d == [l \in 1 .. n |-> S.value]
             w == WriteRequest(S.region, k, d)
             q == ReadRequest(S.region, k, n)
  <2>8. S.value \in {New, Initial}
    BY <1>1, StepAt DEF Formed
  <2>9. RequestTyped(w) /\ w \in Asked /\ OfStep(w)
    BY <2>2, <2>6, <2>7, <2>8, WriteAsked
  <2>10. RequestTyped(q) /\ q \in Asked /\ OfStep(q)
    BY <2>2, <2>6, <2>7, ReadAsked
  <2>11. Send(<<w, q>>)
    BY <2>3
  <2> HIDE DEF w, q, d
  <2>12. <<w, q>> \in Seq(Asked) /\ \A j \in 1 .. Len(<<w, q>>) : RequestTyped(<<w, q>>[j]) /\ OfStep(<<w, q>>[j])
    <3>1. <<w, q>> \in Seq(Asked) /\ \A j \in 1 .. Len(<<w, q>>) : <<w, q>>[j] \in {w, q}
      BY <2>9, <2>10, OneOrTwo
    <3> QED
      BY <2>9, <2>10, <3>1
  <2>13. StepSends
    BY <1>1, <2>3, <2>11, <2>12, SendsAll DEF StepSends
  <2>14. S' = S
    BY <2>13, SentIs
  <2>15. ASSUME S.value = New, ~failed', NEW j \in 1 .. k PROVE mem[S.region][j] = New
    <3>1. CASE j <= i
      BY <2>2, <2>15, <3>1
    <3>2. CASE j > i
      <4>1. j - 1 \in i .. Length - 1 /\ j - 1 < k /\ (j - 1) + 1 = j /\ j \in DOMAIN p
        BY <1>2, <1>3, <2>2, <3>2
      <4>2. j - 1 \notin open
        BY <2>1, <2>2, <4>1
      <4>3. p[j] = New
        BY <2>15, <4>1, <4>2 DEF open, Differs
      <4> QED
        BY <2>15, <4>1, <4>3
    <3> QED
      BY <2>2, <3>1, <3>2
  <2>16. Progress'
    BY <1>1, <1>2, <2>2, <2>3, <2>14, <2>15 DEF Progress, Length
  <2>17. width' \in {Block, Small} /\ from' \in Nat /\ prev' \in Seq(Contents)
    BY <1>1, <2>2, <2>3 DEF LdType
  <2> QED
    BY <2>3, <2>13, <2>16, <2>17, GoesOn
<1> QED
  BY <1>4, <1>5

LEMMA NothingHeard ==
  ASSUME NEW q, NoAnswer(q)
  PROVE  Shorter
BY DEF NoAnswer, Shorter

LEMMA AnswerTaken ==
  ASSUME LdType, NEW q, Answer(q)
  PROVE  /\ answers # <<>> /\ answers' = Tail(answers) /\ Fits(Head(answers), q) /\ Shorter
         /\ Replied(Head(answers)) /\ Head(answers) = answers[1] /\ 1 \in DOMAIN answers
<1>1. answers # <<>> /\ answers' = Tail(answers) /\ Fits(Head(answers), q)
  BY DEF Answer
<1>2. answers \in Seq(Asked) /\ \A i \in DOMAIN answers : Replied(answers[i])
  BY DEF LdType
<1>3. Head(answers) = answers[1] /\ 1 \in DOMAIN answers
  BY <1>1, <1>2, TailIs
<1> QED
  BY <1>1, <1>2, <1>3 DEF Shorter

LEMMA RegionBegins == LdInv /\ Begin => LdInv'
<1> SUFFICES ASSUME LdInv, Begin PROVE LdInv'
  OBVIOUS
<1>1. LdType /\ step > 0 /\ phase = "begin" /\ Still /\ Shorter
  BY DEF LdInv, Begin, OtherUnchanged, device, Still, Shorter
<1>2. Formed(S)
  BY <1>1, StepAt
<1>3. CASE S.ask # "none"
  <2>1. Send(<<ControlRequest(S)>>) /\ phase' = "control" /\ UNCHANGED <<step, width, from, prev, failed, outcome>>
    BY <1>3 DEF Begin
  <2> DEFINE q == ControlRequest(S)
  <2>2. RequestTyped(q) /\ q \in Asked /\ OfStep(q)
    BY <1>2, <1>3, ControlAsked
  <2>3. Send(<<q>>)
    BY <2>1
  <2> HIDE DEF q
  <2>4. <<q>> \in Seq(Asked) /\ Len(<<q>>) = 1 /\ \A i \in 1 .. Len(<<q>>) : RequestTyped(<<q>>[i]) /\ OfStep(<<q>>[i])
    BY <2>2, OneOrTwo
  <2>5. StepSends
    BY <1>1, <2>1, <2>3, <2>4, SendsAll DEF StepSends
  <2>6. Progress'
    BY <2>1 DEF Progress
  <2>7. width' \in {Block, Small} /\ from' \in Nat /\ prev' \in Seq(Contents) /\ failed' \in BOOLEAN
    BY <1>1, <2>1 DEF LdType
  <2> QED
    BY <2>1, <2>5, <2>6, <2>7, GoesOn
<1>4. CASE S.ask = "none"
  <2>1. BeginRegion
    BY <1>4 DEF Begin
  <2>2. S.region \in Region
    BY <1>2, <1>4 DEF Formed
  <2>3. unit = "bcu2" => step # 30
    <3>1. "none" \notin Region
      BY DEF Region
    <3> QED
      BY <1>1, <2>2, <3>1, StepAt
  <2> QED
    BY <1>1, <2>1, <2>2, <2>3, BeginsRegion
<1> QED
  BY <1>3, <1>4

LEMMA ControlledStep == LdInv /\ Controlled => LdInv'
<1> SUFFICES ASSUME LdInv, Controlled PROVE LdInv'
  OBVIOUS
<1>1. LdType /\ step > 0 /\ phase = "control" /\ Still /\ failed \in BOOLEAN
  BY DEF LdInv, LdType, Controlled, OtherUnchanged, device, Still
<1>2. Formed(S)
  BY <1>1, StepAt
<1> DEFINE q == ControlRequest(S)
<1>3. CASE NoAnswer(q) /\ Out /\ UNCHANGED <<requests, failed>>
  BY <1>1, <1>3, NothingHeard, EndsOut
<1>4. CASE Answer(q) /\ Head(answers).data # <<New>> /\ Out /\ UNCHANGED <<requests, failed>>
  BY <1>1, <1>4, AnswerTaken, EndsOut
<1>5. CASE Answer(q) /\ Head(answers).data = <<New>> /\ S.region = "none" /\ Continue /\ UNCHANGED <<requests, failed>>
  <2>1. /\ Fits(answers[1], q) /\ Shorter /\ 1 \in DOMAIN answers /\ answers[1].data = <<New>>
    BY <1>1, <1>5, AnswerTaken
  <2>2. answers[1].ask = S.ask /\ answers[1].obj = S.obj
    BY <2>1 DEF Fits, ControlRequest
  <2>3. ProgramOff
    BY DEF LdInv
  <2>4. unit = "bcu1" => step # 2
    BY <1>1, <1>5, StepAt
  <2>5. unit = "bcu2" /\ step = 8 => state[3] # "loaded"
    <3> SUFFICES ASSUME unit = "bcu2", step = 8 PROVE state[3] # "loaded"
      OBVIOUS
    <3>1. Unloads(answers[1])
      BY <1>1, <2>2, StepAt DEF Unloads
    <3>2. step \in 0 .. 8
      OBVIOUS
    <3> QED
      BY <2>1, <2>3, <3>1, <3>2 DEF ProgramOff
  <2>6. unit = "bcu2" /\ step = 30 => state[3] = "loaded" /\ requests = <<>>
    <3> SUFFICES ASSUME unit = "bcu2", step = 30 PROVE state[3] = "loaded" /\ requests = <<>>
      OBVIOUS
    <3>1. Finishes(answers[1])
      BY <1>1, <2>2, StepAt DEF Finishes
    <3> QED
      BY <2>1, <2>3, <3>1 DEF ProgramOff
  <2>7. StepPasses
    BY <1>1, <1>5, <2>1, <2>4, <2>5, <2>6 DEF StepPasses, Continue
  <2> QED
    BY <2>7, PassStep
<1>6. CASE Answer(q) /\ S.region # "none" /\ BeginRegion
  <2>1. S.region \in Region
    BY <1>2, <1>6 DEF Formed
  <2>2. unit = "bcu2" => step # 30
    BY <1>1, <1>6, StepAt
  <2> QED
    BY <1>1, <1>6, <2>1, <2>2, AnswerTaken, BeginsRegion
<1> QED
  BY <1>3, <1>4, <1>5, <1>6 DEF Controlled

(* What an answer says of the cells.                                       *)
LEMMA CellsTold ==
  ASSUME LdInv, step > 0, S.region \in Region, NEW n, Answer(ReadRequest(S.region, from, n))
  PROVE  /\ n \in Nat /\ from + n <= Length /\ (n > 0 \/ Length = 0)
         /\ Head(answers).data \in Seq(Contents) /\ Len(Head(answers).data) = n
         /\ S.value = New => \A i \in 1 .. n : Head(answers).data[i] = New => mem[S.region][from + i] = New
         /\ S.region = "flags" => n = 1 /\ from = 0 /\ OfFlags(Head(answers))
<1> DEFINE q == ReadRequest(S.region, from, n)
           a == Head(answers)
<1>1. LdType /\ AnswersNew /\ from \in Nat
  BY DEF LdInv, LdType
<1>2. Fits(a, q) /\ Replied(a) /\ a = answers[1] /\ 1 \in DOMAIN answers
  BY <1>1, AnswerTaken
<1>3. a.ask = "read" /\ a.obj = S.region /\ a.at = from /\ a.n = n
  BY <1>2 DEF Fits, ReadRequest
<1>4. /\ n \in Nat /\ from + n <= Length /\ (n > 0 \/ Length = 0)
      /\ a.data \in Seq(Contents) /\ Len(a.data) = n
  BY <1>2, <1>3 DEF Replied, InRegion, Asked, Length
<1>5. ASSUME S.value = New, NEW i \in 1 .. n, a.data[i] = New PROVE mem[S.region][from + i] = New
  <2>1. Steady(S.region)
    BY <1>1, <1>5, RegionSteady
  <2>2. Steady(answers[1].obj) /\ i \in 1 .. answers[1].n /\ answers[1].data[i] = New
    BY <1>2, <1>3, <1>5, <2>1
  <2>3. mem[answers[1].obj][answers[1].at + i] = New
    BY <1>1, <1>2, <1>3, <2>2 DEF AnswersNew
  <2> QED
    BY <1>2, <1>3, <2>3
<1>6. S.region = "flags" => n = 1 /\ from = 0 /\ OfFlags(a)
  <2> SUFFICES ASSUME S.region = "flags" PROVE n = 1 /\ from = 0 /\ OfFlags(a)
    OBVIOUS
  <2>1. Length = 1
    BY Numbers DEF Length
  <2>2. n = 1 /\ from = 0
    BY <1>1, <1>4, <2>1
  <2> QED
    BY <1>3, <2>2 DEF OfFlags
<1> QED
  BY <1>4, <1>5, <1>6

LEMMA BlockReadStep == LdInv /\ BlockRead => LdInv'
<1> SUFFICES ASSUME LdInv, BlockRead PROVE LdInv'
  OBVIOUS
<1>1. /\ LdType /\ step > 0 /\ phase = "read" /\ Still /\ failed' = failed /\ failed' \in BOOLEAN
      /\ prev \in Seq(Contents) /\ from \in Nat /\ width \in {Block, Small}
  BY DEF LdInv, LdType, BlockRead, OtherUnchanged, device, Still
<1>2. Progress
  BY DEF LdInv
<1>3. /\ S.region \in Region /\ Len(prev) = from /\ (from < Length \/ from = 0)
      /\ S.value = New => \A i \in DOMAIN prev : prev[i] = New => mem[S.region][i] = New
  BY <1>1, <1>2, StepAt DEF Progress, Formed
<1>4. Length \in Nat /\ "none" \notin Region
  BY <1>3, Numbers DEF Length, Region
<1>5. unit = "bcu2" => step # 30
  BY <1>1, <1>3, <1>4, StepAt
<1> DEFINE n == Chunk
           q == ReadRequest(S.region, from, n)
           d == Head(answers).data
           p == prev \o d
<1>6. IF from + width < Length THEN n = width ELSE from + n = Length
  BY <1>1, <1>3, <1>4, ChunkIs DEF Chunk
<1>7. CASE NoAnswer(q) /\ width = Block /\ width' = Small /\ UNCHANGED <<from, prev>>
           /\ ReadNext /\ UNCHANGED <<step, outcome>>
  BY <1>1, <1>3, <1>5, <1>7, NothingHeard, ReadsOn
<1>8. CASE NoAnswer(q) /\ width # Block /\ Out /\ UNCHANGED requests
  BY <1>1, <1>8, NothingHeard, EndsOut
<1>9. CASE /\ Answer(q)
           /\ IF from + width < Length
              THEN from' = from + width /\ prev' = p /\ UNCHANGED width /\ ReadNext /\ UNCHANGED <<step, outcome>>
              ELSE WriteFrom(p, 0)
  <2>1. IF from + width < Length
        THEN from' = from + width /\ prev' = p /\ UNCHANGED width /\ ReadNext /\ UNCHANGED <<step, outcome>>
        ELSE WriteFrom(p, 0)
    BY <1>9
  <2>0. Answer(ReadRequest(S.region, from, n))
    BY <1>9
  <2> HIDE DEF n
  <2>2. /\ n \in Nat /\ from + n <= Length /\ (n > 0 \/ Length = 0)
        /\ d \in Seq(Contents) /\ Len(d) = n
        /\ S.value = New => \A i \in 1 .. n : d[i] = New => mem[S.region][from + i] = New
        /\ S.region = "flags" => n = 1 /\ from = 0 /\ OfFlags(Head(answers))
    BY <1>1, <1>3, <2>0, CellsTold
  <2>3. Shorter /\ answers # <<>> /\ answers' = Tail(answers)
    BY <1>1, <2>0, AnswerTaken
  <2>4. /\ p \in Seq(Contents) /\ Len(p) = from + n /\ DOMAIN p = 1 .. from + n
        /\ \A i \in 1 .. from : p[i] = prev[i] /\ i \in DOMAIN prev
        /\ \A i \in 1 .. n : p[from + i] = d[i]
    <3>1. /\ p \in Seq(Contents) /\ Len(p) = Len(prev) + Len(d)
          /\ \A i \in 1 .. Len(prev) : p[i] = prev[i]
          /\ \A i \in 1 .. Len(d) : p[Len(prev) + i] = d[i]
      <4>1. prev \in Seq(Contents) /\ d \in Seq(Contents)
        BY <1>1, <2>2
      <4>2. p = prev \o d
        OBVIOUS
      <4> HIDE DEF p, d
      <4> QED
        BY <4>1, <4>2, Joins
    <3> HIDE DEF p
    <3>2. DOMAIN p = 1 .. Len(p) /\ DOMAIN prev = 1 .. Len(prev)
      BY <1>1, <3>1
    <3> QED
      BY <1>3, <2>2, <3>1, <3>2
  <2> HIDE DEF p, d, q
  <2>5. ASSUME S.value = New, NEW j \in DOMAIN p, p[j] = New PROVE mem[S.region][j] = New
    <3>1. CASE j <= from
      BY <1>1, <1>3, <2>2, <2>4, <2>5, <3>1
    <3>2. CASE j > from
      <4>1. j - from \in 1 .. n /\ from + (j - from) = j
        BY <1>1, <2>2, <2>4, <3>2
      <4> QED
        BY <2>2, <2>4, <2>5, <4>1
    <3> QED
      BY <1>1, <2>2, <2>4, <3>1, <3>2
  <2>6. CASE from + width < Length
    <3>1. from' = from + n /\ from' \in Nat /\ from' < Length
      BY <1>1, <1>6, <2>1, <2>2, <2>6
    <3>2. prev' = p /\ width' = width /\ ReadNext /\ step' = step /\ outcome' = outcome
      BY <2>1, <2>6
    <3> QED
      BY <1>1, <1>3, <1>5, <2>3, <2>4, <2>5, <3>1, <3>2, ReadsOn
  <2>7. CASE ~(from + width < Length)
    <3>1. WriteFrom(p, 0) /\ Len(p) = Length
      BY <1>6, <2>1, <2>4, <2>7
    <3>2. ASSUME \A k \in 0 .. Length - 1 : ~Differs(p, k) PROVE FlagsAreReset
      <4> SUFFICES ASSUME unit = "bcu1", step = 2 PROVE FlagsAreReset
        BY DEF FlagsAreReset
      <4>1. S.region = "flags" /\ S.value = Initial
        BY <1>1, StepAt
      <4>2. n = 1 /\ from = 0 /\ OfFlags(Head(answers)) /\ Length = 1
        BY <2>2, <4>1, Numbers DEF Length
      <4>3. p[1] = d[1] /\ ~Differs(p, 0)
        <5>1. 1 \in 1 .. n /\ from + 1 = 1 /\ 0 \in 0 .. Length - 1
          BY <4>2
        <5> QED
          BY <2>4, <3>2, <5>1
      <4>4. Head(answers).data[1] = Initial
        BY <4>1, <4>3 DEF Differs, d
      <4> QED
        BY <2>3, <4>2, <4>4, FlagsHeard
    <3>3. \A j \in 1 .. 0 : mem[S.region][j] = New
      OBVIOUS
    <3> QED
      BY <1>1, <1>3, <1>5, <2>3, <2>4, <2>5, <3>1, <3>2, <3>3, WritesOn
  <2> QED
    BY <2>6, <2>7
<1> QED
  BY <1>7, <1>8, <1>9 DEF BlockRead

LEMMA VerifiedStep == LdInv /\ Verified => LdInv'
<1> SUFFICES ASSUME LdInv, Verified PROVE LdInv'
  OBVIOUS
<1>1. /\ LdType /\ step > 0 /\ phase = "verify" /\ Still
      /\ prev \in Seq(Contents) /\ from \in Nat /\ failed \in BOOLEAN
  BY DEF LdInv, LdType, Verified, OtherUnchanged, device, Still
<1>2. Progress /\ FlagsOff
  BY DEF LdInv
<1>3. /\ S.region \in Region /\ Len(prev) = Length /\ from < Length
      /\ S.value = New =>
           /\ \A i \in DOMAIN prev : prev[i] = New => mem[S.region][i] = New
           /\ failed \/ \A i \in 1 .. from : mem[S.region][i] = New
  BY <1>1, <1>2, StepAt DEF Progress, Formed
<1>4. Length \in Nat /\ "none" \notin Region
  BY <1>3, Numbers DEF Length, Region
<1>5. unit = "bcu2" => step # 30
  BY <1>1, <1>3, <1>4, StepAt
<1> DEFINE n == Run
           d == Head(answers).data
<1>6. CASE NoAnswer(ReadRequest(S.region, from, Run)) /\ Out /\ UNCHANGED <<requests, failed>>
  BY <1>1, <1>6, NothingHeard, EndsOut
<1>7. CASE /\ Answer(ReadRequest(S.region, from, Run)) /\ Mismatch(Head(answers).data)
           /\ WriteFrom(prev, from + Run)
  <2>1. Answer(ReadRequest(S.region, from, n)) /\ WriteFrom(prev, from + n)
    BY <1>7
  <2>2. failed' = (failed \/ \E i \in 1 .. Len(d) : d[i] # S.value)
    BY <1>7 DEF Mismatch
  <2>3. failed' \in BOOLEAN /\ (~failed' => ~failed /\ \A i \in 1 .. Len(d) : d[i] = S.value)
    BY <1>1, <2>2
  <2> HIDE DEF n
  <2>4. /\ n \in Nat /\ from + n <= Length /\ (n > 0 \/ Length = 0)
        /\ d \in Seq(Contents) /\ Len(d) = n
        /\ S.value = New => \A i \in 1 .. n : d[i] = New => mem[S.region][from + i] = New
        /\ S.region = "flags" => n = 1 /\ from = 0 /\ OfFlags(Head(answers))
    BY <1>1, <1>3, <2>1, CellsTold
  <2>5. Shorter /\ answers # <<>> /\ answers' = Tail(answers)
    BY <1>1, <2>1, AnswerTaken
  <2>6. from + n \in Nat
    BY <1>1, <2>4
  <2>7. ASSUME S.value = New, ~failed', NEW j \in 1 .. from + n PROVE mem[S.region][j] = New
    <3>1. CASE j <= from
      BY <1>1, <1>3, <2>3, <2>4, <2>7, <3>1
    <3>2. CASE j > from
      <4>1. j - from \in 1 .. n /\ from + (j - from) = j
        BY <1>1, <2>4, <3>2
      <4>2. d[j - from] = New
        BY <2>3, <2>4, <2>7, <4>1
      <4> QED
        BY <2>4, <2>7, <4>1, <4>2
    <3> QED
      BY <1>1, <2>4, <3>1, <3>2
  <2>9. S.region = "flags" => n = 1 /\ OfFlags(Head(answers))
    BY <2>4
  <2>10. Len(d) = n
    BY <2>4
  <2>8. ASSUME ~failed' PROVE FlagsAreReset
    <3> SUFFICES ASSUME unit = "bcu1", step = 2 PROVE FlagsAreReset
      BY DEF FlagsAreReset
    <3>1. S.region = "flags" /\ S.value = Initial
      BY <1>1, StepAt
    <3> HIDE DEF d
    <3>2. n = 1 /\ OfFlags(Head(answers))
      BY <2>9, <3>1
    <3>4. Len(d) = 1 /\ 1 \in 1 .. Len(d)
      BY <2>10, <3>2
    <3>5. d[1] = Initial
      BY <2>3, <2>8, <3>1, <3>4
    <3>3. Head(answers).data[1] = Initial
      BY <3>5 DEF d
    <3> QED
      BY <2>5, <3>2, <3>3, FlagsHeard
  <2> QED
    BY <1>1, <1>3, <1>5, <2>1, <2>3, <2>5, <2>6, <2>7, <2>8, WritesOn
<1> QED
  BY <1>6, <1>7 DEF Verified

(* The image is refused.                                                   *)
LEMMA RefuseStep == LdInv /\ Refuse => LdInv'
<1> SUFFICES ASSUME LdInv, Refuse PROVE LdInv'
  OBVIOUS
<1>1. LdType
  BY DEF LdInv
<1>2. /\ step' = -1 /\ outcome' # "LOADED" /\ requests' = requests
      /\ UNCHANGED <<phase, width, from, prev, failed, answers>> /\ step = 0
  BY DEF Refuse
<1>3. Still /\ Shorter
  BY <1>2 DEF Refuse, OtherUnchanged, device, Still, Shorter
<1>4. /\ phase' = "begin" /\ width' \in {Block, Small} /\ from' \in Nat /\ prev' \in Seq(Contents)
      /\ failed' \in BOOLEAN
  BY <1>1, <1>2 DEF LdType
<1>5. Ends
  BY <1>2, <1>3, <1>4 DEF Ends
<1> QED
  BY <1>5, EndStep

(* What was on its way is lost with the connection.                        *)
LEMMA BreakStep == LdInv /\ Break => LdInv'
<1> SUFFICES ASSUME LdInv, Break PROVE LdInv'
  OBVIOUS
<1>1. /\ UNCHANGED <<unit, step, phase, width, from, prev, failed, outcome, mem, state>>
      /\ requests' = <<>> /\ answers' = <<>> /\ step > 0 /\ LdType
  BY DEF Break, loader, device, LdInv
<1>2. /\ DOMAIN requests' = {} /\ DOMAIN answers' = {}
      /\ requests' \in Seq(Asked) /\ answers' \in Seq(Asked)
  BY <1>1
<1>3. Steps' = Steps /\ Used' = Used /\ ProgramRegions' = ProgramRegions /\ LastIdle' = LastIdle
  BY <1>1, SameSteps
<1>4. S' = S /\ Length' = Length
  BY <1>1, <1>3 DEF S, Length
<1>5. LdType'
  BY <1>1, <1>2, <1>3 DEF LdType
<1>6. InOrderWrites' /\ KeepsNew' /\ AnswersNew'
  BY <1>2 DEF InOrderWrites, KeepsNew, AnswersNew, NonePending
<1>7. EarlyOld' /\ WrittenBefore' /\ Progress'
  BY <1>1, <1>2, <1>3, <1>4 DEF LdInv, EarlyOld, NonePending, NoNew, WrittenBefore, All, Progress
<1>8. FlagsOff'
  BY <1>1, <1>2 DEF LdInv, FlagsOff, NonePending
<1>9. ProgramOff'
  BY <1>2 DEF ProgramOff
<1>10. Stages'
  <2>1. Has(Old)' = Has(Old) /\ Complete' = Complete /\ Runs' = Runs
    BY <1>1, <1>3 DEF Has, Complete, Runs
  <2>2. ~WillRun' /\ (Idle => Idle')
    BY <1>1, <1>2, <1>3, <2>1 DEF WillRun, Idle, NonePending
  <2> QED
    BY <1>1, <1>2, <1>3, <2>1, <2>2 DEF LdInv, Stages, Halted
<1> QED
  BY <1>5, <1>6, <1>7, <1>8, <1>9, <1>10 DEF LdInv

LEMMA LoadingStutters == LdInv /\ UNCHANGED ldvars => LdInv'
<1> SUFFICES ASSUME LdInv, UNCHANGED ldvars PROVE LdInv'
  OBVIOUS
<1>1. /\ UNCHANGED <<unit, step, phase, width, from, prev, failed, outcome, mem, state, requests, answers>>
      /\ LdType
  BY DEF ldvars, loader, device, LdInv
<1>2. Steps' = Steps /\ Used' = Used /\ ProgramRegions' = ProgramRegions /\ LastIdle' = LastIdle
  BY <1>1, SameSteps
<1>3. S' = S /\ Length' = Length
  BY <1>1, <1>2 DEF S, Length
<1>4. LdType'
  BY <1>1, <1>2 DEF LdType
<1>5. InOrderWrites' /\ KeepsNew' /\ AnswersNew' /\ EarlyOld'
  BY <1>1 DEF LdInv, InOrderWrites, KeepsNew, AnswersNew, EarlyOld, NonePending, NoNew, Steady
<1>6. WrittenBefore' /\ Progress'
  BY <1>1, <1>2, <1>3 DEF LdInv, WrittenBefore, All, Progress
<1>7. FlagsOff' /\ ProgramOff'
  BY <1>1 DEF LdInv, FlagsOff, ProgramOff, NonePending
<1>8. Stages'
  <2>1. Has(Old)' = Has(Old) /\ Complete' = Complete /\ Runs' = Runs
    BY <1>1, <1>2 DEF Has, Complete, Runs
  <2>2. WillRun' = WillRun /\ Idle' = Idle
    BY <1>1, <1>2, <2>1 DEF WillRun, Idle, NonePending
  <2> QED
    BY <1>1, <1>2, <2>1, <2>2 DEF LdInv, Stages, Halted
<1> QED
  BY <1>4, <1>5, <1>6, <1>7, <1>8 DEF LdInv

(* NeverHalfLoaded: whatever fails, and whenever, a device that may run    *)
(* its program has all of the old one or all of the new, and LOADED says   *)
(* that it has the new one and may run it (LoadImage).                     *)
THEOREM NoHalfProgram == LoadingSpec => []NeverHalfLoaded
<1>1. LoadingInit => LdInv
  BY LoadingStarts
<1>2. LdInv /\ [LoadingNext]_ldvars => LdInv'
  BY ConnectStep, RefuseStep, RegionBegins, ControlledStep, BlockReadStep, VerifiedStep, ServeStep,
     BreakStep, LoadingStutters, Zenon DEF LoadingNext, LoaderStep
<1>3. LdInv => NeverHalfLoaded
  <2> SUFFICES ASSUME LdInv, Runs PROVE Has(New) \/ Has(Old)
    BY DEF LdInv, Stages, NeverHalfLoaded, Complete
  <2>1. Stages /\ LdType
    BY DEF LdInv
  <2>2. (Idle /\ ~WillRun) \/ Halted \/ Complete
    <3> DEFINE n == Len(Steps)
    <3>1. n = 11 \/ n = 30
      BY <2>1, StepsAre DEF LdType
    <3>2. step \in -1 .. n
      BY <2>1 DEF LdType
    <3>3. LastIdle \in {2, 8}
      BY DEF LastIdle
    <3> HIDE DEF n
    <3>4. step = -1 \/ step \in 0 .. LastIdle \/ step \in LastIdle + 1 .. n - 1 \/ step = n
      BY <3>1, <3>2, <3>3
    <3> QED
      BY <2>1, <3>4 DEF Stages, n
  <2> QED
    BY <2>2 DEF Idle, Halted, Complete
<1> QED
  BY <1>1, <1>2, <1>3, PTL DEF LoadingSpec

(* Truthful: what a program is told of a device is so.                     *)
THEOREM ReportsAreTrue == LoadingSpec /\ ImagesSpec /\ ManagementSpec => []Truthful
<1>1. NeverHalfLoaded /\ SectionsApart /\ RepliesTrue => Truthful
  BY DEF Truthful
<1> QED
  BY <1>1, NoHalfProgram, ImagesApart, RepliesAreTrue, PTL

=============================================================================
