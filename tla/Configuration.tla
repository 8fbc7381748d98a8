--------------------------- MODULE Configuration ----------------------------
(***************************************************************************)
(* The configuration compilers of the BCU SDK, src/bcugen.  bcugen1 checks *)
(* the description of a device and writes a config file and, for the tool  *)
(* of the user, the application information; bcugen2 takes the config file *)
(* and what the user has chosen and writes the tables of the image;        *)
(* bcugen3 does both at once, from a description that holds the choices.   *)
(* check.cpp is compiled three times, with CHECK1, CHECK2 or both: the set *)
(* ph below.  die() ends a compiler: progress "dead".                         *)
(*                                                                         *)
(* A name is a tuple of words, <<"x", "no">> is x_no.  An attribute is a   *)
(* sequence, empty if not given (its _lineno is 0).  The value of a string *)
(* is its length.  A part is whole if it has the attributes it must have.  *)
(***************************************************************************)
EXTENDS Integers, Sequences, FiniteSets
LOCAL INSTANCE SequencesExt
LOCAL INSTANCE FiniteSetsExt
LOCAL INSTANCE TLC

CONSTANTS
  Descriptions,  \* devices somebody describes
  Wishes,        \* what a user may choose for a group object
  Flags,         \* what a user may choose for a property
  Sites          \* the address and the keys a user may choose

VARIABLES
  progress,    \* "none", "described", "offered", "chosen", "built", "direct", "dead", "undefined"
  description, \* the description of the device
  config,      \* the config file
  appinfo,     \* the application information
  tested,      \* the test image
  chosen,      \* the configuration of the user
  built        \* the image

cfvars == <<progress, description, config, appinfo, tested, chosen, built>>

ConfigurationInit ==
  /\ progress = "none" /\ description = <<>> /\ config = <<>>
  /\ appinfo = <<>> /\ tested = <<>> /\ chosen = <<>> /\ built = <<>>

OrElse(attribute, default) == IF attribute = <<>> THEN default ELSE attribute[1]
Map(F(_), s) == [i \in DOMAIN s |-> F(s[i])]
If(c, n) == IF c THEN n ELSE 0

(***************************************************************************)
(* Symbols.  The id of a part is the number of its symbol.                 *)
(***************************************************************************)
InterfacesOf(d) == FlattenSeq(d.blocks)
ReferredTo(d, name) == \E f \in ToSet(InterfacesOf(d)) : name \in ToSet(f.refs)
PropertiesOf(d) == FlattenSeq(Map(LAMBDA o : o.props, d.objs))
ObjectName(d, name) ==
  \E part \in ToSet(d.params) \cup ToSet(PropertiesOf(d)) \cup ToSet(d.groups) : part.name = name

ParameterSymbols(p) ==
  IF p.kind = "list" THEN p.elems \o <<Append(p.name, "t"), p.name>> ELSE <<p.name>>
ObjectSymbols(o) == <<o.name>> \o Map(LAMBDA p : p.name, o.props)
GroupSymbols(g) ==
  LET sending == OrElse(g.sending, FALSE)
      reading == OrElse(g.reading, FALSE)
      words == SelectSeq(<<"transmit", "readrequest", "clear">>, LAMBDA w :
                 (w # "readrequest" => sending) /\ (w # "transmit" => reading))
  IN <<g.name, Append(g.name, "no")>> \o g.on_update \o Map(LAMBDA w : Append(g.name, w), words)
BlockSymbols(b) == [i \in 1 .. Len(b) + 1 |-> <<>>]      \* NewSymbolAn
Expires(t) == IF t.type \in {"EnableUserTimer", "UserTimer", "CountDownTimer"} THEN t.expire ELSE <<>>
TimerSymbols(t) ==
  <<t.name>> \o Map(LAMBDA w : Append(t.name, w), <<"no", "set", "get", "del">>) \o Expires(t)

Symbols(d, ph) ==
  (IF 1 \in ph
   THEN <<<<"main">>>> \o FlattenSeq(
          Map(ParameterSymbols, d.params) \o Map(ObjectSymbols, d.objs)
            \o Map(GroupSymbols, d.groups) \o Map(BlockSymbols, d.blocks))
   ELSE <<>>)
  \o FlattenSeq(Map(LAMBDA b : <<b.name>>, d.debounces) \o Map(TimerSymbols, d.timers))
NewSymbols(d, ph) ==
  LET s == Symbols(d, ph) IN \A i, j \in DOMAIN s : s[i] = s[j] => i = j \/ s[i] = <<>>
IdOf(d, name) == LET s == Symbols(d, {1}) IN CHOOSE i \in DOMAIN s : s[i] = name
NewId(d, name) == IF ReferredTo(d, name) THEN <<IdOf(d, name)>> ELSE <<>>

(***************************************************************************)
(* Parameters.  What no interface refers to keeps its default.  The value  *)
(* of a list is first the name, then the id of an element.                 *)
(***************************************************************************)
CheckedParameter(d, p, ph) ==
  LET id == NewId(d, p.name)
      Element(name) == IF name \in ToSet(p.elems) THEN IdOf(d, name) ELSE 0
      Stored(v) == IF p.kind = "list" THEN Element(v) ELSE v
  IN IF 1 \notin ph THEN p
     ELSE [p EXCEPT !.id = id, !.ids = Map(Element, p.elems),
                    !.value = IF id = <<>> THEN <<Stored(p.default)>> ELSE Map(Stored, p.value)]

(* CheckStringParameter, CheckFloatParameter and CheckIntParameter.         *)
NumberHolds(p, ph) ==
  /\ p.min <= p.max
  /\ 1 \in ph => p.min <= p.default /\ p.default <= p.max
  /\ 2 \in ph => p.value # <<>> /\ p.min <= p.value[1] /\ p.value[1] <= p.max
ListHolds(p, ph) ==
  /\ p.elems # <<>>
  /\ 1 \in ph => p.default \in ToSet(p.elems) /\ 0 \notin ToSet(p.value)
  /\ 2 \in ph => p.value # <<>> /\ p.value[1] \in ToSet(p.ids)
ParameterHolds(p, ph) ==
  p.whole /\ IF p.kind = "list" THEN ListHolds(p, ph) ELSE NumberHolds(p, ph)

(* The octets of an integer.  The smallest value alone decides.            *)
SizeOf(p) ==
  LET i == IF p.min < 0 THEN -p.min ELSE p.min IN
  IF p.min < 0
  THEN CASE i <= 127 -> -1 [] i > 127 /\ i <= 32767 -> -2 [] OTHER -> -3
  ELSE CASE i <= 255 -> 1 [] i > 255 /\ i <= 65535 -> 2 [] OTHER -> 3
Stores(size, n) ==
  CASE size = 1 -> n % 256 [] size = -1 -> ((n + 128) % 256) - 128
    [] size = 2 -> n % 65536 [] size = -2 -> ((n + 32768) % 65536) - 32768 [] OTHER -> n
ValueOf(p) ==
  CASE p.kind = "list" -> p.elems[CHOOSE i \in DOMAIN p.ids : p.ids[i] = p.value[1]]
    [] p.kind = "int" -> Stores(SizeOf(p), p.value[1])
    [] OTHER -> p.value[1]

(***************************************************************************)
(* Interface objects.                                                      *)
(***************************************************************************)
CheckedProperty(d, p, ph) ==
  LET writeable == OrElse(p.writeable, TRUE)
      id == IF 1 \in ph THEN NewId(d, p.name) ELSE p.id
      hidden == 1 \in ph /\ id = <<>>
      Access(a) == IF 2 \in ph THEN <<OrElse(a, 3)>> ELSE a
  IN [p EXCEPT !.id = id, !.max = <<OrElse(@, 1)>>, !.writeable = <<writeable>>,
               !.readAccess = Access(@), !.writeAccess = Access(@),
               !.disable = IF hidden THEN <<TRUE>> ELSE <<OrElse(@, FALSE)>>,
               !.readOnly = IF hidden THEN <<~writeable>> ELSE <<OrElse(@, ~writeable)>>]
PropertyHolds(p, ph) ==
  /\ p.whole /\ p.max[1] \in 1 .. 255 /\ p.pid \in 1 .. 65535
  /\ 2 \in ph => p.readAccess[1] \in 0 .. 3 /\ p.writeAccess[1] \in 0 .. 3
ObjectHolds(o, ph) ==
  /\ \A p \in ToSet(o.props) : PropertyHolds(p, ph)
  /\ \A i, j \in DOMAIN o.props : o.props[i].pid = o.props[j].pid => i = j

(* What CheckObject counts and the lowest levels it finds.                 *)
EnabledIn(o) == SelectSeq(o.props, LAMBDA p : ~p.disable[1])
LowestOf(levels) == IF levels = {} THEN 3 ELSE Min(levels)
LevelsOf(o) ==
  LET on == ToSet(EnabledIn(o)) IN
  [read |-> LowestOf({p.readAccess[1] : p \in on}),
   write |-> LowestOf({p.writeAccess[1] : p \in {q \in on : ~q.readOnly[1]}}),
   count |-> Len(EnabledIn(o))]

(* GenEIBObject.                                                           *)
PropertyOctet(p) ==
  (p.type % 32) + If(~p.readOnly[1], 128) + If(p.max[1] # 1, 64) + 32
ObjectEntry(o) ==
  [levels |-> LevelsOf(o), type |-> o.type,
   entries |-> Map(LAMBDA p : <<p.pid, PropertyOctet(p), p.name>>, EnabledIn(o))]

(***************************************************************************)
(* Group objects.                                                          *)
(***************************************************************************)
CheckedGroup(d, g, ph) ==
  [g EXCEPT !.id = IF 1 \in ph THEN NewId(d, g.name) ELSE @,
            !.prio = IF 2 \in ph THEN <<OrElse(@, "low")>> ELSE @,
            !.sending = <<OrElse(@, FALSE)>>, !.reading = <<OrElse(@, FALSE)>>,
            !.receiving = <<OrElse(@, 1 \in ph /\ g.on_update # <<>>)>>]
GroupHolds(g, ph) ==
  /\ g.whole
  /\ 2 \in ph => /\ g.send # <<>> => g.sending[1]
                 /\ g.readRequest # <<>> => g.reading[1]
                 /\ g.receive # <<>> => g.receiving[1]

(* BuildObjAddress; addAddress leaves out what is there.                   *)
AddressList(g) == g.receive \o g.read \o g.update \o g.send \o g.readRequest
ObjAddress(g) ==
  LET a == AddressList(g)
      first == SelectSeq([i \in DOMAIN a |-> i], LAMBDA i : \A j \in 1 .. i - 1 : a[j] # a[i])
  IN Map(LAMBDA i : a[i], first)
AddressesHold(d, g) ==
  /\ \A a \in ToSet(AddressList(g)) : a \in 0 .. 65535
  /\ d.bcu = "bcu12" => g.update = <<>>
Outgoing(g) == IF g.send # <<>> THEN g.send ELSE g.readRequest

(* BuildObjNo: the objects with an address are numbered.                   *)
NumbersOfAll(d) == [i \in DOMAIN d.groups |-> IF ObjAddress(d.groups[i]) = <<>> THEN -1 ELSE i - 1]
Numbers(d) ==
  [i \in DOMAIN d.groups |->
     IF ObjAddress(d.groups[i]) = <<>> THEN -1
     ELSE Cardinality({j \in 1 .. i - 1 : ObjAddress(d.groups[j]) # <<>>})]

(* BuildAddrTable.  An object that sends writes its association at its own *)
(* place, the others fill what is free; a place behind the last            *)
(* association is written all the same.                                    *)
AddrTable(d) ==
  SetToSortSeq(UNION {ToSet(ObjAddress(g)) : g \in ToSet(d.groups)}, <)
AddrNo(d, a) == CHOOSE i \in DOMAIN AddrTable(d) : AddrTable(d)[i] = a
PairsOf(d) ==
  FlattenSeq([i \in DOMAIN d.groups |->
    LET g == d.groups[i] IN
    Map(LAMBDA a : [no |-> Numbers(d)[i], addr |-> AddrNo(d, a), own |-> i, out |-> <<a>> = Outgoing(g)],
        ObjAddress(g))])
Overrun(d) == \E p \in ToSet(PairsOf(d)) : p.out /\ p.own > Len(PairsOf(d))
AssocTable(d) ==
  LET pairs == PairsOf(d)
      outs == SelectSeq(pairs, LAMBDA p : p.out)
      rest == SelectSeq(pairs, LAMBDA p : ~p.out)
      taken == {p.own : p \in ToSet(outs)}
      free == SetToSortSeq(DOMAIN pairs \ taken, <)
  IN [n \in DOMAIN pairs |->
        IF n \in taken THEN CHOOSE p \in ToSet(outs) : p.own = n
        ELSE rest[CHOOSE k \in DOMAIN free : free[k] = n]]
(* printAddrTab writes as many associations as there are addresses.        *)
Associations(d) ==
  Map(LAMBDA p : <<p.addr, p.no>>, SubSeq(AssocTable(d), 1, Len(AddrTable(d))))

GroupObjectFlag(d, g) ==
  IF ObjAddress(g) = <<>> THEN If(d.bcu = "bcu12", 128)
  ELSE [system |-> 0, urgent |-> 1, normal |-> 2, low |-> 3][g.prio[1]] + 4
       + If(g.read # <<>>, 8) + If(g.receive # <<>>, 16) + If(g.eeprom, 32)
       + If(Outgoing(g) # <<>>, 64) + If(g.update # <<>> \/ d.bcu = "bcu12", 128)
CommObjects(d) ==
  FlattenSeq([i \in DOMAIN d.groups |->
    IF Numbers(d)[i] = -1 THEN <<>> ELSE <<<<d.groups[i].name, GroupObjectFlag(d, d.groups[i])>>>>])

(* GenGroupObjectHeader: what the functions for the program do.  In the    *)
(* test image, built with BUILDMAX, they do all they can.                  *)
FunctionsOf(g, no, max) ==
  LET Does(word, here, wanted) ==
        IF here THEN {[name |-> Append(g.name, word), no |-> IF no # -1 /\ (max \/ wanted) THEN no ELSE -1]} ELSE {}
  IN Does("transmit", g.sending[1], g.send # <<>>)
       \cup Does("readrequest", g.reading[1], g.readRequest # <<>>)
       \cup Does("clear", g.sending[1] /\ g.reading[1], g.send # <<>> /\ g.readRequest # <<>>)

(***************************************************************************)
(* Timers.                                                                 *)
(***************************************************************************)
UserTimers == {"EnableUserTimer", "UserTimer"}
IsUser(t) == t.type \in UserTimers
FirstTimer(d) == IF d.debounces = <<>> THEN 2 ELSE 3
TimerNo(d, i) ==
  LET before == SelectSeq(SubSeq(d.timers, 1, i - 1), LAMBDA t : IsUser(t) = IsUser(d.timers[i]))
  IN Len(before) + IF IsUser(d.timers[i]) THEN 0 ELSE FirstTimer(d)
Resolutions(type) ==
  CASE type \in UserTimers -> 1 .. 16
    [] type \in {"CountDownTimer", "DifferenceCounter"} -> 30 .. 34
    [] type = "MessageTimer" -> 40 .. 43
    [] type = "MessageCyclicTimer" -> 50 .. 52
    [] type = "SystemTimer" -> {}
TimerHolds(d, t) ==
  /\ IF t.type = "SystemTimer" THEN t.resolution = <<>>
     ELSE t.resolution # <<>> /\ t.resolution[1] \in Resolutions(t.type)
  /\ t.type \in UserTimers \cup {"CountDownTimer"} \/ t.expire = <<>>
  /\ t.type \in {"MessageTimer", "MessageCyclicTimer"} => d.bcu # "bcu12"
(* CheckDebounce looks at the line of the time instead of the time.        *)
DebounceHolds(b) == b.timeLine \in 1 .. 127
TimersHold(d) ==
  /\ \A t \in ToSet(d.timers) : TimerHolds(d, t)
  /\ \A b \in ToSet(d.debounces) : DebounceHolds(b)
  /\ Len(d.debounces) <= 1
  /\ Len(SelectSeq(d.timers, LAMBDA t : ~IsUser(t))) + FirstTimer(d) <= 4

(* Two user timers share an octet of the table.                            *)
TimerTable(d) ==
  LET r == Map(LAMBDA t : t.resolution[1] - 1, SelectSeq(d.timers, IsUser))
      High(k) == IF 2 * k <= Len(r) THEN 16 * r[2 * k] ELSE 0
  IN [k \in 1 .. (Len(r) + 1) \div 2 |-> r[2 * k - 1] + High(k)]

(* The main loop of the image asks the objects by their numbers, then the  *)
(* timers by theirs, and calls the stubs of the header.                    *)
ObjectCalls(d) ==
  FlattenSeq([i \in DOMAIN d.groups |-> IF Numbers(d)[i] = -1 THEN <<>>
    ELSE Map(LAMBDA stub : <<"object", Numbers(d)[i], stub>>, d.groups[i].on_update)])
TimerCalls(d) ==
  FlattenSeq([i \in DOMAIN d.timers |-> Map(LAMBDA stub : <<"timer", TimerNo(d, i), stub>>, d.timers[i].expire)])
LoopCalls(d) == ObjectCalls(d) \o TimerCalls(d)
Stubs(d) ==
  UNION {ToSet(d.groups[i].on_update) : i \in {j \in DOMAIN d.groups : Numbers(d)[j] # -1}}
    \cup UNION {ToSet(t.expire) : t \in ToSet(d.timers)}
    \cup {<<"null">> : t \in {u \in ToSet(d.timers) : u.type = "EnableUserTimer" /\ u.expire = <<>>}}

(***************************************************************************)
(* Interfaces, and the expressions that hide them.  What the user does not *)
(* see is replaced by its default.                                         *)
(***************************************************************************)
Compared == {"eq", "lt", "le"}       \* with "not" the other ones
ParameterOf(d, name, kinds) == SelectSeq(d.params, LAMBDA p : p.name = name /\ p.kind \in kinds)
Constant(kind, n) == [op |-> kind, n |-> n]

(* GetExpressionType; d is the device with the parameters checked.         *)
RECURSIVE TypeOf(_, _)
TypeOf(d, e) ==
  CASE e.op = "par" ->
         LET p == ParameterOf(d, e.name, {"string", "int", "float"}) IN
         IF p = <<>> THEN "none" ELSE p[1].kind
    [] e.op \in {"int", "float", "string"} -> e.op
    [] e.op = "neg" -> LET a == TypeOf(d, e.a) IN IF a = "string" THEN "none" ELSE a
    [] e.op \in {"plus", "mod"} ->
         LET types == {TypeOf(d, e.a), TypeOf(d, e.b)} IN
         IF types = {"int"} THEN "int"
         ELSE IF e.op = "plus" /\ types \subseteq {"int", "float"} THEN "float" ELSE "none"
    [] OTHER -> "none"

RECURSIVE ValueExpression(_, _)
ValueExpression(d, e) ==
  CASE e.op = "par" ->
         LET p == ParameterOf(d, e.name, {"string", "int", "float"})[1] IN
         IF p.id = <<>> THEN Constant(p.kind, p.default) ELSE [op |-> "id", id |-> p.id[1]]
    [] e.op = "neg" -> [e EXCEPT !.a = ValueExpression(d, @)]
    [] e.op \in {"plus", "mod"} -> [e EXCEPT !.a = ValueExpression(d, @), !.b = ValueExpression(d, @)]
    [] OTHER -> e

(* CheckExpressionBool, CheckExpressionCompare, CheckExpressionInt and      *)
(* CheckExpressionList: whether they accept, what they make of it.         *)
RECURSIVE ConditionHolds(_, _)
ConditionHolds(d, e) ==
  CASE e.op \in {"and", "or"} -> ConditionHolds(d, e.a) /\ ConditionHolds(d, e.b)
    [] e.op = "not" -> ConditionHolds(d, e.a)
    [] e.op \in Compared ->
         LET types == {TypeOf(d, e.a), TypeOf(d, e.b)} IN
         types = {"string"} \/ types \subseteq {"int", "float"}
    [] e.op = "notnull" -> TypeOf(d, e.a) = "int"
    [] e.op = "in" ->
         LET p == ParameterOf(d, e.name, {"list"}) IN p # <<>> /\ e.elems \subseteq ToSet(p[1].elems)
    [] OTHER -> FALSE

RECURSIVE Condition(_, _)
Condition(d, e) ==
  CASE e.op \in {"and", "or"} -> [e EXCEPT !.a = Condition(d, @), !.b = Condition(d, @)]
    [] e.op = "not" -> [e EXCEPT !.a = Condition(d, @)]
    [] e.op \in Compared -> [e EXCEPT !.a = ValueExpression(d, @), !.b = ValueExpression(d, @)]
    [] e.op = "notnull" -> [e EXCEPT !.a = ValueExpression(d, @)]
    [] e.op = "in" ->
         LET p == ParameterOf(d, e.name, {"list"})[1] IN
         IF p.id = <<>> THEN [op |-> "notnull", a |-> Constant("int", If(p.default \in e.elems, 1))]
         ELSE [op |-> "oneof", id |-> p.id[1], ids |-> {IdOf(d, n) : n \in e.elems}]

InterfaceHolds(d, f, ph) ==
  1 \in ph =>
    /\ f.whole /\ f.refs # <<>>
    /\ \A r \in ToSet(f.refs) : ObjectName(d, r)
    /\ \A e \in ToSet(f.invisible) : ConditionHolds(d, e)

(***************************************************************************)
(* The device.                                                             *)
(***************************************************************************)
OnlyBCU1 == {"BCU1_SEC", "BCU1_PROTECT", "AutoPLMA"}
OnlyBCU2 == {"BCU2_PROTECT", "BCU2_WATCHDOG", "PLM_FAST"}
Limits ==
  [ManufacturerCode |-> 0 .. 65535, InternalManufacturerCode |-> 0 .. 65535, DeviceType |-> 0 .. 65535,
   Version |-> 0 .. 255, SyncRate |-> 0 .. 255, PEIType |-> 0 .. 19, PortADDR |-> 0 .. 255,
   PortCDDR |-> 0 .. 255, RouteCount |-> 0 .. 7, BusyLimit |-> 0 .. 7, INAKLimit |-> 0 .. 7,
   RateLimit |-> 1 .. 127]
Defaults ==
  [ManufacturerCode |-> 65535, DeviceType |-> 65520, Version |-> 0, SyncRate |-> 255, PortADDR |-> 0,
   PortCDDR |-> 0, RouteCount |-> 6, BusyLimit |-> 3, INAKLimit |-> 3, U_DELMSG |-> 1, CPOL |-> 0,
   CPHA |-> 0, A_Event |-> 1] @@ [o \in OnlyBCU1 \cup OnlyBCU2 |-> If(o = "BCU2_WATCHDOG", 1)]
Option(d, o) ==
  IF o \in DOMAIN d.options THEN d.options[o]
  ELSE IF o = "InternalManufacturerCode"
       THEN IF "ManufacturerCode" \in DOMAIN d.options THEN d.options["ManufacturerCode"] ELSE 65535
       ELSE Defaults[o]
OptionsHold(d) ==
  /\ \A o \in DOMAIN d.options \cap DOMAIN Limits : d.options[o] \in Limits[o]
  /\ DOMAIN d.options \cap (IF d.bcu = "bcu12" THEN OnlyBCU2 ELSE OnlyBCU1) = {}
  /\ "PEIType" \in DOMAIN d.options

NoKey == -1        \* 0xFFFFFFFF
KeysHold(d) ==
  IF d.bcu = "bcu12" THEN d.keys = <<>> /\ d.installKey = <<>>
  ELSE /\ \A k \in ToSet(d.keys) : k.level \in 0 .. 2
       /\ \A i, j \in DOMAIN d.keys : d.keys[i].level = d.keys[j].level => i = j
KeyAt(d, level) == OrElse(Map(LAMBDA k : k.key, SelectSeq(d.keys, LAMBDA k : k.level = level)), NoKey)

CheckedDevice(d, ph) ==
  [d EXCEPT !.params = Map(LAMBDA p : CheckedParameter(d, p, ph), @),
            !.objs = Map(LAMBDA o : [o EXCEPT !.props = Map(LAMBDA p : CheckedProperty(d, p, ph), @)], @),
            !.groups = Map(LAMBDA g : CheckedGroup(d, g, ph), @)]
(* CheckDevice, with c what the checks above make of the device d.  A device *)
(* with polling groups is refused, whatever they look like.                *)
DeviceHolds(d, c, ph) ==
  /\ \A p \in ToSet(c.params) : ParameterHolds(p, ph)
  /\ \A o \in ToSet(c.objs) : ObjectHolds(o, ph)
  /\ \A g \in ToSet(c.groups) : GroupHolds(g, ph)
  /\ \A f \in ToSet(InterfacesOf(d)) : InterfaceHolds(c, f, ph)
  /\ NewSymbols(c, ph) /\ TimersHold(d) /\ OptionsHold(d) /\ KeysHold(d)
  /\ 2 \in ph => d.phys # <<>>
  /\ d.bcu = "bcu12" => d.objs = <<>> /\ ~d.pei
  /\ ~d.polling

(* GenBCUHeader.                                                           *)
HeaderOf(d) ==
  LET bcu1 == d.bcu = "bcu12"
      On(o) == Option(d, o) = 1
  IN [optionReg |-> 252 + IF bcu1 THEN If(~On("BCU1_PROTECT"), 2) + If(~On("BCU1_SEC"), 1)
                          ELSE If(~On("BCU2_PROTECT"), 2) + If(On("BCU2_WATCHDOG"), 1),
      codes |-> Map(LAMBDA o : Option(d, o), <<"ManufacturerCode", "InternalManufacturerCode", "DeviceType",
                      "Version", "PEIType", "SyncRate", "PortCDDR", "PortADDR">>),
      routeCnt |-> 16 * Option(d, "RouteCount") + If(On("U_DELMSG"), 128),
      maxRstCnt |-> 32 * Option(d, "BusyLimit") + Option(d, "INAKLimit"),
      configDes |-> If("RateLimit" \notin DOMAIN d.options, 8) + If(On("CPOL"), 4) + If(On("CPHA"), 2)
                      + If(~On("A_Event"), 64)
                      + IF bcu1 THEN 160 + If(~On("AutoPLMA"), 1) ELSE 32 + If(On("PLM_FAST"), 128),
      keys |-> IF bcu1 THEN <<>>
               ELSE <<OrElse(d.installKey, NoKey)>> \o Map(LAMBDA l : KeyAt(d, l), <<0, 1, 2>>),
      timers |-> TimerTable(d)]

(* GenRealAsm and GenRealHeader.                                           *)
ImageOf(d) ==
  [phys |-> d.phys[1], header |-> HeaderOf(d),
   values |-> [n \in {p.name : p \in ToSet(d.params)} |->
                 ValueOf(SelectSeq(d.params, LAMBDA p : p.name = n)[1])],
   addresses |-> AddrTable(d), associations |-> Associations(d), comm |-> CommObjects(d),
   ramflags |-> (Len(CommObjects(d)) + 1) \div 2,
   objs |-> Map(ObjectEntry, d.objs),
   functions |-> UNION {FunctionsOf(d.groups[i], Numbers(d)[i], FALSE) : i \in DOMAIN d.groups},
   calls |-> LoopCalls(d), stubs |-> Stubs(d)]

(***************************************************************************)
(* The test image, of what is fixed before the user chooses: the values    *)
(* are the defaults, all objects are numbered, the tables are empty.  It   *)
(* tells an editor of images where the parts with an id are.               *)
(***************************************************************************)
Visible(d) == SelectSeq(d.params, LAMBDA p : p.id # <<>>)
ParameterInfo(d) ==
  {[id |-> p.id[1], name |-> p.name,
    size |-> CASE p.kind = "string" -> p.max + 1 [] p.kind = "int" -> SizeOf(p)
               [] p.kind = "list" -> Len(p.elems) [] p.kind = "float" -> 4] : p \in ToSet(Visible(d))}
ObjectInfo(d) == {<<d.groups[i].id[1], i - 1>> : i \in {j \in DOMAIN d.groups : d.groups[j].id # <<>>}}
TestValue(p) == IF p.kind = "int" THEN Stores(SizeOf(p), p.default) ELSE p.default
TestImageHolds(d) ==
  /\ OrElse(d.testAddresses, 0) \in 0 .. 126 /\ OrElse(d.testAssociations, 0) \in 0 .. 255
  /\ d.testAddresses = <<>> => Len(d.groups) <= 126
  /\ Len(d.groups) <= 85
TestImageOf(d) ==
  [values |-> [n \in {p.name : p \in ToSet(d.params)} |->
                 TestValue(SelectSeq(d.params, LAMBDA p : p.name = n)[1])],
   params |-> ParameterInfo(d), groups |-> ObjectInfo(d), comm |-> Map(LAMBDA g : g.name, d.groups),
   addresses |-> OrElse(d.testAddresses, Len(d.groups)),
   associations |-> OrElse(d.testAssociations, Len(d.groups)),
   functions |-> UNION {FunctionsOf(d.groups[i], i - 1, TRUE) : i \in DOMAIN d.groups}]

(***************************************************************************)
(* The tools.                                                              *)
(***************************************************************************)
NoWish == [prio |-> <<>>, send |-> <<>>, readRequest |-> <<>>, receive |-> <<>>, read |-> <<>>, update |-> <<>>]
NoFlags == [disable |-> <<>>, readOnly |-> <<>>, readAccess |-> <<>>, writeAccess |-> <<>>]
(* init_ci: the sections of the configuration are emptied.                 *)
InitCi(d) ==
  [d EXCEPT !.phys = <<>>, !.keys = <<>>, !.installKey = <<>>,
            !.params = Map(LAMBDA p : [p EXCEPT !.value = <<>>], @),
            !.groups = Map(LAMBDA g : NoWish @@ g, @),
            !.objs = Map(LAMBDA o : [o EXCEPT !.props = Map(LAMBDA p : NoFlags @@ p, @)], @)]

(* WriteAppInfo: parts with an id.                                         *)
IdsOf(parts) == {p.id[1] : p \in {q \in ToSet(parts) : q.id # <<>>}}
HiddenIn(d, f) == Map(LAMBDA e : Condition(d, e), f.invisible)
OfferOf(d) ==
  [params |-> {[id |-> p.id[1], kind |-> p.kind, min |-> p.min, max |-> p.max, ids |-> p.ids] :
                 p \in ToSet(Visible(d))},
   groups |-> IdsOf(d.groups), props |-> IdsOf(PropertiesOf(d)),
   hidden |-> Map(LAMBDA f : HiddenIn(d, f), InterfacesOf(d)),
   refs |-> UNION {ToSet(f.refs) : f \in ToSet(InterfacesOf(d))}]

(* Somebody writes a description.                                          *)
Describe ==
  /\ progress = "none" /\ progress' = "described"
  /\ \E d \in Descriptions : description' = d
  /\ UNCHANGED <<config, appinfo, tested, chosen, built>>

(* bcugen1.  Somebody must have put an interface into a block.  The config *)
(* file and the information are written before the test image is.          *)
GenerateInfo ==
  /\ progress = "described"
  /\ \E d \in {InitCi(description)} : \E c \in {CheckedDevice(d, {1})} :
       IF DeviceHolds(d, c, {1}) /\ InterfacesOf(d) # <<>>
       THEN /\ config' = [c EXCEPT !.blocks = <<>>] /\ appinfo' = OfferOf(c)
            /\ IF TestImageHolds(c) THEN progress' = "offered" /\ tested' = TestImageOf(c)
               ELSE progress' = "dead" /\ UNCHANGED tested
       ELSE progress' = "dead" /\ UNCHANGED <<config, appinfo, tested>>
  /\ UNCHANGED <<description, chosen, built>>

(* The user chooses, with a tool that knows only the application           *)
(* information.  It may leave values out and take values out of bounds.    *)
ChoicesFor(p) ==
  {<<>>} \cup IF p.kind = "list" THEN {<<i>> : i \in ToSet(p.ids)}
              ELSE {<<p.min>>, <<p.max>>, <<p.max + 1>>}
Choose ==
  /\ progress = "offered" /\ progress' = "chosen"
  /\ \E values \in {f \in [appinfo.params -> UNION {ChoicesFor(p) : p \in appinfo.params}] :
                      \A p \in appinfo.params : f[p] \in ChoicesFor(p)} :
     \E groups \in [appinfo.groups -> Wishes], props \in [appinfo.props -> Flags], site \in Sites :
       chosen' = [site |-> site, groups |-> groups, props |-> props,
                  values |-> [i \in {p.id : p \in appinfo.params} |->
                                values[CHOOSE p \in appinfo.params : p.id = i]]]
  /\ UNCHANGED <<description, config, appinfo, tested, built>>

(* readgaddr and readaddr: the parts of an address are cut to their width. *)
ReadGroupAddress(a) ==
  CASE Len(a) = 3 -> (a[1] % 32) * 2048 + (a[2] % 8) * 256 + (a[3] % 256)
    [] Len(a) = 2 -> (a[1] % 32) * 2048 + (a[2] % 2048)
    [] OTHER -> a[1] % 65536
ReadAddress(a) ==
  IF Len(a) = 3 THEN (a[1] % 16) * 4096 + (a[2] % 16) * 256 + (a[3] % 256) ELSE a[1] % 65536
ReadWish(w) ==
  [prio |-> w.prio] @@ [k \in DOMAIN w \ {"prio"} |-> Map(ReadGroupAddress, w[k])]

(* xmlReadConfigInformation: what is chosen for an id goes to its part.    *)
Placed(part, settings) ==
  IF part.id # <<>> /\ part.id[1] \in DOMAIN settings THEN settings[part.id[1]] @@ part ELSE part
ReadChoices(d, x) ==
  LET values == [i \in DOMAIN x.values |-> [value |-> x.values[i]]]
      wishes == [i \in DOMAIN x.groups |-> ReadWish(x.groups[i])]
  IN [d EXCEPT !.phys = Map(ReadAddress, x.site.phys), !.keys = x.site.keys, !.installKey = x.site.installKey,
               !.params = Map(LAMBDA p : Placed(p, values), @),
               !.groups = Map(LAMBDA g : Placed(g, wishes), @),
               !.objs = Map(LAMBDA o : [o EXCEPT !.props = Map(LAMBDA p : Placed(p, x.props), @)], @)]
(* parseProperty looks at the first property of every object only, and     *)
(* goes on behind the last object.                                         *)
LostProperty(d, x) ==
  \E i \in DOMAIN x.props : \A o \in ToSet(d.objs) : o.props = <<>> \/ o.props[1].id # <<i>>

(* A compiler that writes an image: bcugen2 or bcugen3.                    *)
Assemble(d, ph, done) ==
  \E c \in {CheckedDevice(d, ph)} :
  IF ~DeviceHolds(d, c, ph) \/ \E g \in ToSet(c.groups) : ~AddressesHold(c, g)
  THEN progress' = "dead" /\ built' = built
  ELSE IF Len(CommObjects(c)) > 85 THEN progress' = "dead" /\ built' = built
  ELSE IF Overrun(c) THEN progress' = "undefined" /\ built' = built
  ELSE progress' = done /\ built' = ImageOf(c)

Compile ==
  /\ progress = "chosen"
  /\ IF LostProperty(config, chosen) THEN progress' = "undefined" /\ built' = built
     ELSE Assemble(ReadChoices(config, chosen), {2}, "built")
  /\ UNCHANGED <<description, config, appinfo, tested, chosen>>

CompileDirect ==
  /\ progress = "described" /\ Assemble(description, {1, 2}, "direct")
  /\ UNCHANGED <<description, config, appinfo, tested, chosen>>

ConfigurationNext == Describe \/ GenerateInfo \/ Choose \/ Compile \/ CompileDirect
ConfigurationSpec == ConfigurationInit /\ [][ConfigurationNext]_cfvars

(***************************************************************************)
(* What the image is.                                                      *)
(***************************************************************************)
PartNamed(parts, name) == SelectSeq(parts, LAMBDA p : p.name = name)[1]
(* What the user has chosen for a parameter, by its name.                  *)
ChosenFor(p) ==
  IF p.id = <<>> THEN <<>>
  ELSE LET v == chosen.values[p.id[1]] IN
       IF p.kind = "list" /\ v # <<>> THEN <<p.elems[CHOOSE i \in DOMAIN p.ids : p.ids[i] = v[1]]>> ELSE v

(* A parameter has the value the user has chosen, within its bounds, or    *)
(* its default if no interface shows it.  An integer has it only if its    *)
(* bounds fit the type (SizeOf looks at the lower bound only).             *)
FitsType(p) == p.kind = "int" => Stores(SizeOf(p), p.max) = p.max /\ Stores(SizeOf(p), p.min) = p.min
ValuesChosen ==
  progress = "built" =>
    \A p \in ToSet(config.params) :
      LET v == built.values[p.name] IN
      /\ FitsType(p) => v = IF p.id = <<>> THEN PartNamed(description.params, p.name).default ELSE ChosenFor(p)[1]
      /\ p.kind # "list" /\ FitsType(p) => p.min <= v /\ v <= p.max

(* The tables tell the bus for whom the device is.  If every group object  *)
(* has an address and none is shared, each address leads to its object,    *)
(* and an object that transmits finds its own address at its own place; the    *)
(* functions of the program and its main loop use the number of the object *)
(* they are named after.                                                   *)
AddressesOf(no) == {built.addresses[a[1]] : a \in {b \in ToSet(built.associations) : b[2] = no}}
Apart(groups) ==
  /\ \A g \in ToSet(groups) : AddressList(g) # <<>>
  /\ \A i, j \in DOMAIN groups : i # j => ToSet(AddressList(groups[i])) \cap ToSet(AddressList(groups[j])) = {}
TablesServe ==
  progress \in {"built", "direct"} =>
    LET groups == IF progress = "direct" THEN description.groups ELSE ReadChoices(config, chosen).groups IN
    /\ Apart(groups) =>
         \A i \in DOMAIN groups :
           /\ AddressesOf(i - 1) = ToSet(AddressList(groups[i]))
           /\ Outgoing(groups[i]) # <<>> =>
                built.addresses[built.associations[i][1]] = Outgoing(groups[i])[1]
                /\ built.associations[i][2] = i - 1
    /\ \A f \in built.functions :
         f.no # -1 => f.no < Len(built.comm) /\ built.comm[f.no + 1][1] = Front(f.name)
    /\ \A c \in ToSet(built.calls) :
         /\ c[3] \in built.stubs
         /\ c[1] = "object" => c[2] < Len(built.comm) /\ \E g \in ToSet(description.groups) :
              g.name = built.comm[c[2] + 1][1] /\ c[3] \in ToSet(g.on_update)

(* What bcugen2 makes of the choices is what bcugen3 makes of the          *)
(* description with the choices written into it.                           *)
WithChoices ==
  LET d == InitCi(description)
      c == ReadChoices(config, chosen)
      Choice(p, q) == [value |-> IF p.kind = "list" THEN ChosenFor(q)
                                 ELSE IF q.id = <<>> THEN <<>> ELSE q.value]
      From(fields, part) == [k \in fields |-> part[k]]
  IN [d EXCEPT !.phys = c.phys, !.keys = c.keys, !.installKey = c.installKey,
        !.params = [i \in DOMAIN @ |-> Choice(@[i], c.params[i]) @@ @[i]],
        !.groups = [i \in DOMAIN @ |-> From(DOMAIN NoWish, c.groups[i]) @@ @[i]],
        !.objs = [o \in DOMAIN @ |-> [@[o] EXCEPT !.props =
                    [i \in DOMAIN @ |-> From(DOMAIN NoFlags, c.objs[o].props[i]) @@ @[i]]]]]
SameImage ==
  progress = "built" =>
    \A d \in {WithChoices} : \A c \in {CheckedDevice(d, {1, 2})} :
      DeviceHolds(d, c, {1, 2}) /\ ImageOf(c) = built

(* An interface is hidden from the user just when the description says so  *)
(* of the values in the image: no condition names a part he cannot see.    *)
RECURSIVE Evaluate(_, _)
Evaluate(e, values) ==
  CASE e.op = "and" -> Evaluate(e.a, values) /\ Evaluate(e.b, values)
    [] e.op = "or" -> Evaluate(e.a, values) \/ Evaluate(e.b, values)
    [] e.op = "not" -> ~Evaluate(e.a, values)
    [] e.op = "eq" -> Evaluate(e.a, values) = Evaluate(e.b, values)
    [] e.op = "lt" -> Evaluate(e.a, values) < Evaluate(e.b, values)
    [] e.op = "le" -> Evaluate(e.a, values) <= Evaluate(e.b, values)
    [] e.op = "notnull" -> Evaluate(e.a, values) # 0
    [] e.op = "par" -> values[e.name]
    [] e.op = "id" -> values[e.id]
    [] e.op = "in" -> values[e.name] \in e.elems
    [] e.op = "oneof" -> values[e.id] \in e.ids
    [] e.op = "neg" -> -Evaluate(e.a, values)
    [] e.op = "plus" -> Evaluate(e.a, values) + Evaluate(e.b, values)
    [] e.op = "mod" -> Evaluate(e.a, values) % Evaluate(e.b, values)
    [] OTHER -> e.n
HiddenTruly ==
  progress = "built" /\ (\A p \in ToSet(config.params) : FitsType(p)) =>
    LET forTool == [i \in DOMAIN chosen.values |-> chosen.values[i][1]]
        shown == InterfacesOf(description)
    IN \A f \in DOMAIN shown : \A i \in DOMAIN shown[f].invisible :
         Evaluate(shown[f].invisible[i], built.values) = Evaluate(appinfo.hidden[f][i], forTool)

(* The test image knows every parameter and group object that is offered,  *)
(* a group object by the number its functions use, and what is not offered *)
(* has the value in it that it has in the image.                           *)
TestsTheSame ==
  /\ progress \in {"offered", "chosen", "built"} =>
       /\ {p.id : p \in tested.params} = {p.id : p \in appinfo.params}
       /\ {g[1] : g \in tested.groups} = appinfo.groups
       /\ \A f \in tested.functions : tested.comm[f.no + 1] = Front(f.name)
  /\ progress = "built" =>
       \A p \in ToSet(config.params) : p.id = <<>> => built.values[p.name] = tested.values[p.name]

(* Together: the image of a device is what its description and the choices  *)
(* of its user make of it, whichever of the tools wrote it.                *)
BuiltAsChosen == ValuesChosen /\ TablesServe /\ SameImage /\ HiddenTruly /\ TestsTheSame
=============================================================================
