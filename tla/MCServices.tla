----------------------------- MODULE MCServices -----------------------------
EXTENDS Services
LOCAL INSTANCE TLC

MCCells ==
  [flags |-> 1, tab |-> 1, head |-> 1, code |-> 2, code2 |-> 1, main |-> 3, ram |-> 1,
   addr |-> 1, assoc |-> 2, eeprom |-> 1, param |-> 1]
MCGiven == [c \in Admin |-> IF c = CHOOSE d \in Admin : TRUE THEN 1 ELSE 2]
MCTable == [o \in 0 .. 1 |-> IF o = 0 THEN <<1, 3>> ELSE <<2>>]
CONSTANTS e1, e2   \* places for endpoints of two daemons
MCOwn == [e \in Endpoint |-> IF e = e1 THEN 1 ELSE 2]

(* Descriptions of devices, and what their users choose.                    *)
Bounded(name, sort, lo, hi, def, given) ==
  [name |-> <<name>>, kind |-> sort, whole |-> TRUE, min |-> lo, max |-> hi, default |-> def,
   value |-> given, elems |-> <<>>, id |-> <<>>, ids |-> <<>>]
Listed(name, elems, def, given) ==
  [name |-> <<name>>, kind |-> "list", whole |-> TRUE, min |-> 0, max |-> 0, default |-> def,
   value |-> given, elems |-> elems, id |-> <<>>, ids |-> <<>>]
Group(name, sending, reading, update) ==
  NoWish @@ [name |-> <<name>>, whole |-> TRUE, on_update |-> update, eeprom |-> FALSE,
   sending |-> sending, reading |-> reading, receiving |-> <<>>, id |-> <<>>]
Prop(name, pid) ==
  NoFlags @@ [name |-> <<name>>, whole |-> TRUE, pid |-> pid, type |-> 1, max |-> <<>>,
   writeable |-> <<>>, id |-> <<>>]
Shows(names, hidden) == [whole |-> TRUE, refs |-> names, invisible |-> hidden]
Clock(name, type, res, expire) ==
  [name |-> <<name>>, type |-> type, resolution |-> res, expire |-> expire]
Basic ==
  [bcu |-> "bcu20", params |-> <<>>, objs |-> <<>>, groups |-> <<>>, blocks |-> <<>>, debounces |-> <<>>,
   timers |-> <<>>, options |-> [PEIType |-> 0], keys |-> <<>>, installKey |-> <<>>, phys |-> <<>>,
   pei |-> FALSE, polling |-> FALSE,
   testAddresses |-> <<>>, testAssociations |-> <<>>]
BCU1Device == [Basic EXCEPT !.bcu = "bcu12"]
Par(p) == [op |-> "par", name |-> <<p>>]
Op(o, a, b) == [op |-> o, a |-> a, b |-> b]
Negated(a) == [op |-> "not", a |-> a]
Const(i) == Constant("int", i)
In(p, elems) == [op |-> "in", name |-> <<p>>, elems |-> elems]
Sender == Group("s", <<TRUE>>, <<TRUE>>, <<>>)
Requester == Group("r", <<>>, <<TRUE>>, <<<<"changed">>>>)

(* Parameters: two shown, two not, with conditions on all of them.  *)
Params ==
  [Basic EXCEPT
     !.params = <<Bounded("text", "string", 0, 3, 2, <<>>), Bounded("gain", "float", -2, 2, 0, <<>>),
                  Bounded("low", "int", -1, 1, 0, <<1>>), Bounded("big", "int", 256, 300, 299, <<>>),
                  Listed("mode", <<<<"on">>, <<"off">>>>, <<"on">>, <<>>),
                  Listed("kind", <<<<"a">>, <<"b">>>>, <<"b">>, <<>>)>>,
     !.blocks = <<<<Shows(<<<<"low">>, <<"mode">>>>,
                     <<Op("or", Op("lt", Par("low"), Par("big")), In("kind", {<<"a">>}))>>),
                   Shows(<<<<"gain">>>>, <<Op("and", In("mode", {<<"on">>}), Negated(Op("eq", Par("gain"), Par("low"))))>>)>>,
                  <<Shows(<<<<"low">>>>, <<In("kind", {<<"b">>}),
                     [op |-> "notnull", a |-> Op("mod", Op("plus", Par("big"), Const(1)), Const(2))],
                     Op("le", Par("text"), [op |-> "string", n |-> 2])>>)>>>>]
OddBounds == [Basic EXCEPT !.params = <<Bounded("wide", "int", 0, 1000, 3, <<>>)>>,
                           !.blocks = <<<<Shows(<<<<"wide">>>>, <<>>)>>>>]
BadDefault == [OddBounds EXCEPT !.params[1].default = 2000]
BadCondition == [Params EXCEPT !.blocks[1][1].invisible = <<Op("eq", Par("text"), Par("low"))>>]
UnknownRef == [OddBounds EXCEPT !.blocks[1][1].refs = <<<<"none">>>>]
NoBlock == [OddBounds EXCEPT !.blocks = <<>>]
(* Group objects, on both kinds of devices. *)
Groups(d, shown) ==
  [d EXCEPT !.groups = <<Sender, Requester>>, !.blocks = <<<<Shows(shown, <<>>)>>>>]
Clash == [Groups(Basic, <<<<"s">>>>) EXCEPT !.groups[2].name = <<"s", "transmit">>]
(* An object with two properties, keys and timers.  *)
Timed ==
  [Basic EXCEPT !.objs = <<[name |-> <<"o">>, type |-> 3, props |-> <<Prop("p", 51), Prop("q", 52)>>]>>,
     !.blocks = <<<<Shows(<<<<"p">>>>, <<>>)>>>>,
     !.debounces = <<[name |-> <<"deb">>, timeLine |-> 7]>>,
     !.timers = <<Clock("t", "UserTimer", <<3>>, <<<<"tick">>>>), Clock("u", "EnableUserTimer", <<16>>, <<>>),
                  Clock("v", "UserTimer", <<2>>, <<>>), Clock("w", "CountDownTimer", <<33>>, <<<<"tock">>>>)>>,
     !.options = [PEIType |-> 1, RateLimit |-> 20, CPOL |-> 1, BCU2_PROTECT |-> 1, RouteCount |-> 7]]
BothProps == [Timed EXCEPT !.blocks[1][1].refs = <<<<"p">>, <<"q">>>>, !.timers = <<>>]
TooManyTimers == [Timed EXCEPT !.timers = Append(@, Clock("x", "SystemTimer", <<>>, <<>>))]
WrongOption == [Timed EXCEPT !.options = [PEIType |-> 1, BCU1_SEC |-> 1]]
(* Descriptions with the choices in them, for bcugen3. *)
Complete(d) == [d EXCEPT !.phys = <<4660>>]
Direct ==
  {[Complete(Groups(Basic, <<<<"s">>>>)) EXCEPT !.groups[1].send = s, !.groups[2].receive = r,
                                                 !.groups[2].readRequest = q, !.groups[1].receive = v] :
     s \in {<<>>, <<5>>, <<70000>>}, r \in {<<>>, <<6>>, <<6, 5>>}, q \in {<<>>, <<7>>}, v \in {<<>>, <<5>>}}

MCDescriptions ==
  {Params, OddBounds, BadDefault, BadCondition, UnknownRef, NoBlock,
   Groups(Basic, <<<<"s">>, <<"r">>>>), Groups(BCU1Device, <<<<"s">>, <<"r">>>>), Groups(BCU1Device, <<<<"r">>>>),
   Clash, Timed, BothProps, TooManyTimers, WrongOption,
   [OddBounds EXCEPT !.testAddresses = <<127>>]} \cup Direct
MCWishes ==
  {NoWish, [NoWish EXCEPT !.send = <<<<1, 2, 3>>>>, !.prio = <<"urgent">>],
   [NoWish EXCEPT !.receive = <<<<1, 2, 3>>, <<1, 2048>>>>], [NoWish EXCEPT !.send = <<<<1, 2, 3>>>>, !.readRequest = <<<<33, 3>>>>],
   [NoWish EXCEPT !.receive = <<<<2570>>, <<1, 2, 4>>>>, !.readRequest = <<<<2, 2, 3>>>>],
   [NoWish EXCEPT !.send = <<<<1, 0, 0>>>>, !.read = <<<<1, 0, 5>>>>, !.update = <<<<9>>>>]}
MCFlags == {NoFlags, [NoFlags EXCEPT !.disable = <<TRUE>>],
            [NoFlags EXCEPT !.readAccess = <<1>>, !.writeAccess = <<0>>], [NoFlags EXCEPT !.readAccess = <<5>>]}
MCSites ==
  {[phys |-> <<<<1, 2, 3>>>>, keys |-> <<>>, installKey |-> <<>>],
   [phys |-> <<>>, keys |-> <<>>, installKey |-> <<>>],
   [phys |-> <<<<4660>>>>, keys |-> <<[level |-> 1, key |-> 8], [level |-> 0, key |-> 9]>>, installKey |-> <<7>>],
   [phys |-> <<<<4660>>>>, keys |-> <<[level |-> 1, key |-> 8], [level |-> 1, key |-> 9]>>, installKey |-> <<>>]}

(* Command lines: with and without servers, and some main does not accept.  *)
With(os) == [o \in os |-> IF o = "URL" THEN "known" ELSE "value"]
MCCommandLines ==
  {With({"URL", "listen-tcp", "listen-local", "GroupCache"}),
   With({"URL", "listen-tcp", "pid-file", "daemon", "Server", "Routing"}),
   With({"URL", "more", "listen-local", "pid-file"}), With({"listen-tcp", "pid-file"}),
   "URL" :> "unknown" @@ "listen-local" :> "value", "URL" :> "known" @@ "listen-tcp" :> "no number"}

(* Property 0 of the device object, one that is not there, and two requests *)
(* that ask for nothing.                                                    *)
MCQuestions == {<<252, 0, 0, 0, 0, 16, 1>>, <<252, 0, 11, 1, 52, 17, 2>>, <<251, 1>>, <<252>>}
=============================================================================
