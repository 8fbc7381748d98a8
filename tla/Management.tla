----------------------------- MODULE Management -----------------------------
(***************************************************************************)
(* A program that manages one device through the daemon: the loops of      *)
(* ManagementConnection and ManagementIndividual (managementclient.cpp in  *)
(* src/eibd/libserver) with the functions of management.cpp and layer7.cpp *)
(* they call.  Over a connection the device gets what is sent in order, or *)
(* the connection ends; otherwise what is sent or answered may be lost.    *)
(* An exchange waits 6 s for the first APDU that comes.                    *)
(* With LoadImage of the same file (Loading) and PrepareLoadImage, which   *)
(* it calls first (Images), these are the reports a program gets about a   *)
(* device.                                                                 *)
(***************************************************************************)
EXTENDS Loading, Images

CONSTANTS
  Table,      \* the properties of each object of the device, the first one its type
  MaxOrders,  \* bound: requests of the program
  MaxTurns    \* bound: presses of the button of the device

ASSUME ManagementAssumption ==
  /\ MaxOrders \in Nat /\ MaxTurns \in Nat
  /\ IsFiniteSet(DOMAIN Table) /\ DOMAIN Table = 0 .. Cardinality(DOMAIN Table) - 1
  /\ \A o \in DOMAIN Table : Table[o] \in Seq(Nat \ {0}) /\ Table[o] # <<>>

VARIABLES
  link,       \* "off", "opening", "connection" or "individual"
  order,      \* request of the program under way
  stage,      \* exchanges it has had
  keep,       \* what it wants to read next
  place,      \* X_PropertyScan: object and index
  found,      \* and what it has found
  reply,      \* what the program was answered
  asks, told, \* on the way to the device and back
  ended,      \* the connection has ended
  held,       \* the device: item |-> value
  fixed,      \* it does not take what is written to its memory
  ever,       \* history: values of an item since the order
  sure,       \* history: no answer was late or lost
  orders, turns

handler == <<order, stage, keep, place, found, reply>>
unitvars == <<held, fixed, turns>>
mgvars == <<link, handler, asks, told, ended, unitvars, ever, sure, orders>>

----------------------------------------------------------------------------
(* APDUs: what is asked, the place, an index or a value.                   *)
Query(type, at, value) == [type |-> type, at |-> at, value |-> value]
Response ==
  [read |-> "memory", mask |-> "descriptor", adc |-> "adc", auth |-> "level", key |-> "keylevel",
   propread |-> "value", propwrite |-> "value", desc |-> "description"]

(* isResponse: a description names its object and not the index, a level   *)
(* nothing.                                                                *)
isResponse(a, q) == a.type = Response[q.type] /\ (q.type = "auth" \/ a.at = q.at)

ProgMode == 96     \* the place of the programming mode
Objects == DOMAIN Table
Described(obj, i) ==
  IF obj \in Objects /\ i < Len(Table[obj]) THEN Table[obj][i + 1] ELSE 0
ScanOf == UNION {{<<o, Table[o][i]>> : i \in DOMAIN Table[o]} : o \in Objects}

(* The third octet of EIB_PROG_MODE.                                        *)
Off == 0
On == 1
Toggle == 2
Status == 3
Order(type, at, value) == [type |-> type, at |-> at, value |-> value]
Simple == {"mask", "adc", "propread", "propwrite", "auth", "key", "desc"}
Orders ==
  {Order("mode", ProgMode, v) : v \in {Off, On, Toggle, Status}}
    \cup {Order(t, 7, v) : t \in {"write", "plain", "propwrite"}, v \in {0, 1}}
    \cup {Order(t, 7, 0) : t \in {"read", "mask", "adc", "propread"}}
    \cup {Order("auth", 7, v) : v \in {0, 1}} \cup {Order("key", 2, 5)}
    \cup {Order("desc", 0, 0), Order("scan", 0, 0), Order("restart", 0, 0)}
    \cup {Order("wrong", 0, 0)}     \* too short, or of an unknown type
Individually == {o \in Orders : o.type \in {"propread", "propwrite", "wrong"}}

(* The first exchange of a request.                                        *)
FirstQuery(o) ==
  CASE o.type \in Simple -> <<Query(o.type, o.at, o.value)>>
    [] o.type \in {"mode", "read", "write"} -> <<Query("read", o.at, 0)>>
    [] o.type = "scan" -> <<Query("desc", 0, 0)>>

ManagementInit ==
  /\ link = "off" /\ order = Order("none", 0, 0) /\ stage = 0 /\ keep = 0
  /\ place = <<0, 0>> /\ found = {} /\ reply = <<"none">>
  /\ asks = <<>> /\ told = <<>> /\ ended = FALSE
  /\ held = [prog |-> 0, cell |-> 0, prop |-> 0] /\ fixed = FALSE
  /\ ever = [x \in {"prog", "cell", "prop"} |-> {}] /\ sure = TRUE /\ orders = 0 /\ turns = 0

----------------------------------------------------------------------------
SendsOn(as) == asks' = IF ended THEN asks ELSE asks \o as
Done(value) == reply' = <<"done", value>> /\ stage' = 0 /\ UNCHANGED <<keep, place, found>>
Rejected(why) == reply' = <<why>> /\ stage' = 0 /\ UNCHANGED <<keep, place, found>>

(* The program opens a connection: registering it may fail, and the device *)
(* must answer A_DeviceDescriptor_Read.                                    *)
OpenDevice ==
  /\ link = "off" /\ orders < MaxOrders
  /\ fixed' \in BOOLEAN
  /\ \/ link' = "opening" /\ asks' = <<Query("mask", 7, 0)>> /\ UNCHANGED reply
     \/ link' = "individual" /\ reply' = <<"done", 0>> /\ UNCHANGED asks
     \/ link' = "off" /\ reply' = <<"PROCESSING_ERROR">> /\ UNCHANGED asks
  /\ orders' = orders + 1
  /\ UNCHANGED <<order, stage, keep, place, found, told, ended, held, ever, sure, turns>>

(* EIB_RESET_CONNECTION, or the program goes.  Without a connection the    *)
(* device may still be asked.                                              *)
LeaveDevice ==
  /\ link \in {"connection", "individual"} /\ stage = 0
  /\ link' = "off" /\ told' = <<>> /\ ended' = FALSE
  /\ asks' = IF link = "connection" THEN <<>> ELSE asks
  /\ sure' = (asks' = <<>>)
  /\ order' = Order("none", 0, 0)
  /\ UNCHANGED <<stage, keep, place, found, reply, unitvars, ever, orders>>

Now == [x \in DOMAIN held |-> {held[x]}]

(* readmessage: a request is begun.                                        *)
BeginOrder(o) ==
  IF o.type = "wrong" THEN Rejected("reject") /\ UNCHANGED asks
  ELSE IF o.type \in {"plain", "restart"}
  THEN /\ SendsOn(<<Query(IF o.type = "plain" THEN "write" ELSE o.type, o.at, o.value)>>)
       /\ Done(0)
  ELSE /\ SendsOn(FirstQuery(o)) /\ stage' = 1 /\ place' = <<0, 0>> /\ found' = {}
       /\ reply' = <<"none">> /\ UNCHANGED keep

ReadMessage ==
  /\ link \in {"connection", "individual"} /\ stage = 0 /\ orders < MaxOrders
  /\ \E o \in IF link = "individual" THEN Individually ELSE Orders :
       order' = o /\ BeginOrder(o)
  /\ ever' = Now /\ orders' = orders + 1
  /\ UNCHANGED <<link, told, ended, unitvars, sure>>

(* The exchange a request waits for.                                       *)
Awaited ==
  IF link = "opening" THEN Query("mask", 7, 0)
  ELSE IF order.type = "scan"
  THEN IF stage = 2 THEN Query("propread", place[1], 0) ELSE Query("desc", place[1], place[2])
  ELSE FirstQuery(order)[1]

WantedMode(v) ==
  CASE order.value = On -> 1 [] order.value = Off -> 0 [] order.value = Toggle -> 1 - v
(* X_Memory_Write: written and read again. *)
WriteAndRead(v) ==
  /\ SendsOn(<<Query("write", order.at, v), Query("read", order.at, 0)>>)
  /\ keep' = v /\ stage' = 2 /\ UNCHANGED <<reply, place, found>>

(* X_PropertyScan: the properties of an object to the first that is 0, the *)
(* objects to the first without properties.                                *)
ScanNext(p) ==
  /\ place' = p /\ stage' = 1 /\ SendsOn(<<Query("desc", p[1], p[2])>>)
  /\ UNCHANGED <<reply, keep>>
Scanned(v) ==
  \/ /\ stage = 1 /\ v = 1
     /\ stage' = 2 /\ SendsOn(<<Query("propread", place[1], 0)>>)
     /\ UNCHANGED <<reply, keep, place, found>>
  \/ /\ stage = 2 \/ v > 1
     /\ found' = found \cup {<<place[1], IF stage = 2 THEN 1 ELSE v>>}
     /\ ScanNext(<<place[1], place[2] + 1>>)
  \/ /\ stage = 1 /\ v = 0 /\ place[2] > 0
     /\ found' = found /\ ScanNext(<<place[1] + 1, 0>>)
  \/ /\ stage = 1 /\ v = 0 /\ place[2] = 0
     /\ Done(found) /\ UNCHANGED asks

(* An answer. The result of a write of a property does not reach the       *)
(* program: another array is sent, which is empty.                         *)
GotAnswer(v) ==
  IF link = "opening" THEN Done(0) /\ UNCHANGED asks
  ELSE CASE order.type = "scan" -> Scanned(v)
         [] order.type = "mode" /\ order.value # Status /\ stage = 1 -> WriteAndRead(WantedMode(v))
         [] order.type = "write" /\ stage = 1 /\ v # order.value -> WriteAndRead(order.value)
         [] order.type \in {"mode", "write"} /\ stage = 2 ->
              /\ IF v = keep THEN Done(0)
                 ELSE Rejected(IF order.type = "write" THEN "VERIFY" ELSE "reject")
              /\ UNCHANGED asks
         [] \/ order.type \in {"propwrite", "key"}
            \/ order.type = "write" /\ stage = 1 /\ v = order.value -> Done(0) /\ UNCHANGED asks
         [] OTHER -> Done(v) /\ UNCHANGED asks

Waits == link = "opening" \/ stage > 0
HearAnswer ==
  /\ Waits /\ told # <<>> /\ isResponse(Head(told), Awaited)
  /\ told' = Tail(told)
  /\ GotAnswer(Head(told).value)
  /\ link' = IF link = "opening" THEN "connection" ELSE link
  /\ UNCHANGED <<order, ended, unitvars, ever, sure, orders>>

(* Another APDU, nothing in time, or the end of the connection.            *)
ExchangeFails ==
  /\ Waits
  /\ \/ /\ told # <<>> /\ ~isResponse(Head(told), Awaited)
        /\ told' = Tail(told) /\ UNCHANGED sure
     \/ told = <<>> /\ sure' = FALSE /\ UNCHANGED told
  /\ Rejected(IF order.type = "write" THEN "PROCESSING_ERROR" ELSE "reject")
  /\ link' = IF link = "opening" THEN "off" ELSE link
  /\ asks' = IF link = "opening" THEN <<>> ELSE asks
  /\ ended' = IF link = "opening" THEN FALSE ELSE ended
  /\ UNCHANGED <<order, unitvars, ever, orders>>

----------------------------------------------------------------------------
(* The device.                                                             *)
Item(at) == IF at = ProgMode THEN "prog" ELSE "cell"
Takes(item, v) ==
  /\ held' = [held EXCEPT ![item] = v]
  /\ ever' = [ever EXCEPT ![item] = @ \cup {v}]
TellsAll(q, v) ==
  told' = Append(told, [type |-> Response[q.type], at |-> q.at, value |-> v])
Tells(q, v) ==
  IF link = "off" THEN UNCHANGED told
  ELSE TellsAll(q, v) \/ (link = "individual" /\ UNCHANGED told)

DeviceAnswers ==
  /\ asks # <<>> /\ asks' = Tail(asks)
  /\ LET q == Head(asks) IN
     \/ /\ q.type = "read" /\ Tells(q, held[Item(q.at)]) /\ UNCHANGED <<held, ever, ended>>
     \/ /\ q.type = "write" /\ UNCHANGED <<told, ended>>
        /\ IF fixed THEN UNCHANGED <<held, ever>> ELSE Takes(Item(q.at), q.value)
     \/ /\ q.type = "propread" /\ Tells(q, held["prop"]) /\ UNCHANGED <<held, ever, ended>>
     \/ /\ q.type = "propwrite" /\ Takes("prop", q.value) /\ Tells(q, q.value) /\ UNCHANGED ended
     \/ /\ q.type \in {"mask", "adc", "key"} /\ Tells(q, q.at) /\ UNCHANGED <<held, ever, ended>>
     \/ /\ q.type = "auth" /\ Tells(q, q.value) /\ UNCHANGED <<held, ever, ended>>
     \/ /\ q.type = "desc" /\ Tells(q, Described(q.at, q.value)) /\ UNCHANGED <<held, ever, ended>>
     \/ /\ q.type = "restart" /\ ended' = TRUE /\ UNCHANGED <<told, held, ever>>
  /\ UNCHANGED <<link, handler, fixed, turns, sure, orders>>

Lose ==
  /\ link \in {"off", "individual"} /\ asks # <<>> /\ asks' = Tail(asks)
  /\ UNCHANGED <<link, handler, told, ended, unitvars, ever, sure, orders>>

(* The connection ends: what is on the way is gone.                        *)
End ==
  /\ link \in {"opening", "connection"} /\ ~ended
  /\ ended' = TRUE /\ asks' = <<>>
  /\ UNCHANGED <<link, handler, told, unitvars, ever, sure, orders>>

PressAgain ==
  /\ turns < MaxTurns /\ turns' = turns + 1 /\ Takes("prog", 1 - held["prog"])
  /\ UNCHANGED <<link, handler, asks, told, ended, fixed, sure, orders>>

ManagementNext ==
  OpenDevice \/ LeaveDevice \/ ReadMessage \/ HearAnswer \/ ExchangeFails \/ DeviceAnswers \/ Lose \/ End \/ PressAgain

----------------------------------------------------------------------------
(* Unless an answer came too late before (answers are not numbered), what  *)
(* the program is answered is true of the device, at a time since it       *)
(* asked: a value it had, what it was told to be, all its properties.      *)
RepliesTrue ==
  sure /\ stage = 0 /\ reply[1] = "done" =>
    CASE order.type = "mode" /\ order.value = Status -> reply[2] \in ever["prog"]
      [] order.type = "mode" /\ order.value = On -> 1 \in ever["prog"]
      [] order.type = "mode" /\ order.value = Off -> 0 \in ever["prog"]
      [] order.type = "mode" /\ order.value = Toggle -> ever["prog"] = {0, 1}
      [] order.type = "read" -> reply[2] \in ever["cell"]
      [] order.type = "write" -> order.value \in ever["cell"]
      [] order.type = "propread" -> reply[2] \in ever["prop"]
      [] order.type = "propwrite" -> order.value \in ever["prop"]
      [] order.type = "auth" -> reply[2] = order.value
      [] order.type = "scan" -> reply[2] = ScanOf
      [] OTHER -> TRUE

ManagementSpec == ManagementInit /\ [][ManagementNext]_mgvars

(* What a program is told of a device is so: it is loaded with the whole   *)
(* program that could be loaded, or answered what the device said.         *)
Truthful == NeverHalfLoaded /\ SectionsApart /\ RepliesTrue
=============================================================================
