--------------------------- MODULE Connectionless ---------------------------
(***************************************************************************)
(* The endpoints without a connection of layer 4 (layer4.cpp in            *)
(* src/eibd/libserver): T_Broadcast, T_Group, T_Individual, T_TPDU and     *)
(* GroupSocket, opened by the clients of several daemons on one bus.  Each *)
(* registers with its Layer3 under an address, fills in the frames it      *)
(* sends and picks from the frames it is given what it queues for its      *)
(* client.  A layer 2 driver hands a daemon its own frames, too.           *)
(***************************************************************************)
EXTENDS Integers, Sequences

CONSTANTS
  Endpoint,    \* places for an endpoint
  Own,         \* Own[e]: the individual address of the daemon e is opened at
  GroupAddress,
  MaxFrames,   \* bound: frames sent
  MaxOpens     \* bound: endpoints opened

ASSUME ConnectionlessAssumption ==
  /\ Own \in [Endpoint -> Nat \ {0}] /\ GroupAddress \subseteq Nat \ {0}
  /\ MaxFrames \in Nat /\ MaxOpens \in Nat

VARIABLES
  opened,    \* what is opened at a place: its class and its address
  entry,     \* and its entry in the lists of Layer3
  arriving,  \* frames layer 2 has for the daemon of the place
  outqueue,  \* what the endpoint has queued
  received,     \* history: what its client has got
  offered,   \* history: frames that came since it was opened
  frames, opens

cnvars == <<opened, entry, arriving, outqueue, received, offered, frames, opens>>

Unopened == [class |-> "none", at |-> 0]
NoEntry == [list |-> "none", src |-> 0, dest |-> 0]
Daemon(e) == {d \in Endpoint : Own[d] = Own[e]}
Individual == {Own[e] : e \in Endpoint}
Elements(s) == {s[i] : i \in DOMAIN s}

ConnectionlessInit ==
  /\ opened = [e \in Endpoint |-> Unopened] /\ entry = [e \in Endpoint |-> NoEntry]
  /\ arriving = [e \in Endpoint |-> <<>>] /\ outqueue = [e \in Endpoint |-> <<>>]
  /\ received = [e \in Endpoint |-> <<>>] /\ offered = [e \in Endpoint |-> {}]
  /\ frames = 0 /\ opens = 0

----------------------------------------------------------------------------
(* The constructors.                                                       *)
EntryOf(class, at) ==
  CASE class = "T_Broadcast" -> [list |-> "broadcast", src |-> 0, dest |-> 0]
    [] class = "T_Group" -> [list |-> "group", src |-> 0, dest |-> at]
    [] class = "GroupSocket" -> [list |-> "group", src |-> 0, dest |-> 0]
    [] class = "T_Individual" -> [list |-> "individual", src |-> at, dest |-> 0]
    [] class = "T_TPDU" -> [list |-> "individual", src |-> 0, dest |-> at]

AddressesFor(class) ==
  CASE class = "T_Group" -> GroupAddress
    [] class \in {"T_Individual", "T_TPDU"} -> Individual \cup {0}
    [] OTHER -> {0}
Classes == {"T_Broadcast", "T_Group", "GroupSocket", "T_Individual", "T_TPDU"}

(* Group 0 is refused; registering fails while a bus monitor is open; an   *)
(* endpoint that only writes does not register.                            *)
OpenEndpoint(e) ==
  /\ opened[e] = Unopened /\ opens < MaxOpens
  /\ \E class \in Classes, write_only \in BOOLEAN : \E at \in AddressesFor(class) :
       /\ class = "T_TPDU" => ~write_only
       /\ opened' = [opened EXCEPT ![e] = [class |-> class, at |-> at]]
       /\ entry' = [entry EXCEPT ![e] = IF write_only THEN NoEntry ELSE EntryOf(class, at)]
  /\ offered' = [offered EXCEPT ![e] = Elements(arriving[e])]
  /\ opens' = opens + 1
  /\ UNCHANGED <<arriving, outqueue, received, frames>>

CloseEndpoint(e) ==
  /\ opened[e] # Unopened
  /\ opened' = [opened EXCEPT ![e] = Unopened] /\ entry' = [entry EXCEPT ![e] = NoEntry]
  /\ outqueue' = [outqueue EXCEPT ![e] = <<>>]
  /\ received' = [received EXCEPT ![e] = <<>>] /\ offered' = [offered EXCEPT ![e] = {}]
  /\ UNCHANGED <<arriving, frames, opens>>

(* A frame: its addresses, whether it holds an APDU (T_DATA_XXX_REQ) or    *)
(* controls a connection, and its number.                                  *)
FrameOf(toGroup, src, dest, type) ==
  [toGroup |-> toGroup, src |-> src, dest |-> dest, type |-> type, no |-> frames]

(* Send: the source 0 stands for the address of the daemon.                *)
Sendable(e) ==
  LET o == opened[e] IN
  CASE o.class = "none" -> {}
    [] o.class = "T_Broadcast" -> {FrameOf(TRUE, 0, 0, "data")}
    [] o.class = "T_Group" -> {FrameOf(TRUE, 0, o.at, "data")}
    [] o.class = "GroupSocket" -> {FrameOf(TRUE, 0, g, "data") : g \in GroupAddress \cup {0}}
    [] o.class = "T_Individual" -> {FrameOf(FALSE, 0, o.at, "data")}
    [] o.class = "T_TPDU" ->
         {FrameOf(FALSE, o.at, d, t) : d \in Individual, t \in {"data", "control"}}
SourceOf(e, f) == IF f.src = 0 THEN Own[e] ELSE f.src

SendFrom(e) ==
  /\ frames < MaxFrames
  /\ \E f \in Sendable(e) :
       LET g == [f EXCEPT !.src = SourceOf(e, f)]
       IN /\ arriving' = [d \in Endpoint |-> Append(arriving[d], g)]
          /\ offered' = [d \in Endpoint |->
                           IF opened[d] = Unopened THEN {} ELSE offered[d] \cup {g}]
  /\ frames' = frames + 1
  /\ UNCHANGED <<opened, entry, outqueue, received, opens>>

(* Layer3::Run: which entries a frame is for.                              *)
Calls(e, f) ==
  LET n == entry[e] dest == IF ~f.toGroup /\ f.dest = Own[e] THEN 0 ELSE f.dest
  IN CASE n.list = "none" -> FALSE
       [] n.list = "broadcast" -> f.toGroup /\ dest = 0
       [] n.list = "group" -> f.toGroup /\ dest # 0 /\ n.dest \in {0, dest}
       [] n.list = "individual" -> ~f.toGroup /\ n.dest = dest /\ n.src \in {0, f.src}

(* Get_L_Data: T_TPDU takes a frame as it is, the others an APDU.          *)
Wants(e, f) == opened[e].class = "T_TPDU" \/ f.type = "data"
WantsAll(e, f) == TRUE

Get_L_Data(e) ==
  /\ arriving[e] # <<>>
  /\ \A d \in Daemon(e) : arriving[d] = arriving[e]
  /\ arriving' = [d \in Endpoint |->
                    IF d \in Daemon(e) THEN Tail(arriving[d]) ELSE arriving[d]]
  /\ LET f == Head(arriving[e])
         Queues(d) == d \in Daemon(e) /\ Calls(d, f) /\ Wants(d, f)
     IN outqueue' = [d \in Endpoint |->
                       IF Queues(d) THEN Append(outqueue[d], f) ELSE outqueue[d]]
  /\ UNCHANGED <<opened, entry, received, offered, frames, opens>>

(* Get: what the client is told of a frame.                                *)
Told(e, f) ==
  CASE opened[e].class = "T_Individual" -> <<f.no>>
    [] opened[e].class = "GroupSocket" -> <<f.no, f.src, f.dest>>
    [] OTHER -> <<f.no, f.src>>
GetNext(e) ==
  /\ outqueue[e] # <<>>
  /\ received' = [received EXCEPT ![e] = Append(@, Told(e, Head(outqueue[e])))]
  /\ outqueue' = [outqueue EXCEPT ![e] = Tail(@)]
  /\ UNCHANGED <<opened, entry, arriving, offered, frames, opens>>

ConnectionlessNext ==
  \E e \in Endpoint :
    OpenEndpoint(e) \/ CloseEndpoint(e) \/ SendFrom(e) \/ Get_L_Data(e) \/ GetNext(e)

----------------------------------------------------------------------------
(* Whom a frame is for, as the client library says of the kinds of         *)
(* endpoints.  0 stands for every partner and, in a frame, for whoever     *)
(* gets it; at the address of its own daemon a T_TPDU hears nothing.       *)
ForIt(e, f) ==
  LET o == opened[e] IN
  /\ entry[e] # NoEntry
  /\ CASE o.class = "T_Broadcast" -> f.toGroup /\ f.dest = 0
       [] o.class = "T_Group" -> f.toGroup /\ f.dest = o.at
       [] o.class = "GroupSocket" -> f.toGroup /\ f.dest # 0
       [] o.class = "T_Individual" ->
            ~f.toGroup /\ f.type = "data" /\ o.at \in {0, f.src} /\ f.dest \in {0, Own[e]}
       [] o.class = "T_TPDU" ->
            ~f.toGroup /\ IF o.at = 0 THEN f.dest \in {0, Own[e]} ELSE f.dest = o.at /\ o.at # Own[e]

(* The client of an endpoint has got, or will get, the frames for it that  *)
(* came since it opened the endpoint: all, once, in order (frames are      *)
(* numbered as they are sent), none of an endpoint that was closed before. *)
Delivered ==
  \A e \in Endpoint :
    opened[e] # Unopened =>
      LET ToldOf(fs) == {Told(e, f) : f \in {g \in fs : ForIt(e, g)}}
          queued == [i \in DOMAIN outqueue[e] |-> Told(e, outqueue[e][i])]
          line == received[e] \o queued
      IN /\ Elements(line) \cup ToldOf(Elements(arriving[e])) = ToldOf(offered[e])
         /\ \A i, j \in DOMAIN line : i < j => line[i][1] < line[j][1]
         /\ \A i \in DOMAIN line : \A x \in ToldOf(Elements(arriving[e])) : line[i][1] < x[1]

ConnectionlessSpec == ConnectionlessInit /\ [][ConnectionlessNext]_cnvars
=============================================================================
