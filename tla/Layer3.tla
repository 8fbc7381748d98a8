------------------------------- MODULE Layer3 -------------------------------
(***************************************************************************)
(* Layer3 (src/eibd/libserver/layer3.cpp): the callbacks that clients have *)
(* registered for bus monitoring, broadcast, group and individual frames,  *)
(* what that makes of the layer 2 driver, and the thread that dispatches   *)
(* received frames to them.                                                *)
(*                                                                         *)
(* Threads are cooperative (GNU Pth): a registration is one step as long   *)
(* as the driver does not give up the processor in it (the TPUART drivers  *)
(* and EIBNetIPRouter do not, EIBNetIPTunnel, EMI1 and EMI2 do), and it    *)
(* comes between two callbacks of a dispatch only when a callback does so, *)
(* as GroupCache::Get_L_Data by pth_cond_notify.                           *)
(***************************************************************************)
EXTENDS Integers, Sequences, FiniteSets

CONSTANTS
  Cb,            \* callback objects
  YieldingCb,    \* those that wake a waiting thread and so let others run
  GroupAddr,     \* group addresses, 0 apart
  IndAddr,       \* individual addresses, 0 apart
  DefaultAddr,   \* the driver's own individual address
  MaxReg,        \* bound: registrations at a time
  MaxIgnore,     \* bound: entries in the list of frames to ignore
  FrameKind,     \* kinds of frames the bus delivers
  RegKind        \* kinds of registration clients make

ASSUME Layer3Assumption ==
  /\ YieldingCb \subseteq Cb
  /\ 0 \notin GroupAddr \cup IndAddr /\ DefaultAddr \in IndAddr
  /\ FrameKind \subseteq {"busmonitor", "broadcast", "group", "individual"}
  /\ RegKind \subseteq {"busmonitor", "vbusmonitor", "broadcast", "group", "individual"}

VARIABLES
  mode,          \* 1: bus monitor, 0: normal operation
  busmonitor, vbusmonitor, broadcast, group, individual,
  ignore,        \* <<frame, still within its second>>
  l2,            \* the driver: its mode, vmode and address filters
  pc, cur, i,    \* the dispatching thread, its frame and its index
  down,          \* the destructor has run
  (* history *)
  repeated,      \* cur carries the repeat flag
  got,           \* entries called for cur, in order
  atStart,       \* entries for cur when its dispatch began
  quit,          \* entries deregistered during this dispatch
  recent         \* frames dispatched within the last second, oldest first

lists == <<busmonitor, vbusmonitor, broadcast, group, individual>>
history == <<repeated, got, atStart, quit, recent>>
dispatch == <<ignore, pc, cur, i, repeated, got, atStart, recent>>
vars == <<mode, lists, ignore, l2, pc, cur, i, down, history>>

Lock == {"none", "connection"}
MonEntry == [cb : Cb]
GroupEntry == [cb : Cb, dest : GroupAddr \cup {0}]
IndEntry == [cb : Cb, src : IndAddr \cup {0}, dest : IndAddr \cup {0}, lock : Lock]
Entry == MonEntry \cup GroupEntry \cup IndEntry
Frame ==
  UNION {[kind : {"busmonitor"}],
         [kind : {"broadcast"}, src : IndAddr],
         [kind : {"group"}, src : IndAddr, dest : GroupAddr],
         [kind : {"individual"}, src : IndAddr, dest : IndAddr]}
NoFrame == [kind |-> "none"]

Elems(s) == {s[k] : k \in DOMAIN s}

(* r is what s holds at the positions "at", in order.                          *)
Picks(r, s, at) ==
  \E h \in [DOMAIN r -> at] :
    /\ \A m, n \in DOMAIN r : m < n => h[m] < h[n]
    /\ \A k \in at : \E n \in DOMAIN r : h[n] = k
    /\ \A n \in DOMAIN r : r[n] = s[h[n]]

Registrations ==
  Len(busmonitor) + Len(vbusmonitor) + Len(broadcast) + Len(group) + Len(individual)

Init ==
  /\ mode = 0
  /\ busmonitor = <<>> /\ vbusmonitor = <<>> /\ broadcast = <<>>
  /\ group = <<>> /\ individual = <<>> /\ ignore = <<>>
  /\ l2 = [mode |-> "open", vmode |-> FALSE, group |-> {}, ind |-> {DefaultAddr}]
  /\ pc = "wait" /\ cur = NoFrame /\ i = 1
  /\ down = FALSE
  /\ got = <<>> /\ atStart = {} /\ quit = {}
  /\ repeated = FALSE /\ recent = <<>>

----------------------------------------------------------------------------
(* Another thread runs only while the dispatcher waits or has yielded.     *)
ClientRuns == ~down /\ pc \in {"wait", "yielded"}

(* Removal puts the last entry in the place of the removed one.            *)
SwapOut(s, k) == [n \in 1 .. Len(s) - 1 |-> IF n = k THEN s[Len(s)] ELSE s[n]]

(* The loops of the deregister functions stop at the first entry that matches. *)
IsFirst(k, matching) == k \in matching /\ \A n \in matching : k <= n
CallbackAt(s, c) == {n \in DOMAIN s : s[n].cb = c}

Quits(e) == quit' = IF pc = "wait" THEN quit ELSE quit \cup {e}
Room == Registrations < MaxReg

GroupsForgotten == individual = <<>> /\ broadcast = <<>>
NothingRegistered == individual = <<>> /\ group = <<>> /\ broadcast = <<>>

(* registerBusmonitor: enterBusmonitor may fail (an ioctl of the TPUART driver). *)
RegisterBusmonitor(c) ==
  /\ ClientRuns /\ Room /\ NothingRegistered
  /\ \/ /\ mode' = 1
        /\ l2' = [l2 EXCEPT !.mode = "busmonitor"]
        /\ busmonitor' = Append(busmonitor, [cb |-> c])
     \/ /\ mode = 0          \* refused: Close, then Open again
        /\ l2' = [l2 EXCEPT !.mode = "open"]
        /\ UNCHANGED <<mode, busmonitor>>
  /\ UNCHANGED <<vbusmonitor, broadcast, group, individual, dispatch, quit, down>>

LeaveBusmonitor(b) ==
  IF b = <<>> THEN mode' = 0 /\ l2' = [l2 EXCEPT !.mode = "open"]
              ELSE UNCHANGED <<mode, l2>>

DeregisterBusmonitor(c) ==
  /\ ClientRuns
  /\ \E k \in DOMAIN busmonitor :
       IsFirst(k, CallbackAt(busmonitor, c)) /\ busmonitor' = SwapOut(busmonitor, k)
  /\ LeaveBusmonitor(busmonitor')
  /\ Quits([cb |-> c])
  /\ UNCHANGED <<vbusmonitor, broadcast, group, individual, dispatch, down>>

RegisterVBusmonitor(c) ==
  /\ ClientRuns /\ Room
  /\ l2' = [l2 EXCEPT !.vmode = TRUE]
  /\ vbusmonitor' = Append(vbusmonitor, [cb |-> c])
  /\ UNCHANGED <<mode, busmonitor, broadcast, group, individual, dispatch, quit, down>>

DeregisterVBusmonitor(c) ==
  /\ ClientRuns
  /\ \E k \in DOMAIN vbusmonitor :
       IsFirst(k, CallbackAt(vbusmonitor, c)) /\ vbusmonitor' = SwapOut(vbusmonitor, k)
  /\ l2' = [l2 EXCEPT !.vmode = vbusmonitor' # <<>>]
  /\ Quits([cb |-> c])
  /\ UNCHANGED <<mode, busmonitor, broadcast, group, individual, dispatch, down>>

RegisterBroadcastCallBack(c) ==
  /\ ClientRuns /\ Room /\ mode = 0
  /\ broadcast' = Append(broadcast, [cb |-> c])
  /\ UNCHANGED <<mode, busmonitor, vbusmonitor, group, individual, l2, dispatch, quit, down>>

DeregisterBroadcastCallBack(c) ==
  /\ ClientRuns
  /\ \E k \in DOMAIN broadcast :
       IsFirst(k, CallbackAt(broadcast, c)) /\ broadcast' = SwapOut(broadcast, k)
  /\ Quits([cb |-> c])
  /\ UNCHANGED <<mode, busmonitor, vbusmonitor, group, individual, l2, dispatch, down>>

NewAddress(s, a) == a # 0 /\ \A e \in Elems(s) : e.dest # a

(* The driver refuses an address it has (addGroupAddress, addAddress), so it   *)
(* is asked only for the first callback of an address and for none of 0.       *)
RegisterGroupCallBack(c, a) ==
  /\ ClientRuns /\ Room /\ mode = 0
  /\ IF NewAddress(group, a)
     THEN a \notin l2.group /\ l2' = [l2 EXCEPT !.group = @ \cup {a}]
     ELSE UNCHANGED l2
  /\ group' = Append(group, [cb |-> c, dest |-> a])
  /\ UNCHANGED <<mode, busmonitor, vbusmonitor, broadcast, individual, dispatch, quit, down>>

RemovedAlways(s, a) == TRUE
LastForAddress(s, a) == \A e \in Elems(s) : e.dest # a

DeregisterGroupCallBack(c, a) ==
  /\ ClientRuns
  /\ \E k \in DOMAIN group :
       /\ IsFirst(k, {n \in CallbackAt(group, c) : group[n].dest = a})
       /\ group' = SwapOut(group, k)
  /\ l2' = IF LastForAddress(group', a) THEN [l2 EXCEPT !.group = @ \ {a}] ELSE l2
  /\ Quits([cb |-> c, dest |-> a])
  /\ UNCHANGED <<mode, busmonitor, vbusmonitor, broadcast, individual, dispatch, down>>

LockFree(lock, src) ==
  lock = "connection" =>
    \A e \in Elems(individual) : ~(e.src = src /\ e.lock = "connection")

AddAddress(a) == a \notin l2.ind /\ l2' = [l2 EXCEPT !.ind = @ \cup {a}]

RegisterIndividualCallBack(c, lock, src, dest) ==
  /\ ClientRuns /\ Room /\ mode = 0
  /\ LockFree(lock, src)
  /\ IF NewAddress(individual, dest) THEN AddAddress(dest) ELSE UNCHANGED l2
  /\ individual' = Append(individual, [cb |-> c, src |-> src, dest |-> dest, lock |-> lock])
  /\ UNCHANGED <<mode, busmonitor, vbusmonitor, broadcast, group, dispatch, quit, down>>

DeregisterIndividualCallBack(c, src, dest) ==
  /\ ClientRuns
  /\ \E k \in DOMAIN individual :
       /\ IsFirst(k, {n \in CallbackAt(individual, c) :
                        individual[n].src = src /\ individual[n].dest = dest})
       /\ individual' = SwapOut(individual, k)
       /\ Quits(individual[k])
  /\ l2' = IF LastForAddress(individual', dest)
           THEN [l2 EXCEPT !.ind = @ \ {dest}] ELSE l2
  /\ UNCHANGED <<mode, busmonitor, vbusmonitor, broadcast, group, dispatch, down>>

(* ~Layer3: the thread is stopped and joined first. Busmonitor and broadcast   *)
(* callbacks are left where they are.                                          *)
Shutdown ==
  /\ pc = "wait" /\ ~down
  /\ down' = TRUE
  /\ vbusmonitor' = <<>> /\ group' = <<>> /\ individual' = <<>>
  /\ l2' = [mode |-> "closed", vmode |-> FALSE,
            group |-> l2.group \ {e.dest : e \in Elems(group)},
            ind |-> l2.ind \ ({e.dest : e \in Elems(individual)})]
  /\ UNCHANGED <<mode, busmonitor, broadcast, dispatch, quit>>

----------------------------------------------------------------------------
(* The dispatching thread.                                                     *)

(* The list a frame is dispatched over, and which of its entries want it.      *)
ListOf(f) ==
  CASE f.kind = "busmonitor" -> busmonitor \o vbusmonitor
    [] f.kind = "broadcast" -> broadcast
    [] f.kind = "group" -> group
    [] f.kind = "individual" -> individual

(* A frame to the driver's own address is looked up under 0.                   *)
Dest(f) == IF f.dest = DefaultAddr THEN 0 ELSE f.dest

WantsExact(e, f) == f.kind = "group" => e.dest = f.dest
Wants(e, f) ==
  CASE f.kind \in {"busmonitor", "broadcast"} -> TRUE
    [] f.kind = "group" -> e.dest \in {f.dest, 0}
    [] f.kind = "individual" -> e.dest = Dest(f) /\ e.src \in {f.src, 0}

Wanting(f) == {e \in Elems(ListOf(f)) : Wants(e, f)}

IsRepeatNo(f, rep) == FALSE
IsRepeat(f, rep) == rep /\ \E k \in DOMAIN ignore : ignore[k][1] = f

(* A frame arrives; a repetition of one in the ignore list goes no further,    *)
(* not even to the removal of expired entries.                                 *)
Receive(f, rep) ==
  /\ pc = "wait" /\ ~down
  /\ ~IsRepeat(f, rep)
  /\ f.kind # "busmonitor" => Len(ignore) < MaxIgnore
  /\ ignore' = IF f.kind = "busmonitor" THEN ignore ELSE Append(ignore, <<f, TRUE>>)
  /\ recent' = IF f.kind = "busmonitor" THEN recent ELSE Append(recent, f)
  /\ pc' = "deliver" /\ cur' = f /\ i' = 1 /\ repeated' = rep
  /\ got' = <<>> /\ atStart' = Wanting(f) /\ quit' = {}
  /\ UNCHANGED <<mode, lists, l2, down>>

Discard(f) ==
  /\ pc = "wait" /\ ~down
  /\ IsRepeat(f, TRUE)
  /\ UNCHANGED vars

StillThere(k) == k <= Len(ListOf(cur))

(* One turn of the loop over the list.                                         *)
Deliver ==
  /\ pc = "deliver" /\ StillThere(i)
  /\ LET e == ListOf(cur)[i] IN
     /\ got' = IF Wants(e, cur) THEN Append(got, e) ELSE got
     /\ pc' = IF Wants(e, cur) /\ cur.kind = "group" /\ e.cb \in YieldingCb
              THEN "yielded" ELSE "deliver"
  /\ i' = i + 1
  /\ UNCHANGED <<mode, lists, ignore, l2, cur, down, repeated, atStart, quit, recent>>

Resume ==
  /\ pc = "yielded"
  /\ pc' = "deliver"
  /\ UNCHANGED <<mode, lists, ignore, l2, cur, i, down, history>>

(* What is left of the list of frames to ignore: r, without the expired.       *)
Fresh(g) == {k \in DOMAIN g : g[k][2]}
Purge(g, r) == Picks(r, g, Fresh(g))

EndOfList ==
  /\ pc = "deliver" /\ ~StillThere(i)
  /\ pc' = "wait" /\ cur' = NoFrame /\ i' = 1
  /\ \E r \in UNION {[1 .. n -> Elems(ignore)] : n \in 0 .. Len(ignore)} :
       Purge(ignore, r) /\ ignore' = r
  /\ repeated' = FALSE /\ got' = <<>> /\ atStart' = {} /\ quit' = {}
  /\ UNCHANGED <<mode, lists, l2, down, recent>>

(* Time passes: the oldest entry of ignore is now a second old.  Repetitions   *)
(* do not renew an entry, a second first transmission adds another one.        *)
Expire ==
  /\ pc # "deliver" /\ recent # <<>>
  /\ \E k \in DOMAIN ignore :
       /\ ignore[k][2] /\ \A n \in 1 .. k - 1 : ~ignore[n][2]
       /\ ignore' = [ignore EXCEPT ![k] = <<@[1], FALSE>>]
  /\ recent' = Tail(recent)
  /\ UNCHANGED <<mode, lists, l2, pc, cur, i, down, repeated, got, atStart, quit>>

(* A callback object registers once in a list: T_Group and the like do so in   *)
(* their constructor, GroupCache and EIBnetServer when they are enabled.       *)
New(c, s) == c \notin {e.cb : e \in Elems(s)}

Register(c) ==
  \/ "busmonitor" \in RegKind /\ New(c, busmonitor) /\ RegisterBusmonitor(c)
  \/ "vbusmonitor" \in RegKind /\ New(c, vbusmonitor) /\ RegisterVBusmonitor(c)
  \/ "broadcast" \in RegKind /\ New(c, broadcast) /\ RegisterBroadcastCallBack(c)
  \/ /\ "group" \in RegKind /\ New(c, group)
     /\ \E a \in GroupAddr \cup {0} : RegisterGroupCallBack(c, a)
  \/ /\ "individual" \in RegKind /\ New(c, individual)
     /\ \E lock \in Lock, s, d \in IndAddr \cup {0} :
          RegisterIndividualCallBack(c, lock, s, d)

Deregister(c) ==
  \/ DeregisterBusmonitor(c)
  \/ DeregisterVBusmonitor(c)
  \/ DeregisterBroadcastCallBack(c)
  \/ \E a \in GroupAddr \cup {0} : DeregisterGroupCallBack(c, a)
  \/ \E s, d \in IndAddr \cup {0} : DeregisterIndividualCallBack(c, s, d)

Dispatcher ==
  \/ \E f \in Frame, rep \in BOOLEAN : f.kind \in FrameKind /\ Receive(f, rep)
  \/ \E f \in Frame : Discard(f)
  \/ Deliver
  \/ Resume
  \/ EndOfList

Next ==
  \/ \E c \in Cb : Register(c) \/ Deregister(c)
  \/ Dispatcher
  \/ Expire
  \/ Shutdown

Spec == Init /\ [][Next]_vars

----------------------------------------------------------------------------
(* Type invariant. *)
TypeOK ==
  /\ mode \in {0, 1} /\ down \in BOOLEAN
  /\ busmonitor \in Seq(MonEntry) /\ vbusmonitor \in Seq(MonEntry)
  /\ broadcast \in Seq(MonEntry)
  /\ group \in Seq(GroupEntry) /\ individual \in Seq(IndEntry)
  /\ ignore \in Seq(Frame \X BOOLEAN)
  /\ l2 \in [mode : {"open", "busmonitor", "closed"}, vmode : BOOLEAN,
             group : SUBSET GroupAddr, ind : SUBSET IndAddr]
  /\ pc \in {"wait", "deliver", "yielded"} /\ i \in Nat \ {0}
  /\ cur \in Frame \cup {NoFrame} /\ repeated \in BOOLEAN
  /\ got \in Seq(Entry) /\ atStart \subseteq Entry /\ quit \subseteq Entry
  /\ recent \in Seq(Frame)

(* A bus monitor has the driver for itself: Layer3, the driver and the lists   *)
(* agree on the mode, whatever sequence of registrations, refusals and         *)
(* deregistrations (of the last monitor or not) led there.                     *)
MonitorExclusive ==
  ~down =>
    /\ mode = 1 <=> busmonitor # <<>>
    /\ l2.mode = (IF mode = 1 THEN "busmonitor" ELSE "open")
    /\ mode = 1 => individual = <<>> /\ group = <<>> /\ broadcast = <<>>

(* The driver's filters acknowledge the addresses somebody listens on, those   *)
(* and no others: an address shared by two callbacks stays until both are gone *)
(* and the driver's own address stays always.                                  *)
FiltersFollowCallbacks ==
  /\ l2.group = {e.dest : e \in Elems(group)} \ {0}
  /\ ~down => l2.ind = {DefaultAddr} \cup ({e.dest : e \in Elems(individual)} \ {0})
  /\ l2.vmode = (vbusmonitor # <<>>)

(* Who is to get a frame, by the comments on the arguments of the register     *)
(* functions: 0 stands for all groups, for every source, and as a destination  *)
(* for the driver's own address.                                               *)
Addressed(e, f) ==
  CASE f.kind \in {"busmonitor", "broadcast"} -> TRUE
    [] f.kind = "group" -> e.dest = 0 \/ e.dest = f.dest
    [] f.kind = "individual" ->
         /\ e.dest = f.dest \/ (e.dest = 0 /\ f.dest = DefaultAddr)
         /\ e.src = 0 \/ e.src = f.src

Addressees(f) == {k \in DOMAIN ListOf(f) : Addressed(ListOf(f)[k], f)}

(* A frame reaches, once each, all callbacks it is addressed to, those that    *)
(* register while it is dispatched included, if none deregisters meanwhile.    *)
(* No callback is registered under the driver's own address itself, where the  *)
(* rewriting of that address to 0 would hide it.                               *)
AddresseesGetIt ==
  pc = "deliver" /\ ~StillThere(i) /\ quit = {} =>
    Picks(got, ListOf(cur), Addressees(cur))

(* Every callback that stays registered from the beginning of a dispatch to    *)
(* its end gets the frame (layer3.h: "group address, for which the frames      *)
(* should be delivered").                                                      *)
StayingGet ==
  pc = "deliver" /\ ~StillThere(i) => atStart \ quit \subseteq Elems(got)

(* A repetition is not dispatched within a second of a dispatch of its frame.  *)
RepeatsFiltered ==
  [][pc = "wait" /\ pc' = "deliver" /\ repeated' => cur' \notin Elems(recent)]_vars
=============================================================================
