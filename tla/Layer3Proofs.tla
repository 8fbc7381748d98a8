---------------------------- MODULE Layer3Proofs ----------------------------
(***************************************************************************)
(* Proofs about the registrations of Layer3, for all callbacks, addresses  *)
(* and bounds: the mode and the filters of the driver follow the lists.    *)
(* The dispatching thread changes neither, so its steps are one case.      *)
(***************************************************************************)
EXTENDS Layer3, TLAPS

Dests(s) == {e.dest : e \in Elems(s)}

ListsOK ==
  /\ mode \in {0, 1} /\ down \in BOOLEAN
  /\ busmonitor \in Seq(MonEntry) /\ vbusmonitor \in Seq(MonEntry)
  /\ broadcast \in Seq(MonEntry)
  /\ group \in Seq(GroupEntry) /\ individual \in Seq(IndEntry)
  /\ l2 \in [mode : {"open", "busmonitor", "closed"}, vmode : BOOLEAN,
             group : SUBSET GroupAddr, ind : SUBSET IndAddr]

(* The driver refuses to add its own address, so no callback has it: removing  *)
(* the address of a callback never removes the driver's own.                   *)
OwnAddressKept == DefaultAddr \notin Dests(individual)

RegInv == ListsOK /\ MonitorExclusive /\ FiltersFollowCallbacks /\ OwnAddressKept

(* What the dispatching thread and time leave alone. *)
registrations == <<mode, lists, l2, down>>

(* Appending an entry adds it to the entries. *)
LEMMA AppendElems ==
  ASSUME NEW S, NEW s \in Seq(S), NEW x \in S
  PROVE  /\ Append(s, x) \in Seq(S)
         /\ Append(s, x) # <<>>
         /\ Elems(Append(s, x)) = Elems(s) \cup {x}
<1>1. /\ Append(s, x) \in Seq(S) /\ Len(Append(s, x)) = Len(s) + 1
      /\ \A n \in 1 .. Len(s) : Append(s, x)[n] = s[n]
      /\ Append(s, x)[Len(s) + 1] = x
  OBVIOUS
<1>2. Append(s, x) # <<>>
  BY <1>1
<1>3. DOMAIN Append(s, x) = DOMAIN s \cup {Len(s) + 1} /\ DOMAIN s = 1 .. Len(s)
  BY <1>1
<1>4. Elems(Append(s, x)) = Elems(s) \cup {x}
  BY <1>1, <1>3 DEF Elems
<1> QED
  BY <1>1, <1>2, <1>4

(* The last entry takes the place of the removed one: all others stay. *)
LEMMA SwapOutElems ==
  ASSUME NEW S, NEW s \in Seq(S), NEW k \in DOMAIN s
  PROVE  /\ SwapOut(s, k) \in Seq(S)
         /\ s[k] \in S
         /\ Elems(SwapOut(s, k)) \subseteq Elems(s)
         /\ Elems(s) = Elems(SwapOut(s, k)) \cup {s[k]}
<1> DEFINE r == SwapOut(s, k)
<1>1. /\ Len(s) \in Nat /\ DOMAIN s = 1 .. Len(s) /\ k \in 1 .. Len(s)
      /\ \A n \in 1 .. Len(s) : s[n] \in S
  OBVIOUS
<1>2. Len(s) - 1 \in Nat
  BY <1>1
<1>3. /\ r = [n \in 1 .. Len(s) - 1 |-> IF n = k THEN s[Len(s)] ELSE s[n]]
      /\ \A n \in 1 .. Len(s) - 1 : r[n] \in S
  BY <1>1 DEF SwapOut
<1>4. r \in Seq(S)
  BY <1>2, <1>3
<1>5. DOMAIN r = 1 .. Len(s) - 1
  BY <1>3
<1>6. ASSUME NEW n \in DOMAIN s, n # k
      PROVE  \E m \in DOMAIN r : r[m] = s[n]
  <2>1. CASE n = Len(s)
    BY <2>1, <1>1, <1>3, <1>5, <1>6
  <2>2. CASE n # Len(s)
    BY <2>2, <1>1, <1>3, <1>5, <1>6
  <2> QED
    BY <2>1, <2>2
<1>7. Elems(r) \subseteq Elems(s)
  BY <1>1, <1>3, <1>5 DEF Elems
<1>8. Elems(s) = Elems(r) \cup {s[k]}
  BY <1>6, <1>7 DEF Elems
<1> QED
  BY <1>1, <1>4, <1>7, <1>8

(* An empty list has no entries. *)
LEMMA EmptyElems == Elems(<<>>) = {} /\ Dests(<<>>) = {}
BY DEF Elems, Dests

(* Adding an entry adds its address. *)
LEMMA AppendDests ==
  ASSUME NEW S, NEW s \in Seq(S), NEW x \in S
  PROVE  Dests(Append(s, x)) = Dests(s) \cup {x.dest}
BY AppendElems DEF Dests

(* Removing an entry removes at most its address. *)
LEMMA SwapOutDests ==
  ASSUME NEW S, NEW s \in Seq(S), NEW k \in DOMAIN s
  PROVE  Dests(s) = Dests(SwapOut(s, k)) \cup {s[k].dest}
BY SwapOutElems DEF Dests

(* Whether an address has a callback is whether it is among the addresses. *)
LEMMA AddressInUse ==
  ASSUME NEW s, NEW a
  PROVE  /\ LastForAddress(s, a) <=> a \notin Dests(s)
         /\ NewAddress(s, a) <=> a # 0 /\ a \notin Dests(s)
BY DEF LastForAddress, NewAddress, Dests

(* The constructor. *)
LEMMA InitRegInv == Init => RegInv
<1> SUFFICES ASSUME Init PROVE RegInv
  OBVIOUS
<1>1. ListsOK
  <2>1. l2 = [mode |-> "open", vmode |-> FALSE, group |-> {}, ind |-> {DefaultAddr}]
    BY DEF Init
  <2>2. {DefaultAddr} \in SUBSET IndAddr
    BY Layer3Assumption
  <2>3. l2 \in [mode : {"open", "busmonitor", "closed"}, vmode : BOOLEAN,
                group : SUBSET GroupAddr, ind : SUBSET IndAddr]
    BY <2>1, <2>2
  <2>4. down \in BOOLEAN
    BY DEF Init
  <2> QED
    BY <2>3, <2>4 DEF Init, ListsOK
<1>2. MonitorExclusive
  BY DEF Init, MonitorExclusive
<1>3. Dests(group) = {} /\ Dests(individual) = {}
  BY EmptyElems DEF Init
<1>4. FiltersFollowCallbacks
  BY <1>3 DEF Init, FiltersFollowCallbacks, Dests
<1> QED
  BY <1>1, <1>2, <1>3, <1>4 DEF RegInv, OwnAddressKept

(* The dispatching thread and time touch no registration. *)
LEMMA Untouched ==
  ASSUME RegInv, UNCHANGED registrations
  PROVE  RegInv'
<1> USE DEF RegInv, registrations, lists
<1>1. ListsOK'
  BY DEF ListsOK
<1>2. MonitorExclusive'
  BY DEF MonitorExclusive
<1>3. FiltersFollowCallbacks'
  BY DEF FiltersFollowCallbacks, Elems
<1>4. OwnAddressKept'
  BY DEF OwnAddressKept, Dests, Elems
<1> QED
  BY <1>1, <1>2, <1>3, <1>4

(* An entry of each list. *)
LEMMA EntryTyped ==
  ASSUME NEW c \in Cb
  PROVE  /\ [cb |-> c] \in MonEntry
         /\ \A a \in GroupAddr \cup {0} : [cb |-> c, dest |-> a] \in GroupEntry
         /\ \A lock \in Lock, s, d \in IndAddr \cup {0} :
              [cb |-> c, src |-> s, dest |-> d, lock |-> lock] \in IndEntry
BY DEF MonEntry, GroupEntry, IndEntry

(* The five lists and what the driver knows are typed one by one. *)
LEMMA DriverTyped ==
  ASSUME ListsOK
  PROVE  /\ l2.group \subseteq GroupAddr /\ l2.ind \subseteq IndAddr
         /\ l2.vmode \in BOOLEAN /\ l2.mode \in {"open", "busmonitor", "closed"}
BY DEF ListsOK

(* The filters of the driver are the addresses of the callbacks. *)
LEMMA FiltersAreDests ==
  FiltersFollowCallbacks <=>
    /\ l2.group = Dests(group) \ {0}
    /\ ~down => l2.ind = {DefaultAddr} \cup (Dests(individual) \ {0})
    /\ l2.vmode = (vbusmonitor # <<>>)
BY Zenon DEF FiltersFollowCallbacks, Dests

(* The same after a step. *)
LEMMA FiltersAfter ==
  ASSUME l2'.group = Dests(group') \ {0},
         ~down' => l2'.ind = {DefaultAddr} \cup (Dests(individual') \ {0}),
         l2'.vmode = (vbusmonitor' # <<>>)
  PROVE  FiltersFollowCallbacks'
BY Zenon DEF FiltersFollowCallbacks, Dests

----------------------------------------------------------------------------
(* registerBusmonitor, granted or refused. *)
LEMMA RegisterBusmonitorKeeps ==
  ASSUME NEW c \in Cb, RegInv, RegisterBusmonitor(c)
  PROVE  RegInv'
<1> USE DEF RegInv, RegisterBusmonitor, ClientRuns, NothingRegistered, dispatch
<1>1. Append(busmonitor, [cb |-> c]) \in Seq(MonEntry) /\ Append(busmonitor, [cb |-> c]) # <<>>
  <2>1. [cb |-> c] \in MonEntry /\ busmonitor \in Seq(MonEntry)
    BY EntryTyped DEF ListsOK
  <2> QED
    BY <2>1, AppendElems
<1>2. ListsOK'
  BY <1>1 DEF ListsOK
<1>3. MonitorExclusive'
  BY <1>1 DEF MonitorExclusive, ListsOK
<1>4. l2'.group = l2.group /\ l2'.ind = l2.ind /\ l2'.vmode = l2.vmode
  BY DEF ListsOK
<1>5. FiltersFollowCallbacks' /\ OwnAddressKept'
  BY <1>4 DEF FiltersFollowCallbacks, OwnAddressKept, Dests, Elems
<1> QED
  BY <1>2, <1>3, <1>5

(* deregisterBusmonitor: the last monitor leads back to normal operation. *)
LEMMA DeregisterBusmonitorKeeps ==
  ASSUME NEW c \in Cb, RegInv, DeregisterBusmonitor(c)
  PROVE  RegInv'
<1> USE DEF RegInv, DeregisterBusmonitor, ClientRuns, dispatch
<1>1. PICK k \in DOMAIN busmonitor : busmonitor' = SwapOut(busmonitor, k)
  OBVIOUS
<1>2. busmonitor' \in Seq(MonEntry) /\ busmonitor # <<>>
  BY <1>1, SwapOutElems DEF ListsOK
<1>3. mode = 1 /\ l2.mode = "busmonitor"
  BY <1>2 DEF MonitorExclusive
<1>4. ListsOK'
  BY <1>2 DEF ListsOK, LeaveBusmonitor
<1>5. MonitorExclusive'
  BY <1>2, <1>3 DEF MonitorExclusive, ListsOK, LeaveBusmonitor
<1>6. l2'.group = l2.group /\ l2'.ind = l2.ind /\ l2'.vmode = l2.vmode
  BY DEF ListsOK, LeaveBusmonitor
<1>7. UNCHANGED <<vbusmonitor, group, individual, down>>
  OBVIOUS
<1>8. FiltersFollowCallbacks'
  BY <1>6, <1>7 DEF FiltersFollowCallbacks, Elems
<1>9. OwnAddressKept'
  BY <1>7 DEF OwnAddressKept, Dests, Elems
<1> QED
  BY <1>4, <1>5, <1>8, <1>9

(* registerVBusmonitor. *)
LEMMA RegisterVBusmonitorKeeps ==
  ASSUME NEW c \in Cb, RegInv, RegisterVBusmonitor(c)
  PROVE  RegInv'
<1> USE DEF RegInv, RegisterVBusmonitor, ClientRuns, dispatch
<1>1. vbusmonitor' \in Seq(MonEntry) /\ vbusmonitor' # <<>>
  BY EntryTyped, AppendElems DEF ListsOK
<1>2. ListsOK'
  BY <1>1 DEF ListsOK
<1>3. /\ l2'.group = l2.group /\ l2'.ind = l2.ind /\ l2'.mode = l2.mode
      /\ l2'.vmode = TRUE
  BY DEF ListsOK
<1>4. MonitorExclusive'
  BY <1>3 DEF MonitorExclusive
<1>5. UNCHANGED <<group, individual, down>>
  OBVIOUS
<1>6. l2'.vmode = (vbusmonitor' # <<>>)
  BY <1>1, <1>3
<1>7. FiltersFollowCallbacks'
  BY <1>3, <1>5, <1>6, FiltersAreDests, FiltersAfter
<1>8. OwnAddressKept'
  BY <1>5 DEF OwnAddressKept, Dests, Elems
<1> QED
  BY <1>2, <1>4, <1>7, <1>8

(* deregisterVBusmonitor. *)
LEMMA DeregisterVBusmonitorKeeps ==
  ASSUME NEW c \in Cb, RegInv, DeregisterVBusmonitor(c)
  PROVE  RegInv'
<1> USE DEF RegInv, DeregisterVBusmonitor, ClientRuns, dispatch
<1>1. PICK k \in DOMAIN vbusmonitor : vbusmonitor' = SwapOut(vbusmonitor, k)
  OBVIOUS
<1>2. vbusmonitor' \in Seq(MonEntry)
  BY <1>1, SwapOutElems DEF ListsOK
<1>3. (vbusmonitor' # <<>>) \in BOOLEAN
  OBVIOUS
<1>4. ListsOK'
  BY <1>2, <1>3 DEF ListsOK
<1>5. /\ l2'.group = l2.group /\ l2'.ind = l2.ind /\ l2'.mode = l2.mode
      /\ l2'.vmode = (vbusmonitor' # <<>>)
  BY DEF ListsOK
<1>6. MonitorExclusive'
  BY <1>5 DEF MonitorExclusive
<1>7. FiltersFollowCallbacks' /\ OwnAddressKept'
  BY <1>5 DEF FiltersFollowCallbacks, OwnAddressKept, Dests, Elems
<1> QED
  BY <1>4, <1>6, <1>7

(* registerBroadcastCallBack. *)
LEMMA RegisterBroadcastKeeps ==
  ASSUME NEW c \in Cb, RegInv, RegisterBroadcastCallBack(c)
  PROVE  RegInv'
<1> USE DEF RegInv, RegisterBroadcastCallBack, ClientRuns, dispatch
<1>1. broadcast' \in Seq(MonEntry)
  BY EntryTyped, AppendElems DEF ListsOK
<1>2. ListsOK'
  BY <1>1 DEF ListsOK
<1>3. MonitorExclusive'
  BY DEF MonitorExclusive
<1>4. FiltersFollowCallbacks' /\ OwnAddressKept'
  BY DEF FiltersFollowCallbacks, OwnAddressKept, Dests, Elems
<1> QED
  BY <1>2, <1>3, <1>4

(* deregisterBroadcastCallBack. *)
LEMMA DeregisterBroadcastKeeps ==
  ASSUME NEW c \in Cb, RegInv, DeregisterBroadcastCallBack(c)
  PROVE  RegInv'
<1> USE DEF RegInv, DeregisterBroadcastCallBack, ClientRuns, dispatch
<1>1. PICK k \in DOMAIN broadcast : broadcast' = SwapOut(broadcast, k)
  OBVIOUS
<1>2. broadcast' \in Seq(MonEntry) /\ broadcast # <<>>
  BY <1>1, SwapOutElems DEF ListsOK
<1>3. ListsOK'
  BY <1>2 DEF ListsOK
<1>4. MonitorExclusive'
  BY <1>2 DEF MonitorExclusive, ListsOK
<1>5. FiltersFollowCallbacks' /\ OwnAddressKept'
  BY DEF FiltersFollowCallbacks, OwnAddressKept, Dests, Elems
<1> QED
  BY <1>3, <1>4, <1>5

(* registerGroupCallBack: an address that has a callback is not added again. *)
LEMMA RegisterGroupKeeps ==
  ASSUME NEW c \in Cb, NEW a \in GroupAddr \cup {0}, RegInv, RegisterGroupCallBack(c, a)
  PROVE  RegInv'
<1> USE DEF RegInv, RegisterGroupCallBack, ClientRuns, dispatch
<1> DEFINE x == [cb |-> c, dest |-> a]
<1>1. x \in GroupEntry /\ x.dest = a /\ group \in Seq(GroupEntry) /\ group' = Append(group, x)
  BY EntryTyped DEF ListsOK
<1>2. group' \in Seq(GroupEntry) /\ Dests(group') = Dests(group) \cup {a}
  <2> HIDE DEF x
  <2> QED
    BY <1>1, AppendElems, AppendDests
<1>3. UNCHANGED <<mode, busmonitor, vbusmonitor, broadcast, individual, down>> /\ mode = 0
  OBVIOUS
<1>4. /\ l2' \in [mode : {"open", "busmonitor", "closed"}, vmode : BOOLEAN,
                  group : SUBSET GroupAddr, ind : SUBSET IndAddr]
      /\ l2'.group = Dests(group') \ {0}
      /\ l2'.ind = l2.ind /\ l2'.mode = l2.mode /\ l2'.vmode = l2.vmode
  <2>1. l2.group = Dests(group) \ {0}
    BY FiltersAreDests
  <2>2. CASE NewAddress(group, a)
    <3>1. a \in GroupAddr /\ a # 0 /\ l2' = [l2 EXCEPT !.group = @ \cup {a}]
      BY <2>2, AddressInUse
    <3> QED
      BY <3>1, <2>1, <1>2 DEF ListsOK
  <2>3. CASE ~NewAddress(group, a)
    <3>1. (a = 0 \/ a \in Dests(group)) /\ l2' = l2
      BY <2>3, AddressInUse
    <3> QED
      BY <3>1, <2>1, <1>2 DEF ListsOK
  <2> QED
    BY <2>2, <2>3
<1>5. ListsOK'
  BY <1>2, <1>3, <1>4 DEF ListsOK
<1>6. MonitorExclusive'
  BY <1>3, <1>4 DEF MonitorExclusive
<1>7. FiltersFollowCallbacks'
  BY <1>3, <1>4, FiltersAreDests, FiltersAfter
<1>8. OwnAddressKept'
  BY <1>3 DEF OwnAddressKept, Dests, Elems
<1> QED
  BY <1>5, <1>6, <1>7, <1>8

(* deregisterGroupCallBack: an address goes with its last callback. *)
LEMMA DeregisterGroupKeeps ==
  ASSUME NEW c \in Cb, NEW a \in GroupAddr \cup {0}, RegInv, DeregisterGroupCallBack(c, a)
  PROVE  RegInv'
<1> USE DEF RegInv, DeregisterGroupCallBack, ClientRuns, dispatch
<1>1. PICK k \in DOMAIN group : group' = SwapOut(group, k) /\ group[k].dest = a
  BY DEF IsFirst, CallbackAt
<1>2. group' \in Seq(GroupEntry) /\ Dests(group) = Dests(group') \cup {a} /\ group # <<>>
  <2>1. group \in Seq(GroupEntry)
    BY DEF ListsOK
  <2> QED
    BY <1>1, <2>1, SwapOutElems, SwapOutDests
<1>3. UNCHANGED <<mode, busmonitor, vbusmonitor, broadcast, individual, down>>
  OBVIOUS
<1>4. /\ l2' \in [mode : {"open", "busmonitor", "closed"}, vmode : BOOLEAN,
                  group : SUBSET GroupAddr, ind : SUBSET IndAddr]
      /\ l2'.group = Dests(group') \ {0}
      /\ l2'.ind = l2.ind /\ l2'.mode = l2.mode /\ l2'.vmode = l2.vmode
  <2>1. l2.group = Dests(group) \ {0}
    BY FiltersAreDests
  <2>2. CASE a \notin Dests(group')
    <3>1. l2' = [l2 EXCEPT !.group = @ \ {a}]
      BY <2>2, AddressInUse
    <3> QED
      BY <3>1, <2>1, <2>2, <1>2 DEF ListsOK
  <2>3. CASE a \in Dests(group')
    <3>1. l2' = l2
      BY <2>3, AddressInUse
    <3> QED
      BY <3>1, <2>1, <2>3, <1>2 DEF ListsOK
  <2> QED
    BY <2>2, <2>3
<1>5. ListsOK'
  BY <1>2, <1>3, <1>4 DEF ListsOK
<1>6. MonitorExclusive'
  BY <1>2, <1>3, <1>4 DEF MonitorExclusive, ListsOK
<1>7. FiltersFollowCallbacks'
  BY <1>3, <1>4, FiltersAreDests, FiltersAfter
<1>8. OwnAddressKept'
  BY <1>3 DEF OwnAddressKept, Dests, Elems
<1> QED
  BY <1>5, <1>6, <1>7, <1>8

(* registerIndividualCallBack: the driver refuses its own address. *)
LEMMA RegisterIndividualKeeps ==
  ASSUME NEW c \in Cb, NEW lock \in Lock, NEW s \in IndAddr \cup {0},
         NEW d \in IndAddr \cup {0}, RegInv, RegisterIndividualCallBack(c, lock, s, d)
  PROVE  RegInv'
<1> USE DEF RegInv, RegisterIndividualCallBack, ClientRuns, dispatch
<1> DEFINE x == [cb |-> c, src |-> s, dest |-> d, lock |-> lock]
<1>1. /\ x \in IndEntry /\ x.dest = d /\ individual \in Seq(IndEntry)
      /\ individual' = Append(individual, x)
  BY EntryTyped DEF ListsOK
<1>2. individual' \in Seq(IndEntry) /\ Dests(individual') = Dests(individual) \cup {d}
  <2> HIDE DEF x
  <2> QED
    BY <1>1, AppendElems, AppendDests
<1>3. UNCHANGED <<mode, busmonitor, vbusmonitor, broadcast, group, down>> /\ mode = 0 /\ ~down
  OBVIOUS
<1>4. /\ l2' \in [mode : {"open", "busmonitor", "closed"}, vmode : BOOLEAN,
                  group : SUBSET GroupAddr, ind : SUBSET IndAddr]
      /\ l2'.ind = {DefaultAddr} \cup (Dests(individual') \ {0})
      /\ l2'.group = l2.group /\ l2'.mode = l2.mode /\ l2'.vmode = l2.vmode
      /\ d # DefaultAddr
  <2>1. l2.ind = {DefaultAddr} \cup (Dests(individual) \ {0})
    BY <1>3, FiltersAreDests
  <2>2. CASE NewAddress(individual, d)
    <3>1. d \in IndAddr /\ d # 0 /\ d \notin l2.ind /\ l2' = [l2 EXCEPT !.ind = @ \cup {d}]
      BY <2>2, AddressInUse DEF AddAddress
    <3>2. /\ l2'.ind = l2.ind \cup {d} /\ l2'.group = l2.group
          /\ l2'.mode = l2.mode /\ l2'.vmode = l2.vmode
      BY <3>1 DEF ListsOK
    <3>3. l2' \in [mode : {"open", "busmonitor", "closed"}, vmode : BOOLEAN,
                   group : SUBSET GroupAddr, ind : SUBSET IndAddr]
      BY <3>1 DEF ListsOK
    <3>4. l2'.ind = {DefaultAddr} \cup (Dests(individual') \ {0})
      BY <3>1, <3>2, <2>1, <1>2
    <3>5. d # DefaultAddr
      BY <3>1, <2>1
    <3> QED
      BY <3>2, <3>3, <3>4, <3>5
  <2>3. CASE ~NewAddress(individual, d)
    <3>1. (d = 0 \/ d \in Dests(individual)) /\ l2' = l2
      BY <2>3, AddressInUse
    <3>2. d # DefaultAddr
      BY <3>1, Layer3Assumption DEF OwnAddressKept
    <3> QED
      BY <3>1, <3>2, <2>1, <1>2 DEF ListsOK
  <2> QED
    BY <2>2, <2>3
<1>5. ListsOK'
  BY <1>2, <1>3, <1>4 DEF ListsOK
<1>6. MonitorExclusive'
  BY <1>3, <1>4 DEF MonitorExclusive
<1>7. l2.group = Dests(group) \ {0} /\ l2.vmode = (vbusmonitor # <<>>)
  BY FiltersAreDests
<1>8. FiltersFollowCallbacks'
  BY <1>3, <1>4, <1>7, FiltersAfter
<1>9. OwnAddressKept'
  <2>1. DefaultAddr \notin Dests(individual')
    BY <1>2, <1>4 DEF OwnAddressKept
  <2> QED
    BY <2>1 DEF OwnAddressKept, Dests, Elems
<1> QED
  BY <1>5, <1>6, <1>8, <1>9

(* deregisterIndividualCallBack. *)
LEMMA DeregisterIndividualKeeps ==
  ASSUME NEW c \in Cb, NEW s \in IndAddr \cup {0}, NEW d \in IndAddr \cup {0},
         RegInv, DeregisterIndividualCallBack(c, s, d)
  PROVE  RegInv'
<1> USE DEF RegInv, DeregisterIndividualCallBack, ClientRuns, dispatch
<1>1. PICK k \in DOMAIN individual :
        individual' = SwapOut(individual, k) /\ individual[k].dest = d
  BY DEF IsFirst, CallbackAt
<1>2. /\ individual' \in Seq(IndEntry) /\ Dests(individual) = Dests(individual') \cup {d}
      /\ individual # <<>>
  <2>1. individual \in Seq(IndEntry)
    BY DEF ListsOK
  <2> QED
    BY <1>1, <2>1, SwapOutElems, SwapOutDests
<1>3. UNCHANGED <<mode, busmonitor, vbusmonitor, broadcast, group, down>> /\ ~down
  OBVIOUS
<1>4. d # DefaultAddr /\ DefaultAddr \notin Dests(individual')
  BY <1>2 DEF OwnAddressKept
<1>5. /\ l2' \in [mode : {"open", "busmonitor", "closed"}, vmode : BOOLEAN,
                  group : SUBSET GroupAddr, ind : SUBSET IndAddr]
      /\ l2'.ind = {DefaultAddr} \cup (Dests(individual') \ {0})
      /\ l2'.group = l2.group /\ l2'.mode = l2.mode /\ l2'.vmode = l2.vmode
  <2>1. l2.ind = {DefaultAddr} \cup (Dests(individual) \ {0})
    BY <1>3, FiltersAreDests
  <2>2. CASE d \notin Dests(individual')
    <3>1. l2' = [l2 EXCEPT !.ind = @ \ {d}]
      BY <2>2, AddressInUse
    <3>2. /\ l2'.ind = l2.ind \ {d} /\ l2'.group = l2.group
          /\ l2'.mode = l2.mode /\ l2'.vmode = l2.vmode
      BY <3>1 DEF ListsOK
    <3>3. l2' \in [mode : {"open", "busmonitor", "closed"}, vmode : BOOLEAN,
                   group : SUBSET GroupAddr, ind : SUBSET IndAddr]
      BY <3>1 DEF ListsOK
    <3>4. l2'.ind = {DefaultAddr} \cup (Dests(individual') \ {0})
      BY <3>2, <2>1, <2>2, <1>2, <1>4
    <3> QED
      BY <3>2, <3>3, <3>4
  <2>3. CASE d \in Dests(individual')
    <3>1. l2' = l2
      BY <2>3, AddressInUse
    <3> QED
      BY <3>1, <2>1, <2>3, <1>2 DEF ListsOK
  <2> QED
    BY <2>2, <2>3
<1>6. ListsOK'
  BY <1>2, <1>3, <1>5 DEF ListsOK
<1>7. MonitorExclusive'
  BY <1>2, <1>3, <1>5 DEF MonitorExclusive, ListsOK
<1>8. l2.group = Dests(group) \ {0} /\ l2.vmode = (vbusmonitor # <<>>)
  BY FiltersAreDests
<1>9. FiltersFollowCallbacks'
  BY <1>3, <1>5, <1>8, FiltersAfter
<1>10. OwnAddressKept'
  BY <1>4 DEF OwnAddressKept, Dests, Elems
<1> QED
  BY <1>6, <1>7, <1>9, <1>10

(* The destructor of Layer3. *)
LEMMA ShutdownKeeps ==
  ASSUME RegInv, Shutdown
  PROVE  RegInv'
<1> USE DEF RegInv, Shutdown, dispatch
<1>1. /\ down' = TRUE /\ vbusmonitor' = <<>> /\ group' = <<>> /\ individual' = <<>>
      /\ UNCHANGED <<mode, busmonitor, broadcast>>
  OBVIOUS
<1>2. l2.group = Dests(group) \ {0}
  BY FiltersAreDests
<1>3. l2'.group = l2.group \ Dests(group) /\ l2'.vmode = FALSE
  BY DEF Dests
<1>4. l2' \in [mode : {"open", "busmonitor", "closed"}, vmode : BOOLEAN,
               group : SUBSET GroupAddr, ind : SUBSET IndAddr]
  BY DEF ListsOK
<1>5. down' \in BOOLEAN
  BY <1>1
<1>6. ListsOK'
  BY <1>1, <1>4, <1>5 DEF ListsOK
<1>7. MonitorExclusive'
  BY <1>1 DEF MonitorExclusive
<1>8. Dests(group') = {} /\ Dests(individual') = {}
  BY <1>1, EmptyElems
<1>9. FiltersFollowCallbacks'
  BY <1>1, <1>2, <1>3, <1>8, FiltersAfter
<1>10. OwnAddressKept'
  <2>1. DefaultAddr \notin Dests(individual')
    BY <1>8
  <2> QED
    BY <2>1 DEF OwnAddressKept, Dests, Elems
<1> QED
  BY <1>6, <1>7, <1>9, <1>10

(* Every step keeps the invariant. *)
LEMMA NextRegInv == RegInv /\ [Next]_vars => RegInv'
<1> SUFFICES ASSUME RegInv, [Next]_vars PROVE RegInv'
  OBVIOUS
<1>1. ASSUME NEW c \in Cb, Register(c) PROVE RegInv'
  BY <1>1, RegisterBusmonitorKeeps, RegisterVBusmonitorKeeps, RegisterBroadcastKeeps,
     RegisterGroupKeeps, RegisterIndividualKeeps DEF Register
<1>2. ASSUME NEW c \in Cb, Deregister(c) PROVE RegInv'
  BY <1>2, DeregisterBusmonitorKeeps, DeregisterVBusmonitorKeeps, DeregisterBroadcastKeeps,
     DeregisterGroupKeeps, DeregisterIndividualKeeps DEF Deregister
<1>3. CASE Dispatcher \/ Expire \/ UNCHANGED vars
  <2>1. UNCHANGED registrations
    BY <1>3 DEF Dispatcher, Receive, Discard, Deliver, Resume, EndOfList, Expire, vars,
                lists, registrations
  <2> QED
    BY <2>1, Untouched
<1>4. CASE Shutdown
  BY <1>4, ShutdownKeeps
<1> QED
  BY <1>1, <1>2, <1>3, <1>4 DEF Next

(* The driver's mode and filters follow the lists in every reachable state. *)
THEOREM RegistrationInvariant == Spec => []RegInv
<1> QED
  BY InitRegInv, NextRegInv, PTL DEF Spec

(* registerBusmonitor and the others keep bus monitoring and normal operation  *)
(* apart: the driver is in bus monitor mode exactly while somebody monitors,   *)
(* and then nobody else is registered.                                         *)
THEOREM MonitoringExclusive == Spec => []MonitorExclusive
<1>1. RegInv => MonitorExclusive
  BY DEF RegInv
<1> QED
  BY <1>1, RegistrationInvariant, PTL

(* The address filters of the driver are those of the registered callbacks and *)
(* its own address, whatever the callbacks share and in whatever order they    *)
(* come and go.                                                                *)
THEOREM FiltersCorrect == Spec => []FiltersFollowCallbacks
<1>1. RegInv => FiltersFollowCallbacks
  BY DEF RegInv
<1> QED
  BY <1>1, RegistrationInvariant, PTL
----------------------------------------------------------------------------
(* Picking elements of a sequence.                                             *)

(* Picking nothing. *)
LEMMA PicksNothing == ASSUME NEW s PROVE Picks(<<>>, s, {})
<1>1. <<>> \in [DOMAIN <<>> -> {}] /\ DOMAIN <<>> = {}
  OBVIOUS
<1> QED
  BY <1>1 DEF Picks

(* What is picked is at one of the positions. *)
LEMMA PicksElems ==
  ASSUME NEW r, NEW s, NEW at, Picks(r, s, at), NEW x \in Elems(r)
  PROVE  \E k \in at : x = s[k]
BY DEF Picks, Elems

(* Only the elements at the positions matter. *)
LEMMA PicksSame ==
  ASSUME NEW r, NEW s, NEW t, NEW at, Picks(r, s, at), \A k \in at : t[k] = s[k]
  PROVE  Picks(r, t, at)
<1>1. PICK h \in [DOMAIN r -> at] :
        /\ \A m, n \in DOMAIN r : m < n => h[m] < h[n]
        /\ \A k \in at : \E n \in DOMAIN r : h[n] = k
        /\ \A n \in DOMAIN r : r[n] = s[h[n]]
  BY DEF Picks
<1>2. \A n \in DOMAIN r : r[n] = t[h[n]]
  BY <1>1
<1> QED
  BY <1>1, <1>2 DEF Picks

(* The element behind all positions is picked last. *)
LEMMA PicksAppend ==
  ASSUME NEW S, NEW r \in Seq(S), NEW s, NEW p \in Nat, NEW at \in SUBSET (1 .. p),
         Picks(r, s, at), s[p + 1] \in S
  PROVE  Picks(Append(r, s[p + 1]), s, at \cup {p + 1})
<1> DEFINE q == Append(r, s[p + 1])
           l == Len(r)
           a == at \cup {p + 1}
<1>1. PICK h \in [DOMAIN r -> at] :
        /\ \A m, n \in DOMAIN r : m < n => h[m] < h[n]
        /\ \A k \in at : \E n \in DOMAIN r : h[n] = k
        /\ \A n \in DOMAIN r : r[n] = s[h[n]]
  BY DEF Picks
<1>2. l \in Nat /\ DOMAIN r = 1 .. l /\ DOMAIN q = 1 .. l + 1
      /\ q[l + 1] = s[p + 1] /\ \A n \in 1 .. l : q[n] = r[n]
  OBVIOUS
<1> DEFINE g == [n \in 1 .. l + 1 |-> IF n = l + 1 THEN p + 1 ELSE h[n]]
<1>3. g[l + 1] = p + 1 /\ \A n \in 1 .. l : g[n] = h[n] /\ h[n] \in at /\ h[n] \in 1 .. p
  <2>1. l + 1 \in 1 .. l + 1 /\ \A n \in 1 .. l : n \in 1 .. l + 1 /\ n # l + 1
    BY <1>2
  <2>2. \A n \in 1 .. l : h[n] \in at
    BY <1>1, <1>2
  <2> QED
    BY <2>1, <2>2
<1>4. \A n \in 1 .. l + 1 : n = l + 1 \/ n \in 1 .. l
  BY <1>2
<1> HIDE DEF l, q
<1>5. g \in [DOMAIN q -> a]
  BY <1>2, <1>3, <1>4
<1> HIDE DEF g
<1>6. \A m, n \in DOMAIN q : m < n => g[m] < g[n]
  <2> SUFFICES ASSUME NEW m \in 1 .. l + 1, NEW n \in 1 .. l + 1, m < n PROVE g[m] < g[n]
    BY <1>2
  <2>1. m \in 1 .. l
    BY <1>2
  <2>2. CASE n = l + 1
    BY <2>1, <2>2, <1>3
  <2>3. CASE n \in 1 .. l
    BY <2>1, <2>3, <1>1, <1>2, <1>3
  <2> QED
    BY <2>2, <2>3, <1>4
<1>7. \A k \in a : \E n \in DOMAIN q : g[n] = k
  <2> SUFFICES ASSUME NEW k \in a PROVE \E n \in 1 .. l + 1 : g[n] = k
    BY <1>2
  <2>1. CASE k = p + 1
    <3>1. l + 1 \in 1 .. l + 1
      BY <1>2
    <3> QED
      BY <2>1, <3>1, <1>3
  <2>2. CASE k \in at
    <3>1. PICK n \in 1 .. l : h[n] = k
      BY <2>2, <1>1, <1>2
    <3>2. n \in 1 .. l + 1
      BY <1>2
    <3> QED
      BY <3>1, <3>2, <1>3
  <2> QED
    BY <2>1, <2>2
<1>8. \A n \in DOMAIN q : q[n] = s[g[n]]
  <2> SUFFICES ASSUME NEW n \in 1 .. l + 1 PROVE q[n] = s[g[n]]
    BY <1>2
  <2> QED
    BY <1>1, <1>2, <1>3, <1>4
<1> QED
  BY <1>5, <1>6, <1>7, <1>8 DEF Picks, q

(* Without the first position, the first element is missing. *)
LEMMA PicksTail ==
  ASSUME NEW S, NEW r \in Seq(S), NEW s, NEW at \in SUBSET Nat, Picks(r, s, at),
         r # <<>>, NEW k \in at, \A m \in at : k <= m
  PROVE  Picks(Tail(r), s, at \ {k})
<1> DEFINE q == Tail(r)
           l == Len(r)
           a == at \ {k}
<1>1. PICK h \in [DOMAIN r -> at] :
        /\ \A m, n \in DOMAIN r : m < n => h[m] < h[n]
        /\ \A j \in at : \E n \in DOMAIN r : h[n] = j
        /\ \A n \in DOMAIN r : r[n] = s[h[n]]
  BY DEF Picks
<1>2. l \in Nat /\ l > 0 /\ DOMAIN r = 1 .. l /\ DOMAIN q = 1 .. l - 1
      /\ \A n \in 1 .. l - 1 : q[n] = r[n + 1]
  OBVIOUS
<1> HIDE DEF l, q
<1>3. \A n \in 1 .. l : h[n] \in at /\ h[n] \in Nat
  BY <1>1, <1>2
<1>4. h[1] = k
  <2>1. PICK n \in 1 .. l : h[n] = k
    BY <1>1, <1>2
  <2>2. 1 \in 1 .. l /\ k <= h[1]
    BY <1>2, <1>3
  <2>3. n = 1 \/ h[1] < h[n]
    BY <1>1, <1>2, <2>2
  <2> QED
    BY <2>1, <2>2, <2>3, <1>3
<1>5. \A n \in 2 .. l : h[n] > k
  <2> SUFFICES ASSUME NEW n \in 2 .. l PROVE h[n] > h[1]
    BY <1>4
  <2>1. 1 \in 1 .. l /\ n \in 1 .. l /\ 1 < n
    BY <1>2
  <2> QED
    BY <2>1, <1>1, <1>2, <1>3
<1> DEFINE g == [n \in 1 .. l - 1 |-> h[n + 1]]
<1>6. \A n \in 1 .. l - 1 : n + 1 \in 1 .. l /\ n + 1 \in 2 .. l /\ g[n] = h[n + 1]
  BY <1>2
<1>7. g \in [DOMAIN q -> a]
  <2>1. \A n \in 1 .. l - 1 : h[n + 1] \in at /\ h[n + 1] # k
    BY <1>3, <1>5, <1>6
  <2> QED
    BY <2>1, <1>2
<1> HIDE DEF g
<1>8. \A m, n \in DOMAIN q : m < n => g[m] < g[n]
  <2> SUFFICES ASSUME NEW m \in 1 .. l - 1, NEW n \in 1 .. l - 1, m < n PROVE g[m] < g[n]
    BY <1>2
  <2>1. m + 1 < n + 1 /\ m + 1 \in DOMAIN r /\ n + 1 \in DOMAIN r
    BY <1>2, <1>6
  <2>2. h[m + 1] < h[n + 1]
    BY <2>1, <1>1
  <2> QED
    BY <2>2, <1>6
<1>9. \A j \in a : \E n \in DOMAIN q : g[n] = j
  <2> SUFFICES ASSUME NEW j \in a PROVE \E n \in 1 .. l - 1 : g[n] = j
    BY <1>2
  <2>1. PICK n \in 1 .. l : h[n] = j
    BY <1>1, <1>2
  <2>2. n # 1
    BY <2>1, <1>4
  <2>3. n - 1 \in 1 .. l - 1 /\ (n - 1) + 1 = n
    BY <2>2, <1>2
  <2> QED
    BY <2>1, <2>3, <1>6
<1>10. \A n \in DOMAIN q : q[n] = s[g[n]]
  BY <1>1, <1>2, <1>6, SMTT(30)
<1> QED
  BY <1>7, <1>8, <1>9, <1>10 DEF Picks, q

(* Two sequences picked at the same positions run in step. *)
LEMMA PicksInStep ==
  ASSUME NEW S, NEW r \in Seq(S), NEW T, NEW q \in Seq(T), NEW s, NEW t,
         NEW at \in SUBSET Nat, Picks(r, s, at), Picks(q, t, at),
         \A k \in at : s[k] = t[k][1]
  PROVE  Picks(r, [k \in DOMAIN q |-> q[k][1]], DOMAIN q)
<1>1. PICK h \in [DOMAIN r -> at] :
        /\ \A m, n \in DOMAIN r : m < n => h[m] < h[n]
        /\ \A j \in at : \E n \in DOMAIN r : h[n] = j
        /\ \A n \in DOMAIN r : r[n] = s[h[n]]
  BY DEF Picks
<1>2. PICK g \in [DOMAIN q -> at] :
        /\ \A m, n \in DOMAIN q : m < n => g[m] < g[n]
        /\ \A j \in at : \E n \in DOMAIN q : g[n] = j
        /\ \A n \in DOMAIN q : q[n] = t[g[n]]
  BY DEF Picks
<1>3. DOMAIN r \subseteq Nat /\ DOMAIN q \subseteq Nat
  OBVIOUS
<1>4. \A n \in DOMAIN r : h[n] \in at /\ h[n] \in Nat
  BY <1>1
<1>5. \A n \in DOMAIN q : g[n] \in at /\ g[n] \in Nat
  BY <1>2
<1> DEFINE f == [n \in DOMAIN r |-> CHOOSE m \in DOMAIN q : g[m] = h[n]]
<1>6. \A n \in DOMAIN r : f[n] \in DOMAIN q /\ g[f[n]] = h[n]
  BY <1>2, <1>4
<1>7. f \in [DOMAIN r -> DOMAIN q]
  BY <1>6
<1> HIDE DEF f
<1>8. \A m, n \in DOMAIN q : g[m] < g[n] => m < n
  <2> SUFFICES ASSUME NEW m \in DOMAIN q, NEW n \in DOMAIN q, g[m] < g[n], ~(m < n)
               PROVE  FALSE
    OBVIOUS
  <2>1. m \in Nat /\ n \in Nat
    BY <1>3
  <2>2. n = m \/ n < m
    BY <2>1
  <2>3. n = m \/ g[n] < g[m]
    BY <2>2, <1>2
  <2> QED
    BY <2>3, <1>5
<1>9. \A m, n \in DOMAIN r : m < n => f[m] < f[n]
  BY <1>1, <1>6, <1>8
<1>10. \A j \in DOMAIN q : \E n \in DOMAIN r : f[n] = j
  <2> SUFFICES ASSUME NEW j \in DOMAIN q PROVE \E n \in DOMAIN r : f[n] = j
    OBVIOUS
  <2>1. PICK n \in DOMAIN r : h[n] = g[j]
    BY <1>1, <1>5
  <2>2. f[n] \in DOMAIN q /\ g[f[n]] = g[j]
    BY <2>1, <1>6
  <2>3. f[n] \in Nat /\ j \in Nat /\ g[j] \in Nat
    BY <2>2, <1>3, <1>5
  <2>4. ~(f[n] < j) /\ ~(j < f[n])
    BY <2>2, <2>3, <1>2
  <2> QED
    BY <2>3, <2>4
<1>11. ASSUME NEW n \in DOMAIN r PROVE r[n] = q[f[n]][1]
  <2>1. q[f[n]] = t[h[n]]
    BY <1>2, <1>6
  <2>2. r[n] = s[h[n]] /\ s[h[n]] = t[h[n]][1]
    BY <1>1, <1>4
  <2> QED
    BY <2>1, <2>2
<1> DEFINE u == [k \in DOMAIN q |-> q[k][1]]
<1>12. \A n \in DOMAIN r : r[n] = u[f[n]]
  BY <1>7, <1>11
<1> QED
  BY <1>7, <1>9, <1>10, <1>12 DEF Picks

----------------------------------------------------------------------------
(* The dispatch of a frame. *)

(* The positions below n of a list l that hold an addressee of f. *)
AddresseesBelow(l, f, n) == {k \in DOMAIN l : Addressed(l[k], f) /\ k < n}

DispatchOK ==
  /\ pc \in {"wait", "deliver", "yielded"} /\ i \in Nat \ {0} /\ got \in Seq(Entry)
  /\ pc # "wait" => cur \in Frame
  /\ pc = "yielded" => cur.kind = "group"

(* Unless somebody deregistered meanwhile, the addressees passed so far are    *)
(* those called.                                                               *)
Reached ==
  pc # "wait" /\ quit = {} =>
    /\ i <= Len(ListOf(cur)) + 1
    /\ Picks(got, ListOf(cur), AddresseesBelow(ListOf(cur), cur, i))

DispatchInv == DispatchOK /\ Reached

(* What kinds of frames there are. *)
LEMMA FrameKinds ==
  ASSUME NEW f \in Frame
  PROVE  /\ f.kind \in {"busmonitor", "broadcast", "group", "individual"}
         /\ f.kind = "individual" => f.dest \in IndAddr
BY DEF Frame

(* A frame is dispatched over a list of entries. *)
LEMMA ListTyped ==
  ASSUME ListsOK, NEW f \in Frame
  PROVE  /\ ListOf(f) \in Seq(Entry)
         /\ f.kind = "group" => ListOf(f) = group
         /\ f.kind = "individual" => ListOf(f) = individual
<1>1. /\ busmonitor \in Seq(Entry) /\ vbusmonitor \in Seq(Entry) /\ broadcast \in Seq(Entry)
      /\ group \in Seq(Entry) /\ individual \in Seq(Entry)
  <2>1. MonEntry \subseteq Entry /\ GroupEntry \subseteq Entry /\ IndEntry \subseteq Entry
    BY DEF Entry
  <2>2. \A S \in SUBSET Entry : Seq(S) \subseteq Seq(Entry)
    OBVIOUS
  <2> QED
    BY <2>1, <2>2 DEF ListsOK
<1>2. busmonitor \o vbusmonitor \in Seq(Entry)
  BY <1>1
<1>3. /\ f.kind = "busmonitor" => ListOf(f) = busmonitor \o vbusmonitor
      /\ f.kind = "broadcast" => ListOf(f) = broadcast
      /\ f.kind = "group" => ListOf(f) = group
      /\ f.kind = "individual" => ListOf(f) = individual
  BY DEF ListOf
<1> QED
  BY <1>1, <1>2, <1>3, FrameKinds

(* The comparison after the driver's own address became 0 finds the addressees: *)
(* nobody is registered under that address.                                    *)
LEMMA WantsIsAddressed ==
  ASSUME RegInv, NEW f \in Frame, NEW k \in DOMAIN ListOf(f)
  PROVE  Wants(ListOf(f)[k], f) <=> Addressed(ListOf(f)[k], f)
<1> DEFINE e == ListOf(f)[k]
<1>1. CASE f.kind = "individual"
  <2>1. e.dest # DefaultAddr
    <3>1. ListOf(f) = individual
      BY <1>1, ListTyped DEF RegInv
    <3>2. e.dest \in Dests(individual)
      BY <3>1 DEF Dests, Elems
    <3> QED
      BY <3>2 DEF RegInv, OwnAddressKept
  <2>2. f.dest # 0 /\ DefaultAddr # 0
    BY <1>1, FrameKinds, Layer3Assumption
  <2> HIDE DEF e
  <2>3. (e.dest = Dest(f)) <=> (e.dest = f.dest \/ (e.dest = 0 /\ f.dest = DefaultAddr))
    BY <2>1, <2>2 DEF Dest
  <2>4. (e.src \in {f.src, 0}) <=> (e.src = 0 \/ e.src = f.src)
    OBVIOUS
  <2>5. Wants(e, f) <=> (e.dest = Dest(f) /\ e.src \in {f.src, 0})
    BY <1>1 DEF Wants
  <2>6. Addressed(e, f) <=> /\ e.dest = f.dest \/ (e.dest = 0 /\ f.dest = DefaultAddr)
                            /\ e.src = 0 \/ e.src = f.src
    BY <1>1 DEF Addressed
  <2> QED
    BY <2>3, <2>4, <2>5, <2>6 DEF e
<1>2. CASE f.kind = "group"
  BY <1>2 DEF Wants, Addressed
<1>3. CASE f.kind \in {"busmonitor", "broadcast"}
  BY <1>3 DEF Wants, Addressed
<1> QED
  BY <1>1, <1>2, <1>3, FrameKinds

(* A callback that registers while a frame is dispatched comes behind those    *)
(* that were passed.                                                           *)
LEMMA BelowAppend ==
  ASSUME NEW l \in Seq(Entry), NEW x \in Entry, NEW f, NEW n \in Nat, n <= Len(l) + 1,
         NEW r, Picks(r, l, AddresseesBelow(l, f, n))
  PROVE  /\ n <= Len(Append(l, x)) + 1
         /\ Picks(r, Append(l, x), AddresseesBelow(Append(l, x), f, n))
<1> DEFINE m == Append(l, x)
<1>1. /\ Len(l) \in Nat /\ DOMAIN l = 1 .. Len(l) /\ DOMAIN m = 1 .. Len(l) + 1
      /\ Len(m) = Len(l) + 1 /\ \A k \in 1 .. Len(l) : m[k] = l[k]
  OBVIOUS
<1> HIDE DEF m
<1>2. AddresseesBelow(m, f, n) = AddresseesBelow(l, f, n)
  <2>1. \A k \in 1 .. Len(l) + 1 : k < n => k \in 1 .. Len(l)
    BY <1>1
  <2> QED
    BY <2>1, <1>1 DEF AddresseesBelow
<1>3. \A k \in AddresseesBelow(l, f, n) : m[k] = l[k]
  BY <1>1 DEF AddresseesBelow
<1>4. Picks(r, m, AddresseesBelow(l, f, n))
  BY <1>3, PicksSame
<1> QED
  BY <1>1, <1>2, <1>4 DEF m

(* One turn of the loop. *)
LEMMA BelowNext ==
  ASSUME NEW l \in Seq(Entry), NEW f, NEW n \in 1 .. Len(l), NEW r \in Seq(Entry),
         Picks(r, l, AddresseesBelow(l, f, n))
  PROVE  Picks(IF Addressed(l[n], f) THEN Append(r, l[n]) ELSE r,
               l, AddresseesBelow(l, f, n + 1))
<1>1. Len(l) \in Nat /\ DOMAIN l = 1 .. Len(l) /\ n \in DOMAIN l /\ l[n] \in Entry
  OBVIOUS
<1>2. \A k \in DOMAIN l : k < n + 1 <=> k < n \/ k = n
  BY <1>1
<1>3. CASE Addressed(l[n], f)
  <2>1. AddresseesBelow(l, f, n + 1) = AddresseesBelow(l, f, n) \cup {n}
    BY <1>1, <1>2, <1>3 DEF AddresseesBelow
  <2>2. AddresseesBelow(l, f, n) \in SUBSET (1 .. n - 1)
    BY <1>1 DEF AddresseesBelow
  <2>3. n - 1 \in Nat /\ (n - 1) + 1 = n
    BY <1>1
  <2>4. Picks(Append(r, l[n]), l, AddresseesBelow(l, f, n) \cup {n})
    <3> DEFINE p == n - 1
               at == AddresseesBelow(l, f, n)
    <3>1. p \in Nat /\ p + 1 = n /\ at \in SUBSET (1 .. p) /\ Picks(r, l, at)
      BY <2>2, <2>3
    <3> HIDE DEF p, at
    <3>2. l[p + 1] \in Entry
      BY <3>1, <1>1
    <3>3. Picks(Append(r, l[p + 1]), l, at \cup {p + 1})
      BY <3>1, <3>2, PicksAppend
    <3> QED
      BY <3>1, <3>3 DEF at
  <2> QED
    BY <2>1, <2>4, <1>3
<1>4. CASE ~Addressed(l[n], f)
  <2>1. AddresseesBelow(l, f, n + 1) = AddresseesBelow(l, f, n)
    BY <1>1, <1>2, <1>4 DEF AddresseesBelow
  <2> QED
    BY <2>1, <1>4
<1> QED
  BY <1>3, <1>4

(* At first nobody is called. *)
LEMMA InitDispatchInv == Init => DispatchInv
BY DEF Init, DispatchInv, DispatchOK, Reached

(* A registration finds the dispatcher waiting or within a group callback. *)
LEMMA RegisterDispatch ==
  ASSUME RegInv, DispatchInv, NEW c \in Cb, Register(c)
  PROVE  DispatchInv'
<1>1. /\ UNCHANGED <<pc, cur, i, got, quit>> /\ pc \in {"wait", "yielded"}
      /\ \/ UNCHANGED group
         \/ \E a \in GroupAddr \cup {0} : group' = Append(group, [cb |-> c, dest |-> a])
  BY DEF Register, RegisterBusmonitor, RegisterVBusmonitor, RegisterBroadcastCallBack,
         RegisterGroupCallBack, RegisterIndividualCallBack, dispatch, ClientRuns
<1>2. DispatchOK'
  BY <1>1 DEF DispatchInv, DispatchOK
<1>3. Reached'
  <2> SUFFICES ASSUME pc = "yielded", quit = {}
               PROVE  (/\ i <= Len(ListOf(cur)) + 1
                       /\ Picks(got, ListOf(cur), AddresseesBelow(ListOf(cur), cur, i)))'
    BY <1>1 DEF Reached
  <2>1. /\ cur \in Frame /\ cur.kind = "group" /\ i \in Nat
        /\ i <= Len(ListOf(cur)) + 1
        /\ Picks(got, ListOf(cur), AddresseesBelow(ListOf(cur), cur, i))
    BY DEF DispatchInv, DispatchOK, Reached
  <2>2. ListOf(cur) = group /\ group \in Seq(Entry)
    BY <2>1, ListTyped DEF RegInv
  <2>3. ListOf(cur)' = group'
    BY <1>1, <2>1 DEF ListOf
  <2>4. CASE UNCHANGED group
    BY <1>1, <2>1, <2>2, <2>3, <2>4 DEF AddresseesBelow
  <2>5. ASSUME NEW a \in GroupAddr \cup {0}, group' = Append(group, [cb |-> c, dest |-> a])
        PROVE  /\ i <= Len(group') + 1
               /\ Picks(got, group', AddresseesBelow(group', cur, i))
    <3>1. [cb |-> c, dest |-> a] \in Entry
      BY EntryTyped DEF Entry
    <3> QED
      BY <2>1, <2>2, <2>5, <3>1, BelowAppend
  <2>6. AddresseesBelow(group', cur', i') = AddresseesBelow(group', cur, i)
    BY <1>1
  <2> QED
    BY <1>1, <2>3, <2>4, <2>5
<1> QED
  BY <1>2, <1>3 DEF DispatchInv

(* A deregistration within a dispatch is noted. *)
LEMMA DeregisterDispatch ==
  ASSUME DispatchInv, NEW c \in Cb, Deregister(c)
  PROVE  DispatchInv'
<1>1. /\ UNCHANGED <<pc, cur, i, got>> /\ pc \in {"wait", "yielded"}
      /\ pc = "yielded" => quit' # {}
  BY DEF Deregister, DeregisterBusmonitor, DeregisterVBusmonitor, DeregisterBroadcastCallBack,
         DeregisterGroupCallBack, DeregisterIndividualCallBack, dispatch, ClientRuns, Quits
<1> QED
  BY <1>1 DEF DispatchInv, DispatchOK, Reached

(* Run starts over the list of a frame. *)
LEMMA ReceiveDispatch ==
  ASSUME RegInv, NEW f \in Frame, NEW rep \in BOOLEAN, Receive(f, rep)
  PROVE  DispatchInv'
<1>1. pc' = "deliver" /\ cur' = f /\ i' = 1 /\ got' = <<>> /\ UNCHANGED lists
  BY DEF Receive
<1>2. ListOf(f)' = ListOf(f)
  BY <1>1 DEF ListOf, lists
<1>3. ListOf(cur)' = ListOf(f)
  BY <1>1, <1>2 DEF ListOf
<1>4. ListOf(f) \in Seq(Entry)
  BY ListTyped DEF RegInv
<1>5. AddresseesBelow(ListOf(f), f, 1) = {}
  <2>1. \A k \in DOMAIN ListOf(f) : ~(k < 1)
    BY <1>4
  <2> QED
    BY <2>1 DEF AddresseesBelow
<1>6. Picks(<<>>, ListOf(f), AddresseesBelow(ListOf(f), f, 1)) /\ 1 <= Len(ListOf(f)) + 1
  <2>1. 1 <= Len(ListOf(f)) + 1
    BY <1>4
  <2>2. Picks(<<>>, ListOf(f), {})
    BY PicksNothing
  <2> QED
    BY <2>1, <2>2, <1>5
<1>7. Reached'
  BY <1>1, <1>3, <1>6 DEF Reached
<1>8. DispatchOK'
  BY <1>1 DEF DispatchOK
<1> QED
  BY <1>7, <1>8 DEF DispatchInv

(* Run calls the entry at i, or passes it. *)
LEMMA DeliverDispatch ==
  ASSUME RegInv, DispatchInv, Deliver
  PROVE  DispatchInv'
<1> DEFINE l == ListOf(cur)
           e == l[i]
<1>1. cur \in Frame /\ i \in Nat \ {0} /\ pc = "deliver" /\ i <= Len(l) /\ got \in Seq(Entry)
  BY DEF DispatchInv, DispatchOK, Deliver, StillThere
<1>2. l \in Seq(Entry)
  BY <1>1, ListTyped DEF RegInv
<1>3. i \in 1 .. Len(l) /\ i \in DOMAIN l /\ e \in Entry
  BY <1>1, <1>2
<1>4. Wants(e, cur) <=> Addressed(e, cur)
  BY <1>1, <1>3, WantsIsAddressed
<1>5. /\ got' = IF Wants(e, cur) THEN Append(got, e) ELSE got
      /\ pc' = "deliver" \/ (pc' = "yielded" /\ cur.kind = "group")
      /\ i' = i + 1 /\ UNCHANGED <<lists, cur, quit>>
  BY DEF Deliver
<1>6. ListOf(cur)' = l
  BY <1>5 DEF ListOf, lists
<1> HIDE DEF l, e
<1>7. DispatchOK'
  <2>1. got' \in Seq(Entry) /\ i' \in Nat \ {0}
    BY <1>1, <1>3, <1>5
  <2> QED
    BY <1>1, <1>5, <2>1 DEF DispatchOK
<1>8. ASSUME quit = {}
      PROVE  i' <= Len(l) + 1 /\ Picks(got', l, AddresseesBelow(l, cur, i'))
  <2>1. Picks(got, l, AddresseesBelow(l, cur, i))
    BY <1>1, <1>8 DEF DispatchInv, Reached, l
  <2>2. got' = IF Addressed(l[i], cur) THEN Append(got, l[i]) ELSE got
    BY <1>4, <1>5 DEF e
  <2>3. Picks(got', l, AddresseesBelow(l, cur, i + 1))
    BY <1>1, <1>2, <1>3, <2>1, <2>2, BelowNext
  <2>4. i' <= Len(l) + 1
    BY <1>1, <1>2, <1>5
  <2> QED
    BY <1>5, <2>3, <2>4
<1>9. Reached'
  BY <1>5, <1>6, <1>8 DEF Reached
<1> QED
  BY <1>7, <1>9 DEF DispatchInv

(* Every step keeps what was reached. *)
LEMMA NextDispatchInv == RegInv /\ DispatchInv /\ [Next]_vars => DispatchInv'
<1> SUFFICES ASSUME RegInv, DispatchInv, [Next]_vars PROVE DispatchInv'
  OBVIOUS
<1>1. ASSUME NEW c \in Cb, Register(c) \/ Deregister(c) PROVE DispatchInv'
  BY <1>1, RegisterDispatch, DeregisterDispatch
<1>2. ASSUME NEW f \in Frame, NEW rep \in BOOLEAN, Receive(f, rep) PROVE DispatchInv'
  BY <1>2, ReceiveDispatch
<1>3. CASE Deliver
  BY <1>3, DeliverDispatch
<1>4. CASE EndOfList \/ Shutdown
  <2>1. pc' = "wait" /\ i' \in Nat \ {0} /\ got' \in Seq(Entry)
    <3>1. CASE EndOfList
      BY <3>1 DEF EndOfList
    <3>2. CASE Shutdown
      BY <3>2 DEF Shutdown, dispatch, DispatchInv, DispatchOK
    <3> QED
      BY <1>4, <3>1, <3>2
  <2> QED
    BY <2>1 DEF DispatchInv, DispatchOK, Reached
<1>5. CASE Resume \/ Expire \/ UNCHANGED vars \/ \E f \in Frame : Discard(f)
  <2>1. /\ UNCHANGED <<lists, cur, i, got, quit>>
        /\ pc' = pc \/ (pc' = "deliver" /\ pc = "yielded")
    BY <1>5 DEF Resume, Expire, Discard, vars, history, lists
  <2>2. ListOf(cur)' = ListOf(cur)
    BY <2>1 DEF ListOf, lists
  <2>3. DispatchOK'
    BY <2>1 DEF DispatchInv, DispatchOK
  <2>4. Reached'
    BY <2>1, <2>2 DEF DispatchInv, Reached
  <2> QED
    BY <2>3, <2>4 DEF DispatchInv
<1> QED
  BY <1>1, <1>2, <1>3, <1>4, <1>5 DEF Next, Dispatcher

(* A dispatch reaches what it has passed of the list, in every reachable state. *)
THEOREM DispatchInvariant == Spec => [](RegInv /\ DispatchInv)
<1>1. Init => RegInv /\ DispatchInv
  BY InitRegInv, InitDispatchInv
<1>2. RegInv /\ DispatchInv /\ [Next]_vars => (RegInv /\ DispatchInv)'
  BY NextRegInv, NextDispatchInv
<1> QED
  BY <1>1, <1>2, PTL DEF Spec

(* Layer3::Run calls, once each and in the order of the list, the callbacks a  *)
(* frame is addressed to and no others, also when more register meanwhile.     *)
THEOREM AddresseesReached == Spec => []AddresseesGetIt
<1>1. RegInv /\ DispatchInv => AddresseesGetIt
  <2> SUFFICES ASSUME RegInv, DispatchInv, pc = "deliver", ~StillThere(i), quit = {}
               PROVE  Picks(got, ListOf(cur), Addressees(cur))
    BY DEF AddresseesGetIt
  <2>1. ListOf(cur) \in Seq(Entry) /\ i \in Nat
    BY ListTyped DEF RegInv, DispatchInv, DispatchOK
  <2>2. \A k \in DOMAIN ListOf(cur) : k < i
    BY <2>1 DEF StillThere
  <2>3. Addressees(cur) = AddresseesBelow(ListOf(cur), cur, i)
    BY <2>2 DEF Addressees, AddresseesBelow
  <2> QED
    BY <2>3 DEF DispatchInv, Reached
<1> QED
  BY <1>1, DispatchInvariant, PTL

----------------------------------------------------------------------------
(* Repetitions. *)

Frames(g) == [k \in DOMAIN g |-> g[k][1]]

(* The frames of the last second are those of the entries that are not yet     *)
(* expired, in order.                                                          *)
IgnoreInv ==
  /\ ignore \in Seq(Frame \X BOOLEAN) /\ recent \in Seq(Frame)
  /\ Picks(recent, Frames(ignore), Fresh(ignore))

LEMMA InitIgnoreInv == Init => IgnoreInv
<1> SUFFICES ASSUME Init PROVE IgnoreInv
  OBVIOUS
<1>1. ignore = <<>> /\ recent = <<>>
  BY DEF Init
<1>2. Fresh(ignore) = {}
  BY <1>1 DEF Fresh
<1>3. Picks(recent, Frames(ignore), Fresh(ignore))
  BY <1>1, <1>2, PicksNothing
<1> QED
  BY <1>1, <1>3 DEF IgnoreInv

(* A frame that is dispatched is noted with its time. *)
LEMMA NoteFrame ==
  ASSUME IgnoreInv, NEW f \in Frame
  PROVE  LET g == Append(ignore, <<f, TRUE>>)
             r == Append(recent, f)
         IN  /\ g \in Seq(Frame \X BOOLEAN) /\ r \in Seq(Frame)
             /\ Picks(r, Frames(g), Fresh(g))
<1> DEFINE g == Append(ignore, <<f, TRUE>>)
           p == Len(ignore)
<1>1. /\ p \in Nat /\ DOMAIN ignore = 1 .. p /\ DOMAIN g = 1 .. p + 1
      /\ g \in Seq(Frame \X BOOLEAN) /\ g[p + 1] = <<f, TRUE>>
      /\ \A k \in 1 .. p : g[k] = ignore[k] /\ k \in 1 .. p + 1 /\ k # p + 1
      /\ \A k \in 1 .. p + 1 : k \in 1 .. p \/ k = p + 1
      /\ p + 1 \in 1 .. p + 1
  <2> DEFINE P == Frame \X BOOLEAN
             x == <<f, TRUE>>
  <2>1. ignore \in Seq(P) /\ x \in P
    BY DEF IgnoreInv
  <2> HIDE DEF P, x
  <2>2. /\ p \in Nat /\ DOMAIN ignore = 1 .. p /\ Append(ignore, x) \in Seq(P)
        /\ DOMAIN Append(ignore, x) = 1 .. p + 1 /\ Append(ignore, x)[p + 1] = x
        /\ \A k \in 1 .. p : Append(ignore, x)[k] = ignore[k]
    BY <2>1
  <2>3. /\ \A k \in 1 .. p : k \in 1 .. p + 1 /\ k # p + 1
        /\ \A k \in 1 .. p + 1 : k \in 1 .. p \/ k = p + 1
        /\ p + 1 \in 1 .. p + 1
    BY <2>2
  <2> QED
    BY <2>2, <2>3 DEF P, x
<1> HIDE DEF g, p
<1>2. Fresh(g) = Fresh(ignore) \cup {p + 1}
  <2>1. g[p + 1][2] = TRUE
    BY <1>1
  <2>2. \A k \in 1 .. p + 1 : k \in Fresh(g) <=> k \in Fresh(ignore) \/ k = p + 1
    BY <1>1, <2>1 DEF Fresh
  <2>3. Fresh(g) \subseteq 1 .. p + 1 /\ Fresh(ignore) \subseteq 1 .. p + 1
    BY <1>1 DEF Fresh
  <2> QED
    BY <1>1, <2>2, <2>3
<1>3. Fresh(ignore) \in SUBSET (1 .. p)
  BY <1>1 DEF Fresh
<1>4. \A k \in Fresh(ignore) : Frames(g)[k] = Frames(ignore)[k]
  BY <1>1, <1>3 DEF Frames
<1>5. Picks(recent, Frames(g), Fresh(ignore))
  BY <1>4, PicksSame DEF IgnoreInv
<1>6. Frames(g)[p + 1] = f
  BY <1>1 DEF Frames
<1>7. recent \in Seq(Frame) /\ Append(recent, f) \in Seq(Frame)
  BY DEF IgnoreInv
<1>8. Picks(Append(recent, Frames(g)[p + 1]), Frames(g), Fresh(ignore) \cup {p + 1})
  BY <1>1, <1>3, <1>5, <1>6, <1>7, PicksAppend
<1> QED
  BY <1>1, <1>2, <1>6, <1>7, <1>8 DEF g

(* The oldest entry expires, and its frame is no longer of the last second. *)
LEMMA ExpireIgnore ==
  ASSUME IgnoreInv, Expire
  PROVE  IgnoreInv'
<1>1. PICK k \in DOMAIN ignore :
        /\ ignore[k][2] /\ \A n \in 1 .. k - 1 : ~ignore[n][2]
        /\ ignore' = [ignore EXCEPT ![k] = <<@[1], FALSE>>]
  BY DEF Expire
<1>2. recent # <<>> /\ recent' = Tail(recent) /\ recent \in Seq(Frame)
      /\ ignore \in Seq(Frame \X BOOLEAN)
  BY DEF Expire, IgnoreInv
<1>3. DOMAIN ignore = 1 .. Len(ignore) /\ Len(ignore) \in Nat
      /\ \A n \in DOMAIN ignore : ignore[n] \in Frame \X BOOLEAN
  BY <1>2
<1>4. ignore' = [n \in DOMAIN ignore |-> IF n = k THEN <<ignore[k][1], FALSE>> ELSE ignore[n]]
  BY <1>1
<1>5. <<ignore[k][1], FALSE>> \in Frame \X BOOLEAN
  BY <1>1, <1>3
<1>6. /\ DOMAIN ignore' = DOMAIN ignore
      /\ \A n \in DOMAIN ignore :
           /\ ignore'[n] \in Frame \X BOOLEAN /\ ignore'[n][1] = ignore[n][1]
           /\ n # k => ignore'[n] = ignore[n]
      /\ ignore'[k][2] = FALSE
  <2>1. /\ DOMAIN ignore' = DOMAIN ignore
        /\ \A n \in DOMAIN ignore : n # k => ignore'[n] = ignore[n]
        /\ ignore'[k] = <<ignore[k][1], FALSE>>
    BY <1>1, <1>4
  <2>2. ignore'[k][1] = ignore[k][1] /\ ignore'[k][2] = FALSE /\ ignore'[k] \in Frame \X BOOLEAN
    BY <2>1, <1>5
  <2>3. ASSUME NEW n \in DOMAIN ignore
        PROVE  ignore'[n] \in Frame \X BOOLEAN /\ ignore'[n][1] = ignore[n][1]
    <3>1. CASE n = k
      BY <3>1, <2>2
    <3>2. CASE n # k
      BY <3>2, <2>1, <1>3
    <3> QED
      BY <3>1, <3>2
  <2> QED
    BY <2>1, <2>2, <2>3
<1>7. ignore' \in Seq(Frame \X BOOLEAN)
  <2> DEFINE P == Frame \X BOOLEAN
             N == Len(ignore)
  <2>1. ignore' = [n \in 1 .. N |-> ignore'[n]]
    BY <1>3, <1>4
  <2>2. \A n \in 1 .. N : ignore'[n] \in P
    BY <1>3, <1>6
  <2> HIDE DEF P, N
  <2>3. ignore' \in [1 .. N -> P]
    BY <2>1, <2>2
  <2> QED
    BY <2>3, <1>3 DEF N, P
<1>8. Fresh(ignore)' = Fresh(ignore) \ {k}
  BY <1>1, <1>6 DEF Fresh
<1>9. k \in Fresh(ignore) /\ Fresh(ignore) \in SUBSET Nat
  BY <1>1, <1>3 DEF Fresh
<1>10. \A m \in Fresh(ignore) : k <= m
  <2> SUFFICES ASSUME NEW m \in DOMAIN ignore, ignore[m][2], ~(k <= m) PROVE FALSE
    BY DEF Fresh
  <2>1. m \in 1 .. k - 1
    BY <1>1, <1>3
  <2> QED
    BY <2>1, <1>1
<1>11. Picks(recent', Frames(ignore), Fresh(ignore) \ {k})
  BY <1>2, <1>9, <1>10, PicksTail DEF IgnoreInv
<1>12. \A m \in Fresh(ignore) \ {k} : Frames(ignore)'[m] = Frames(ignore)[m]
  BY <1>6 DEF Fresh, Frames
<1>13. Picks(recent', Frames(ignore)', Fresh(ignore)')
  BY <1>8, <1>11, <1>12, PicksSame
<1>14. recent' \in Seq(Frame)
  BY <1>2
<1> QED
  BY <1>7, <1>13, <1>14 DEF IgnoreInv

(* What is left after the removal of the expired is all fresh. *)
LEMMA PurgeIgnore ==
  ASSUME IgnoreInv, EndOfList
  PROVE  IgnoreInv'
<1>1. PICK r \in UNION {[1 .. n -> Elems(ignore)] : n \in 0 .. Len(ignore)} :
        Purge(ignore, r) /\ ignore' = r
  BY DEF EndOfList
<1>2. recent' = recent /\ recent \in Seq(Frame) /\ ignore \in Seq(Frame \X BOOLEAN)
  BY DEF EndOfList, IgnoreInv
<1>3. Elems(ignore) \subseteq Frame \X BOOLEAN
  BY <1>2 DEF Elems
<1>4. r \in Seq(Frame \X BOOLEAN)
  <2> DEFINE P == Frame \X BOOLEAN
  <2>1. PICK n \in 0 .. Len(ignore) : r \in [1 .. n -> Elems(ignore)]
    BY <1>1
  <2>2. Elems(ignore) \subseteq P /\ n \in Nat
    BY <1>2, <1>3
  <2> HIDE DEF P
  <2>3. r \in [1 .. n -> P]
    BY <2>1, <2>2
  <2>4. r \in Seq(P)
    BY <2>2, <2>3
  <2> QED
    BY <2>4 DEF P
<1>5. Picks(r, ignore, Fresh(ignore)) /\ Picks(recent, Frames(ignore), Fresh(ignore))
  BY <1>1 DEF Purge, IgnoreInv
<1>6. Fresh(ignore) \in SUBSET Nat
  BY <1>2 DEF Fresh
<1>7. \A k \in Fresh(ignore) : Frames(ignore)[k] = ignore[k][1]
  BY DEF Fresh, Frames
<1>8. Picks(recent, Frames(r), DOMAIN r)
  BY <1>2, <1>4, <1>5, <1>6, <1>7, PicksInStep DEF Frames
<1>9. \A k \in DOMAIN r : r[k][2]
  <2> SUFFICES ASSUME NEW k \in DOMAIN r PROVE r[k][2]
    OBVIOUS
  <2>1. r[k] \in Elems(r)
    BY DEF Elems
  <2>2. PICK m \in Fresh(ignore) : r[k] = ignore[m]
    BY <1>5, <2>1, PicksElems
  <2> QED
    BY <2>2 DEF Fresh
<1>10. Fresh(r) = DOMAIN r
  BY <1>9 DEF Fresh
<1>11. Picks(recent, Frames(r), Fresh(r))
  BY <1>8, <1>10
<1> QED
  BY <1>1, <1>2, <1>4, <1>11 DEF IgnoreInv

LEMMA NextIgnoreInv == IgnoreInv /\ [Next]_vars => IgnoreInv'
<1> SUFFICES ASSUME IgnoreInv, [Next]_vars PROVE IgnoreInv'
  OBVIOUS
<1>1. CASE UNCHANGED <<ignore, recent>>
  BY <1>1 DEF IgnoreInv, Fresh, Frames
<1>2. ASSUME NEW c \in Cb, Register(c) \/ Deregister(c) PROVE UNCHANGED <<ignore, recent>>
  BY <1>2 DEF Register, Deregister, RegisterBusmonitor, RegisterVBusmonitor,
     RegisterBroadcastCallBack, RegisterGroupCallBack, RegisterIndividualCallBack,
     DeregisterBusmonitor, DeregisterVBusmonitor, DeregisterBroadcastCallBack,
     DeregisterGroupCallBack, DeregisterIndividualCallBack, dispatch
<1>3. ASSUME NEW f \in Frame, NEW rep \in BOOLEAN, Receive(f, rep) PROVE IgnoreInv'
  <2>1. CASE f.kind = "busmonitor"
    BY <1>1, <1>3, <2>1 DEF Receive
  <2>2. CASE f.kind # "busmonitor"
    <3>1. ignore' = Append(ignore, <<f, TRUE>>) /\ recent' = Append(recent, f)
      BY <1>3, <2>2 DEF Receive
    <3> QED
      BY <3>1, NoteFrame DEF IgnoreInv
  <2> QED
    BY <2>1, <2>2
<1>4. CASE Deliver \/ Resume \/ Shutdown \/ UNCHANGED vars \/ \E f \in Frame : Discard(f)
  <2>1. UNCHANGED <<ignore, recent>>
    BY <1>4 DEF Deliver, Resume, Shutdown, Discard, dispatch, vars, history
  <2> QED
    BY <2>1, <1>1
<1>5. CASE EndOfList \/ Expire
  BY <1>5, PurgeIgnore, ExpireIgnore
<1> QED
  BY <1>1, <1>2, <1>3, <1>4, <1>5 DEF Next, Dispatcher

(* Layer3::Run dispatches no repetition of a frame within a second of it: the  *)
(* list of frames to ignore holds, in order, all that were dispatched then.    *)
THEOREM NoRepeats == Spec => RepeatsFiltered
<1>1. Spec => []IgnoreInv
  BY InitIgnoreInv, NextIgnoreInv, PTL DEF Spec
<1>2. IgnoreInv /\ [Next]_vars =>
        [pc = "wait" /\ pc' = "deliver" /\ repeated' => cur' \notin Elems(recent)]_vars
  <2> SUFFICES ASSUME IgnoreInv, Next, pc = "wait", pc' = "deliver", repeated',
                      cur' \in Elems(recent)
               PROVE  FALSE
    OBVIOUS
  <2>1. ~ \E c \in Cb : Register(c) \/ Deregister(c)
    BY DEF Register, Deregister, RegisterBusmonitor, RegisterVBusmonitor,
       RegisterBroadcastCallBack, RegisterGroupCallBack, RegisterIndividualCallBack,
       DeregisterBusmonitor, DeregisterVBusmonitor, DeregisterBroadcastCallBack,
       DeregisterGroupCallBack, DeregisterIndividualCallBack, dispatch
  <2>2. ~(Deliver \/ Resume \/ EndOfList \/ Expire \/ Shutdown \/ \E f \in Frame : Discard(f))
    BY DEF Deliver, Resume, EndOfList, Expire, Shutdown, Discard, dispatch, vars
  <2>3. PICK f \in Frame, rep \in BOOLEAN : Receive(f, rep)
    BY <2>1, <2>2 DEF Next, Dispatcher
  <2>4. cur' = f /\ rep = TRUE /\ \A k \in DOMAIN ignore : ignore[k][1] # f
    BY <2>3 DEF Receive, IsRepeat
  <2>5. PICK k \in Fresh(ignore) : f = Frames(ignore)[k]
    BY <2>4, PicksElems DEF IgnoreInv
  <2>6. k \in DOMAIN ignore /\ ignore[k][1] = f
    BY <2>5 DEF Fresh, Frames
  <2> QED
    BY <2>4, <2>6
<1> QED
  BY <1>1, <1>2, PTL DEF Spec, RepeatsFiltered
=============================================================================
