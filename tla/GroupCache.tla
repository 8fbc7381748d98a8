----------------------------- MODULE GroupCache -----------------------------
(***************************************************************************)
(* GroupCache (src/eibd/libserver/groupcache.cpp): the last telegram of    *)
(* every group address, kept in an array sorted by address.  Layer3's      *)
(* thread calls Get_L_Data, the threads of clients enable, clear, disable  *)
(* and read.  A Read that misses sends A_GroupValue_Read (it yields in     *)
(* send_L_Data) and then waits on a condition variable with a timeout;     *)
(* what it found before a yield is looked up again after it.               *)
(* Time is abstracted: an entry is "old" once it is older than the age a   *)
(* reader may ask for.  The ring of updates is module GroupCacheUpdates.   *)
(***************************************************************************)
EXTENDS Integers, Sequences

CONSTANTS
  Addr,      \* group addresses, integers above 0
  Val,       \* telegram contents
  Reader,    \* client threads in EIB_CACHE_READ
  MaxTel,    \* bound: telegrams
  MaxAdmin   \* bound: calls of Start, Stop, Clear and remove, together

ASSUME AddrAssumption == Addr \subseteq Nat \ {0}
ASSUME ValAssumption == Val \cap {"none", "ENODEV", "ENOENT"} = {}
ASSUME GroupCacheBounds == MaxTel \in Nat /\ MaxAdmin \in Nat

VARIABLES
  enable,
  cache,     \* sorted sequence of [dst, val, old]; val is None for src = 0
  pc,        \* per reader: "idle", "asked", "waiting", "woken"
  arg,       \* per reader that waits: [addr, age], age TRUE if old telegrams will not do
  timedout,  \* per reader that waits: the timeout event has occurred
  result,    \* per reader: what the last Read returned
  (* history *)
  last,      \* per address: the last telegram since the cache forgot it
  answered,  \* per reader that waits: the address was heard since, and not forgotten
  tels, admin

None == "none"
NoArg == [addr |-> 0, age |-> FALSE]
readers == <<pc, arg, timedout, result>>
vars == <<enable, cache, readers, last, answered, tels, admin>>

Init ==
  /\ enable = FALSE /\ cache = <<>>
  /\ pc = [r \in Reader |-> "idle"]
  /\ arg = [r \in Reader |-> NoArg]
  /\ timedout = [r \in Reader |-> FALSE]
  /\ result = [r \in Reader |-> None]
  /\ last = [a \in Addr |-> None]
  /\ answered = [r \in Reader |-> FALSE]
  /\ tels = 0 /\ admin = 0

----------------------------------------------------------------------------
(* The binary search of find and remove: the index of dst, or 0. *)
SearchNotLast(c, dst) ==
  LET s[x \in (1 .. Len(c) + 1) \X (0 .. Len(c))] ==
        LET l == x[1] r == x[2] p == (l + r) \div 2 IN
        IF l >= r THEN 0
        ELSE IF c[p].dst = dst THEN p
        ELSE IF dst > c[p].dst THEN s[<<p + 1, r>>] ELSE s[<<l, p - 1>>]
  IN s[<<1, Len(c)>>]
Search(c, dst) ==
  LET s[x \in (1 .. Len(c) + 1) \X (0 .. Len(c))] ==
        LET l == x[1] r == x[2] p == (l + r) \div 2 IN
        IF l > r THEN 0
        ELSE IF c[p].dst = dst THEN p
        ELSE IF dst > c[p].dst THEN s[<<p + 1, r>>] ELSE s[<<l, p - 1>>]
  IN s[<<1, Len(c)>>]

(* add: from the end, the entries that are greater move up; e goes behind the  *)
(* first that is not.                                                          *)
AddAtEnd(c, e) == Append(c, e)
SlotFor(c, dst) ==
  CHOOSE n \in 0 .. Len(c) :
    /\ n > 0 => c[n].dst <= dst
    /\ \A k \in n + 1 .. Len(c) : c[k].dst > dst
Add(c, e) ==
  LET n == SlotFor(c, e.dst) IN
  SubSeq(c, 1, n) \o <<e>> \o SubSeq(c, n + 1, Len(c))

Entry(dst, val) == [dst |-> dst, val |-> val, old |-> FALSE]

(* What Get_L_Data does with the array: overwrite the entry or add one. *)
StoreAdding(dst, val) == cache' = Add(cache, Entry(dst, val))
Store(dst, val) ==
  LET i == Search(cache, dst) IN
  cache' = IF i # 0 THEN [cache EXCEPT ![i] = Entry(dst, val)]
           ELSE Add(cache, Entry(dst, val))

----------------------------------------------------------------------------
(* pth_cond_notify(&cond, 1) wakes every waiting reader. *)
NotifyAll == pc' = [r \in Reader |-> IF pc[r] = "waiting" THEN "woken" ELSE pc[r]]

(* Get_L_Data; Layer3 calls it only while the cache is registered. *)
Telegram(dst, val) ==
  /\ enable
  /\ tels < MaxTel
  /\ Store(dst, val)
  /\ NotifyAll
  /\ last' = [last EXCEPT ![dst] = val]
  /\ answered' = [r \in Reader |-> answered[r] \/ (pc[r] # "idle" /\ arg[r].addr = dst)]
  /\ tels' = tels + 1
  /\ UNCHANGED <<enable, arg, timedout, result, admin>>

(* Time passes. *)
Age ==
  /\ \E i \in DOMAIN cache : ~cache[i].old /\ cache' = [cache EXCEPT ![i].old = TRUE]
  /\ UNCHANGED <<enable, readers, last, answered, tels, admin>>

----------------------------------------------------------------------------
Administer == admin < MaxAdmin /\ admin' = admin + 1 /\ UNCHANGED <<readers, tels>>

(* Layer3 refuses the registration while it is a bus monitor. *)
Start ==
  /\ Administer
  /\ enable' = TRUE \/ (~enable /\ UNCHANGED enable)
  /\ UNCHANGED <<cache, last, answered>>

Forget(A) ==
  /\ last' = [a \in Addr |-> IF a \in A THEN None ELSE last[a]]
  /\ answered' = [r \in Reader |-> answered[r] /\ (pc[r] = "idle" \/ arg[r].addr \notin A)]

Clear ==
  /\ Administer
  /\ cache' = <<>>
  /\ Forget(Addr)
  /\ UNCHANGED enable

Stop ==
  /\ Administer
  /\ cache' = <<>>
  /\ enable' = FALSE
  /\ Forget(Addr)

Remove(addr) ==
  /\ Administer
  /\ LET i == Search(cache, addr) IN
     cache' = IF i = 0 THEN cache ELSE SubSeq(cache, 1, i - 1) \o SubSeq(cache, i + 1, Len(cache))
  /\ Forget({addr})
  /\ UNCHANGED enable

----------------------------------------------------------------------------
(* Read, with the timeout of EIB_CACHE_READ (sync) or none; ENODEV and ENOENT  *)
(* are what the client library makes of f.dst = 0 and of an answer without     *)
(* data, and None tells the latter apart when the call does not wait.          *)
Return(r, v) ==
  /\ result' = [result EXCEPT ![r] = v]
  /\ pc' = [pc EXCEPT ![r] = "idle"]
  /\ arg' = [arg EXCEPT ![r] = NoArg]
  /\ timedout' = [timedout EXCEPT ![r] = FALSE]
  /\ answered' = [answered EXCEPT ![r] = FALSE]

AsResult(v, sync) == IF v = None /\ sync THEN "ENOENT" ELSE v

(* The entry, if there is one that is young enough for the reader. *)
Hit(c, addr, age) ==
  LET i == Search(c, addr) IN IF i # 0 /\ ~(age /\ c[i].old) THEN i ELSE 0

Read(r, addr, age, sync) ==
  /\ pc[r] = "idle"
  /\ LET i == Hit(cache, addr, age) IN
     \/ ~enable /\ Return(r, "ENODEV")
     \/ enable /\ i # 0 /\ Return(r, AsResult(cache[i].val, sync))
     \/ enable /\ i = 0 /\ ~sync /\ Return(r, None)
     \/ /\ enable /\ i = 0 /\ sync
        /\ pc' = [pc EXCEPT ![r] = "asked"]
        /\ arg' = [arg EXCEPT ![r] = [addr |-> addr, age |-> age]]
        /\ result' = [result EXCEPT ![r] = None]
        /\ UNCHANGED <<timedout, answered>>
  /\ UNCHANGED <<enable, cache, last, tels, admin>>

GiveUpNever(r) == FALSE
GiveUp(r) == timedout[r]

(* One turn of the loop: after send_L_Data and after every wait. *)
ReadLoop(r) ==
  /\ pc[r] \in {"asked", "woken"}
  /\ LET addr == arg[r].addr
         i == Hit(cache, addr, arg[r].age) IN
     \/ /\ i # 0
        /\ Return(r, AsResult(cache[i].val, TRUE))
        /\ UNCHANGED cache
     \/ /\ i = 0 /\ GiveUp(r)
        /\ Return(r, "ENOENT")
        /\ cache' = IF Search(cache, addr) # 0 THEN cache ELSE Add(cache, Entry(addr, None))
     \/ /\ i = 0 /\ ~GiveUp(r)
        /\ pc' = [pc EXCEPT ![r] = "waiting"]
        /\ UNCHANGED <<cache, arg, timedout, result, answered>>
  /\ UNCHANGED <<enable, last, tels, admin>>

TimeoutOccurs(r) ==
  /\ pc[r] = "waiting"
  /\ pc' = [pc EXCEPT ![r] = "woken"]
  /\ timedout' = [timedout EXCEPT ![r] = TRUE]
  /\ UNCHANGED <<enable, cache, arg, result, last, answered, tels, admin>>

(* A woken reader runs, and a timeout occurs: all that the liveness assumes.   *)
ReaderStep(r) == ReadLoop(r) \/ TimeoutOccurs(r)

----------------------------------------------------------------------------
Next ==
  \/ \E dst \in Addr, val \in Val : Telegram(dst, val)
  \/ Age
  \/ Start \/ Clear \/ Stop \/ \E addr \in Addr : Remove(addr)
  \/ \E r \in Reader, addr \in Addr, age, sync \in BOOLEAN : Read(r, addr, age, sync)
  \/ \E r \in Reader : ReaderStep(r)

Spec == Init /\ [][Next]_vars

----------------------------------------------------------------------------
(* Type invariant. *)
TypeOK ==
  /\ enable \in BOOLEAN
  /\ cache \in Seq([dst : Addr, val : Val \cup {None}, old : BOOLEAN])
  /\ pc \in [Reader -> {"idle", "asked", "waiting", "woken"}]
  /\ arg \in [Reader -> [addr : Addr \cup {0}, age : BOOLEAN]]
  /\ timedout \in [Reader -> BOOLEAN]
  /\ result \in [Reader -> Val \cup {None, "ENODEV", "ENOENT"}]
  /\ last \in [Addr -> Val \cup {None}]
  /\ answered \in [Reader -> BOOLEAN]
  /\ tels \in 0 .. MaxTel /\ admin \in 0 .. MaxAdmin

(* The array stays strictly sorted although readers add negative entries long  *)
(* after they looked: the binary search needs it, and a second entry for an    *)
(* address would hide its telegrams.                                           *)
StrictlySorted == \A i, j \in DOMAIN cache : i < j => cache[i].dst < cache[j].dst

(* "Query the last value sent to a group address": what the cache has for an   *)
(* address is the last telegram since it was enabled or told to forget.        *)
HoldsLast ==
  /\ TypeOK /\ StrictlySorted
  /\ \A a \in Addr :
       LET i == Search(cache, a) IN
       last[a] = IF i = 0 THEN None ELSE cache[i].val

(* An answer that reaches the cache while a Read waits is not lost: the Read   *)
(* does not end in ENOENT, whichever of notification and timeout comes first.  *)
NoLostAnswer ==
  [][\A r \in Reader :
       pc[r] # "idle" /\ result'[r] = "ENOENT" /\ ~arg[r].age => ~answered[r]]_vars

(* "ENOENT=A_GroupValue_Read request was not answered" (eibclient.h): a Read   *)
(* that says so has sent one, so it does not return at once.                   *)
EnoentMeansAsked ==
  [][\A r \in Reader :
       pc[r] = "idle" /\ result'[r] = "ENOENT" => result[r] = "ENOENT"]_vars

(* Every Read returns.                                                         *)
ReadReturns == \A r \in Reader : (pc[r] # "idle") ~> (pc[r] = "idle")
=============================================================================
