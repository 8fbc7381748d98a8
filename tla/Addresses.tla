----------------------------- MODULE Addresses -----------------------------
(***************************************************************************)
(* Clients of the daemon that give devices their addresses: the one-shot   *)
(* requests of src/eibd/libserver/managementclient.cpp, with the functions *)
(* of management.cpp and layer7.cpp they use.  A device takes an address   *)
(* and answers A_IndividualAddress_Read while its programming mode is on;  *)
(* a button on it, or a client, switches that.  Between two exchanges of a *)
(* request the other client and the buttons may do anything.               *)
(***************************************************************************)
EXTENDS Integers, FiniteSets

CONSTANTS
  Admin,      \* the clients
  Device,
  Address,
  Given,      \* Given[c]: the address client c gives to a device
  MaxWork,    \* bound: requests of the clients
  MaxPress,   \* bound: presses of buttons
  MaxLost     \* bound: answers that do not come

(* Two clients give different addresses. *)
ASSUME AddressesAssumption ==
  /\ IsFiniteSet(Device)
  /\ Given \in [Admin -> Address] /\ \A b, c \in Admin : Given[b] = Given[c] => b = c
  /\ {MaxWork, MaxPress, MaxLost} \subseteq Nat

VARIABLES
  addr, prog,   \* the devices: address, programming mode on
  job,          \* the request of each client
  work, presses, lost

advars == <<addr, prog, job, work, presses, lost>>
bus == <<addr, prog, presses>>

(* at: the exchange the request is at; dest: the device it speaks to;      *)
(* mode: what it does with the programming mode ("give": off, when it has  *)
(* given the address); count: answers to A_IndividualAddress_Read; want:   *)
(* the mode it has computed; reply: its answer; sure (history): nothing    *)
(* happened that it could not notice.                                      *)
Job(at, dest, mode) ==
  [at |-> at, dest |-> dest, mode |-> mode, count |-> 0, want |-> FALSE,
   reply |-> "none", sure |-> TRUE]

AddressesInit ==
  /\ addr \in [Device -> Address] /\ prog \in [Device -> BOOLEAN]
  /\ job = [c \in Admin |-> Job("idle", 0, "none")]
  /\ work = 0 /\ presses = 0 /\ lost = 0

----------------------------------------------------------------------------
At(c, e) == job[c].at = e
Goto(c, e) == job' = [job EXCEPT ![c].at = e]
Finish(c, r) == job' = [job EXCEPT ![c] = [Job("idle", 0, "none") EXCEPT !.reply = r]]

(* EIB_M_INDIVIDUAL_ADDRESS_WRITE, EIB_PROG_MODE, EIB_MASK_VERSION and     *)
(* EIB_M_INDIVIDUAL_ADDRESS_READ.                                          *)
Starts(c, j) ==
  /\ At(c, "idle") /\ work < MaxWork /\ work' = work + 1
  /\ job' = [job EXCEPT ![c] = j]
  /\ UNCHANGED <<bus, lost>>

WriteIndividualAddress(c) == Starts(c, Job("check", Given[c], "give"))
ChangeProgMode(c) ==
  \E a \in Address, m \in {"on", "off", "toggle", "status"} : Starts(c, Job("read", a, m))
GetMaskVersion(c) == \E a \in Address : Starts(c, Job("mask", a, "none"))
ReadIndividualAddresses(c) == Starts(c, Job("list", 0, "none"))

----------------------------------------------------------------------------
(* An exchange with the device at dest: answered if there is one, unless   *)
(* the answer is lost or late.                                             *)
There(c) == \E d \in Device : addr[d] = job[c].dest
Answered(c) == There(c) /\ UNCHANGED lost
NoDevice(c) == ~There(c) /\ UNCHANGED lost
AnswerLost(c) == There(c) /\ lost < MaxLost /\ lost' = lost + 1
Unanswered(c) == NoDevice(c) \/ AnswerLost(c)

(* A_Device_Descriptor_Read: is the address free?  When it was given: does *)
(* a device answer there?                                                  *)
Check(c) ==
  /\ At(c, "check")
  /\ \/ Answered(c) /\ Finish(c, "ADDR_EXISTS")
     \/ NoDevice(c) /\ Goto(c, "ask")
     \/ AnswerLost(c) /\ job' = [job EXCEPT ![c].at = "ask", ![c].sure = FALSE]
  /\ UNCHANGED <<bus, work>>

Verify(c) ==
  /\ At(c, "verify")
  /\ \/ Answered(c) /\ Goto(c, "read")
     \/ Unanswered(c) /\ Finish(c, "PROCESSING_ERROR")
  /\ UNCHANGED <<bus, work>>

Mask(c) ==
  /\ At(c, "mask")
  /\ (Answered(c) /\ Finish(c, "mask")) \/ (Unanswered(c) /\ Finish(c, "failed"))
  /\ UNCHANGED <<bus, work>>

(* A_IndividualAddress_Read: every device in programming mode answers, to  *)
(* all clients that listen; the answers are not told apart.                *)
Listens(c) == job[c].at \in {"collect", "listen"}
Ask(c) ==
  /\ At(c, "ask") \/ At(c, "list")
  /\ \E heard \in SUBSET {d \in Device : prog[d]} :
       LET missed == Cardinality({d \in Device : prog[d]} \ heard) IN
       /\ lost + missed <= MaxLost /\ lost' = lost + missed
       /\ job' = [b \in Admin |->
            IF b = c
            THEN [job[c] EXCEPT !.at = IF @ = "ask" THEN "collect" ELSE "listen",
                                !.count = Cardinality(heard), !.sure = @ /\ missed = 0]
            ELSE IF Listens(b) THEN [job[b] EXCEPT !.count = @ + Cardinality(heard)]
            ELSE job[b]]
  /\ UNCHANGED <<bus, work>>

(* Three seconds later: exactly one answer, and it gets the address.       *)
TooManyNever(c) == FALSE
TooMany(c) == job[c].count > 1

Collected(c) ==
  /\ Listens(c)
  /\ IF At(c, "listen") THEN Finish(c, "addresses")
     ELSE IF TooMany(c) THEN Finish(c, "MORE_DEVICE")
     ELSE IF job[c].count = 0 THEN Finish(c, "TIMEOUT")
     ELSE Goto(c, "assign")
  /\ UNCHANGED <<bus, work, lost>>

Assign(c) ==
  /\ At(c, "assign") /\ Goto(c, "verify")
  /\ addr' = [d \in Device |-> IF prog[d] THEN job[c].dest ELSE addr[d]]
  /\ UNCHANGED <<prog, presses, work, lost>>

(* X_Progmode_On, _Off, _Toggle and _Status: the octet at 0x60 is read,    *)
(* written and read again.                                                 *)
ModesAt(c) == {prog[d] : d \in {d \in Device : addr[d] = job[c].dest}}

ProgRead(c) ==
  /\ At(c, "read")
  /\ \/ /\ Answered(c)
        /\ IF job[c].mode = "status" THEN Finish(c, "status")
           ELSE \E m \in ModesAt(c) :
                  job' = [job EXCEPT ![c].at = "write",
                    ![c].want = CASE job[c].mode = "on" -> TRUE
                                  [] job[c].mode = "toggle" -> ~m
                                  [] OTHER -> FALSE]
     \/ Unanswered(c) /\ Finish(c, "failed")
  /\ UNCHANGED <<bus, work>>

(* Switched on, a device may take what others assign.                      *)
Doubt(j, ds) == [j EXCEPT !.sure = @ /\ ~(j.at \in {"collect", "assign"} /\ ds # {})]

ProgWrite(c) ==
  /\ At(c, "write")
  /\ prog' = [d \in Device |-> IF addr[d] = job[c].dest THEN job[c].want ELSE prog[d]]
  /\ job' = [b \in Admin |->
       IF b = c THEN [job[c] EXCEPT !.at = "confirm"]
       ELSE Doubt(job[b], {d \in Device : prog'[d] /\ ~prog[d]})]
  /\ UNCHANGED <<addr, presses, work, lost>>

Confirm(c) ==
  /\ At(c, "confirm")
  /\ \/ /\ Answered(c)
        /\ \E m \in ModesAt(c) :
           Finish(c, IF m # job[c].want THEN "failed"
                     ELSE IF job[c].mode = "give" THEN "given" ELSE "switched")
     \/ Unanswered(c) /\ Finish(c, "failed")
  /\ UNCHANGED <<bus, work>>

Press(d) ==
  /\ presses < MaxPress /\ presses' = presses + 1
  /\ prog' = [prog EXCEPT ![d] = ~@]
  /\ job' = [c \in Admin |-> Doubt(job[c], IF prog[d] THEN {} ELSE {d})]
  /\ UNCHANGED <<addr, work, lost>>

AddressesNext ==
  \/ \E c \in Admin :
       \/ WriteIndividualAddress(c) \/ ChangeProgMode(c) \/ GetMaskVersion(c)
       \/ ReadIndividualAddresses(c)
       \/ Check(c) \/ Verify(c) \/ Mask(c) \/ Ask(c) \/ Collected(c) \/ Assign(c)
       \/ ProgRead(c) \/ ProgWrite(c) \/ Confirm(c)
  \/ \E d \in Device : Press(d)

----------------------------------------------------------------------------
(* Two clients give different addresses at the same time, and switch the   *)
(* mode of devices.  A client that hears it has given its address has:     *)
(* exactly one device has it, and is not in programming mode.  (Unless an  *)
(* answer was lost, or a device was switched on between the question and   *)
(* the assignment: nothing in the protocol can tell.)                      *)
HasOnly(d, a) == addr[d] = a /\ \A e \in Device \ {d} : addr[e] # a

AddressUnique ==
  [][\A c \in Admin :
       At(c, "confirm") /\ job'[c].reply = "given" /\ job[c].sure
         => \E d \in Device : HasOnly(d, job[c].dest) /\ ~prog[d]]_advars
=============================================================================
