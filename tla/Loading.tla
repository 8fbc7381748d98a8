------------------------------ MODULE Loading ------------------------------
(***************************************************************************)
(* Loading a program into a device: LoadImage of managementclient.cpp, the *)
(* steps PrepareLoadImage (src/common/loadimage.cpp) makes for a BCU2, and *)
(* the functions of Layer7_Connection (layer7.cpp) that carry them out.    *)
(* An exchange waits 6 s for the first APDU that comes: an answer that is  *)
(* late is met by the next exchange.  The memory of the device is regions, *)
(* each a sequence of cells.                                               *)
(***************************************************************************)
EXTENDS Integers, Sequences, FiniteSets

CONSTANTS
  Cells,      \* region |-> number of cells
  Block,      \* cells one exchange carries: 12 in the code
  Small,      \* and after a failure: 2 in the code
  MaxLate     \* bound: answers that come too late

(* What the images of the two kinds of devices are made of. *)
Region == {"flags", "tab", "head", "code", "code2", "main", "ram", "addr", "assoc", "eeprom", "param"}

ASSUME LoadingAssumption ==
  /\ Cells \in [Region -> Nat] /\ Cells["flags"] = 1
  /\ Small \in Nat \ {0} /\ Block \in Nat /\ Block > Small /\ MaxLate \in Nat

(* Contents of a cell. *)
Old == 0
New == 1
Initial == 2

VARIABLES
  unit,      \* the type of the device: "bcu1", "bcu2"
  step,      \* step of LoadImage under way; 0 before, -1 at the end
  phase,     \* "begin", "read", "write", "verify", "control": what it waits for
  width,     \* blocksize of X_Memory_Read_Block
  from,      \* offset in the region
  prev,      \* what the region held
  failed,    \* a cell was not written as it should (-2)
  outcome,    \* "none", "LOADED" or the error of a step
  (* the connection and the device *)
  requests, answers, broken, late,
  mem,       \* region |-> its cells
  rom,       \* cells that ignore what is written
  state      \* of the address table, the association table, the program

loader == <<unit, step, phase, width, from, prev, failed, outcome>>
device == <<mem, rom, state>>
ldvars == <<loader, requests, answers, broken, late, device>>

----------------------------------------------------------------------------
(* The steps: the error it ends with when it fails, a request to the       *)
(* device if it has one, and a region to be written if it has one.         *)
Step(error, ask, obj, region, value) ==
  [error |-> error, ask |-> ask, obj |-> obj, region |-> region, value |-> value]
WriteRegion(error, region, value) == Step(error, "none", 0, region, value)
Control(error, ask, obj) == Step(error, ask, obj, "none", New)

StepsBCU1 ==
  <<Control("MASK", "mask", 0),
    WriteRegion("CLEAR_ERROR", "flags", Initial),
    WriteRegion("RESET_ADDR_TAB", "tab", Initial),
    WriteRegion("LOAD_HEADER", "head", Initial),
    WriteRegion("LOAD_HEADER", "code", New),
    WriteRegion("LOAD_HEADER", "code2", New),
    WriteRegion("LOAD_MAIN", "main", New),
    WriteRegion("LOAD_MAIN", "head", New),
    WriteRegion("ZERO_RAM", "ram", New),
    WriteRegion("FINALIZE_ADDR_TAB", "tab", New),
    WriteRegion("PREPARE_RUN", "flags", New)>>

Authorized ==
  <<Control("MASK", "mask", 0), Control("AUTHORIZATION", "authorize", 0),
    Control("KEY_WRITE", "key", 0), Control("KEY_WRITE", "key", 1),
    Control("KEY_WRITE", "key", 2)>>
PrepareLoadImage ==
  <<Control("UNLOAD_ADDR", "unload", 1), Control("UNLOAD_ASSOC", "unload", 2),
    Control("UNLOAD_PROG", "unload", 3),
    Control("LOAD_ADDR", "load", 1),
    Step("WRITE_ADDR", "alloc", 1, "tab", New), WriteRegion("WRITE_ADDR", "addr", New),
    Control("SET_ADDR", "set", 1), Control("FINISH_ADDR", "finish", 1),
    Control("LOAD_ASSOC", "load", 2), Step("WRITE_ASSOC", "alloc", 2, "assoc", New),
    Control("SET_ASSOC", "set", 2), Control("FINISH_ASSOC", "finish", 2),
    Control("LOAD_PROG", "load", 3),
    Control("ALLOC_LORAM", "alloc", 3), Control("ALLOC_HIRAM", "alloc", 3),
    Step("ALLOC_INIT", "alloc", 3, "head", New), WriteRegion("ALLOC_INIT", "code", New),
    Step("ALLOC_RO", "alloc", 3, "main", New),
    Step("ALLOC_EEPROM", "alloc", 3, "eeprom", New),
    Step("ALLOC_PARAM", "alloc", 3, "param", New),
    Control("SET_PROG", "set", 3), Control("SET_TASK_PTR", "set", 3),
    Control("SET_OBJ", "set", 3), Control("SET_TASK2", "set", 3),
    Control("FINISH_PROC", "finish", 3)>>

Steps == IF unit = "bcu1" THEN StepsBCU1 ELSE Authorized \o PrepareLoadImage
Used == {Steps[k].region : k \in DOMAIN Steps} \ {"none"}

LoadingInit ==
  /\ unit \in {"bcu1", "bcu2"}
  /\ step = 0 /\ phase = "begin" /\ width = Block /\ from = 0 /\ prev = <<>>
  /\ failed = FALSE /\ outcome = "none"
  /\ requests = <<>> /\ answers = <<>> /\ broken = FALSE /\ late = 0
  /\ mem = [r \in Region |-> [i \in 1 .. Cells[r] |-> IF r = "flags" THEN New ELSE Old]]
  /\ LET cells == {c \in Region \X (1 .. 3) : c[2] <= Cells[c[1]]} IN
     rom \in {{}} \cup {{c, d} : c \in cells, d \in cells}
  /\ state = [o \in 1 .. 3 |-> "loaded"]

----------------------------------------------------------------------------
(* Request_Response sends, and takes the first answer; one to another      *)
(* request, none in time, or the end of the connection is a failure.       *)
ReadRequest(r, at, n) == [ask |-> "read", obj |-> r, at |-> at, n |-> n, data |-> <<>>]
WriteRequest(r, at, d) == [ask |-> "write", obj |-> r, at |-> at, n |-> Len(d), data |-> d]
ControlRequest(s) == [ask |-> s.ask, obj |-> s.obj, at |-> 0, n |-> 1, data |-> <<>>]

Send(reqs) == requests' = IF broken THEN requests ELSE requests \o reqs
Fits(a, q) == a.ask = q.ask /\ a.obj = q.obj /\ a.at = q.at /\ a.n = q.n

NoAnswer(q) ==
  \/ /\ answers # <<>> /\ ~Fits(Head(answers), q)
     /\ answers' = Tail(answers) /\ UNCHANGED late
  \/ /\ answers = <<>> /\ broken
     /\ UNCHANGED <<answers, late>>
  \/ /\ answers = <<>> /\ ~broken /\ late < MaxLate
     /\ late' = late + 1 /\ UNCHANGED answers

Answer(q) ==
  answers # <<>> /\ Fits(Head(answers), q) /\ answers' = Tail(answers) /\ UNCHANGED late

(* The step has succeeded, or LoadImage ends (out).  A restart of the      *)
(* device is not answered.                                                 *)
Continue ==
  /\ IF step = Len(Steps) THEN step' = -1 /\ outcome' = "LOADED"
     ELSE step' = step + 1 /\ UNCHANGED outcome
  /\ phase' = "begin" /\ width' = Block /\ from' = 0 /\ prev' = <<>>

Out ==
  /\ step' = -1 /\ outcome' = Steps[step].error
  /\ phase' = "begin" /\ width' = Block /\ from' = 0 /\ prev' = <<>>

OtherUnchanged == UNCHANGED <<unit, broken, device>>

Connect ==
  /\ step = 0 /\ step' = 1
  /\ UNCHANGED <<phase, width, from, prev, failed, outcome, requests, answers, late>>
  /\ OtherUnchanged

(* The image is not fit for loading, or there is no connection. *)
Refuse ==
  /\ step = 0 /\ step' = -1
  /\ outcome' \in {"NOT_LOADABLE", "NO_DEVICE_CONNECTION"}
  /\ UNCHANGED <<phase, width, from, prev, failed, requests, answers, late>>
  /\ OtherUnchanged

S == Steps[step]
Length == Cells[S.region]
Least(a, b) == IF a < b THEN a ELSE b
Chunk == Least(width, Length - from)

(* A step begins with its request, if it has one, and goes on with the     *)
(* region.                                                                 *)
ReadNext == Send(<<ReadRequest(S.region, from', Least(width', Length - from'))>>) /\ phase' = "read"
BeginRegion ==
  /\ from' = 0 /\ width' = Block /\ prev' = <<>> /\ failed' = FALSE
  /\ ReadNext /\ UNCHANGED <<step, outcome>>

Begin ==
  /\ step > 0 /\ phase = "begin"
  /\ IF S.ask # "none"
     THEN /\ Send(<<ControlRequest(S)>>) /\ phase' = "control"
          /\ UNCHANGED <<step, width, from, prev, failed, outcome>>
     ELSE BeginRegion
  /\ UNCHANGED <<answers, late>> /\ OtherUnchanged

(* The mask must be the one of the image, the level of the authorization   *)
(* 0, a key be written at its level, a load control answered with the      *)
(* state it leads to.                                                      *)
Controlled ==
  /\ step > 0 /\ phase = "control"
  /\ \/ /\ Answer(ControlRequest(S))
        /\ IF Head(answers).data # <<New>> THEN Out /\ UNCHANGED <<requests, failed>>
           ELSE IF S.region = "none" THEN Continue /\ UNCHANGED <<requests, failed>>
           ELSE BeginRegion
     \/ NoAnswer(ControlRequest(S)) /\ Out /\ UNCHANGED <<requests, failed>>
  /\ OtherUnchanged

(* X_Memory_Write_Block: where what is there (p) is not what should be is  *)
(* written in blocks, each read back.                                      *)
Differs(p, i) == p[i + 1] # S.value
WriteFrom(p, i) ==
  LET open == {k \in i .. Length - 1 : Differs(p, k)} IN
  IF open = {} THEN (IF failed' THEN Out ELSE Continue) /\ UNCHANGED requests
  ELSE LET k == CHOOSE k \in open : \A l \in open : k <= l
           n == CHOOSE n \in 1 .. Block :
                  /\ \A l \in k .. k + n - 1 : l \in open
                  /\ n = Block \/ k + n \notin open
       IN /\ from' = k /\ phase' = "verify" /\ prev' = p
          /\ Send(<<WriteRequest(S.region, k, [l \in 1 .. n |-> S.value]),
                    ReadRequest(S.region, k, n)>>)
          /\ UNCHANGED <<step, width, outcome>>

(* X_Memory_Read_Block; after a failure with smaller blocks.               *)
BlockRead ==
  /\ step > 0 /\ phase = "read"
  /\ LET q == ReadRequest(S.region, from, Chunk) IN
     \/ /\ Answer(q)
        /\ LET p == prev \o Head(answers).data IN
           IF from + width < Length
           THEN /\ from' = from + width /\ prev' = p /\ UNCHANGED width
                /\ ReadNext /\ UNCHANGED <<step, outcome>>
           ELSE WriteFrom(p, 0)
     \/ /\ NoAnswer(q)
        /\ IF width = Block
           THEN /\ width' = Small /\ UNCHANGED <<from, prev>>
                /\ ReadNext /\ UNCHANGED <<step, outcome>>
           ELSE Out /\ UNCHANGED requests
  /\ UNCHANGED failed
  /\ OtherUnchanged

Run ==
  CHOOSE n \in 1 .. Block :
    /\ \A l \in from .. from + n - 1 : l < Length /\ Differs(prev, l)
    /\ n = Block \/ from + n = Length \/ ~Differs(prev, from + n)

MismatchPasses(d) == failed' = failed
Mismatch(d) == failed' = (failed \/ \E i \in 1 .. Len(d) : d[i] # S.value)

Verified ==
  /\ step > 0 /\ phase = "verify"
  /\ LET q == ReadRequest(S.region, from, Run) IN
     \/ Answer(q) /\ Mismatch(Head(answers).data) /\ WriteFrom(prev, from + Run)
     \/ NoAnswer(q) /\ Out /\ UNCHANGED <<requests, failed>>
  /\ OtherUnchanged

----------------------------------------------------------------------------
(* The device does one request after the other.  It may refuse one, and    *)
(* the connection may break at any time.                                   *)
StateAfter(o, ask) ==
  CASE ask = "unload" -> "unloaded"
    [] ask = "load" -> IF state[o] = "unloaded" THEN "loading" ELSE "error"
    [] ask \in {"alloc", "set"} -> IF state[o] = "loading" THEN "loading" ELSE "error"
    [] ask = "finish" -> IF state[o] = "loading" THEN "loaded" ELSE "error"

Reply(q, d) == answers' = Append(answers, [q EXCEPT !.data = d])
Serve ==
  /\ requests # <<>> /\ requests' = Tail(requests)
  /\ LET q == Head(requests) IN
     \/ /\ q.ask = "read"
        /\ Reply(q, SubSeq(mem[q.obj], q.at + 1, q.at + q.n)) /\ UNCHANGED <<mem, state>>
     \/ /\ q.ask = "write"
        /\ mem' = [mem EXCEPT ![q.obj] = [i \in DOMAIN @ |->
             IF i \in q.at + 1 .. q.at + q.n /\ <<q.obj, i>> \notin rom
             THEN q.data[i - q.at] ELSE @[i]]]
        /\ UNCHANGED <<answers, state>>
     \/ /\ q.ask \in {"mask", "authorize", "key"}
        /\ \E d \in {New, Old} : Reply(q, <<d>>)
        /\ UNCHANGED <<mem, state>>
     \/ /\ q.ask \in {"unload", "load", "alloc", "set", "finish"}
        /\ \/ /\ state' = [state EXCEPT ![q.obj] = StateAfter(q.obj, q.ask)]
              /\ Reply(q, <<IF state'[q.obj] = "error" THEN Old ELSE New>>)
           \/ state' = [state EXCEPT ![q.obj] = "error"] /\ Reply(q, <<Old>>)
        /\ UNCHANGED mem
  /\ UNCHANGED <<loader, broken, late, rom>>

Break ==
  /\ ~broken /\ step > 0 /\ broken' = TRUE /\ requests' = <<>> /\ answers' = <<>>
  /\ UNCHANGED <<loader, late, device>>

LoaderStep == Begin \/ Controlled \/ BlockRead \/ Verified
LoadingNext == Connect \/ Refuse \/ LoaderStep \/ Serve \/ Break
LoadingSpec == LoadingInit /\ [][LoadingNext]_ldvars

----------------------------------------------------------------------------
(* LOADED says that the device has the program to the last cell.  Whatever *)
(* fails, and whenever: a device that may run its program (the error flags *)
(* of a BCU1 are reset, the program of a BCU2 is in state loaded) has all  *)
(* of the old one or all of the new.                                       *)
Has(v) == \A r \in Used \ {"flags"} : \A i \in DOMAIN mem[r] : mem[r][i] = v
Runs == IF unit = "bcu1" THEN mem["flags"] = <<New>> ELSE state[3] = "loaded"

NeverHalfLoaded ==
  /\ outcome = "LOADED" => Has(New) /\ Runs
  /\ Runs => Has(New) \/ Has(Old)
=============================================================================
