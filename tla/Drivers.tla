------------------------------ MODULE Drivers ------------------------------
(***************************************************************************)
(* A daemon with one interface to the bus.  eibd creates the one that the  *)
(* URL on its command line names (Create in src/eibd/server/eibd.cpp); the *)
(* variables of the others keep their initial values.                      *)
(***************************************************************************)
EXTENDS FT12, TPUARTSerial, EMI

VARIABLE driver

dvars == <<driver, ftvars, tsvars, emivars>>

Create(url) ==
  /\ driver = url /\ FTInit /\ TSInit /\ EMIInit
  /\ url # "emi" => version = 2

DriversInit == \E url \in {"ft12", "tpuarts", "emi"} : Create(url)

(* A step of one driver. *)
FT12Only == driver = "ft12" /\ UNCHANGED <<driver, tsvars, emivars>>
TPUARTOnly == driver = "tpuarts" /\ UNCHANGED <<driver, ftvars, emivars>>
EMIOnly == driver = "emi" /\ UNCHANGED <<driver, version, ftvars, tsvars>>

DriversNext == (FT12Only /\ FTNext) \/ (TPUARTOnly /\ TSNext) \/ (EMIOnly /\ EMINext)

(* The fairness of FT12, TPUARTSerial and EMI, joined: the thread of the   *)
(* driver runs, time passes, the other side goes on, and what is possible  *)
(* again and again is done.                                                *)
RunThread ==
  \/ FT12Only /\ Run
  \/ TPUARTOnly /\ RunTS
  \/ EMIOnly /\ RunEMI
GoesOn ==
  \/ FT12Only /\ Expire
  \/ EMIOnly /\ Transmit
OtherSide ==
  \/ FT12Only /\ DevReceive
  \/ EMIOnly /\ \E t \in Threads : SubmitPacket(t) \/ WaitAgain(t) \/ SleepEnds(t)
GetsItsTurn ==
  \/ FT12Only /\ Finish /\ mode' = 1
  \/ TPUARTOnly /\ ReadLine /\ Armed \subseteq over'
  \/ EMIOnly /\ \E t \in Threads : Wake(t)
IsInTime ==
  \/ FT12Only /\ DevInTime
  \/ EMIOnly /\ \E t \in Threads : Return(t)

DriversSpec ==
  /\ DriversInit /\ [][DriversNext]_dvars
  /\ WF_dvars(RunThread) /\ WF_dvars(GoesOn) /\ WF_dvars(OtherSide)
  /\ SF_dvars(GetsItsTurn) /\ SF_dvars(IsInTime)

(* Whatever a driver was given to send is sent or given up in the end, and *)
(* every change of its mode returns, in spite of late answers, repetitions *)
(* and mode changes that meet each other.                                  *)
EverythingLeaves ==
  []<>(\/ driver = "ft12" /\ (inqueue = <<>> \/ pc = "stopped")
       \/ driver = "tpuarts" /\ tosend = <<>>
       \/ driver = "emi" /\ Calm /\ frames = 0)
=============================================================================
