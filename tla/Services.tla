------------------------------ MODULE Services ------------------------------
(***************************************************************************)
(* What the daemon does for its clients.  A behaviour shows one service;   *)
(* they share no state, and the variables of the others keep their initial *)
(* values.                                                                 *)
(***************************************************************************)
EXTENDS GroupCache, GroupCacheUpdates, Clients, Apdu, Frames, Management, Addresses,
  Datagrams, Connectionless, Configuration, Daemon, ConfigChannel

VARIABLE service

svvars == <<service, vars, upvars, clvars, apvars, frvars, ldvars, advars, dgvars, imvars, mgvars, cnvars, cfvars, dmvars, ccvars>>

ServicesInit ==
  /\ service \in {"cache", "updates", "clients", "apdu", "frames", "loading", "addresses",
                 "datagrams", "images", "management", "connectionless",
                 "configuration", "daemon", "config_channel"}
  /\ Init /\ UpdatesInit /\ ClientsInit /\ ApduInit /\ FramesInit
  /\ LoadingInit /\ (service # "loading" => unit = "bcu1" /\ rom = {})
  /\ AddressesInit /\ DatagramsInit /\ ImagesInit /\ ManagementInit
  /\ ConnectionlessInit /\ ConfigurationInit /\ DaemonInit
  /\ ConfigChannelInit
  /\ service # "daemon" =>
       /\ options = CHOOSE o \in CommandLines : TRUE
       /\ pidfile = "none" /\ socketfile = "none"
  /\ service # "addresses" => \A d, e \in Device : addr[d] = 1 /\ ~prog[d]

(* A step of one service. *)
Stays(s) == service = s /\ UNCHANGED service
CacheOnly ==
  Stays("cache") /\ UNCHANGED <<upvars, clvars, apvars, frvars, ldvars, advars, dgvars, imvars, mgvars, cnvars, cfvars, dmvars, ccvars>>
UpdatesOnly ==
  Stays("updates") /\ UNCHANGED <<vars, clvars, apvars, frvars, ldvars, advars, dgvars, imvars, mgvars, cnvars, cfvars, dmvars, ccvars>>
ClientsOnly ==
  Stays("clients") /\ UNCHANGED <<vars, upvars, apvars, frvars, ldvars, advars, dgvars, imvars, mgvars, cnvars, cfvars, dmvars, ccvars>>
ApduOnly ==
  Stays("apdu") /\ UNCHANGED <<vars, upvars, clvars, frvars, ldvars, advars, dgvars, imvars, mgvars, cnvars, cfvars, dmvars, ccvars>>
FramesOnly ==
  Stays("frames") /\ UNCHANGED <<vars, upvars, clvars, apvars, ldvars, advars, dgvars, imvars, mgvars, cnvars, cfvars, dmvars, ccvars>>
LoadingOnly ==
  Stays("loading") /\ UNCHANGED <<vars, upvars, clvars, apvars, frvars, advars, dgvars, imvars, mgvars, cnvars, cfvars, dmvars, ccvars>>
AddressesOnly ==
  Stays("addresses") /\ UNCHANGED <<vars, upvars, clvars, apvars, frvars, ldvars, dgvars, imvars, mgvars, cnvars, cfvars, dmvars, ccvars>>
DatagramsOnly ==
  Stays("datagrams") /\ UNCHANGED <<vars, upvars, clvars, apvars, frvars, ldvars, advars, imvars, mgvars, cnvars, cfvars, dmvars, ccvars>>
ImagesOnly ==
  Stays("images") /\ UNCHANGED <<vars, upvars, clvars, apvars, frvars, ldvars, advars, dgvars, mgvars, cnvars, cfvars, dmvars, ccvars>>
ManagementOnly ==
  Stays("management") /\ UNCHANGED <<vars, upvars, clvars, apvars, frvars, ldvars, advars, dgvars, imvars, cnvars, cfvars, dmvars, ccvars>>
ConnectionlessOnly ==
  Stays("connectionless")
    /\ UNCHANGED <<vars, upvars, clvars, apvars, frvars, ldvars, advars, dgvars, imvars, mgvars, cfvars, dmvars, ccvars>>
ConfigurationOnly ==
  Stays("configuration")
    /\ UNCHANGED <<vars, upvars, clvars, apvars, frvars, ldvars, advars, dgvars, imvars, mgvars, cnvars, dmvars, ccvars>>
DaemonOnly ==
  Stays("daemon")
    /\ UNCHANGED <<vars, upvars, clvars, apvars, frvars, ldvars, advars, dgvars, imvars, mgvars, cnvars, cfvars, ccvars>>
ConfigChannelOnly ==
  Stays("config_channel")
    /\ UNCHANGED <<vars, upvars, clvars, apvars, frvars, ldvars, advars, dgvars, imvars, mgvars, cnvars, cfvars, dmvars>>

ServicesNext ==
  \/ CacheOnly /\ Next
  \/ UpdatesOnly /\ UpdatesNext
  \/ ClientsOnly /\ ClientsNext
  \/ ApduOnly /\ ApduNext
  \/ FramesOnly /\ FramesNext
  \/ LoadingOnly /\ LoadingNext
  \/ AddressesOnly /\ AddressesNext
  \/ DatagramsOnly /\ DatagramsNext
  \/ ImagesOnly /\ ImagesNext
  \/ ManagementOnly /\ ManagementNext
  \/ ConnectionlessOnly /\ ConnectionlessNext
  \/ ConfigurationOnly /\ ConfigurationNext
  \/ DaemonOnly /\ DaemonNext
  \/ ConfigChannelOnly /\ ConfigChannelNext

(* Threads of the daemon that can run do, and timeouts occur; nothing is    *)
(* assumed of the programs, of the bus or of the devices.                  *)
ServicesSpec ==
  /\ ServicesInit /\ [][ServicesNext]_svvars
  /\ \A r \in Reader : WF_vars(service = "cache" /\ ReaderStep(r))
  /\ WF_clvars(service = "clients" /\ ServerStep)
  /\ \A p \in Peer :
       /\ WF_clvars(service = "clients" /\ MainStep(p))
       /\ WF_clvars(service = "clients" /\ ForwarderStep(p))

(* What one side writes the other reads: APDUs, TPDUs, frames, datagrams,  *)
(* images and the answers of the group cache.                              *)
CodecsAgree == RoundTrip /\ FrameKept /\ FaultSeen /\ DatagramKept /\ ImageKept
  /\ CacheUnderstood
=============================================================================
