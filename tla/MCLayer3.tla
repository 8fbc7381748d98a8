------------------------------ MODULE MCLayer3 ------------------------------
(* Layer3 on small sets of callbacks and addresses.  A run plays one of    *)
(* two scenes, so that not everything has to happen in one behaviour:      *)
(* callbacks of all kinds, none of which yields, or group callbacks and    *)
(* repeated group frames.                                                  *)
EXTENDS Layer3, TLC

VARIABLE scene

Callbacks(s) == {e.cb : e \in Elems(s)}
InScene ==
  IF scene = "kinds"
  THEN /\ Callbacks(group) \cap YieldingCb = {}
       /\ \A s \in {busmonitor, vbusmonitor, broadcast, individual} :
            Callbacks(s) \cap YieldingCb = {}
       /\ Len(ignore) <= 1
  ELSE /\ Registrations = Len(group) /\ Len(group) <= 2
       /\ cur.kind \in {"none", "group"}

MCInit == Init /\ scene \in {"kinds", "groups"}
MCNext == Next /\ UNCHANGED scene /\ InScene'
MCSpec == MCInit /\ [][MCNext]_<<vars, scene>>

(* The callbacks that behave alike may be exchanged. *)
Symmetry == Permutations(Cb \ YieldingCb)
=============================================================================
