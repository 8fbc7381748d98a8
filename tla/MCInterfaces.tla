---------------------------- MODULE MCInterfaces ----------------------------
(* The instance for TLC: at the USB there are a mouse, with one endpoint,  *)
(* and a KNX interface.                                                    *)
EXTENDS Interfaces
Endpoints(dirs) == {[dir |-> d, size |-> 64, interrupt |-> TRUE] : d \in dirs}
Alternate(n, dirs) ==
  [bus |-> 1, device |-> n, config |-> 1, altsetting |-> 0, interface |-> 0, hid |-> TRUE,
   endpoints |-> Endpoints(dirs), opens |-> TRUE]
MCAlternates == <<Alternate(1, {"in"}), Alternate(2, {"in", "out"})>>
MCUrls == {<<>>, <<1, 2>>, <<2>>}
=============================================================================
