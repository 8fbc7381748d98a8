------------------------- MODULE MCTConnectionBus -------------------------
(* Small instances of TConnectionBus: serial numbers wrap within the run,  *)
(* in the one direction or in the other.                                   *)
EXTENDS TConnectionBus

MCExchanges == {[user |-> <<1, 2, 3>>, peer |-> <<>>],
                [user |-> <<1>>, peer |-> <<4>>],
                [user |-> <<>>, peer |-> <<4, 5, 6>>]}
=============================================================================
