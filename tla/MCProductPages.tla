---------------------------- MODULE MCProductPages ----------------------------
(* ProductPages with a live wallet one person uses and the mocked one.      *)
EXTENDS ProductPages

MCExample == <<[id |-> <<"rent">>, labelled |-> TRUE, bps |-> 6000, type |-> "ExternalPayment",
                recipient |-> TRUE],
               [id |-> <<"reserve">>, labelled |-> TRUE, bps |-> 4000, type |-> "InternalReserve",
                recipient |-> FALSE]>>
=============================================================================
