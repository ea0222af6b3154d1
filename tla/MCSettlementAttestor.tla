------------------------ MODULE MCSettlementAttestor ------------------------
(* SettlementAttestor on small instances: which payments may be reported.   *)
EXTENDS SettlementAttestor

CONSTANTS ana, bea

\* A Flow payment whose webhook carries no transaction hash.
flow == [kind |-> "flow", no |-> 1, user |-> ana, amount |-> 1, ref |-> 1, chainRef |-> None, tx |-> None]
\* A vault deposit, made in a Blink session or not.
vault == [kind |-> "vault", no |-> 2, user |-> ana, amount |-> 2, ref |-> 3, chainRef |-> 2, tx |-> 2]
\* A deposit reported with nothing that identifies it.
direct(n, u) == [kind |-> "direct", no |-> n, user |-> u, amount |-> n, ref |-> None, chainRef |-> None, tx |-> None]
employer == [kind |-> "employer", no |-> 6, user |-> bea, amount |-> 6, ref |-> 6, chainRef |-> None, tx |-> None]

TwoUsers == {ana, bea}
AllPayments == {flow, vault, direct(4, ana), employer}
TwoDeposits == {direct(4, ana), direct(5, ana)}
=============================================================================
