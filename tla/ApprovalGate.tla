----------------------------- MODULE ApprovalGate -----------------------------
(***************************************************************************)
(* What the ledger promises about money that waits for a human: an action  *)
(* is opened as Pending, decided once, executed only when approved, and    *)
(* releases its money in the step that executes it, never again.           *)
(*                                                                         *)
(* PayrollLedger and AgentExecution are shown to implement this.           *)
(***************************************************************************)
EXTENDS Naturals

VARIABLES
    status,         \* function: the actions opened so far -> their status
    released        \* the actions whose money has left the ledger

gateVars == <<status, released>>

Statuses == {"Pending", "Approved", "Rejected", "Executed"}

GateInit ==
    /\ released = {}
    /\ status = [a \in DOMAIN status |-> "Pending"]

\* An allocation opens any number of actions, and changes no other one.
OpenActions ==
    /\ DOMAIN status \subseteq DOMAIN status'
    /\ \A a \in DOMAIN status : status'[a] = status[a]
    /\ \A a \in DOMAIN status' \ DOMAIN status : status'[a] = "Pending"
    /\ released' = released

Decide(a, decision) ==
    /\ status[a] = "Pending"
    /\ decision \in {"Approved", "Rejected"}
    /\ status' = [status EXCEPT ![a] = decision]
    /\ released' = released

\* Not every action moves money: one without a recipient party or portfolio
\* is only marked.
Execute(a) ==
    /\ status[a] = "Approved"
    /\ status' = [status EXCEPT ![a] = "Executed"]
    /\ released' \in {released, released \cup {a}}

GateNext ==
    \/ OpenActions
    \/ \E a \in DOMAIN status :
           \/ \E decision \in {"Approved", "Rejected"} : Decide(a, decision)
           \/ Execute(a)

GateSpec == GateInit /\ [][GateNext]_gateVars
=============================================================================
