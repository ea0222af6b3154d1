---------------------------- MODULE AgentExecution ----------------------------
(***************************************************************************)
(* The payroll agent's route (POST /api/agent/execute-approved-action):    *)
(* it looks at a pending action on Canton, has the agent's wallet transfer *)
(* the money on the EVM chain, executes the action on Canton, and keeps an *)
(* AgentAction row of what it did.  The user approves and rejects meanwhile*)
(* through the approvals routes.                                           *)
(*                                                                         *)
(* Every `await` is a step.  A pending action is known to clients by the   *)
(* contract id of one of its versions: each decision archives the version  *)
(* it was taken on.  A request may carry the id of an archived version.    *)
(*                                                                         *)
(* All actions belong to the user of the requests.  A hash is the number   *)
(* of a transfer; `checked`, `evidence` and `disturbed` are history.       *)
(***************************************************************************)
EXTENDS Integers, Sequences, FiniteSets

CONSTANTS
    Actions,        \* pending actions an allocation left behind
    Concurrency,    \* bound: requests served at once
    MaxRequests,    \* bound: requests of a behaviour
    MaxFaults       \* bound: calls that fail, requests that die

ASSUME AgentBoundsAssumption ==
    Concurrency \in Nat /\ MaxRequests \in Nat /\ MaxFaults \in Nat

VARIABLES
    version,        \* number of the live contract of each action
    status,         \* its status
    evidence,       \* the evmTxHash ExecuteApprovedAction was given
    transfers,      \* transfers the agent's wallet broadcast
    rows,           \* AgentAction rows
    handler,        \* what each request is doing
    requests,
    faults,
    disturbed       \* requests overlapped, failed, or named an archived id

ledger == <<version, status, evidence>>
vars == <<ledger, transfers, rows, handler, requests, faults, disturbed>>

Handlers == 1..Concurrency
NoAction == "none"
NoHash == 0
Simulated == -1     \* signMessage or the demo wallet: no money moves

Idle == [pc |-> "idle", action |-> NoAction, version |-> 0, kind |-> "signature",
         checked |-> FALSE, row |-> 0, hash |-> NoHash]

Init ==
    /\ version = [a \in Actions |-> 1]
    /\ status = [a \in Actions |-> "Pending"]
    /\ evidence = [a \in Actions |-> NoHash]
    /\ transfers = <<>> /\ rows = <<>>
    /\ handler = [h \in Handlers |-> Idle]
    /\ requests = 0 /\ faults = 0 /\ disturbed = FALSE

-----------------------------------------------------------------------------
(* The user decides                                                        *)

\* Archives the live version of a and creates the next one.
Move(a, new) ==
    /\ version' = [version EXCEPT ![a] = @ + 1]
    /\ status' = [status EXCEPT ![a] = new]

ApprovePendingAction(a) ==
    /\ status[a] = "Pending"
    /\ Move(a, "Approved")
    /\ UNCHANGED <<evidence, transfers, rows, handler, requests, faults, disturbed>>

\* Mutant: an approved action can still be rejected.
RejectPendingAction_late(a) ==
    /\ status[a] \in {"Pending", "Approved"}
    /\ Move(a, "Rejected")
    /\ UNCHANGED <<evidence, transfers, rows, handler, requests, faults, disturbed>>

RejectPendingAction(a) ==
    /\ status[a] = "Pending"
    /\ Move(a, "Rejected")
    /\ UNCHANGED <<evidence, transfers, rows, handler, requests, faults, disturbed>>

-----------------------------------------------------------------------------
(* The route                                                               *)

At(h, pc) == handler[h].pc = pc
Goto(h, new) == handler' = [handler EXCEPT ![h] = new]
GotoPc(h, pc) == Goto(h, [handler[h] EXCEPT !.pc = pc])

\* Requests for another party, or whose pendingActionStatus is given and not
\* Approved, are answered at once and change nothing.
ExecuteRequest(h, a, v, kind) ==
    /\ requests < MaxRequests
    /\ requests' = requests + 1
    /\ handler[h] = Idle
    /\ \A g \in 1..(h - 1) : handler[g] # Idle
    /\ Goto(h, [Idle EXCEPT !.pc = "fetch", !.action = a, !.version = v, !.kind = kind])
    /\ disturbed' = (disturbed \/ \E g \in Handlers : handler[g] # Idle)
    /\ UNCHANGED <<ledger, transfers, rows, faults>>

isLive(w) == w.version = version[w.action]

\* Mutant: the status of the live contract is not looked at.
GetPendingAction_unchecked(h) ==
    /\ At(h, "fetch")
    /\ Goto(h, [handler[h] EXCEPT !.pc = "open", !.checked = isLive(handler[h])])
    /\ disturbed' = (disturbed \/ ~isLive(handler[h]))
    /\ UNCHANGED <<ledger, transfers, rows, requests, faults>>

\* Mutant: only an action that was not decided yet, or rejected, is refused.
GetPendingAction_executedToo(h) ==
    /\ At(h, "fetch")
    /\ LET w == handler[h] IN
       /\ IF isLive(w) /\ status[w.action] \in {"Pending", "Rejected"}
          THEN Goto(h, Idle)
          ELSE Goto(h, [w EXCEPT !.pc = "open", !.checked = isLive(w)])
       /\ disturbed' = (disturbed \/ ~isLive(w))
    /\ UNCHANGED <<ledger, transfers, rows, requests, faults>>

\* An archived id is fetched as null, and null is not refused.
GetPendingAction(h) ==
    /\ At(h, "fetch")
    /\ LET w == handler[h] IN
       /\ IF isLive(w) /\ status[w.action] # "Approved"
          THEN Goto(h, Idle)
          ELSE Goto(h, [w EXCEPT !.pc = "open", !.checked = isLive(w)])
       /\ disturbed' = (disturbed \/ ~isLive(w))
    /\ UNCHANGED <<ledger, transfers, rows, requests, faults>>

\* Mutant: the route does not remember the id of the row.
OpenRow_forgotten(h) ==
    /\ At(h, "open")
    /\ rows' = Append(rows, [action |-> handler[h].action, status |-> "pending", hash |-> NoHash])
    /\ GotoPc(h, "send")
    /\ UNCHANGED <<ledger, transfers, requests, faults, disturbed>>

OpenRow(h) ==
    /\ At(h, "open")
    /\ rows' = Append(rows, [action |-> handler[h].action, status |-> "pending", hash |-> NoHash])
    /\ Goto(h, [handler[h] EXCEPT !.pc = "send", !.row = Len(rows) + 1])
    /\ UNCHANGED <<ledger, transfers, requests, faults, disturbed>>

Fault == faults < MaxFaults /\ faults' = faults + 1 /\ disturbed' = TRUE
NoFault == UNCHANGED <<faults, disturbed>>

broadcast(w) == transfers' = Append(transfers, [action |-> w.action, checked |-> w.checked])

\* With a toAddress the wallet transfers, otherwise it signs a message.  A
\* call that fails may have broadcast its transaction.
SendTransaction(h) ==
    /\ At(h, "send")
    /\ LET w == handler[h] IN
       \/ /\ w.kind = "transfer" /\ broadcast(w) /\ NoFault
          /\ Goto(h, [w EXCEPT !.pc = "submit", !.hash = Len(transfers) + 1])
       \/ /\ w.kind = "signature" /\ UNCHANGED transfers /\ NoFault
          /\ Goto(h, [w EXCEPT !.pc = "submit", !.hash = Simulated])
       \/ /\ w.kind = "transfer" /\ broadcast(w) /\ Fault
          /\ GotoPc(h, "catch")
    /\ UNCHANGED <<ledger, rows, requests>>

setRow(h, new, hash) ==
    rows' = [rows EXCEPT ![handler[h].row].status = new, ![handler[h].row].hash = hash]

whenSimulated(h, otherwise) == IF handler[h].hash = Simulated THEN "simulated" ELSE otherwise

Submitted(h) ==
    /\ At(h, "submit")
    /\ setRow(h, whenSimulated(h, "submitted"), handler[h].hash)
    /\ GotoPc(h, "exercise")
    /\ UNCHANGED <<ledger, transfers, requests, faults, disturbed>>

executes(w) ==
    /\ Move(w.action, "Executed")
    /\ evidence' = [evidence EXCEPT ![w.action] = w.hash]

\* Mutant: a refused exercise is taken for a success.
ExecuteApprovedAction_ignored(h) ==
    /\ At(h, "exercise")
    /\ LET w == handler[h] IN
       IF isLive(w) /\ status[w.action] = "Approved"
       THEN executes(w) /\ GotoPc(h, "finish")
       ELSE UNCHANGED ledger /\ GotoPc(h, "finish")
    /\ UNCHANGED <<transfers, rows, requests, faults, disturbed>>

\* The ledger refuses an archived contract and one that is not approved.  A
\* call that fails on the way may have been committed.
ExecuteApprovedAction(h) ==
    /\ At(h, "exercise")
    /\ LET w == handler[h] IN
       IF isLive(w) /\ status[w.action] = "Approved"
       THEN \/ executes(w) /\ NoFault /\ GotoPc(h, "finish")
            \/ executes(w) /\ Fault /\ GotoPc(h, "catch")
       ELSE UNCHANGED ledger /\ NoFault /\ GotoPc(h, "catch")
    /\ UNCHANGED <<transfers, rows, requests>>

\* Caching the executed contract, in between, is left out.
Finish(h) ==
    /\ At(h, "finish")
    /\ setRow(h, whenSimulated(h, "executed"), handler[h].hash)
    /\ Goto(h, Idle)
    /\ UNCHANGED <<ledger, transfers, requests, faults, disturbed>>

\* Mutant: the row keeps the status it had.
Catch_silent(h) ==
    /\ At(h, "catch")
    /\ Goto(h, Idle)
    /\ disturbed' = TRUE
    /\ UNCHANGED <<ledger, transfers, rows, requests, faults>>

\* The hash in the row, if any, stays.
Catch(h) ==
    /\ At(h, "catch")
    /\ setRow(h, "failed", rows[handler[h].row].hash)
    /\ Goto(h, Idle)
    /\ disturbed' = TRUE
    /\ UNCHANGED <<ledger, transfers, requests, faults>>

\* Any other call of the route that fails after the row was opened.
FailedCall(h) ==
    /\ handler[h].pc \in {"send", "submit", "exercise", "finish"}
    /\ Fault
    /\ GotoPc(h, "catch")
    /\ UNCHANGED <<ledger, transfers, rows, requests>>

\* The server goes down, or a call fails where nothing catches it.
Crash(h) ==
    /\ handler[h] # Idle
    /\ Fault
    /\ Goto(h, Idle)
    /\ UNCHANGED <<ledger, transfers, rows, requests>>

-----------------------------------------------------------------------------
Step(h) ==
    \/ GetPendingAction(h)
    \/ OpenRow(h)
    \/ SendTransaction(h)
    \/ Submitted(h)
    \/ ExecuteApprovedAction(h)
    \/ Finish(h)
    \/ Catch(h)

Next ==
    \/ \E a \in Actions : ApprovePendingAction(a) \/ RejectPendingAction(a)
    \/ \E h \in Handlers, a \in Actions, kind \in {"transfer", "signature"} :
           \E v \in 1..version[a] : ExecuteRequest(h, a, v, kind)
    \/ \E h \in Handlers : Step(h) \/ FailedCall(h) \/ Crash(h)

Spec == Init /\ [][Next]_vars

\* The event loop keeps serving a request whose calls are answered.
FairSpec == Spec /\ \A h \in Handlers : WF_vars(Step(h))

-----------------------------------------------------------------------------
(* Properties                                                              *)

Row == [action : Actions, status : {"pending", "submitted", "simulated", "executed", "failed"},
        hash : {Simulated} \cup Nat]
Handler == [pc : {"idle", "fetch", "open", "send", "submit", "exercise", "finish", "catch"},
            action : Actions \cup {NoAction}, version : Nat, kind : {"transfer", "signature"},
            checked : BOOLEAN, row : Nat, hash : {Simulated} \cup Nat]

\* The rows, contracts and requests have their fields, and a request that
\* opened its row knows it.
TypeOK ==
    /\ version \in [Actions -> Nat]
    /\ status \in [Actions -> {"Pending", "Approved", "Rejected", "Executed"}]
    /\ evidence \in [Actions -> {Simulated} \cup Nat]
    /\ transfers \in Seq([action : Actions, checked : BOOLEAN])
    /\ rows \in Seq(Row)
    /\ handler \in [Handlers -> Handler]
    /\ requests \in Nat /\ faults \in Nat /\ disturbed \in BOOLEAN
    /\ \A h \in Handlers :
           handler[h].pc \in {"send", "submit", "exercise", "finish", "catch"} =>
               handler[h].row \in DOMAIN rows

\* A row that says "executed" is backed on both ledgers: the action is
\* executed on Canton with the hash of the row, and that hash is a transfer
\* for this very action.  So no two rows claim one action, whatever requests
\* overlap, fail or are retried.
ExecutedIsBacked ==
    \A r \in DOMAIN rows : rows[r].status = "executed" =>
        /\ status[rows[r].action] = "Executed"
        /\ evidence[rows[r].action] = rows[r].hash
        /\ rows[r].hash \in DOMAIN transfers
        /\ transfers[rows[r].hash].action = rows[r].action
        /\ \A s \in DOMAIN rows : rows[s].status = "executed" /\ rows[s].action = rows[r].action => s = r

\* A transfer whose request named a live contract is for an action that was
\* approved by then, and approval is never taken back.
CheckedTransferApproved ==
    \A t \in DOMAIN transfers :
        transfers[t].checked => status[transfers[t].action] \in {"Approved", "Executed"}

\* Requests that name live contracts, come one after the other and do not
\* fail pay an action at most once.  (A retry after a failure, or two
\* requests at once, can pay twice: the wallet sends before Canton decides.)
TransferredOnce ==
    ~disturbed => \A t, u \in DOMAIN transfers :
        transfers[t].action = transfers[u].action => t = u

rowsClosed == \A r \in DOMAIN rows : rows[r].status \notin {"pending", "submitted"}

\* Every row reaches a final status unless a request died on the way: once
\* requests stop arriving, none is left open.
RowsClose == ~rowsClosed ~> (rowsClosed \/ faults > 0)

\* Whatever the route does, what happens on Canton is what the approval gate
\* allows: only approved actions are executed, and once.
Gate == INSTANCE ApprovalGate WITH
            released <- {a \in Actions : status[a] = "Executed"}

GateImplemented == Gate!GateSpec

\* Money leaves the agent's wallet only for approved actions.  Refuted: for
\* an archived contract id the check finds nothing and lets the wallet send,
\* also when the action was rejected.
TransfersApproved ==
    \A t \in DOMAIN transfers : status[transfers[t].action] \in {"Approved", "Executed"}
=============================================================================
