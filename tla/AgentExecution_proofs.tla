------------------------- MODULE AgentExecution_proofs -------------------------
(***************************************************************************)
(* Proofs about AgentExecution, for any number of actions, requests and    *)
(* faults: TypeCorrect, ExecutedIsBackedHolds (a row that claims execution *)
(* is right, and alone), CheckedTransferApprovedHolds (a checked request   *)
(* pays for approved actions), TransferredOnceHolds (undisturbed requests  *)
(* pay once) and GateImplementedHolds (the route implements ApprovalGate). *)
(*                                                                         *)
(* None of the three in the middle is inductive.  What a row claims comes  *)
(* from what its request still remembers (HandlersKnow), no two requests   *)
(* write one row (RowsApart), and only the one request that Canton let     *)
(* execute an action will claim it (ClaimsAlone).  Undisturbed says where  *)
(* a single request is when its action was paid and not executed yet.      *)
(***************************************************************************)
EXTENDS AgentExecution, TLAPS

\* A request that has opened its row.
Opened == {"send", "submit", "exercise", "finish", "catch"}

ApprovedOnce == {"Approved", "Executed"}

\* What a request remembers is still true when it acts on it.
knows(w) ==
    /\ w.pc = "idle" => w = Idle
    /\ w.pc # "idle" => w.action \in Actions
    /\ w.pc \in Opened => rows[w.row].action = w.action /\ rows[w.row].status # "executed"
    /\ w.pc \in {"submit", "exercise", "finish"} =>
           \/ w.hash = Simulated
           \/ w.hash \in DOMAIN transfers /\ transfers[w.hash].action = w.action
    /\ w.checked => status[w.action] \in ApprovedOnce
    /\ w.pc = "finish" => status[w.action] = "Executed" /\ evidence[w.action] = w.hash

HandlersKnow == \A h \in Handlers : knows(handler[h])

\* Each request writes a row of its own.
RowsApart ==
    \A g, h \in Handlers :
        handler[g].pc \in Opened /\ handler[h].pc \in Opened /\ handler[g].row = handler[h].row
            => g = h

\* A request that is about to claim an action is the only one to do so.
ClaimsAlone ==
    \A h \in Handlers : handler[h].pc = "finish" =>
        /\ \A g \in Handlers :
               handler[g].pc = "finish" /\ handler[g].action = handler[h].action => g = h
        /\ \A r \in DOMAIN rows : rows[r].status = "executed" => rows[r].action # handler[h].action

\* Requests that come one at a time, name live contracts and do not fail: the
\* one that is past the check has an approved action, and an action that was
\* paid was executed, or the request that paid it is on its way to Canton.
Undisturbed ==
    ~disturbed =>
        /\ \A g, h \in Handlers : handler[g].pc # "idle" /\ handler[h].pc # "idle" => g = h
        /\ \A h \in Handlers : handler[h].pc \in {"open", "send", "submit", "exercise"} =>
               status[handler[h].action] = "Approved"
        /\ \A t \in DOMAIN transfers :
               \/ status[transfers[t].action] = "Executed"
               \/ \E h \in Handlers : /\ handler[h].action = transfers[t].action
                                      /\ handler[h].pc \in {"submit", "exercise", "catch"}

AgentInv ==
    /\ TypeOK
    /\ HandlersKnow /\ RowsApart /\ ClaimsAlone /\ Undisturbed
    /\ ExecutedIsBacked /\ CheckedTransferApproved /\ TransferredOnce
-----------------------------------------------------------------------------
(* Lemmas about handlers and decisions                                     *)

\* Only the handler of the step moves.
LEMMA HandlerMoves ==
    ASSUME handler \in [Handlers -> Handler], NEW h \in Handlers, NEW new \in Handler,
           Goto(h, new)
    PROVE  /\ handler' \in [Handlers -> Handler]
           /\ handler'[h] = new
           /\ \A g \in Handlers : g # h => handler'[g] = handler[g]
  BY DEF Goto

\* A handler that gets another pc keeps the rest of its record.
LEMMA PcMoves ==
    ASSUME handler \in [Handlers -> Handler], NEW h \in Handlers,
           NEW pc \in {"send", "submit", "exercise", "finish", "catch"}, GotoPc(h, pc)
    PROVE  LET new == [handler[h] EXCEPT !.pc = pc]
           IN  /\ new \in Handler /\ Goto(h, new)
               /\ new.pc = pc /\ new.action = handler[h].action /\ new.row = handler[h].row
               /\ new.hash = handler[h].hash /\ new.checked = handler[h].checked
               /\ new.version = handler[h].version /\ new.kind = handler[h].kind
  BY DEF GotoPc, Handler

LEMMA IdleIsHandler == Idle \in Handler /\ Idle.pc = "idle" /\ ~Idle.checked
  BY DEF Idle, Handler, NoHash, Simulated

\* A new version of a contract changes the status of its action only.
LEMMA MoveTypes ==
    ASSUME TypeOK, NEW a \in Actions,
           NEW new \in {"Pending", "Approved", "Rejected", "Executed"}, Move(a, new)
    PROVE  /\ version' \in [Actions -> Nat]
           /\ status' \in [Actions -> {"Pending", "Approved", "Rejected", "Executed"}]
           /\ status'[a] = new
           /\ \A b \in Actions : b # a => status'[b] = status[b]
  BY DEF TypeOK, Move

\* Every row, transfer and request has the fields of its type.
LEMMA ElementTypes ==
    ASSUME TypeOK
    PROVE  /\ \A r \in DOMAIN rows : rows[r] \in Row /\ rows[r].action \in Actions
           /\ \A t \in DOMAIN transfers :
                  transfers[t].action \in Actions /\ transfers[t].checked \in BOOLEAN
           /\ \A h \in Handlers : handler[h] \in Handler
  <1>1. \A r \in DOMAIN rows : rows[r] \in Row
    BY DEF TypeOK
  <1>2. \A row \in Row : row.action \in Actions
    BY DEF Row
  <1> DEFINE Transfer == [action : Actions, checked : BOOLEAN]
  <1>3. \A x \in Transfer : x.action \in Actions /\ x.checked \in BOOLEAN
    OBVIOUS
  <1>4. transfers \in Seq(Transfer)
    BY DEF TypeOK
  <1> HIDE DEF Transfer
  <1>5. \A t \in DOMAIN transfers : transfers[t] \in Transfer
    BY <1>4
  <1>6. \A h \in Handlers : handler[h] \in Handler
    BY DEF TypeOK
  <1> QED BY <1>1, <1>2, <1>3, <1>5, <1>6

\* Requests without money: no state is left by chance.
LEMMA InitInv == Init => AgentInv
  <1> SUFFICES ASSUME Init PROVE AgentInv
    OBVIOUS
  <1>1. /\ \A h \in Handlers : handler[h] = Idle
        /\ handler \in [Handlers -> Handler]
    BY IdleIsHandler DEF Init
  <1>2. /\ rows = <<>> /\ transfers = <<>> /\ DOMAIN rows = {} /\ DOMAIN transfers = {}
        /\ disturbed = FALSE
    BY DEF Init
  <1>3. TypeOK
    <2>1. rows \in Seq(Row) /\ transfers \in Seq([action : Actions, checked : BOOLEAN])
      BY <1>2
    <2>2. /\ version \in [Actions -> Nat]
          /\ status \in [Actions -> {"Pending", "Approved", "Rejected", "Executed"}]
          /\ evidence \in [Actions -> {Simulated} \cup Nat]
          /\ requests \in Nat /\ faults \in Nat
      BY DEF Init, NoHash
    <2>3. \A h \in Handlers : handler[h].pc = "idle"
      BY <1>1, IdleIsHandler
    <2> QED BY <1>1, <1>2, <2>1, <2>2, <2>3 DEF TypeOK
  <1>4. HandlersKnow
    BY <1>1, IdleIsHandler DEF HandlersKnow, knows, Opened
  <1>5. RowsApart /\ ClaimsAlone
    BY <1>1, IdleIsHandler DEF RowsApart, ClaimsAlone, Opened
  <1>6. Undisturbed
    BY <1>1, <1>2, IdleIsHandler DEF Undisturbed
  <1>7. ExecutedIsBacked /\ CheckedTransferApproved /\ TransferredOnce
    BY <1>2 DEF ExecutedIsBacked, CheckedTransferApproved, TransferredOnce
  <1> QED BY <1>3, <1>4, <1>5, <1>6, <1>7 DEF AgentInv

\* The user's decision: nobody acts on a pending action.
LEMMA DecideInv ==
    ASSUME AgentInv, NEW a \in Actions, ApprovePendingAction(a) \/ RejectPendingAction(a)
    PROVE  AgentInv'
  <1>1. PICK d \in {"Approved", "Rejected"} : Move(a, d)
    BY DEF ApprovePendingAction, RejectPendingAction
  <1>2. /\ status[a] = "Pending"
        /\ evidence' = evidence /\ transfers' = transfers /\ rows' = rows
        /\ handler' = handler /\ requests' = requests /\ faults' = faults
        /\ disturbed' = disturbed
    BY DEF ApprovePendingAction, RejectPendingAction
  <1>3. /\ TypeOK /\ HandlersKnow /\ RowsApart /\ ClaimsAlone /\ Undisturbed
        /\ ExecutedIsBacked /\ CheckedTransferApproved /\ TransferredOnce
    BY DEF AgentInv
  <1>4. /\ version' \in [Actions -> Nat]
        /\ status' \in [Actions -> {"Pending", "Approved", "Rejected", "Executed"}]
        /\ \A b \in Actions : status[b] \in ApprovedOnce => b # a /\ status'[b] = status[b]
    BY <1>1, <1>2, <1>3, MoveTypes DEF ApprovedOnce
  <1>5. TypeOK'
    BY <1>2, <1>3, <1>4 DEF TypeOK
  <1>6. HandlersKnow'
    <2> SUFFICES ASSUME NEW h \in Handlers PROVE knows(handler[h])'
      BY DEF HandlersKnow
    <2>1. knows(handler[h]) /\ handler'[h] = handler[h]
      BY <1>2, <1>3 DEF HandlersKnow
    <2>2. handler[h].checked => handler[h].action \in Actions
      BY <2>1, IdleIsHandler DEF knows
    <2> QED BY <1>2, <1>4, <2>1, <2>2 DEF knows, ApprovedOnce
  <1>7. RowsApart' /\ ClaimsAlone'
    BY <1>2, <1>3 DEF RowsApart, ClaimsAlone
  <1>8. \A t \in DOMAIN transfers : transfers[t].action \in Actions
    BY <1>3, ElementTypes
  <1>9. \A h \in Handlers : handler[h].pc # "idle" => handler[h].action \in Actions
    BY <1>3 DEF HandlersKnow, knows
  <1>10. Undisturbed'
    BY <1>2, <1>3, <1>4, <1>8, <1>9 DEF Undisturbed, ApprovedOnce
  <1>11. CheckedTransferApproved' /\ TransferredOnce'
    BY <1>2, <1>3, <1>4, <1>8 DEF CheckedTransferApproved, TransferredOnce, ApprovedOnce
  <1>12. ExecutedIsBacked'
    <2>1. \A r \in DOMAIN rows : rows[r].action \in Actions
      BY <1>3, ElementTypes
    <2> QED BY <1>2, <1>3, <1>4, <2>1 DEF ExecutedIsBacked, ApprovedOnce
  <1> QED BY <1>5, <1>6, <1>7, <1>10, <1>11, <1>12 DEF AgentInv

-----------------------------------------------------------------------------
(* Steps that change nothing but the handler                               *)

LEMMA HandlerStepInv ==
    ASSUME AgentInv, NEW h \in Handlers, NEW new \in Handler, Goto(h, new),
           UNCHANGED <<ledger, transfers, rows>>,
           requests' \in Nat, faults' \in Nat, disturbed' \in BOOLEAN,
           disturbed => disturbed', knows(new), new.pc # "finish",
           new.pc \in Opened => handler[h].pc \in Opened /\ new.row = handler[h].row,
           Undisturbed'
    PROVE  AgentInv'
  <1>1. /\ TypeOK /\ HandlersKnow /\ RowsApart /\ ClaimsAlone
        /\ ExecutedIsBacked /\ CheckedTransferApproved /\ TransferredOnce
        /\ handler' \in [Handlers -> Handler]
        /\ handler'[h] = new /\ \A g \in Handlers : g # h => handler'[g] = handler[g]
        /\ version' = version /\ status' = status /\ evidence' = evidence
        /\ transfers' = transfers /\ rows' = rows
    BY HandlerMoves DEF AgentInv, TypeOK, ledger
  <1>2. TypeOK'
    BY <1>1 DEF TypeOK, Opened
  <1>3. HandlersKnow'
    BY <1>1 DEF HandlersKnow, knows
  <1>4. RowsApart'
    BY <1>1 DEF RowsApart
  <1>5. ClaimsAlone'
    BY <1>1 DEF ClaimsAlone
  <1>6. ExecutedIsBacked' /\ CheckedTransferApproved'
    BY <1>1 DEF ExecutedIsBacked, CheckedTransferApproved
  <1>7. TransferredOnce'
    BY <1>1 DEF TransferredOnce
  <1> QED BY <1>2, <1>3, <1>4, <1>5, <1>6, <1>7 DEF AgentInv

\* A request comes in: it disturbs unless all others are answered.
LEMMA RequestInv ==
    ASSUME AgentInv, NEW h \in Handlers, NEW a \in Actions, NEW kind \in {"transfer", "signature"},
           NEW v \in 1..version[a], ExecuteRequest(h, a, v, kind)
    PROVE  AgentInv'
  <1> DEFINE new == [Idle EXCEPT !.pc = "fetch", !.action = a, !.version = v, !.kind = kind]
  <1>1. /\ Goto(h, new) /\ UNCHANGED <<ledger, transfers, rows>>
        /\ requests' = requests + 1 /\ faults' = faults
        /\ disturbed' = (disturbed \/ \E g \in Handlers : handler[g] # Idle)
    BY DEF ExecuteRequest
  <1>2. TypeOK /\ HandlersKnow /\ Undisturbed
    BY DEF AgentInv
  <1>3. /\ new \in Handler /\ new.pc = "fetch" /\ new.action = a /\ new.checked = FALSE
    <2>1. version[a] \in Nat
      BY <1>2 DEF TypeOK
    <2>2. v \in Nat
      BY <2>1
    <2> QED BY <2>2 DEF Idle, Handler, NoHash, Simulated
  <1> HIDE DEF new
  <1>4. /\ requests' \in Nat /\ faults' \in Nat /\ disturbed' \in BOOLEAN
        /\ disturbed => disturbed'
    BY <1>1, <1>2 DEF TypeOK
  <1>5. /\ handler'[h] = new /\ \A g \in Handlers : g # h => handler'[g] = handler[g]
        /\ transfers' = transfers /\ status' = status
    BY <1>1, <1>2, <1>3, HandlerMoves DEF TypeOK, ledger
  <1>6. Undisturbed'
    <2> SUFFICES ASSUME ~disturbed' PROVE Undisturbed'
      BY DEF Undisturbed
    <2>1. ~disturbed /\ \A g \in Handlers : handler[g].pc = "idle"
      BY <1>1, IdleIsHandler
    <2>2. \A t \in DOMAIN transfers : status[transfers[t].action] = "Executed"
      BY <1>2, <2>1 DEF Undisturbed
    <2> QED BY <1>3, <1>5, <2>1, <2>2 DEF Undisturbed
  <1>7. knows(new)
    BY <1>3 DEF knows, Opened
  <1> QED BY <1>1, <1>3, <1>4, <1>6, <1>7, HandlerStepInv DEF Opened

\* Past the check a live contract is approved; an archived one disturbs.
LEMMA GetPendingActionInv ==
    ASSUME AgentInv, NEW h \in Handlers, GetPendingAction(h)
    PROVE  AgentInv'
  <1> DEFINE w == handler[h]
             opened == [w EXCEPT !.pc = "open", !.checked = isLive(w)]
  <1>1. /\ w.pc = "fetch" /\ UNCHANGED <<ledger, transfers, rows, requests, faults>>
        /\ disturbed' = (disturbed \/ ~isLive(w))
        /\ \/ Goto(h, Idle)
           \/ Goto(h, opened) /\ (isLive(w) => status[w.action] = "Approved")
    BY DEF GetPendingAction, At
  <1>2. TypeOK /\ HandlersKnow /\ Undisturbed /\ w \in Handler /\ knows(w)
    BY ElementTypes DEF AgentInv, HandlersKnow
  <1>3. isLive(w) \in BOOLEAN
    BY DEF isLive
  <1>4. /\ opened \in Handler /\ opened.pc = "open" /\ opened.action = w.action
        /\ opened.checked = isLive(w)
    BY <1>2, <1>3 DEF Handler
  <1> HIDE DEF opened
  <1>5. /\ requests' \in Nat /\ faults' \in Nat /\ disturbed' \in BOOLEAN
        /\ disturbed => disturbed'
    BY <1>1, <1>2, <1>3 DEF TypeOK
  <1>6. transfers' = transfers /\ status' = status
    BY <1>1 DEF ledger
  <1>7. CASE Goto(h, Idle)
    <2>1. /\ handler'[h] = Idle /\ \A g \in Handlers : g # h => handler'[g] = handler[g]
      BY <1>2, <1>7, IdleIsHandler, HandlerMoves DEF TypeOK
    <2>2. Undisturbed'
      BY <1>1, <1>2, <1>6, <2>1, IdleIsHandler DEF Undisturbed
    <2> QED BY <1>1, <1>5, <1>7, <2>2, IdleIsHandler, HandlerStepInv DEF knows, Opened
  <1>8. CASE Goto(h, opened) /\ (isLive(w) => status[w.action] = "Approved")
    <2>1. /\ handler'[h] = opened /\ \A g \in Handlers : g # h => handler'[g] = handler[g]
      BY <1>2, <1>4, <1>8, HandlerMoves DEF TypeOK
    <2>2. Undisturbed'
      <3> SUFFICES ASSUME ~disturbed' PROVE Undisturbed'
        BY DEF Undisturbed
      <3>1. ~disturbed /\ status[w.action] = "Approved"
        BY <1>1, <1>8
      <3>2. \A g \in Handlers : handler[g].pc # "idle" => g = h
        BY <1>1, <1>2, <3>1 DEF Undisturbed
      <3>3. \A t \in DOMAIN transfers : status[transfers[t].action] = "Executed"
        BY <1>1, <1>2, <3>1, <3>2 DEF Undisturbed
      <3> QED BY <1>4, <1>6, <2>1, <3>1, <3>2, <3>3 DEF Undisturbed
    <2>3. knows(opened)
      <3>1. opened.checked => status[opened.action] \in ApprovedOnce
        BY <1>4, <1>8 DEF ApprovedOnce
      <3>2. opened.action \in Actions
        BY <1>1, <1>2, <1>4 DEF knows
      <3> QED BY <1>4, <3>1, <3>2 DEF knows, Opened
    <2> QED BY <1>1, <1>4, <1>5, <1>8, <2>2, <2>3, HandlerStepInv DEF Opened
  <1> QED BY <1>1, <1>7, <1>8

\* Calls that fail, and requests that die, disturb.
LEMMA FailureInv ==
    ASSUME AgentInv, NEW h \in Handlers, FailedCall(h) \/ Crash(h)
    PROVE  AgentInv'
  <1>1. /\ UNCHANGED <<ledger, transfers, rows>> /\ requests' = requests
        /\ faults' = faults + 1 /\ disturbed' = TRUE
    BY DEF FailedCall, Crash, Fault
  <1>2. TypeOK /\ HandlersKnow /\ knows(handler[h])
    BY DEF AgentInv, HandlersKnow
  <1>3. requests' \in Nat /\ faults' \in Nat
    BY <1>1, <1>2 DEF TypeOK
  <1>4. Undisturbed'
    BY <1>1 DEF Undisturbed
  <1>5. CASE Crash(h)
    <2>1. Goto(h, Idle) /\ knows(Idle)
      BY <1>5, IdleIsHandler DEF Crash, knows, Opened
    <2> QED BY <1>1, <1>3, <1>4, <2>1, IdleIsHandler, HandlerStepInv DEF Opened
  <1>6. CASE FailedCall(h)
    <2> DEFINE new == [handler[h] EXCEPT !.pc = "catch"]
    <2>1. handler[h].pc \in {"send", "submit", "exercise", "finish"} /\ GotoPc(h, "catch")
      BY <1>6 DEF FailedCall
    <2>2. /\ new \in Handler /\ Goto(h, new) /\ new.pc = "catch"
          /\ new.action = handler[h].action /\ new.row = handler[h].row
          /\ new.checked = handler[h].checked
      BY <1>2, <2>1, PcMoves DEF TypeOK
    <2> HIDE DEF new
    <2>3. knows(new)
      BY <1>2, <2>1, <2>2 DEF knows, Opened
    <2> QED BY <1>1, <1>3, <1>4, <2>1, <2>2, <2>3, HandlerStepInv DEF Opened
  <1> QED BY <1>5, <1>6

-----------------------------------------------------------------------------
(* Rows                                                                    *)

\* Writing a row changes its status and hash, and no other row.
LEMMA SetRow ==
    ASSUME TypeOK, NEW h \in Handlers, handler[h].row \in DOMAIN rows,
           NEW new \in {"pending", "submitted", "simulated", "executed", "failed"},
           NEW hash \in {Simulated} \cup Nat, setRow(h, new, hash)
    PROVE  LET r == handler[h].row
           IN  /\ rows' \in Seq(Row) /\ DOMAIN rows' = DOMAIN rows
               /\ rows'[r].action = rows[r].action
               /\ rows'[r].status = new /\ rows'[r].hash = hash
               /\ \A s \in DOMAIN rows : s # r => rows'[s] = rows[s]
  <1> DEFINE r == handler[h].row
             row == [rows[r] EXCEPT !.status = new, !.hash = hash]
  <1>1. rows \in Seq(Row) /\ rows[r] \in Row
    BY ElementTypes DEF TypeOK
  <1>2. row \in Row /\ row.action = rows[r].action /\ row.status = new /\ row.hash = hash
    BY <1>1 DEF Row
  <1>3. rows' = [rows EXCEPT ![r] = row]
    BY DEF setRow
  <1> HIDE DEF row
  <1> QED BY <1>1, <1>2, <1>3

\* A new row is not in the way of any other.
LEMMA OpenRowInv ==
    ASSUME AgentInv, NEW h \in Handlers, OpenRow(h)
    PROVE  AgentInv'
  <1> DEFINE w == handler[h]
             new == [w EXCEPT !.pc = "send", !.row = Len(rows) + 1]
             row == [action |-> w.action, status |-> "pending", hash |-> NoHash]
  <1>1. /\ w.pc = "open" /\ rows' = Append(rows, row) /\ Goto(h, new)
        /\ version' = version /\ status' = status /\ evidence' = evidence
        /\ transfers' = transfers /\ requests' = requests /\ faults' = faults
        /\ disturbed' = disturbed
    BY DEF OpenRow, At, ledger
  <1>2. /\ TypeOK /\ HandlersKnow /\ RowsApart /\ ClaimsAlone /\ Undisturbed
        /\ ExecutedIsBacked /\ CheckedTransferApproved /\ TransferredOnce
        /\ w \in Handler /\ knows(w)
    BY ElementTypes DEF AgentInv, HandlersKnow
  <1>3. rows \in Seq(Row) /\ Len(rows) \in Nat /\ w.action \in Actions
    BY <1>1, <1>2 DEF TypeOK, knows
  <1>4. row \in Row /\ row.action = w.action /\ row.status = "pending"
    BY <1>3 DEF Row, NoHash
  <1>5. /\ new \in Handler /\ new.pc = "send" /\ new.action = w.action
        /\ new.row = Len(rows) + 1 /\ new.checked = w.checked
    <2>1. Len(rows) + 1 \in Nat
      BY <1>3
    <2> QED BY <1>2, <2>1 DEF Handler
  <1> HIDE DEF new, row
  <1>6. /\ handler' \in [Handlers -> Handler]
        /\ handler'[h] = new /\ \A g \in Handlers : g # h => handler'[g] = handler[g]
    BY <1>1, <1>2, <1>5, HandlerMoves DEF TypeOK
  <1>7. /\ rows' \in Seq(Row) /\ DOMAIN rows' = DOMAIN rows \cup {new.row}
        /\ new.row \notin DOMAIN rows /\ rows'[new.row] = row
        /\ \A r \in DOMAIN rows : rows'[r] = rows[r]
    BY <1>1, <1>3, <1>4, <1>5
  <1>8. \A g \in Handlers : handler[g].pc \in Opened => handler[g].row \in DOMAIN rows
    BY <1>2 DEF TypeOK, Opened
  <1>9. TypeOK'
    BY <1>1, <1>2, <1>5, <1>6, <1>7 DEF TypeOK
  <1>10. HandlersKnow'
    <2> SUFFICES ASSUME NEW g \in Handlers PROVE knows(handler[g])'
      BY DEF HandlersKnow
    <2>1. CASE g = h
      BY <1>1, <1>2, <1>3, <1>4, <1>5, <1>6, <1>7, <2>1 DEF knows, Opened
    <2>2. CASE g # h
      <3>1. knows(handler[g])
        BY <1>2 DEF HandlersKnow
      <3> QED BY <1>1, <1>6, <1>7, <1>8, <2>2, <3>1 DEF knows
    <2> QED BY <2>1, <2>2
  <1>11. RowsApart'
    BY <1>2, <1>6, <1>7, <1>8 DEF RowsApart
  <1>12. ClaimsAlone'
    BY <1>2, <1>4, <1>5, <1>6, <1>7 DEF ClaimsAlone
  <1>13. Undisturbed'
    BY <1>1, <1>2, <1>5, <1>6 DEF Undisturbed
  <1>14. ExecutedIsBacked'
    BY <1>1, <1>2, <1>4, <1>7 DEF ExecutedIsBacked
  <1>15. CheckedTransferApproved' /\ TransferredOnce'
    BY <1>1, <1>2 DEF CheckedTransferApproved, TransferredOnce
  <1> QED BY <1>9, <1>10, <1>11, <1>12, <1>13, <1>14, <1>15 DEF AgentInv

-----------------------------------------------------------------------------
(* The wallet                                                              *)

\* A transfer by a request that is about to submit it, or failed.
LEMMA BroadcastInv ==
    ASSUME AgentInv, NEW h \in Handlers, handler[h].pc = "send", broadcast(handler[h]),
           NEW new \in Handler, Goto(h, new), UNCHANGED <<ledger, rows, requests>>,
           faults' \in Nat, disturbed' \in BOOLEAN, disturbed => disturbed',
           new.action = handler[h].action, new.row = handler[h].row,
           new.checked = handler[h].checked,
           \/ new.pc = "submit" /\ new.hash = Len(transfers) + 1
           \/ new.pc = "catch" /\ disturbed'
    PROVE  AgentInv'
  <1> DEFINE w == handler[h]
             sent == [action |-> w.action, checked |-> w.checked]
             last == Len(transfers) + 1
             Transfer == [action : Actions, checked : BOOLEAN]
  <1>1. /\ TypeOK /\ HandlersKnow /\ RowsApart /\ ClaimsAlone /\ Undisturbed
        /\ ExecutedIsBacked /\ CheckedTransferApproved /\ TransferredOnce
        /\ w \in Handler /\ knows(w)
    BY ElementTypes DEF AgentInv, HandlersKnow
  <1>2. /\ handler' \in [Handlers -> Handler]
        /\ handler'[h] = new /\ \A g \in Handlers : g # h => handler'[g] = handler[g]
        /\ version' = version /\ status' = status /\ evidence' = evidence
        /\ rows' = rows /\ requests' = requests
    BY <1>1, HandlerMoves DEF TypeOK, ledger
  <1>3. sent \in Transfer /\ sent.action = w.action /\ sent.checked = w.checked
    BY <1>1 DEF knows, Handler
  <1>4. transfers \in Seq(Transfer) /\ transfers' = Append(transfers, sent)
    BY <1>1 DEF TypeOK, broadcast
  <1> HIDE DEF sent, Transfer
  <1>5. /\ transfers' \in Seq(Transfer) /\ DOMAIN transfers' = DOMAIN transfers \cup {last}
        /\ last \notin DOMAIN transfers /\ transfers'[last] = sent
        /\ \A t \in DOMAIN transfers : transfers'[t] = transfers[t]
    BY <1>3, <1>4
  <1>6. TypeOK'
    BY <1>1, <1>2, <1>5 DEF TypeOK, Transfer
  <1>7. HandlersKnow'
    <2> SUFFICES ASSUME NEW g \in Handlers PROVE knows(handler[g])'
      BY DEF HandlersKnow
    <2>1. CASE g = h
      <3>1. new.pc \in Opened /\ new.pc \notin {"idle", "exercise", "finish"}
        BY DEF Opened
      <3>2. new.pc = "submit" => /\ new.hash \in DOMAIN transfers'
                                 /\ transfers'[new.hash].action = new.action
        BY <1>3, <1>5
      <3>3. w.pc = "send" /\ w.pc \in Opened
        BY DEF Opened
      <3> HIDE DEF last, w
      <3> QED BY <1>1, <1>2, <2>1, <3>1, <3>2, <3>3 DEF knows, w
    <2>2. CASE g # h
      <3>1. knows(handler[g]) /\ handler'[g] = handler[g]
        BY <1>1, <1>2, <2>2 DEF HandlersKnow
      <3> QED BY <1>2, <1>5, <3>1 DEF knows
    <2> QED BY <2>1, <2>2
  <1>8. RowsApart' /\ ClaimsAlone'
    BY <1>1, <1>2 DEF RowsApart, ClaimsAlone, Opened
  <1>9. ExecutedIsBacked'
    BY <1>1, <1>2, <1>5 DEF ExecutedIsBacked
  <1>10. CheckedTransferApproved'
    BY <1>1, <1>2, <1>3, <1>5 DEF CheckedTransferApproved, knows, ApprovedOnce
  <1>11. ~disturbed' =>
             /\ \A g \in Handlers : handler[g].pc # "idle" => g = h
             /\ status[w.action] = "Approved" /\ new.pc = "submit"
             /\ \A t \in DOMAIN transfers : status[transfers[t].action] = "Executed"
    BY <1>1 DEF Undisturbed
  <1>12. TransferredOnce'
    BY <1>1, <1>3, <1>5, <1>11 DEF TransferredOnce
  <1>13. Undisturbed'
    BY <1>2, <1>3, <1>5, <1>11 DEF Undisturbed
  <1> QED BY <1>6, <1>7, <1>8, <1>9, <1>10, <1>12, <1>13 DEF AgentInv

\* The wallet transfers, signs, or fails after it may have transferred.
LEMMA SendTransactionInv ==
    ASSUME AgentInv, NEW h \in Handlers, SendTransaction(h)
    PROVE  AgentInv'
  <1> DEFINE w == handler[h]
             submit(hash) == [w EXCEPT !.pc = "submit", !.hash = hash]
  <1>1. /\ w.pc = "send" /\ UNCHANGED <<ledger, rows, requests>>
        /\ \/ broadcast(w) /\ NoFault /\ Goto(h, submit(Len(transfers) + 1))
           \/ UNCHANGED transfers /\ NoFault /\ Goto(h, submit(Simulated))
           \/ broadcast(w) /\ Fault /\ GotoPc(h, "catch")
    BY DEF SendTransaction, At
  <1>2. TypeOK /\ HandlersKnow /\ Undisturbed /\ w \in Handler /\ knows(w)
    BY ElementTypes DEF AgentInv, HandlersKnow
  <1>3. ASSUME NEW hash \in {Simulated} \cup Nat
        PROVE  LET new == submit(hash)
               IN  /\ new \in Handler /\ new.pc = "submit" /\ new.hash = hash
                   /\ new.action = w.action /\ new.row = w.row /\ new.checked = w.checked
    BY <1>2 DEF Handler
  <1> HIDE DEF submit
  <1>4. CASE broadcast(w) /\ NoFault /\ Goto(h, submit(Len(transfers) + 1))
    <2>1. Len(transfers) + 1 \in Nat
      BY <1>2 DEF TypeOK
    <2>2. faults' \in Nat /\ disturbed' \in BOOLEAN /\ (disturbed => disturbed')
      BY <1>2, <1>4 DEF NoFault, TypeOK
    <2> QED BY <1>1, <1>3, <1>4, <2>1, <2>2, BroadcastInv
  <1>5. CASE UNCHANGED transfers /\ NoFault /\ Goto(h, submit(Simulated))
    <2> DEFINE new == submit(Simulated)
    <2>1. /\ new \in Handler /\ new.pc = "submit" /\ new.hash = Simulated
          /\ new.action = w.action /\ new.row = w.row /\ new.checked = w.checked
      BY <1>3
    <2> HIDE DEF new
    <2>2. /\ requests' \in Nat /\ faults' \in Nat /\ disturbed' \in BOOLEAN
          /\ disturbed' = disturbed /\ Goto(h, new)
      BY <1>1, <1>2, <1>5 DEF NoFault, TypeOK, new
    <2>3. knows(new)
      BY <1>1, <1>2, <2>1 DEF knows, Opened
    <2>4. Undisturbed'
      <3>1. /\ handler'[h] = new /\ \A g \in Handlers : g # h => handler'[g] = handler[g]
            /\ status' = status /\ transfers' = transfers
        BY <1>1, <1>2, <1>5, <2>1, <2>2, HandlerMoves DEF TypeOK, ledger
      <3> QED BY <1>1, <1>2, <2>1, <2>2, <3>1 DEF Undisturbed
    <2> QED BY <1>1, <1>5, <2>1, <2>2, <2>3, <2>4, HandlerStepInv DEF Opened
  <1>6. CASE broadcast(w) /\ Fault /\ GotoPc(h, "catch")
    <2> DEFINE new == [w EXCEPT !.pc = "catch"]
    <2>1. /\ new \in Handler /\ Goto(h, new) /\ new.pc = "catch"
          /\ new.action = w.action /\ new.row = w.row /\ new.checked = w.checked
      BY <1>2, <1>6, PcMoves DEF TypeOK
    <2> HIDE DEF new
    <2>2. faults' \in Nat /\ disturbed' = TRUE
      BY <1>2, <1>6 DEF Fault, TypeOK
    <2> QED BY <1>1, <1>6, <2>1, <2>2, BroadcastInv
  <1> QED BY <1>1, <1>4, <1>5, <1>6

-----------------------------------------------------------------------------
(* The row afterwards, and Canton                                          *)

\* A request writes its row: it may claim execution only when it finishes.
LEMMA RowStepInv ==
    ASSUME AgentInv, NEW h \in Handlers, handler[h].pc \in Opened,
           NEW new \in {"pending", "submitted", "simulated", "executed", "failed"},
           NEW hash \in {Simulated} \cup Nat, setRow(h, new, hash),
           new = "executed" => /\ handler[h].pc = "finish" /\ hash = handler[h].hash
                               /\ hash # Simulated,
           \/ Goto(h, Idle) /\ (handler[h].pc = "finish" \/ disturbed')
           \/ GotoPc(h, "exercise") /\ handler[h].pc = "submit" /\ new # "executed",
           UNCHANGED <<ledger, transfers, requests, faults>>,
           disturbed' \in BOOLEAN, disturbed => disturbed'
    PROVE  AgentInv'
  <1> DEFINE w == handler[h]
  <1>1. /\ TypeOK /\ HandlersKnow /\ RowsApart /\ ClaimsAlone /\ Undisturbed
        /\ ExecutedIsBacked /\ CheckedTransferApproved /\ TransferredOnce
        /\ w \in Handler /\ knows(w) /\ w.row \in DOMAIN rows
    BY ElementTypes DEF AgentInv, HandlersKnow, TypeOK, Opened
  <1>2. PICK next \in Handler :
            /\ Goto(h, next)
            /\ \/ next = Idle /\ (w.pc = "finish" \/ disturbed')
               \/ /\ next.pc = "exercise" /\ next.action = w.action /\ next.row = w.row
                  /\ next.hash = w.hash /\ next.checked = w.checked
                  /\ w.pc = "submit" /\ new # "executed"
    BY <1>1, PcMoves, IdleIsHandler DEF TypeOK
  <1>3. /\ handler' \in [Handlers -> Handler]
        /\ handler'[h] = next /\ \A g \in Handlers : g # h => handler'[g] = handler[g]
        /\ version' = version /\ status' = status /\ evidence' = evidence
        /\ transfers' = transfers /\ requests' = requests /\ faults' = faults
    BY <1>1, <1>2, HandlerMoves DEF TypeOK, ledger
  <1>4. /\ rows' \in Seq(Row) /\ DOMAIN rows' = DOMAIN rows
        /\ rows'[w.row].action = w.action
        /\ rows'[w.row].status = new /\ rows'[w.row].hash = hash
        /\ \A s \in DOMAIN rows : s # w.row => rows'[s] = rows[s]
    BY <1>1, SetRow DEF knows
  <1>5. \A g \in Handlers : handler[g].pc \in Opened => handler[g].row \in DOMAIN rows
    BY <1>1 DEF TypeOK, Opened
  <1>6. next.pc \in {"idle", "exercise"} /\ (next.pc \in Opened => next.row = w.row)
    BY <1>2, IdleIsHandler DEF Opened
  <1>7. TypeOK'
    BY <1>1, <1>3, <1>4, <1>6 DEF TypeOK, Opened
  <1>8. HandlersKnow'
    <2> SUFFICES ASSUME NEW g \in Handlers PROVE knows(handler[g])'
      BY DEF HandlersKnow
    <2>1. CASE g = h
      <3>1. CASE next = Idle
        BY <1>3, <2>1, <3>1, IdleIsHandler DEF knows, Opened
      <3>2. CASE next # Idle
        BY <1>1, <1>2, <1>3, <1>4, <2>1, <3>2 DEF knows, Opened
      <3> QED BY <3>1, <3>2
    <2>2. CASE g # h
      <3>1. knows(handler[g]) /\ handler'[g] = handler[g]
        BY <1>1, <1>3, <2>2 DEF HandlersKnow
      <3>2. handler[g].pc \in Opened => rows'[handler[g].row] = rows[handler[g].row]
        BY <1>1, <1>4, <1>5, <2>2 DEF RowsApart
      <3> QED BY <1>3, <3>1, <3>2 DEF knows
    <2> QED BY <2>1, <2>2
  <1>9. RowsApart'
    BY <1>1, <1>3, <1>6 DEF RowsApart
  <1>10. ClaimsAlone'
    <2> SUFFICES ASSUME NEW g \in Handlers, handler'[g].pc = "finish"
                 PROVE  /\ \A k \in Handlers :
                               handler'[k].pc = "finish" /\ handler'[k].action = handler'[g].action
                                   => k = g
                        /\ \A r \in DOMAIN rows' : rows'[r].status = "executed" =>
                               rows'[r].action # handler'[g].action
      BY DEF ClaimsAlone
    <2>1. g # h /\ handler'[g] = handler[g]
      BY <1>3, <1>6
    <2>2. \A k \in Handlers : handler'[k].pc = "finish" => k # h /\ handler'[k] = handler[k]
      BY <1>3, <1>6
    <2>3. new = "executed" => w.action # handler[g].action
      BY <1>1, <2>1 DEF ClaimsAlone
    <2> QED BY <1>1, <1>4, <2>1, <2>2, <2>3 DEF ClaimsAlone
  <1>11. ExecutedIsBacked'
    <2>1. new = "executed" =>
              /\ status[w.action] = "Executed" /\ evidence[w.action] = hash
              /\ hash \in DOMAIN transfers /\ transfers[hash].action = w.action
              /\ \A r \in DOMAIN rows : rows[r].status = "executed" => rows[r].action # w.action
      BY <1>1 DEF knows, ClaimsAlone
    <2> QED BY <1>1, <1>3, <1>4, <2>1 DEF ExecutedIsBacked
  <1>12. CheckedTransferApproved' /\ TransferredOnce'
    BY <1>1, <1>3 DEF CheckedTransferApproved, TransferredOnce
  <1>13. Undisturbed'
    <2> SUFFICES ASSUME ~disturbed' PROVE Undisturbed'
      BY DEF Undisturbed
    <2>1. ~disturbed
      OBVIOUS
    <2>2. \A g \in Handlers : handler[g].pc # "idle" => g = h
      BY <1>1, <2>1 DEF Undisturbed, Opened
    <2>3. CASE next = Idle
      <3>1. \A t \in DOMAIN transfers : status[transfers[t].action] = "Executed"
        BY <1>1, <1>2, <2>1, <2>2, <2>3, IdleIsHandler DEF Undisturbed
      <3> QED BY <1>3, <2>2, <2>3, <3>1, IdleIsHandler DEF Undisturbed
    <2>4. CASE next # Idle
      BY <1>1, <1>2, <1>3, <2>1, <2>2, <2>4 DEF Undisturbed
    <2> QED BY <2>3, <2>4
  <1> QED BY <1>7, <1>8, <1>9, <1>10, <1>11, <1>12, <1>13 DEF AgentInv

LEMMA SubmittedInv ==
    ASSUME AgentInv, NEW h \in Handlers, Submitted(h)
    PROVE  AgentInv'
  <1> DEFINE new == whenSimulated(h, "submitted")
  <1>1. /\ handler[h].pc = "submit" /\ setRow(h, new, handler[h].hash) /\ GotoPc(h, "exercise")
        /\ UNCHANGED <<ledger, transfers, requests, faults>> /\ disturbed' = disturbed
    BY DEF Submitted, At
  <1>2. handler[h].hash \in {Simulated} \cup Nat /\ disturbed \in BOOLEAN
    BY ElementTypes DEF AgentInv, TypeOK, Handler
  <1>3. new \in {"simulated", "submitted"}
    BY DEF whenSimulated
  <1> HIDE DEF new
  <1> QED BY <1>1, <1>2, <1>3, RowStepInv DEF Opened

LEMMA FinishInv ==
    ASSUME AgentInv, NEW h \in Handlers, Finish(h)
    PROVE  AgentInv'
  <1> DEFINE new == whenSimulated(h, "executed")
  <1>1. /\ handler[h].pc = "finish" /\ setRow(h, new, handler[h].hash) /\ Goto(h, Idle)
        /\ UNCHANGED <<ledger, transfers, requests, faults>> /\ disturbed' = disturbed
    BY DEF Finish, At
  <1>2. handler[h].hash \in {Simulated} \cup Nat /\ disturbed \in BOOLEAN
    BY ElementTypes DEF AgentInv, TypeOK, Handler
  <1>3. /\ new \in {"simulated", "executed"}
        /\ new = "executed" => handler[h].hash # Simulated
    BY DEF whenSimulated
  <1> HIDE DEF new
  <1> QED BY <1>1, <1>2, <1>3, RowStepInv DEF Opened

LEMMA CatchInv ==
    ASSUME AgentInv, NEW h \in Handlers, Catch(h)
    PROVE  AgentInv'
  <1> DEFINE hash == rows[handler[h].row].hash
  <1>1. /\ handler[h].pc = "catch" /\ setRow(h, "failed", hash) /\ Goto(h, Idle)
        /\ UNCHANGED <<ledger, transfers, requests, faults>> /\ disturbed' = TRUE
    BY DEF Catch, At
  <1>2. hash \in {Simulated} \cup Nat
    <2>1. handler[h].row \in DOMAIN rows
      BY <1>1 DEF AgentInv, TypeOK
    <2>2. rows[handler[h].row] \in Row
      BY <2>1, ElementTypes DEF AgentInv
    <2> QED BY <2>2 DEF Row
  <1> HIDE DEF hash
  <1> QED BY <1>1, <1>2, RowStepInv DEF Opened

\* Canton executes an approved action once: from then on, only this request
\* can claim it.
LEMMA ExecutesInv ==
    ASSUME AgentInv, NEW h \in Handlers, handler[h].pc = "exercise",
           status[handler[h].action] = "Approved", executes(handler[h]),
           NEW pc \in {"finish", "catch"}, GotoPc(h, pc),
           UNCHANGED <<transfers, rows, requests>>,
           faults' \in Nat, disturbed' \in BOOLEAN, disturbed => disturbed'
    PROVE  AgentInv'
  <1> DEFINE w == handler[h]
             a == w.action
  <1>1. /\ TypeOK /\ HandlersKnow /\ RowsApart /\ ClaimsAlone /\ Undisturbed
        /\ ExecutedIsBacked /\ CheckedTransferApproved /\ TransferredOnce
        /\ w \in Handler /\ knows(w) /\ a \in Actions /\ w.hash \in {Simulated} \cup Nat
    BY ElementTypes DEF AgentInv, HandlersKnow, knows, Handler
  <1> DEFINE next == [w EXCEPT !.pc = pc]
  <1>2. /\ next \in Handler /\ Goto(h, next)
        /\ next.pc = pc /\ next.action = a /\ next.row = w.row
        /\ next.hash = w.hash /\ next.checked = w.checked
    <2>1. /\ handler \in [Handlers -> Handler]
          /\ pc \in {"send", "submit", "exercise", "finish", "catch"}
      BY <1>1 DEF TypeOK
    <2> QED BY <2>1, PcMoves
  <1> HIDE DEF next
  <1>3. /\ handler' \in [Handlers -> Handler]
        /\ handler'[h] = next /\ \A g \in Handlers : g # h => handler'[g] = handler[g]
        /\ transfers' = transfers /\ rows' = rows /\ requests' = requests
    BY <1>1, <1>2, HandlerMoves DEF TypeOK
  <1>4. /\ version' \in [Actions -> Nat]
        /\ status' \in [Actions -> {"Pending", "Approved", "Rejected", "Executed"}]
        /\ status'[a] = "Executed"
        /\ \A b \in Actions : b # a => status'[b] = status[b]
    BY <1>1, MoveTypes DEF executes
  <1>5. /\ evidence' \in [Actions -> {Simulated} \cup Nat]
        /\ evidence'[a] = w.hash
        /\ \A b \in Actions : b # a => evidence'[b] = evidence[b]
    BY <1>1 DEF executes, TypeOK
  <1>6. \A b \in Actions : /\ status[b] = "Executed" => b # a
                          /\ status[b] \in ApprovedOnce => status'[b] \in ApprovedOnce
    BY <1>4 DEF ApprovedOnce
  <1>7. /\ \A r \in DOMAIN rows : rows[r].action \in Actions
        /\ \A t \in DOMAIN transfers : transfers[t].action \in Actions
        /\ \A g \in Handlers : handler[g].pc # "idle" => handler[g].action \in Actions
        /\ \A g \in Handlers : handler[g].checked => handler[g].action \in Actions
    BY <1>1, ElementTypes, IdleIsHandler DEF HandlersKnow, knows
  <1>8. TypeOK'
    BY <1>1, <1>2, <1>3, <1>4, <1>5 DEF TypeOK
  <1>9. HandlersKnow'
    <2> SUFFICES ASSUME NEW g \in Handlers PROVE knows(handler[g])'
      BY DEF HandlersKnow
    <2>1. CASE g = h
      BY <1>1, <1>2, <1>3, <1>4, <1>5, <2>1 DEF knows, Opened, ApprovedOnce
    <2>2. CASE g # h
      <3>1. knows(handler[g]) /\ handler'[g] = handler[g]
        BY <1>1, <1>3, <2>2 DEF HandlersKnow
      <3> QED BY <1>3, <1>4, <1>5, <1>6, <1>7, <3>1 DEF knows
    <2> QED BY <2>1, <2>2
  <1>10. RowsApart'
    BY <1>1, <1>2, <1>3 DEF RowsApart, Opened
  <1>11. ClaimsAlone'
    <2>1. \A g \in Handlers : handler[g].pc = "finish" => handler[g].action # a
      BY <1>1, <1>6 DEF HandlersKnow, knows
    <2>2. \A r \in DOMAIN rows : rows[r].status = "executed" => rows[r].action # a
      BY <1>1, <1>6 DEF ExecutedIsBacked
    <2> QED BY <1>1, <1>2, <1>3, <2>1, <2>2 DEF ClaimsAlone
  <1>12. ExecutedIsBacked'
    BY <1>1, <1>3, <1>4, <1>5, <1>6, <1>7 DEF ExecutedIsBacked
  <1>13. CheckedTransferApproved' /\ TransferredOnce'
    BY <1>1, <1>3, <1>6, <1>7 DEF CheckedTransferApproved, TransferredOnce, ApprovedOnce
  <1>14. Undisturbed'
    <2> SUFFICES ASSUME ~disturbed' PROVE Undisturbed'
      BY DEF Undisturbed
    <2>1. \A g \in Handlers : handler[g].pc # "idle" => g = h
      BY <1>1 DEF Undisturbed
    <2>2. \A t \in DOMAIN transfers : status'[transfers[t].action] = "Executed"
      <3> SUFFICES ASSUME NEW t \in DOMAIN transfers, transfers[t].action # a
                   PROVE  status[transfers[t].action] = "Executed"
        BY <1>4, <1>7
      <3> QED BY <1>1, <2>1 DEF Undisturbed
    <2> QED BY <1>2, <1>3, <2>1, <2>2 DEF Undisturbed
  <1> QED BY <1>8, <1>9, <1>10, <1>11, <1>12, <1>13, <1>14 DEF AgentInv

LEMMA ExecuteApprovedActionInv ==
    ASSUME AgentInv, NEW h \in Handlers, ExecuteApprovedAction(h)
    PROVE  AgentInv'
  <1> DEFINE w == handler[h]
  <1>1. /\ w.pc = "exercise" /\ UNCHANGED <<transfers, rows, requests>>
        /\ \/ status[w.action] = "Approved" /\ executes(w) /\ NoFault /\ GotoPc(h, "finish")
           \/ status[w.action] = "Approved" /\ executes(w) /\ Fault /\ GotoPc(h, "catch")
           \/ UNCHANGED ledger /\ NoFault /\ GotoPc(h, "catch")
    BY DEF ExecuteApprovedAction, At
  <1>2. TypeOK /\ Undisturbed /\ w \in Handler /\ knows(w)
    BY ElementTypes DEF AgentInv, HandlersKnow
  <1>3. /\ NoFault => faults' = faults /\ disturbed' = disturbed
        /\ Fault => faults' = faults + 1 /\ disturbed' = TRUE
    BY DEF NoFault, Fault
  <1>4. faults \in Nat /\ requests \in Nat /\ disturbed \in BOOLEAN
    BY <1>2 DEF TypeOK
  <1>5. CASE status[w.action] = "Approved" /\ executes(w) /\ NoFault /\ GotoPc(h, "finish")
    BY <1>1, <1>3, <1>4, <1>5, ExecutesInv
  <1>6. CASE status[w.action] = "Approved" /\ executes(w) /\ Fault /\ GotoPc(h, "catch")
    BY <1>1, <1>3, <1>4, <1>6, ExecutesInv
  <1>7. CASE UNCHANGED ledger /\ NoFault /\ GotoPc(h, "catch")
    <2>1. PICK next \in Handler :
              /\ Goto(h, next) /\ next.pc = "catch" /\ next.action = w.action
              /\ next.row = w.row /\ next.checked = w.checked
      BY <1>2, <1>7, PcMoves DEF TypeOK
    <2>2. knows(next)
      BY <1>1, <1>2, <2>1 DEF knows, Opened
    <2>3. Undisturbed'
      <3>1. /\ handler'[h] = next /\ \A g \in Handlers : g # h => handler'[g] = handler[g]
            /\ transfers' = transfers /\ status' = status /\ disturbed' = disturbed
        BY <1>1, <1>2, <1>3, <1>7, <2>1, HandlerMoves DEF TypeOK, ledger
      <3> QED BY <1>1, <1>2, <2>1, <3>1 DEF Undisturbed
    <2> QED BY <1>1, <1>3, <1>4, <1>7, <2>1, <2>2, <2>3, HandlerStepInv DEF Opened
  <1> QED BY <1>1, <1>5, <1>6, <1>7

-----------------------------------------------------------------------------
(* The theorems                                                            *)

\* Every step of the user or of a request keeps the invariant.
LEMMA NextInv == AgentInv /\ [Next]_vars => AgentInv'
  <1> SUFFICES ASSUME AgentInv, [Next]_vars PROVE AgentInv'
    OBVIOUS
  <1>1. ASSUME NEW a \in Actions, ApprovePendingAction(a) \/ RejectPendingAction(a)
        PROVE  AgentInv'
    BY <1>1, DecideInv
  <1>2. ASSUME NEW h \in Handlers, NEW a \in Actions, NEW kind \in {"transfer", "signature"},
               NEW v \in 1..version[a], ExecuteRequest(h, a, v, kind)
        PROVE  AgentInv'
    BY <1>2, RequestInv
  <1>3. ASSUME NEW h \in Handlers, Step(h)
        PROVE  AgentInv'
    BY <1>3, GetPendingActionInv, OpenRowInv, SendTransactionInv, SubmittedInv,
       ExecuteApprovedActionInv, FinishInv, CatchInv DEF Step
  <1>4. ASSUME NEW h \in Handlers, FailedCall(h) \/ Crash(h)
        PROVE  AgentInv'
    BY <1>4, FailureInv
  <1>5. CASE UNCHANGED vars
    BY <1>5 DEF AgentInv, TypeOK, HandlersKnow, knows, RowsApart, ClaimsAlone, Undisturbed,
                ExecutedIsBacked, CheckedTransferApproved, TransferredOnce, vars, ledger
  <1> QED BY <1>1, <1>2, <1>3, <1>4, <1>5 DEF Next

LEMMA InvHolds == Spec => []AgentInv
  BY InitInv, NextInv, PTL DEF Spec

\* Rows, contracts and requests keep their types, and a request that opened
\* its row never loses it.
THEOREM TypeCorrect == Spec => []TypeOK
  <1>1. AgentInv => TypeOK
    BY DEF AgentInv
  <1> QED BY <1>1, InvHolds, PTL

\* However many requests overlap, fail and are retried, a row that says
\* "executed" names the one transfer that Canton was given for its action.
THEOREM ExecutedIsBackedHolds == Spec => []ExecutedIsBacked
  <1>1. AgentInv => ExecutedIsBacked
    BY DEF AgentInv
  <1> QED BY <1>1, InvHolds, PTL

\* A request that saw the live contract pays for an approved action only.
THEOREM CheckedTransferApprovedHolds == Spec => []CheckedTransferApproved
  <1>1. AgentInv => CheckedTransferApproved
    BY DEF AgentInv
  <1> QED BY <1>1, InvHolds, PTL

\* As long as requests come one at a time, name live contracts and do not
\* fail, each action is paid at most once.
THEOREM TransferredOnceHolds == Spec => []TransferredOnce
  <1>1. AgentInv => TransferredOnce
    BY DEF AgentInv
  <1> QED BY <1>1, InvHolds, PTL

\* A decision and an execution are steps of the gate; nothing else the route
\* does is seen there.
LEMMA GateSteps == ASSUME AgentInv, [Next]_vars PROVE [Gate!GateNext]_Gate!gateVars
  <1> DEFINE released == {a \in Actions : status[a] = "Executed"}
  <1>1. /\ status \in [Actions -> {"Pending", "Approved", "Rejected", "Executed"}]
        /\ DOMAIN status = Actions
    BY DEF AgentInv, TypeOK
  <1>2. CASE \E a \in Actions : ApprovePendingAction(a) \/ RejectPendingAction(a)
    <2>1. PICK a \in Actions, d \in {"Approved", "Rejected"} :
              status[a] = "Pending" /\ status' = [status EXCEPT ![a] = d]
      BY <1>2 DEF ApprovePendingAction, RejectPendingAction, Move
    <2>2. released' = released
      BY <1>1, <2>1
    <2>3. Gate!Decide(a, d)
      BY <2>1, <2>2 DEF Gate!Decide
    <2> QED BY <1>1, <2>3 DEF Gate!GateNext
  <1>3. CASE \E h \in Handlers : ExecuteApprovedAction(h) /\ ~UNCHANGED ledger
    <2>1. PICK h \in Handlers : ExecuteApprovedAction(h) /\ ~UNCHANGED ledger
      BY <1>3
    <2>2. /\ handler[h].pc = "exercise" /\ status[handler[h].action] = "Approved"
          /\ status' = [status EXCEPT ![handler[h].action] = "Executed"]
      BY <2>1 DEF ExecuteApprovedAction, At, executes, Move
    <2>3. PICK a \in Actions : status[a] = "Approved" /\ status' = [status EXCEPT ![a] = "Executed"]
      BY <2>2 DEF AgentInv, HandlersKnow, knows
    <2>4. released' = released \cup {a}
      BY <1>1, <2>3
    <2>5. Gate!Execute(a)
      BY <2>3, <2>4 DEF Gate!Execute
    <2> QED BY <1>1, <2>3, <2>5 DEF Gate!GateNext
  <1>4. CASE UNCHANGED ledger
    BY <1>4 DEF ledger, Gate!gateVars
  <1> QED
    BY <1>2, <1>3, <1>4
    DEF Next, Step, ExecuteRequest, GetPendingAction, OpenRow, SendTransaction, Submitted, Finish,
        Catch, FailedCall, Crash, vars

\* The route implements the approval gate: on Canton only approved actions are
\* executed, and once, whatever requests overlap, fail or are retried.
THEOREM GateImplementedHolds == Spec => GateImplemented
  <1>1. Init => Gate!GateInit
    <2> SUFFICES ASSUME Init PROVE Gate!GateInit
      OBVIOUS
    <2>1. status = [a \in Actions |-> "Pending"] /\ DOMAIN status = Actions
      BY DEF Init
    <2>2. {a \in Actions : status[a] = "Executed"} = {}
      BY <2>1
    <2> QED BY <2>1, <2>2 DEF Gate!GateInit
  <1>2. AgentInv /\ [Next]_vars => [Gate!GateNext]_Gate!gateVars
    BY GateSteps
  <1> QED BY <1>1, <1>2, InvHolds, PTL DEF Spec, GateImplemented, Gate!GateSpec
=============================================================================
