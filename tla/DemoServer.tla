------------------------------ MODULE DemoServer ------------------------------
(***************************************************************************)
(* The web server in demo mode: the routes that log a user in, save a      *)
(* policy, pay a payroll, run an allocation, decide and execute actions,   *)
(* run the whole demo, and reset it, over the in-memory ledger and the     *)
(* database.  A restart of the server loses the ledger and keeps the       *)
(* tables.                                                                 *)
(*                                                                         *)
(* A request holds the sequence `todo` of calls it still makes; each call  *)
(* is a step, named after it.  Calls that only read are one step with the  *)
(* call they decide about.  Contract ids in a request are any a client may *)
(* remember or make up.  The table of Canton contracts is left out:        *)
(* the routes write it and nothing reads it, but a write fails when the    *)
(* user is gone.                                                           *)
(***************************************************************************)
EXTENDS DemoLedger, FiniteSets

CONSTANTS
    Users,          \* dynamic user ids, and the parties they get
    NoUser,
    Policies,       \* policies somebody may submit
    Payrolls,       \* amounts and assets somebody may pay
    Workloads,      \* bound: sequences of requests, by the kind of each
    Alone,          \* bound: kinds that start only while no request is served
    Concurrency,    \* bound: requests served at once
    MaxFaults       \* bound: calls that fail, restarts

\* No user has the id of a demo party; an empty name is no party.
ASSUME DemoUsersAssumption ==
    /\ NoUser \notin Users /\ {Employer, Recipient, Operator, OtherUser} \cap Users = {}
    /\ Users \cup {Employer, Recipient, Operator, OtherUser} \subseteq Parties
    /\ NoParty \notin Parties
ASSUME DemoPoliciesAssumption == Policies \subseteq PolicyForm
ASSUME DemoPayrollsAssumption ==
    Payrolls \subseteq PayrollForm /\ \A p \in Payrolls : p.amount > 0
ASSUME DemoBoundsAssumption == Concurrency \in Nat /\ MaxFaults \in Nat

VARIABLES
    ledger,         \* DemoState
    clock,          \* Date.now(), as run ids show it
    userIds,        \* User: the id of the row of each user, 0 for none
    policyRows,     \* PolicyCache
    intents,        \* FundingIntent
    agentRows,      \* AgentAction: the users with rows
    demoParties,    \* DemoParty has its rows
    nextId,         \* the next id of a row
    handler,        \* what each request is doing
    workload,       \* the requests still to come
    faults,
    overlapped,     \* history: users that had two requests at once
    cutOff          \* history: users with a request that failed or was lost

tables == <<userIds, policyRows, intents, agentRows, demoParties, nextId>>
vars == <<ledger, clock, tables, handler, workload, faults, overlapped, cutOff>>

Handlers == 1..Concurrency

Idle == [user |-> NoUser, todo |-> <<>>, id |-> 0, policy |-> {}, version |-> 0, intent |-> 0,
         policyId |-> NoContract, credit |-> NoContract, run |-> NoContract, runId |-> 0,
         action |-> NoContract, payroll |-> NoPayroll, due |-> {}]

Init ==
    /\ ledger = EmptyLedger /\ clock = 1
    /\ userIds = [u \in Users |-> 0]
    /\ policyRows = {} /\ intents = {} /\ agentRows = {} /\ demoParties = FALSE /\ nextId = 1
    /\ handler = [h \in Handlers |-> Idle]
    /\ workload \in Workloads /\ faults = 0 /\ overlapped = {} /\ cutOff = {}

-----------------------------------------------------------------------------
(* Requests                                                                *)

Login == <<"upsertUser", "ensureDemoParties", "queryProfile", "createProfile", "record">>

\* Mutant: the old rows are deactivated after the new one is there.
SavePolicy_late == <<"latestPolicy", "createPolicy", "record", "cachePolicy", "deactivate">>

SavePolicy == <<"latestPolicy", "deactivate", "createPolicy", "record", "cachePolicy">>

Pay == <<"createIntent", "findCredit", "createCredit", "record", "createAudit", "nameCredit">>
Allocate == <<"loadPolicyAndCredit", "createRun", "executeRun", "record">>

Steps ==
    [bootstrap |-> Login,
     policy |-> <<"getRequiredUser">> \o SavePolicy,
     payroll |-> <<"getRequiredUser", "ensureDemoParties", "createNotice", "record">> \o Pay,
     confirm |-> <<"getRequiredUser">> \o Pay,
     allocate |-> <<"getRequiredUser">> \o Allocate,
     approve |-> <<"getRequiredUser", "approve", "record">>,
     reject |-> <<"getRequiredUser", "reject", "record">>,
     execute |-> <<"getRequiredUser", "getPendingAction", "openAgentRow", "executeAction">>,
     fullFlow |-> <<"ensureDemoParties", "upsertUser", "queryProfile", "createProfile", "record">>
                  \o SavePolicy \o <<"createNotice", "record">> \o Pay \o Allocate
                  \o <<"collectActions", "approve", "record", "openAgentRow", "executeAction">>,
     reset |-> <<"findUser", "deleteAgentActions", "deleteIntents", "deletePolicies",
                 "deleteUser", "deleteDemoParties", "resetLedger">>]

demoCategories ==
    LET category(id, bps, type, approval) ==
            [id |-> id, bps |-> bps, type |-> type,
             recipient |-> IF type = "ExternalPayment" THEN Recipient ELSE NoParty,
             address |-> "none", target |-> type = "PortfolioAllocation", approval |-> approval]
    IN  <<category("rent", 3500, "ExternalPayment", FALSE),
          category("reserve", 2500, "InternalReserve", FALSE),
          category("portfolio", 2500, "PortfolioAllocation", TRUE),
          category("spending", 1500, "ManualHold", FALSE)>>

demoPolicy ==
    LET rule(id, action) ==
            [id |-> id, action |-> action, enabled |-> TRUE, threshold |-> {}, category |-> ""]
    IN  [categories |-> demoCategories,
         rules |-> <<rule("portfolio", "PortfolioAllocation"),
                     rule("new-recipient", "NewRecipient")>>]

serving(u) == {h \in Handlers : handler[h].user = u}

\* The next request can be of a kind, and h is the first free handler.
mayStart(h, kind) ==
    /\ workload # <<>> /\ kind = Head(workload)
    /\ handler[h] = Idle /\ \A g \in 1..(h - 1) : handler[g] # Idle
    /\ kind \in Alone => \A g \in Handlers : handler[g] = Idle

Start(h, u, arguments) ==
    /\ workload' = Tail(workload)
    /\ handler' = [handler EXCEPT ![h] =
                       [arguments EXCEPT !.user = u, !.todo = Steps[Head(workload)]]]
    /\ overlapped' = IF serving(u) # {} THEN overlapped \cup {u} ELSE overlapped
    /\ UNCHANGED <<ledger, clock, tables, faults, cutOff>>

idsOf(template) == {<<template, i>> : i \in {j \in DOMAIN ledger : ledger[j].template = template}}

SimpleRequest(h, u) ==
    /\ \E kind \in {"bootstrap", "reset"} : mayStart(h, kind)
    /\ Start(h, u, Idle)

\* The body is parsed: the amount is positive and has no more than six digits.
PayrollRequest(h, u) ==
    /\ \E kind \in {"payroll", "confirm"} : mayStart(h, kind)
    /\ \E p \in Payrolls : Start(h, u, [Idle EXCEPT !.payroll = p])

\* Pays USDC.  Its amount is any string; those a payroll could not have are
\* left out.
FullFlowRequest(h, u) ==
    /\ mayStart(h, "fullFlow")
    /\ \E p \in Payrolls :
           p.asset = Usdc /\ Start(h, u, [Idle EXCEPT !.policy = demoPolicy, !.payroll = p])

\* assertValidPolicy: an invalid policy is answered and changes nothing.
PolicyRequest(h, u) ==
    /\ mayStart(h, "policy")
    /\ \E p \in Policies : validPolicy(p) /\ Start(h, u, [Idle EXCEPT !.policy = p])

AllocationRequest(h, u) ==
    /\ mayStart(h, "allocate")
    /\ \E credit \in idsOf("PayrollCredit"), p \in idsOf("PayrollPolicy") \cup {NoContract} :
           Start(h, u, [Idle EXCEPT !.credit = credit, !.policyId = p])

ActionRequest(h, u) ==
    /\ \E kind \in {"approve", "reject", "execute"} : mayStart(h, kind)
    /\ \E action \in idsOf("PendingAction") : Start(h, u, [Idle EXCEPT !.action = action])

-----------------------------------------------------------------------------
(* Steps of a request                                                      *)

At(h, call) == handler[h].todo # <<>> /\ Head(handler[h].todo) = call

\* The request goes on after n calls, with what it remembers then.
Skip(h, n, request) ==
    LET todo == SubSeq(handler[h].todo, n + 1, Len(handler[h].todo)) IN
    handler' = [handler EXCEPT ![h] =
                    IF todo = <<>> THEN Idle ELSE [request EXCEPT !.todo = todo]]

GoOn(h, request) == Skip(h, 1, request)
Proceed(h) == GoOn(h, handler[h])

\* The request is answered with an error.
Finish(h) == handler' = [handler EXCEPT ![h] = Idle]

Counters == <<workload, faults, overlapped, cutOff>>
OnlyLedger == UNCHANGED <<clock, tables, Counters>>
OnlyTables == UNCHANGED <<ledger, clock, Counters>>
Unchanged == UNCHANGED <<ledger, clock, tables, Counters>>

\* The row this request takes for its user is there: foreign keys hold.
hasUser(h) == handler[h].id = userIds[handler[h].user]

getRequiredUser(h) ==
    LET u == handler[h].user IN
    /\ At(h, "getRequiredUser") /\ Unchanged
    /\ IF userIds[u] = 0 THEN Finish(h) ELSE GoOn(h, [handler[h] EXCEPT !.id = userIds[u]])

\* Mutant: ids count the users there are.
UpsertUser_counted(h) ==
    LET u == handler[h].user
        others == {v \in Users : userIds[v] # 0}
    IN  /\ At(h, "upsertUser")
        /\ userIds' = [userIds EXCEPT ![u] = IF @ = 0 THEN Cardinality(others) + 1 ELSE @]
        /\ nextId' = IF nextId > userIds'[u] THEN nextId ELSE userIds'[u] + 1
        /\ GoOn(h, [handler[h] EXCEPT !.id = userIds'[u]])
        /\ OnlyTables /\ UNCHANGED <<policyRows, intents, agentRows, demoParties>>

UpsertUser(h) ==
    LET u == handler[h].user
        id == IF userIds[u] = 0 THEN nextId ELSE userIds[u]
    IN  /\ At(h, "upsertUser")
        /\ userIds' = [userIds EXCEPT ![u] = id]
        /\ nextId' = IF id = nextId THEN nextId + 1 ELSE nextId
        /\ GoOn(h, [handler[h] EXCEPT !.id = id])
        /\ OnlyTables /\ UNCHANGED <<policyRows, intents, agentRows, demoParties>>

\* A row of Canton contracts names its user.
RecordCantonContract(h) ==
    /\ At(h, "record") /\ Unchanged
    /\ IF hasUser(h) THEN Proceed(h) ELSE Finish(h)

ensureDemoParties(h) ==
    /\ At(h, "ensureDemoParties")
    /\ demoParties' = TRUE
    /\ Proceed(h)
    /\ OnlyTables /\ UNCHANGED <<userIds, policyRows, intents, agentRows, nextId>>

\* The profile that is there is taken, and none created.
QueryProfile(h) ==
    /\ At(h, "queryProfile") /\ Unchanged
    /\ IF query(ledger, "UserProfile", handler[h].user) = {} THEN Proceed(h)
       ELSE Skip(h, 2, handler[h])

CreateProfile(h) ==
    /\ At(h, "createProfile") /\ OnlyLedger
    /\ ledger' = createUserProfile(ledger, handler[h].user)
    /\ Proceed(h)

rowsOf(id) == {row \in policyRows : row.user = id}
activeRows(id) == {row \in rowsOf(id) : row.active}

LatestPolicy(h) ==
    LET versions == {row.version : row \in rowsOf(handler[h].id)} \cup {0}
        latest == CHOOSE v \in versions : \A w \in versions : v >= w
    IN  At(h, "latestPolicy") /\ Unchanged /\ GoOn(h, [handler[h] EXCEPT !.version = latest + 1])

Deactivate(h) ==
    LET old == activeRows(handler[h].id) IN
    /\ At(h, "deactivate")
    /\ policyRows' = (policyRows \ old) \cup {[row EXCEPT !.active = FALSE] : row \in old}
    /\ Proceed(h)
    /\ OnlyTables /\ UNCHANGED <<userIds, intents, agentRows, demoParties, nextId>>

CreatePolicy(h) ==
    LET w == handler[h] IN
    /\ At(h, "createPolicy") /\ OnlyLedger
    /\ ledger' = createPayrollPolicy(ledger, w.user, w.policy, w.version)
    /\ GoOn(h, [w EXCEPT !.policyId = newest(ledger'), !.policy = {}])

\* A user row that was deleted meanwhile violates the foreign key.
CachePolicy(h) ==
    LET w == handler[h] IN
    /\ At(h, "cachePolicy")
    /\ IF ~hasUser(h) THEN Finish(h) /\ UNCHANGED <<policyRows, nextId>>
       ELSE /\ policyRows' = policyRows \cup
                   {[nr |-> nextId, user |-> w.id, contract |-> w.policyId, version |-> w.version,
                     active |-> TRUE]}
            /\ nextId' = nextId + 1
            /\ Proceed(h)
    /\ OnlyTables /\ UNCHANGED <<userIds, intents, agentRows, demoParties>>

CreateNotice(h) ==
    /\ At(h, "createNotice") /\ OnlyLedger
    /\ ledger' = createEmployerPayrollNotice(ledger, handler[h].user, handler[h].payroll)
    /\ Proceed(h)

CreateIntent(h) ==
    /\ At(h, "createIntent")
    /\ IF ~hasUser(h) THEN Finish(h) /\ UNCHANGED <<intents, nextId>>
       ELSE /\ intents' = intents \cup
                   {[nr |-> nextId, user |-> handler[h].id, credit |-> NoContract]}
            /\ nextId' = nextId + 1
            /\ GoOn(h, [handler[h] EXCEPT !.intent = nextId])
    /\ OnlyTables /\ UNCHANGED <<userIds, policyRows, agentRows, demoParties>>

ownIntent(h) == {i \in intents : i.nr = handler[h].intent}

named(h, credit) ==
    intents' = (intents \ ownIntent(h)) \cup {[i EXCEPT !.credit = credit] : i \in ownIntent(h)}

\* Every payroll intent lacks a transaction id, so that any other one of the
\* user with a credit passes for the same payment.  SettlementAttestor has
\* the search and the update apart.
FindCredit(h) ==
    LET others == {i \in intents \ ownIntent(h) : i.user = handler[h].id /\ i.credit # NoContract}
    IN  /\ At(h, "findCredit")
        /\ \/ ownIntent(h) = {} /\ Finish(h) /\ UNCHANGED intents
           \/ ownIntent(h) # {} /\ others = {} /\ Proceed(h) /\ UNCHANGED intents
           \/ /\ ownIntent(h) # {}
              /\ \E other \in others :
                    /\ named(h, other.credit)
                    /\ Skip(h, 5, [handler[h] EXCEPT !.credit = other.credit])
        /\ OnlyTables /\ UNCHANGED <<userIds, policyRows, agentRows, demoParties, nextId>>

CreateCredit(h) ==
    /\ At(h, "createCredit") /\ OnlyLedger
    /\ ledger' = createPayrollCredit(ledger, handler[h].user, handler[h].payroll)
    /\ GoOn(h, [handler[h] EXCEPT !.credit = newest(ledger')])

\* getDemoParty brings the demo parties back if they were deleted.
CreateAudit(h) ==
    /\ At(h, "createAudit")
    /\ ledger' = createOperatorAuditEvent(ledger)
    /\ demoParties' = TRUE
    /\ Proceed(h)
    /\ UNCHANGED <<clock, userIds, policyRows, intents, agentRows, nextId, Counters>>

NameCredit(h) ==
    /\ At(h, "nameCredit")
    /\ IF ownIntent(h) = {} THEN Finish(h) ELSE Proceed(h)
    /\ named(h, handler[h].credit)
    /\ OnlyTables /\ UNCHANGED <<userIds, policyRows, agentRows, demoParties, nextId>>

\* runAllocation, before it creates anything.
LoadPolicyAndCredit(h) ==
    LET w == handler[h]
        policyId == IF w.policyId = NoContract THEN getActivePayrollPolicy(ledger, w.user)
                    ELSE w.policyId
    IN  /\ At(h, "loadPolicyAndCredit") /\ Unchanged
        /\ IF /\ found(ledger, "PayrollPolicy", policyId, w.user)
              /\ found(ledger, "PayrollCredit", w.credit, w.user)
           THEN LET credit == payload(ledger, w.credit) IN
                GoOn(h, [w EXCEPT !.policyId = policyId,
                                  !.payroll = [amount |-> credit.amount, asset |-> credit.asset]])
           ELSE Finish(h)

\* Two runs of one millisecond share their run id.
CreateRun(h) ==
    /\ At(h, "createRun")
    /\ clock' \in {clock, clock + 1}
    /\ ledger' = createAllocationRun(ledger, handler[h].user, clock', handler[h].payroll)
    /\ GoOn(h, [handler[h] EXCEPT !.run = newest(ledger'), !.runId = clock'])
    /\ UNCHANGED <<tables, Counters>>

\* A refused exercise leaves the pending run behind.
ExecuteRun(h) ==
    LET w == handler[h] IN
    /\ At(h, "executeRun") /\ OnlyLedger
    /\ IF mayExecuteAllocation(ledger, w.run, w.policyId, w.credit, w.user)
       THEN /\ ledger' = demoExecuteAllocation(ledger, w.run, w.policyId, w.credit, w.user)
            /\ GoOn(h, [w EXCEPT !.run = NoContract, !.credit = NoContract, !.policyId = NoContract])
       ELSE Finish(h) /\ UNCHANGED ledger

\* The full flow approves the first pending action that has its run id.
CollectActions(h) ==
    LET w == handler[h]
        pending == {id \in query(ledger, "PendingAction", w.user) :
                       /\ payload(ledger, id).runId = w.runId
                       /\ payload(ledger, id).status = "Pending"}
    IN  /\ At(h, "collectActions") /\ Unchanged
        /\ IF pending = {} THEN Finish(h)
           ELSE GoOn(h, [w EXCEPT !.action = firstOf(pending),
                                  !.due = {payload(ledger, firstOf(pending)).amount}])

Exercise(h, choice) ==
    LET w == handler[h] IN
    /\ OnlyLedger
    /\ IF mayExercise(ledger, w.action, choice, w.user)
       THEN /\ ledger' = demoExercisePendingAction(ledger, w.action, choice)
            /\ GoOn(h, [w EXCEPT !.action = newest(ledger')])
       ELSE Finish(h) /\ UNCHANGED ledger

ApprovePendingAction(h) == At(h, "approve") /\ Exercise(h, "Approve")
RejectPendingAction(h) == At(h, "reject") /\ Exercise(h, "Reject")
ExecuteApprovedAction(h) == At(h, "executeAction") /\ Exercise(h, "ExecuteApprovedAction")

\* An action that is not found is not refused: see AgentExecution.
GetPendingAction(h) ==
    LET w == handler[h] IN
    /\ At(h, "getPendingAction") /\ Unchanged
    /\ IF /\ found(ledger, "PendingAction", w.action, w.user)
          /\ payload(ledger, w.action).status # "Approved"
       THEN Finish(h) ELSE Proceed(h)

\* The full flow parses the action it approved as a request of the execute
\* route, which an amount of 0 is not.
OpenAgentRow(h) ==
    /\ At(h, "openAgentRow")
    /\ IF hasUser(h) /\ 0 \notin handler[h].due THEN Proceed(h) /\ agentRows' = agentRows \cup {handler[h].id}
       ELSE Finish(h) /\ UNCHANGED agentRows
    /\ OnlyTables /\ UNCHANGED <<userIds, policyRows, intents, demoParties, nextId>>

-----------------------------------------------------------------------------
(* Reset                                                                   *)

FindUser(h) ==
    LET id == userIds[handler[h].user] IN
    /\ At(h, "findUser") /\ Unchanged
    /\ IF id = 0 THEN Skip(h, 5, handler[h]) ELSE GoOn(h, [handler[h] EXCEPT !.id = id])

DeleteRows(h) ==
    LET id == handler[h].id IN
    /\ \/ /\ At(h, "deleteAgentActions")
          /\ agentRows' = agentRows \ {id} /\ UNCHANGED <<intents, policyRows>>
       \/ /\ At(h, "deleteIntents")
          /\ intents' = {i \in intents : i.user # id} /\ UNCHANGED <<agentRows, policyRows>>
       \/ /\ At(h, "deletePolicies")
          /\ policyRows' = policyRows \ rowsOf(id) /\ UNCHANGED <<agentRows, intents>>
    /\ Proceed(h)
    /\ OnlyTables /\ UNCHANGED <<userIds, demoParties, nextId>>

\* Rows another request of the user added meanwhile keep the user; one that
\* is gone already cannot be deleted either.
DeleteUser(h) ==
    LET w == handler[h] IN
    /\ At(h, "deleteUser")
    /\ IF hasUser(h) /\ w.id \notin agentRows /\ rowsOf(w.id) = {}
          /\ \A i \in intents : i.user # w.id
       THEN userIds' = [userIds EXCEPT ![w.user] = 0] /\ Proceed(h)
       ELSE Finish(h) /\ UNCHANGED userIds
    /\ OnlyTables /\ UNCHANGED <<policyRows, intents, agentRows, demoParties, nextId>>

DeleteDemoParties(h) ==
    /\ At(h, "deleteDemoParties")
    /\ demoParties' = FALSE
    /\ Proceed(h)
    /\ OnlyTables /\ UNCHANGED <<userIds, policyRows, intents, agentRows, nextId>>

\* The ledger of every user.
ResetLedger(h) ==
    /\ At(h, "resetLedger") /\ OnlyLedger
    /\ ledger' = EmptyLedger
    /\ Proceed(h)

-----------------------------------------------------------------------------
(* Faults                                                                  *)

Fault == faults < MaxFaults /\ faults' = faults + 1

\* A call rejects.
Fail(h) ==
    /\ handler[h] # Idle /\ Fault
    /\ Finish(h)
    /\ cutOff' = cutOff \cup {handler[h].user}
    /\ UNCHANGED <<ledger, clock, tables, workload, overlapped>>

\* The server restarts: requests and ledger are lost.
Restart ==
    /\ Fault
    /\ ledger' = EmptyLedger
    /\ handler' = [h \in Handlers |-> Idle]
    /\ cutOff' = cutOff \cup {u \in Users : serving(u) # {}}
    /\ UNCHANGED <<clock, tables, workload, overlapped>>

Step(h) ==
    \/ getRequiredUser(h) \/ UpsertUser(h) \/ ensureDemoParties(h) \/ RecordCantonContract(h)
    \/ QueryProfile(h) \/ CreateProfile(h)
    \/ LatestPolicy(h) \/ Deactivate(h) \/ CreatePolicy(h) \/ CachePolicy(h)
    \/ CreateNotice(h) \/ CreateIntent(h) \/ FindCredit(h) \/ CreateCredit(h)
    \/ CreateAudit(h) \/ NameCredit(h)
    \/ LoadPolicyAndCredit(h) \/ CreateRun(h) \/ ExecuteRun(h) \/ CollectActions(h)
    \/ ApprovePendingAction(h) \/ RejectPendingAction(h)
    \/ GetPendingAction(h) \/ OpenAgentRow(h) \/ ExecuteApprovedAction(h)
    \/ FindUser(h) \/ DeleteRows(h) \/ DeleteUser(h) \/ DeleteDemoParties(h) \/ ResetLedger(h)

Request(h, u) ==
    \/ SimpleRequest(h, u) \/ PayrollRequest(h, u) \/ FullFlowRequest(h, u)
    \/ PolicyRequest(h, u) \/ AllocationRequest(h, u) \/ ActionRequest(h, u)

Next ==
    \/ \E h \in Handlers : Step(h) \/ Fail(h) \/ \E u \in Users : Request(h, u)
    \/ Restart

Spec == Init /\ [][Next]_vars

-----------------------------------------------------------------------------
(* Properties                                                              *)

\* The tables hold rows of users that have a row themselves, and what a
\* request remembers has its type.
keys == {userIds[u] : u \in Users} \ {0}

TypeOK ==
    /\ \A i \in DOMAIN ledger :
           /\ ledger[i].template \in ViewTemplates \cup {"UserProfile"}
           /\ ledger[i].live \in BOOLEAN
           /\ ledger[i].template # "OperatorAuditEvent" => ledger[i].payload.user \in Users
    /\ clock \in Nat /\ demoParties \in BOOLEAN /\ nextId \in Nat
    /\ userIds \in [Users -> 0..(nextId - 1)]
    /\ \A row \in policyRows : row.user \in keys /\ row.version \in Nat \ {0}
    /\ \A i \in intents : i.user \in keys
    /\ agentRows \subseteq keys
    /\ \A u, v \in Users : userIds[u] = userIds[v] /\ u # v => userIds[u] = 0
    /\ \A h \in Handlers : (handler[h].user = NoUser) <=> (handler[h] = Idle)

live(template, u) ==
    {i \in DOMAIN ledger :
        /\ ledger[i].template = template /\ ledger[i].live /\ ledger[i].payload.user = u}

\* An executed action with nothing to pay or invest on Canton.
leavesNothing(action) ==
    /\ action.category.type = "ExternalPayment" => action.category.recipient = NoParty
    /\ action.category.type = "PortfolioAllocation" => ~action.category.target

\* A payment at once to an address outside Canton leaves no contract.
untraced(lines) ==
    LET leaves(line) == line.bucket = "immediatePayments" /\ line.category.recipient = NoParty IN
    SumOver([k \in DOMAIN lines |-> IF leaves(lines[k]) THEN lines[k].amount ELSE 0])

\* What the lines of an executed run are short of its credit.
lost(run) ==
    IF run.lines = <<>> THEN 0
    ELSE run.amount - SumOver([k \in DOMAIN run.lines |-> run.lines[k].amount])

\* No more than the asset's precision and that of amounts explain.
lostLittle(run) ==
    IF run.asset.finer = 1 THEN lost(run) \in 0..(run.asset.dust - 1)
    ELSE 2 * lost(run) \in (-Len(run.lines))..Len(run.lines)

\* What a contract holds of the allocated credits, which count against it.
worth(c) ==
    CASE c.template \in {"CategoryBalance", "PaymentReceipt", "PortfolioAllocation"} ->
            c.payload.amount
      [] c.template = "PendingAction" ->
            IF c.payload.status = "Executed" /\ ~leavesNothing(c.payload) THEN 0
            ELSE c.payload.amount
      [] c.template = "AllocationRun" -> untraced(c.payload.lines) + lost(c.payload)
      [] c.template = "PayrollCredit" /\ c.payload.allocated -> -c.payload.amount
      [] OTHER -> 0

\* The contracts of a user that count: those alive, and every run, also one
\* that was archived by a request that took its id for that of its own run,
\* on a ledger that was reset meanwhile.
counts(c, u) ==
    /\ c.live \/ c.template = "AllocationRun"
    /\ c.template # "OperatorAuditEvent" /\ c.payload.user = u

\* Whatever allocations, decisions and executions are asked for, at once or
\* again and with ids of any contract: the credits a user had allocated are
\* in one place each, held, waiting, paid or invested, but for what each run
\* lost: less than a unit of an asset of fewer than six decimals, and up to
\* half of 10^-6 for every line, either way, of one of more.
LedgerConserves ==
    \A u \in Users :
        /\ SumOver([i \in DOMAIN ledger |->
                       IF counts(ledger[i], u) THEN worth(ledger[i]) ELSE 0]) = 0
        /\ \A i \in DOMAIN ledger :
               ledger[i].template = "AllocationRun" => lostLittle(ledger[i].payload)

ahead(h, call) == \E k \in DOMAIN handler[h].todo : handler[h].todo[k] = call

saving(u) ==
    \E h \in serving(u) :
        ahead(h, "cachePolicy") /\ ~ahead(h, "deactivate")

\* A user who has saved policies has an active one, however saves overlap
\* with each other and with resets, unless a save was cut off half way.
UserKeepsPolicy ==
    \A u \in Users \ cutOff :
        rowsOf(userIds[u]) # {} /\ ~saving(u) => activeRows(userIds[u]) # {}

\* For a user whose requests came one after the other and were answered,
\* through restarts and resets of others: one profile, one active policy,
\* and the policy an allocation finds on the ledger is that one.
SerialUserConsistent ==
    \A u \in Users \ (overlapped \cup cutOff) :
        /\ Cardinality(live("UserProfile", u)) <= 1
        /\ Cardinality(activeRows(userIds[u])) <= 1
        /\ LET policy == getActivePayrollPolicy(ledger, u) IN
           policy # NoContract /\ serving(u) = {} =>
               \E row \in activeRows(userIds[u]) :
                   row.contract = policy /\ row.version = payload(ledger, policy).version

\* What v sees is as before, but for receipts of payments u made to v.
undisturbed(u, v) ==
    /\ dashboard(ledger', v) = dashboard(ledger, v)
    /\ \A t \in ViewTemplates :
           LET before == partyView(ledger, v)[t]
               after == partyView(ledger', v)[t]
           IN  /\ before \subseteq after
               /\ \A c \in after \ before :
                      t = "PaymentReceipt" /\ c[2].user = u /\ c[2].recipient = v

\* A request takes away and changes nothing that another user sees, and adds
\* nothing but payments to that user, whichever ids it names: also ids of a
\* ledger that was lost, which others have got again.  Only a reset takes the
\* others' contracts away.
OthersUndisturbed ==
    [][\A h \in Handlers :
           /\ handler'[h] # handler[h] /\ ledger' # ledger
           /\ ~At(h, "resetLedger") /\ faults' = faults
           => \A v \in Users \ {handler[h].user} : undisturbed(handler[h].user, v)]_vars
=============================================================================
