------------------------------ MODULE DemoLedger ------------------------------
(***************************************************************************)
(* The demo ledger of the Canton client: the second implementation of the  *)
(* Daml templates, in the memory of the web server.  A ledger is the       *)
(* sequence of the contracts ever created, `live` until they are archived. *)
(* A contract id is the template and the value of the counter at creation, *)
(* so a fresh ledger hands out the ids of the one before it again.         *)
(*                                                                         *)
(* Operators only: each takes a ledger and gives an answer or the next     *)
(* ledger.  Amounts are whole numbers of 10^-6, the precision of the API   *)
(* and of the amounts in contracts; an asset stands for its precision (see *)
(* AllocationEngine).  A category stands for its label; times, hashes and  *)
(* reasons are left out.  The client has no package id, with which it      *)
(* would not find the contracts an exercise created.                       *)
(***************************************************************************)
EXTENDS Sums, Integers, Sequences

CONSTANTS
    Parties,    \* Canton parties, those of users and any a policy may name
    RoundedUp   \* amounts whose successor a half above them is rounded to

Employer == "preo-demo-employer"
Recipient == "preo-demo-recipient"
Operator == "preo-demo-operator"
OtherUser == "preo-demo-other-user"

\* A category without a recipient on Canton.
NoParty == ""

\* An asset of six decimals.
Usdc == [dust |-> 1, finer |-> 1]

\* The engine's operators for policy p and the credit [amount, asset], when
\* `out` is given out and the categories `seen` are checked.  The client
\* passes no newRecipients.
Engine(p, credit, out, seen) == INSTANCE AllocationEngine WITH
    policy <- p, amount <- credit.amount, asset <- credit.asset, allocated <- out, ids <- seen,
    newRecipients <- {}, pc <- "allocate", totalBps <- 0, ok <- TRUE, running <- <<>>,
    lines <- <<>>, plan <- <<>>, Policies <- {p}, Amounts <- {credit.amount},
    Assets <- {credit.asset}, NewRecipients <- {{}}

NoPayroll == [amount |-> 0, asset |-> Usdc]

\* The shape a submitted policy has, for the engine, and a payroll.
PolicyForm ==
    [categories : Seq(Engine(<<>>, NoPayroll, 0, {})!Category),
     rules : Seq(Engine(<<>>, NoPayroll, 0, {})!Rule)]
PayrollForm ==
    {p \in [amount : Nat, asset : Engine(<<>>, NoPayroll, 0, {})!Asset] :
        p.asset.dust = 1 \/ p.asset.finer = 1}

EmptyLedger == <<>>
NoContract == <<"none", 0>>

-----------------------------------------------------------------------------
(* Contracts and who sees them                                             *)

demoCreate(l, template, payload) ==
    Append(l, [template |-> template, payload |-> payload, live |-> TRUE])

archive(l, id) == [l EXCEPT ![id[2]].live = FALSE]

\* The id of the contract created last.
newest(l) == <<l[Len(l)].template, Len(l)>>

visibleTo(c, party) ==
    CASE c.template = "EmployerPayrollNotice" -> party \in {c.payload.employer, c.payload.user}
      [] c.template = "PaymentReceipt" -> party \in {c.payload.user, c.payload.recipient}
      [] c.template = "OperatorAuditEvent" -> party = Operator
      [] OTHER -> party = c.payload.user

\* fetchById answers a contract and not null; demoExercise finds it.
found(l, template, id, party) ==
    /\ id[1] = template /\ id[2] \in DOMAIN l
    /\ l[id[2]].template = template /\ l[id[2]].live
    /\ visibleTo(l[id[2]], party)

payload(l, id) == l[id[2]].payload

query(l, template, party) ==
    {id \in {<<template, i>> : i \in DOMAIN l} : found(l, template, id, party)}

\* The first of a set of ids, in the order of creation.
firstOf(ids) == CHOOSE id \in ids : \A other \in ids : id[2] <= other[2]

\* Mutant: the oldest policy and not the one with the highest version.
getActivePayrollPolicy_oldest(l, user) ==
    LET policies == query(l, "PayrollPolicy", user) IN
    IF policies = {} THEN NoContract ELSE firstOf(policies)

\* Every policy on the ledger is active; the sort by version is stable.
getActivePayrollPolicy(l, user) ==
    LET policies == query(l, "PayrollPolicy", user)
        latest == {p \in policies : \A q \in policies :
                        payload(l, p).version >= payload(l, q).version}
    IN  IF policies = {} THEN NoContract ELSE firstOf(latest)

contractsSeen(l, template, user) ==
    {<<id, payload(l, id)>> : id \in query(l, template, user)}

dashboard(l, user) ==
    [activePolicy |-> getActivePayrollPolicy(l, user),
     payrollCredits |-> contractsSeen(l, "PayrollCredit", user),
     allocationRuns |-> contractsSeen(l, "AllocationRun", user),
     categoryBalances |-> contractsSeen(l, "CategoryBalance", user),
     pendingApprovals |-> contractsSeen(l, "PendingAction", user),
     payments |-> {c \in contractsSeen(l, "PaymentReceipt", user) : c[2].user = user},
     portfolioAllocations |-> contractsSeen(l, "PortfolioAllocation", user)]

ViewTemplates == {"EmployerPayrollNotice", "PaymentReceipt", "PayrollPolicy", "PayrollCredit",
                  "AllocationRun", "CategoryBalance", "PendingAction", "PortfolioAllocation",
                  "OperatorAuditEvent"}

partyView(l, party) == [t \in ViewTemplates |-> contractsSeen(l, t, party)]

-----------------------------------------------------------------------------
(* Creating                                                                *)

createUserProfile(l, user) == demoCreate(l, "UserProfile", [user |-> user])

createPayrollPolicy(l, user, policy, version) ==
    demoCreate(l, "PayrollPolicy", [user |-> user, policy |-> policy, version |-> version])

createEmployerPayrollNotice(l, employee, payroll) ==
    demoCreate(l, "EmployerPayrollNotice",
               [employer |-> Employer, user |-> employee, amount |-> payroll.amount,
                asset |-> payroll.asset])

createPayrollCredit(l, user, payroll) ==
    demoCreate(l, "PayrollCredit",
               [user |-> user, amount |-> payroll.amount, asset |-> payroll.asset,
                allocated |-> FALSE])

createOperatorAuditEvent(l) == demoCreate(l, "OperatorAuditEvent", [operator |-> Operator])

createAllocationRun(l, user, runId, payroll) ==
    demoCreate(l, "AllocationRun",
               [user |-> user, runId |-> runId, amount |-> payroll.amount,
                asset |-> payroll.asset, status |-> "AllocationPending", lines |-> <<>>])

-----------------------------------------------------------------------------
(* Exercising                                                              *)

validPolicy(p) ==
    LET seen(i) == {p.categories[j].id : j \in 1..(i - 1)} IN
    /\ p.categories # <<>>
    /\ SumOver([i \in DOMAIN p.categories |-> p.categories[i].bps]) = 10000
    /\ \A i \in DOMAIN p.categories : Engine(p, NoPayroll, 0, seen(i))!validCategory(p.categories[i])
    /\ Engine(p, NoPayroll, 0, {})!validRules(p.rules)

\* The units of an asset as an amount of a contract: toFixed(6) rounds those
\* of a finer asset to the nearest, and a half as the double of it lies above
\* or below.
formatAmount(units, asset) ==
    LET scaled == units * asset.dust
        whole == scaled \div asset.finer
        rest == 2 * (scaled % asset.finer)
        up == rest > asset.finer \/ (rest = asset.finer /\ whole \in RoundedUp)
    IN  IF up THEN whole + 1 ELSE whole

\* The lines of a plan with their buckets.  A threshold is compared with the
\* units, not with the rounded amount.
buildAllocationPlan(p, credit) ==
    LET n == Len(p.categories)
        share(i) == Engine(p, credit, 0, {})!share(i)
        out == SumOver([i \in 1..(n - 1) |-> share(i)])
    IN  [i \in 1..n |->
            LET c == p.categories[i]
                units == Engine(p, credit, out, {})!allocateAtomic(i)
                gated == Engine(p, credit, out, {})!requiresApproval(c, units)
            IN  [category |-> c, amount |-> formatAmount(units, credit.asset),
                 bucket |-> IF gated THEN "pendingActions"
                            ELSE Engine(p, credit, out, {})!bucketOf(c.type)]]

released(user, runId, category, amount) ==
    [user |-> user, runId |-> runId, category |-> category.id, amount |-> amount]

createReceipt(l, user, runId, category, amount) ==
    demoCreate(l, "PaymentReceipt",
               [user |-> user, runId |-> runId, category |-> category.id, amount |-> amount,
                recipient |-> category.recipient])

createPortfolio(l, user, runId, category, amount) ==
    demoCreate(l, "PortfolioAllocation", released(user, runId, category, amount))

\* A payment at once leaves a receipt only if it has a recipient on Canton.
createLine(l, user, runId, line) ==
    CASE line.bucket \in {"immediateInternalBalances", "manualHolds"} ->
            demoCreate(l, "CategoryBalance", released(user, runId, line.category, line.amount))
      [] line.bucket = "pendingActions" ->
            demoCreate(l, "PendingAction",
                       [user |-> user, runId |-> runId, category |-> line.category,
                        amount |-> line.amount, status |-> "Pending"])
      [] line.bucket = "immediatePayments" ->
            IF line.category.recipient # NoParty
            THEN createReceipt(l, user, runId, line.category, line.amount) ELSE l
      [] line.bucket = "immediatePortfolioAllocations" ->
            createPortfolio(l, user, runId, line.category, line.amount)

\* One loop of demoExecuteAllocation: the lines of one bucket, in their order.
loop(l, user, runId, plan, bucket) ==
    LET made[k \in 0..Len(plan)] ==
            IF k = 0 THEN l
            ELSE IF plan[k].bucket = bucket
                 THEN createLine(made[k - 1], user, runId, plan[k]) ELSE made[k - 1]
    IN  made[Len(plan)]

createLines(l, user, runId, plan) ==
    LET kept == loop(l, user, runId, plan, "immediateInternalBalances")
        held == loop(kept, user, runId, plan, "manualHolds")
        asked == loop(held, user, runId, plan, "pendingActions")
        paid == loop(asked, user, runId, plan, "immediatePayments")
    IN  loop(paid, user, runId, plan, "immediatePortfolioAllocations")

\* Mutant: the credit is not looked at.
mayExecuteAllocation_anyCredit(l, run, policyId, creditId, user) ==
    /\ found(l, "AllocationRun", run, user)
    /\ creditId[2] \in DOMAIN l /\ l[creditId[2]].template = creditId[1]
    /\ policyId[2] \in DOMAIN l /\ l[policyId[2]].live

\* The checks before anything is created.
mayExecuteAllocation(l, run, policyId, creditId, user) ==
    /\ found(l, "AllocationRun", run, user)
    /\ \A id \in {policyId, creditId} :
           /\ id[2] \in DOMAIN l /\ l[id[2]].template = id[1] /\ l[id[2]].live
           /\ payload(l, id).user = user
    /\ ~payload(l, creditId).allocated
    /\ validPolicy(payload(l, policyId).policy)

demoExecuteAllocation(l, run, policyId, creditId, user) ==
    LET credit == payload(l, creditId)
        runId == payload(l, run).runId
        plan == buildAllocationPlan(payload(l, policyId).policy, credit)
        gated == \E i \in DOMAIN plan : plan[i].bucket = "pendingActions"
        spent == demoCreate(archive(createLines(l, user, runId, plan), creditId),
                            "PayrollCredit", [credit EXCEPT !.allocated = TRUE])
    IN  demoCreate(archive(spent, run), "AllocationRun",
                   [user |-> user, runId |-> runId, amount |-> credit.amount,
                    asset |-> credit.asset, lines |-> plan,
                    status |-> IF gated THEN "AllocationPartiallyPendingApproval"
                               ELSE "AllocationExecuted"])

statusFor == [Approve |-> "Pending", Reject |-> "Pending", ExecuteApprovedAction |-> "Approved"]
statusAfter == [Approve |-> "Approved", Reject |-> "Rejected", ExecuteApprovedAction |-> "Executed"]

\* Mutant: it is not asked whose action it is.
mayExercise_anyUser(l, id, choice, user) ==
    /\ id[2] \in DOMAIN l /\ l[id[2]].template = "PendingAction" /\ l[id[2]].live
    /\ payload(l, id).status = statusFor[choice]

mayExercise(l, id, choice, user) ==
    /\ found(l, "PendingAction", id, user)
    /\ payload(l, id).status = statusFor[choice]

\* What ExecuteApprovedAction creates before it archives the action.
releaseAction(l, action) ==
    CASE action.category.type = "ExternalPayment" /\ action.category.recipient # NoParty ->
            createReceipt(l, action.user, action.runId, action.category, action.amount)
      [] action.category.type = "PortfolioAllocation" /\ action.category.target ->
            createPortfolio(l, action.user, action.runId, action.category, action.amount)
      [] OTHER -> l

demoExercisePendingAction(l, id, choice) ==
    LET action == payload(l, id)
        after == IF choice = "ExecuteApprovedAction" THEN releaseAction(l, action) ELSE l
    IN  demoCreate(archive(after, id), "PendingAction",
                   [action EXCEPT !.status = statusAfter[choice]])
=============================================================================
