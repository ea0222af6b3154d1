---------------------------- MODULE PayrollLedger ----------------------------
(***************************************************************************)
(* The Daml ledger of Preo (src/daml/Preo): payroll notices and credits,   *)
(* policies, allocation runs, and what a run leaves behind - category      *)
(* balances, approval-gated pending actions, payment receipts, portfolio   *)
(* records.                                                                *)
(*                                                                         *)
(* The state is the set of active contracts of each template.  Every       *)
(* choice of the code is `nonconsuming` and ends in an explicit            *)
(* `archive self` and `create this with ...`: Replace below.  A contract   *)
(* id is <<transaction, node>>, where node tells apart the contracts one   *)
(* transaction creates in a template: the index of the category rule for   *)
(* the artifacts of an allocation, 0 elsewhere.                            *)
(*                                                                         *)
(* Three pieces of state are history, read by properties and never by a    *)
(* guard: `root` (the first contract id of an archive-and-create chain),   *)
(* `line` (<<transaction, rule index>> of the allocation line an artifact  *)
(* stands for) and the variable `allocations`.                             *)
(*                                                                         *)
(* Amounts: a payroll amount is a whole number of 10^-6 asset units, the   *)
(* precision the API accepts.  amount * bps / 10000 of such a number is    *)
(* exact in Daml's ten-digit Decimal, so artifact amounts are whole        *)
(* numbers of 10^-10 units.                                                *)
(***************************************************************************)
EXTENDS Sums, Integers, Sequences, FiniteSets

CONSTANTS
    Users,          \* parties that own a policy and receive payroll
    Employers,      \* parties that issue payroll notices
    Recipients,     \* parties a category rule may pay
    NoParty,        \* None : Optional Party
    Amounts,        \* payroll amounts, in 10^-6 units
    PolicyForms,    \* [categories, approvalRules] pairs a user may submit
    RunIds,         \* run identifiers the client may choose
    Adjustments,    \* amounts of IncreaseBalance and DecreaseBalance
    Labels,         \* labels RenameCategory may set
    MaxTx           \* bound: committed transactions of a behaviour

ASSUME AmountsAssumption == Amounts \subseteq Nat \ {0}
ASSUME AdjustmentsAssumption == Adjustments \subseteq Int
ASSUME LabelsAssumption == Labels \subseteq STRING
ASSUME NoPartyAssumption == NoParty \notin Recipients
ASSUME MaxTxAssumption == MaxTx \in Nat

CategoryTypes == {"InternalReserve", "ExternalPayment", "PortfolioAllocation", "ManualHold"}
ActionTypes == {"ActionExternalPayment", "ActionPortfolioAllocation",
                "ActionExternalWithdrawal", "ActionPolicyChange", "ActionNewRecipient",
                "ActionLargeTransfer"}

\* portfolioTarget and externalAddress matter only by being present or not;
\* the label, which like the id must not be empty, is left out.
CategoryRule ==
    [categoryId : STRING, percentageBps : Int, categoryType : CategoryTypes,
     recipient : Recipients \cup {NoParty}, externalAddress : BOOLEAN,
     portfolioTarget : BOOLEAN, requiresApproval : BOOLEAN]

\* The enabled rules only.  A threshold of 0 and appliesTo "" stand for None.
ApprovalRule ==
    [actionType : ActionTypes, thresholdAmount : Nat, appliesTo : STRING]

ASSUME PolicyFormsAssumption ==
    PolicyForms \subseteq [categories : Seq(CategoryRule), approvalRules : SUBSET ApprovalRule]

VARIABLES
    tx,             \* number of the next transaction
    notices,        \* active EmployerPayrollNotice contracts
    credits,        \* active PayrollCredit contracts
    policies,       \* active PayrollPolicy contracts
    runs,           \* active AllocationRun contracts
    balances,       \* active CategoryBalance contracts
    actions,        \* active PendingAction contracts
    receipts,       \* active PaymentReceipt contracts
    portfolios,     \* active PortfolioAllocation contracts
    allocations     \* history: the committed ExecuteAllocation choices

vars == <<tx, notices, credits, policies, runs, balances, actions, receipts,
          portfolios, allocations>>

-----------------------------------------------------------------------------
Cid == Nat \X Nat
Here == <<tx, 0>>                   \* the contract id of a single create

Commit == tx <= MaxTx /\ tx' = tx + 1

\* Mutant: the choice forgets `archive self`.
Replace_keepsOld(S, old, new) == S \cup {new}

\* `archive self` followed by `create this with ...`.
Replace(S, old, new) == (S \ {old}) \cup {new}

Init ==
    /\ tx = 1
    /\ notices = {} /\ credits = {} /\ policies = {} /\ runs = {}
    /\ balances = {} /\ actions = {} /\ receipts = {} /\ portfolios = {}
    /\ allocations = {}

-----------------------------------------------------------------------------
(* Preo.Policy                                                             *)

validateCategory(rule) ==
    /\ rule.categoryId # "" /\ rule.percentageBps >= 0
    /\ rule.categoryType = "ExternalPayment" =>
           rule.recipient # NoParty \/ rule.externalAddress
    /\ rule.categoryType = "PortfolioAllocation" => rule.portfolioTarget

\* Mutant: the sum of the percentages is not checked.
validatePolicyCategories_anySum(categories) ==
    categories # <<>> /\ \A i \in DOMAIN categories : validateCategory(categories[i])

validatePolicyCategories(categories) ==
    /\ categories # <<>>
    /\ \A i \in DOMAIN categories : validateCategory(categories[i])
    /\ SumOver([i \in DOMAIN categories |-> categories[i].percentageBps]) = 10000

\* The create command validates nothing but the policy name.
CreatePolicy(u, form) ==
    /\ Commit
    /\ policies' = policies \cup
           {[cid |-> Here, root |-> Here, user |-> u, categories |-> form.categories,
             approvalRules |-> form.approvalRules, version |-> 1, active |-> TRUE]}
    /\ UNCHANGED <<notices, credits, runs, balances, actions, receipts, portfolios, allocations>>

UpdatePolicy(p, form) ==
    /\ Commit
    /\ validatePolicyCategories(form.categories)
    /\ policies' = Replace(policies, p,
           [p EXCEPT !.cid = Here, !.categories = form.categories,
                     !.approvalRules = form.approvalRules,
                     !.version = p.version + 1, !.active = TRUE])
    /\ UNCHANGED <<notices, credits, runs, balances, actions, receipts, portfolios, allocations>>

DeactivatePolicy(p) ==
    /\ Commit
    /\ policies' = Replace(policies, p, [p EXCEPT !.cid = Here, !.active = FALSE])
    /\ UNCHANGED <<notices, credits, runs, balances, actions, receipts, portfolios, allocations>>

-----------------------------------------------------------------------------
(* Preo.Payroll                                                            *)

CreateNotice(e, u, amount) ==
    /\ Commit
    /\ notices' = notices \cup {[cid |-> Here, employer |-> e, employee |-> u, grossAmount |-> amount]}
    /\ UNCHANGED <<credits, policies, runs, balances, actions, receipts, portfolios, allocations>>

NewCredit(u, amount, notice) ==
    [cid |-> Here, root |-> Here, user |-> u, amount |-> amount, notice |-> notice,
     allocated |-> FALSE]

\* The settlement attestor creates the credit itself, acting as the user.
CreateCredit(u, amount) ==
    /\ Commit
    /\ credits' = credits \cup {NewCredit(u, amount, <<0, 0>>)}
    /\ UNCHANGED <<notices, policies, runs, balances, actions, receipts, portfolios, allocations>>

\* The notice is not archived: it stays active.
ConfirmReceived(n) ==
    /\ Commit
    /\ credits' = credits \cup {NewCredit(n.employee, n.grossAmount, n.cid)}
    /\ UNCHANGED <<notices, policies, runs, balances, actions, receipts, portfolios, allocations>>

\* Mutant: the credit is replaced by an identical one.
MarkAllocated_unmarked(S, c) == Replace(S, c, [c EXCEPT !.cid = Here])

MarkAllocated(S, c) == Replace(S, c, [c EXCEPT !.cid = Here, !.allocated = TRUE])

\* The choice exercised on its own: a credit taken out of use unallocated.
MarkUnused(c) ==
    /\ ~c.allocated
    /\ Commit
    /\ credits' = MarkAllocated(credits, c)
    /\ UNCHANGED <<notices, policies, runs, balances, actions, receipts, portfolios, allocations>>

-----------------------------------------------------------------------------
(* Preo.Allocation: the run                                                *)

\* runAllocation of the client creates the run and executes it as two commands.
CreateRun(p, c, runId) ==
    /\ Commit
    /\ p.user = c.user
    /\ runs' = runs \cup
           {[cid |-> Here, root |-> Here, user |-> c.user, runId |-> runId,
             policyVersion |-> p.version, payrollAmount |-> c.amount, lines |-> <<>>,
             status |-> "AllocationPending"]}
    /\ UNCHANGED <<notices, credits, policies, balances, actions, receipts, portfolios, allocations>>

allocationAmount(payrollAmount, percentageBps) == payrollAmount * percentageBps

ruleToLine(payrollAmount, rule) ==
    [categoryId |-> rule.categoryId,
     amount |-> allocationAmount(payrollAmount, rule.percentageBps),
     requiresApproval |-> rule.requiresApproval]

\* Mutant: an external payment is filed as a withdrawal.
categoryActionType_swapped(categoryType) ==
    CASE categoryType \in {"ExternalPayment", "ManualHold"} -> "ActionExternalWithdrawal"
      [] categoryType = "PortfolioAllocation" -> "ActionPortfolioAllocation"
      [] categoryType = "InternalReserve" -> "ActionLargeTransfer"

categoryActionType(categoryType) ==
    CASE categoryType = "ExternalPayment" -> "ActionExternalPayment"
      [] categoryType = "PortfolioAllocation" -> "ActionPortfolioAllocation"
      [] categoryType = "InternalReserve" -> "ActionLargeTransfer"
      [] categoryType = "ManualHold" -> "ActionExternalWithdrawal"

\* Which contract a rule's line turns into once nothing holds it back.
Pays(kind, recipient) == kind = "ExternalPayment" /\ recipient # NoParty
Invests(kind, target) == kind = "PortfolioAllocation" /\ target

gated(rules) == {i \in DOMAIN rules : rules[i].requiresApproval}
\* Mutant: the else-branch is lost, a gated line is paid at once as well.
paidAtOnce_always(rules) == {i \in DOMAIN rules : Pays(rules[i].categoryType, rules[i].recipient)}

paidAtOnce(rules) == {i \in DOMAIN rules \ gated(rules) :
                        Pays(rules[i].categoryType, rules[i].recipient)}
investedAtOnce(rules) == {i \in DOMAIN rules \ gated(rules) :
                        Invests(rules[i].categoryType, rules[i].portfolioTarget)}

\* The `ensure amount > 0.0` of the contracts the allocation creates; one
\* failure aborts the transaction.  (A CategoryBalance may be 0.)
EnsuresHold(amount, rules) ==
    \A i \in gated(rules) \cup paidAtOnce(rules) \cup investedAtOnce(rules) :
        allocationAmount(amount, rules[i].percentageBps) > 0

newBalance(u, runId, amount, rules, i) ==
    [cid |-> <<tx, i>>, line |-> <<tx, i>>, user |-> u, runId |-> runId,
     label |-> rules[i].categoryId, archived |-> FALSE,
     balance |-> allocationAmount(amount, rules[i].percentageBps)]

newAction(u, amount, rules, i) ==
    [cid |-> <<tx, i>>, line |-> <<tx, i>>, user |-> u,
     actionType |-> categoryActionType(rules[i].categoryType),
     amount |-> allocationAmount(amount, rules[i].percentageBps),
     recipient |-> rules[i].recipient, portfolioTarget |-> rules[i].portfolioTarget,
     status |-> "Pending"]

newReceipt(cid, line, u, recipient, amount, runId) ==
    [cid |-> cid, line |-> line, payer |-> u, recipient |-> recipient,
     amount |-> amount, runId |-> runId, acknowledged |-> FALSE]

newPortfolio(cid, line, u, amount, runId) ==
    [cid |-> cid, line |-> line, user |-> u, amount |-> amount, runId |-> runId,
     archived |-> FALSE]

\* Mutant: the owner of the credit is not compared.
mayAllocate_anyOwner(r, p, c) ==
    p.user = r.user /\ p.active /\ ~c.allocated /\ validatePolicyCategories(p.categories)

\* The fetches and assertions of ExecuteAllocation.  None looks at the status
\* of the run the choice is exercised on.
mayAllocate(r, p, c) ==
    /\ p.user = r.user
    /\ c.user = r.user
    /\ p.active
    /\ ~c.allocated
    /\ validatePolicyCategories(p.categories)

ExecuteAllocation(r, p, c) ==
    LET rules == p.categories
        share(i) == allocationAmount(c.amount, rules[i].percentageBps)
    IN
    /\ Commit
    /\ mayAllocate(r, p, c)
    /\ EnsuresHold(c.amount, rules)
    /\ balances' = balances \cup
           {newBalance(r.user, r.runId, c.amount, rules, i) : i \in DOMAIN rules}
    /\ actions' = actions \cup {newAction(r.user, c.amount, rules, i) : i \in gated(rules)}
    /\ receipts' = receipts \cup
           {newReceipt(<<tx, i>>, <<tx, i>>, r.user, rules[i].recipient, share(i), r.runId) :
                i \in paidAtOnce(rules)}
    /\ portfolios' = portfolios \cup
           {newPortfolio(<<tx, i>>, <<tx, i>>, r.user, share(i), r.runId) :
                i \in investedAtOnce(rules)}
    /\ credits' = MarkAllocated(credits, c)
    /\ runs' = Replace(runs, r,
           [r EXCEPT !.cid = Here, !.policyVersion = p.version, !.payrollAmount = c.amount,
                     !.lines = [i \in DOMAIN rules |-> ruleToLine(c.amount, rules[i])],
                     !.status = IF gated(rules) # {} THEN "AllocationPartiallyPendingApproval"
                                                     ELSE "AllocationExecuted"])
    /\ allocations' = allocations \cup
           {[at |-> tx, credit |-> c.root, run |-> r.root, amount |-> c.amount,
             rules |-> rules, approvalRules |-> p.approvalRules]}
    /\ UNCHANGED <<notices, policies>>

-----------------------------------------------------------------------------
(* Preo.Allocation: pending actions                                        *)

Approve(a) ==
    /\ Commit
    /\ a.status = "Pending"
    /\ actions' = Replace(actions, a, [a EXCEPT !.cid = Here, !.status = "Approved"])
    /\ UNCHANGED <<notices, credits, policies, runs, balances, receipts, portfolios, allocations>>

\* Mutant: an action that was approved can still be rejected.
Reject_afterApproval(a) ==
    /\ Commit
    /\ a.status \in {"Pending", "Approved"}
    /\ actions' = Replace(actions, a, [a EXCEPT !.cid = Here, !.status = "Rejected"])
    /\ UNCHANGED <<notices, credits, policies, runs, balances, receipts, portfolios, allocations>>

Reject(a) ==
    /\ Commit
    /\ a.status = "Pending"
    /\ actions' = Replace(actions, a, [a EXCEPT !.cid = Here, !.status = "Rejected"])
    /\ UNCHANGED <<notices, credits, policies, runs, balances, receipts, portfolios, allocations>>

releasesPayment(a) == a.actionType = "ActionExternalPayment" /\ a.recipient # NoParty
releasesPortfolio(a) == a.actionType = "ActionPortfolioAllocation" /\ a.portfolioTarget

\* Mutant: the status of the action is not asserted.
ExecuteApprovedAction_unapproved(a, runId) ==
    /\ Commit
    /\ receipts' = receipts \cup
           (IF releasesPayment(a)
            THEN {newReceipt(Here, a.line, a.user, a.recipient, a.amount, runId)} ELSE {})
    /\ portfolios' = portfolios \cup
           (IF releasesPortfolio(a)
            THEN {newPortfolio(Here, a.line, a.user, a.amount, runId)} ELSE {})
    /\ actions' = Replace(actions, a, [a EXCEPT !.cid = Here, !.status = "Executed"])
    /\ UNCHANGED <<notices, credits, policies, runs, balances, allocations>>

\* runId is an argument of the choice, not a field of the action.
ExecuteApprovedAction(a, runId) ==
    /\ Commit
    /\ a.status = "Approved"
    /\ receipts' = receipts \cup
           (IF releasesPayment(a)
            THEN {newReceipt(Here, a.line, a.user, a.recipient, a.amount, runId)} ELSE {})
    /\ portfolios' = portfolios \cup
           (IF releasesPortfolio(a)
            THEN {newPortfolio(Here, a.line, a.user, a.amount, runId)} ELSE {})
    /\ actions' = Replace(actions, a, [a EXCEPT !.cid = Here, !.status = "Executed"])
    /\ UNCHANGED <<notices, credits, policies, runs, balances, allocations>>

-----------------------------------------------------------------------------
(* Preo.Allocation: category balances; Preo.Payment; Preo.Portfolio        *)

ReplaceBalance(b, new) ==
    /\ Commit
    /\ balances' = Replace(balances, b, new)
    /\ UNCHANGED <<notices, credits, policies, runs, actions, receipts, portfolios, allocations>>

IncreaseBalance(b, amount) ==
    /\ amount > 0
    /\ ReplaceBalance(b, [b EXCEPT !.cid = Here, !.balance = b.balance + amount])

\* Mutant: the balance is not compared with the amount.
DecreaseBalance_unchecked(b, amount) ==
    /\ amount > 0
    /\ ReplaceBalance(b, [b EXCEPT !.cid = Here, !.balance = b.balance - amount])

DecreaseBalance(b, amount) ==
    /\ amount > 0 /\ amount <= b.balance
    /\ ReplaceBalance(b, [b EXCEPT !.cid = Here, !.balance = b.balance - amount])

RenameCategory(b, label) ==
    /\ label # ""
    /\ ReplaceBalance(b, [b EXCEPT !.cid = Here, !.label = label])

ArchiveIfZero(b) ==
    /\ b.balance = 0
    /\ ReplaceBalance(b, [b EXCEPT !.cid = Here, !.archived = TRUE])

Acknowledge(x) ==
    /\ Commit
    /\ receipts' = Replace(receipts, x, [x EXCEPT !.cid = Here, !.acknowledged = TRUE])
    /\ UNCHANGED <<notices, credits, policies, runs, balances, actions, portfolios, allocations>>

\* RenamePortfolioAllocation changes the label, which is not modelled, and
\* the contract id.
RenamePortfolioAllocation(x) ==
    /\ Commit
    /\ portfolios' = Replace(portfolios, x, [x EXCEPT !.cid = Here])
    /\ UNCHANGED <<notices, credits, policies, runs, balances, actions, receipts, allocations>>

ArchivePortfolioAllocation(x) ==
    /\ Commit
    /\ portfolios' = Replace(portfolios, x, [x EXCEPT !.cid = Here, !.archived = TRUE])
    /\ UNCHANGED <<notices, credits, policies, runs, balances, actions, receipts, allocations>>

-----------------------------------------------------------------------------
Next ==
    \/ \E u \in Users, form \in PolicyForms : CreatePolicy(u, form)
    \/ \E p \in policies, form \in PolicyForms : UpdatePolicy(p, form)
    \/ \E p \in policies : DeactivatePolicy(p)
    \/ \E e \in Employers, u \in Users, amount \in Amounts : CreateNotice(e, u, amount)
    \/ \E u \in Users, amount \in Amounts : CreateCredit(u, amount)
    \/ \E n \in notices : ConfirmReceived(n)
    \/ \E c \in credits : MarkUnused(c)
    \/ \E p \in policies, c \in credits, runId \in RunIds : CreateRun(p, c, runId)
    \/ \E r \in runs, p \in policies, c \in credits : ExecuteAllocation(r, p, c)
    \/ \E a \in actions : Approve(a)
    \/ \E a \in actions : Reject(a)
    \/ \E a \in actions, runId \in RunIds : ExecuteApprovedAction(a, runId)
    \/ \E b \in balances, amount \in Adjustments : IncreaseBalance(b, amount)
    \/ \E b \in balances, amount \in Adjustments : DecreaseBalance(b, amount)
    \/ \E b \in balances, label \in Labels : RenameCategory(b, label)
    \/ \E b \in balances : ArchiveIfZero(b)
    \/ \E x \in receipts : Acknowledge(x)
    \/ \E x \in portfolios : RenamePortfolioAllocation(x)
    \/ \E x \in portfolios : ArchivePortfolioAllocation(x)

Spec == Init /\ [][Next]_vars
-----------------------------------------------------------------------------
(* Properties                                                              *)

LineOf(h, i) == <<h.at, i>>
Releases == receipts \cup portfolios

Notice == [cid : Cid, employer : Employers, employee : Users, grossAmount : Amounts]
Credit == [cid : Cid, root : Cid, user : Users, amount : Amounts, notice : Cid, allocated : BOOLEAN]
Policy == [cid : Cid, root : Cid, user : Users, categories : Seq(CategoryRule),
           approvalRules : SUBSET ApprovalRule, version : Nat, active : BOOLEAN]
Line == [categoryId : STRING, amount : Nat, requiresApproval : BOOLEAN]
Run == [cid : Cid, root : Cid, user : Users, runId : RunIds, policyVersion : Nat,
        payrollAmount : Amounts, lines : Seq(Line),
        status : {"AllocationPending", "AllocationExecuted", "AllocationPartiallyPendingApproval"}]
Balance == [cid : Cid, line : Cid, user : Users, runId : RunIds, label : STRING,
            archived : BOOLEAN, balance : Nat]
Action == [cid : Cid, line : Cid, user : Users, actionType : ActionTypes, amount : Nat \ {0},
           recipient : Recipients \cup {NoParty}, portfolioTarget : BOOLEAN,
           status : {"Pending", "Approved", "Rejected", "Executed"}]
Receipt == [cid : Cid, line : Cid, payer : Users, recipient : Recipients, amount : Nat \ {0},
            runId : RunIds, acknowledged : BOOLEAN]
Portfolio == [cid : Cid, line : Cid, user : Users, amount : Nat \ {0}, runId : RunIds,
              archived : BOOLEAN]
Allocation == [at : Nat, credit : Cid, run : Cid, amount : Amounts, rules : Seq(CategoryRule),
               approvalRules : SUBSET ApprovalRule]

\* Every contract has the fields of its template and satisfies its `ensure`
\* clause: amounts of receipts, records and pending actions are positive, no
\* balance is negative.
TypeOK ==
    /\ tx \in Nat
    /\ notices \subseteq Notice
    /\ credits \subseteq Credit
    /\ policies \subseteq Policy
    /\ runs \subseteq Run
    /\ balances \subseteq Balance
    /\ actions \subseteq Action
    /\ receipts \subseteq Receipt
    /\ portfolios \subseteq Portfolio
    /\ allocations \subseteq Allocation

\* A chain of nonconsuming choices never leaves two live versions of one
\* contract: each choice archives the contract it replaces.  For receipts
\* and portfolio records this says that no allocation line is paid twice,
\* whether at once or through its pending action.
UniqueRoot(S) == \A x, y \in S : x.root = y.root => x = y
UniqueLine(S) == \A x, y \in S : x.line = y.line => x = y

OneLiveVersion ==
    /\ UniqueRoot(credits) /\ UniqueRoot(policies) /\ UniqueRoot(runs)
    /\ UniqueLine(balances) /\ UniqueLine(actions)
    /\ UniqueLine(receipts) /\ UniqueLine(portfolios)
    /\ \A x \in receipts, y \in portfolios : x.line # y.line

\* A payroll credit funds at most one allocation, and every version of it
\* that is left is marked allocated (ExecuteAllocation, MarkAllocated).
CreditAllocatedOnce ==
    /\ \A c \in credits : (\E h \in allocations : h.credit = c.root) => c.allocated
    /\ \A g, h \in allocations : g.credit = h.credit => g = h

\* An allocation spends a credit of the very user whose run and policy it
\* uses, and everything it leaves behind belongs to that user.
AllocationOwned ==
    \A h \in allocations, c \in credits :
        h.credit = c.root =>
            /\ \A r \in runs : r.root = h.run => r.user = c.user
            /\ \A b \in balances \cup actions \cup portfolios : b.line[1] = h.at => b.user = c.user
            /\ \A x \in receipts : x.line[1] = h.at => x.payer = c.user

\* Money of a line that requires approval leaves the ledger only through an
\* executed pending action of that very line.
ReleaseNeedsApproval ==
    \A x \in Releases : \E h \in allocations : \E i \in DOMAIN h.rules :
        /\ x.line = LineOf(h, i)
        /\ h.rules[i].requiresApproval =>
               \E a \in actions : a.line = x.line /\ a.status = "Executed"

\* Nothing holds line i of allocation h back any more.
cleared(h, i) ==
    \/ ~h.rules[i].requiresApproval
    \/ \E a \in actions : a.line = LineOf(h, i) /\ a.status = "Executed"

\* Conversely, a line that names a recipient party or a portfolio has its
\* receipt or record as soon as nothing holds it back: at once when it needs
\* no approval, otherwise when its pending action was executed.
ClearedIsReleased ==
    \A h \in allocations : \A i \in DOMAIN h.rules : cleared(h, i) =>
        /\ Pays(h.rules[i].categoryType, h.rules[i].recipient) =>
               \E x \in receipts : x.line = LineOf(h, i) /\ x.recipient = h.rules[i].recipient
        /\ Invests(h.rules[i].categoryType, h.rules[i].portfolioTarget) =>
               \E x \in portfolios : x.line = LineOf(h, i)

\* The lines of an executed run add up to the payroll credit it allocated:
\* nothing is lost to rounding and nothing is made up.
RunConservesCredit ==
    \A r \in runs : r.status # "AllocationPending" =>
        /\ SumOver([i \in DOMAIN r.lines |-> r.lines[i].amount]) = r.payrollAmount * 10000
        /\ \E h \in allocations : h.run = r.root /\ h.amount = r.payrollAmount

ActionStep ==
    \A a \in actions : \E b \in actions' :
        /\ b = [a EXCEPT !.cid = b.cid, !.status = b.status]
        /\ \/ b.status = a.status
           \/ a.status = "Pending" /\ b.status \in {"Approved", "Rejected"}
           \/ a.status = "Approved" /\ b.status = "Executed"

\* A pending action is decided once: it goes from Pending to Approved or
\* Rejected, from Approved to Executed, and never disappears or changes
\* what it stands for.
ActionLifecycle == [][ActionStep]_vars

\* The ledger is an approval gate for the lines of its pending actions.
Gated == {a.line : a \in actions}
statusOf == [l \in Gated |-> (CHOOSE a \in actions : a.line = l).status]

Gate == INSTANCE ApprovalGate WITH
            status <- statusOf, released <- {x.line : x \in Releases} \cap Gated

\* What the ledger does to gated lines is what the abstract gate allows: the
\* money of a line is released in the step that executes its approved
\* action, and by no other choice of any template.
GateImplemented == Gate!GateSpec

\* A policy that passes validation can be run on any credit of its user.
\* Refuted: validatePolicyCategories accepts a 0 bps category, but the
\* contracts created for a gated, paid or invested line ensure amount > 0.
ValidPolicyAllocates ==
    \A r \in runs, p \in policies, c \in credits :
        mayAllocate(r, p, c) => EnsuresHold(c.amount, p.categories)

\* The rule the policy engine applies to the approvalRules of a policy.
approvalRuleAsks(rule, amount, approvalRules) ==
    \E ar \in approvalRules :
        /\ ar.actionType = categoryActionType(rule.categoryType)
        /\ ar.appliesTo \in {"", rule.categoryId}
        /\ amount >= ar.thresholdAmount

\* A line an approval rule of the policy asks approval for is released only
\* through an executed pending action.  Refuted: ExecuteAllocation reads the
\* requiresApproval flag of the categories and never policy.approvalRules.
ApprovalRulesRouted ==
    \A x \in Releases, h \in allocations : \A i \in DOMAIN h.rules :
        /\ x.line = LineOf(h, i)
        /\ approvalRuleAsks(h.rules[i], allocationAmount(h.amount, h.rules[i].percentageBps),
                            h.approvalRules)
        => \E a \in actions : a.line = x.line /\ a.status = "Executed"
-----------------------------------------------------------------------------
(* The inductive invariant behind the safety properties                    *)

RootsBefore(S, n) == \A x \in S : x.root[1] < n
LinesBefore(S, n) == \A x \in S : x.line[1] < n

\* Every id on the ledger was made up by an earlier transaction, so the ids
\* of the next one are new.
IdsAreOld ==
    /\ RootsBefore(credits, tx) /\ RootsBefore(policies, tx) /\ RootsBefore(runs, tx)
    /\ LinesBefore(balances, tx) /\ LinesBefore(actions, tx)
    /\ LinesBefore(receipts, tx) /\ LinesBefore(portfolios, tx)
    /\ \A h \in allocations : h.at < tx /\ h.credit[1] < tx

\* A pending action stands for one gated line and carries its data.
Gates(a, h, i) ==
    /\ h.rules[i].requiresApproval
    /\ a.actionType = categoryActionType(h.rules[i].categoryType)
    /\ a.recipient = h.rules[i].recipient
    /\ a.portfolioTarget = h.rules[i].portfolioTarget

ActionsGateLines ==
    \A a \in actions :
        /\ \E h \in allocations : \E i \in DOMAIN h.rules : a.line = LineOf(h, i)
        /\ \A h \in allocations : \A i \in DOMAIN h.rules : a.line = LineOf(h, i) => Gates(a, h, i)

\* Nothing is released for a pending action before it was executed.
NoEarlyRelease ==
    \A a \in actions, x \in Releases : x.line = a.line => a.status = "Executed"

LedgerInv ==
    /\ TypeOK
    /\ IdsAreOld
    /\ OneLiveVersion
    /\ CreditAllocatedOnce
    /\ ActionsGateLines
    /\ NoEarlyRelease
    /\ ReleaseNeedsApproval
    /\ ClearedIsReleased

\* Runs and credits keep their owners through every version, artifacts through
\* every choice; that a new contract is not taken for one an allocation used
\* needs the run of an allocation to be old too.
OwnedInv ==
    /\ AllocationOwned
    /\ \A h \in allocations : h.run[1] < tx
=============================================================================
