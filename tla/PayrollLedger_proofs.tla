------------------------ MODULE PayrollLedger_proofs ------------------------
(***************************************************************************)
(* Theorems about PayrollLedger, for every value of its constants: first   *)
(* that it is well typed, action by action; then its invariants, what a    *)
(* run conserves and who owns what it creates, and last that the ledger    *)
(* implements ApprovalGate.                                                *)
(***************************************************************************)
EXTENDS PayrollLedger, Sums_proofs, TLAPS

-----------------------------------------------------------------------------
\* The contract ids a transaction makes up.
LEMMA FreshCid == ASSUME tx \in Nat PROVE Here \in Cid /\ \A i \in Nat : <<tx, i>> \in Cid
  BY DEF Here, Cid

\* The step CreatePolicy keeps every contract well typed.
LEMMA CreatePolicyType ==
    ASSUME TypeOK, NEW u \in Users, NEW form \in PolicyForms, CreatePolicy(u, form)
    PROVE  TypeOK'
  <1>1. form.categories \in Seq(CategoryRule) /\ form.approvalRules \in SUBSET ApprovalRule
    BY PolicyFormsAssumption
  <1>2. [cid |-> Here, root |-> Here, user |-> u, categories |-> form.categories,
         approvalRules |-> form.approvalRules, version |-> 1, active |-> TRUE] \in Policy
    BY FreshCid, <1>1 DEF Policy, TypeOK
  <1>3. policies' \subseteq Policy
    BY <1>2 DEF TypeOK, CreatePolicy
  <1>4. QED
    BY <1>3 DEF TypeOK, CreatePolicy, Commit

\* The step UpdatePolicy keeps every contract well typed.
LEMMA UpdatePolicyType ==
    ASSUME TypeOK, NEW p \in policies, NEW form \in PolicyForms, UpdatePolicy(p, form)
    PROVE  TypeOK'
  <1>1. p \in Policy /\ p.version + 1 \in Nat
    BY DEF Policy, TypeOK
  <1>2. form.categories \in Seq(CategoryRule) /\ form.approvalRules \in SUBSET ApprovalRule
    BY PolicyFormsAssumption
  <1>3. [p EXCEPT !.cid = Here, !.categories = form.categories,
                  !.approvalRules = form.approvalRules,
                  !.version = p.version + 1, !.active = TRUE] \in Policy
    BY FreshCid, <1>1, <1>2 DEF Policy, TypeOK
  <1>4. QED
    BY <1>3 DEF TypeOK, UpdatePolicy, Commit, Replace

\* The step DeactivatePolicy keeps every contract well typed.
LEMMA DeactivatePolicyType ==
    ASSUME TypeOK, NEW p \in policies, DeactivatePolicy(p)
    PROVE  TypeOK'
  <1>1. [p EXCEPT !.cid = Here, !.active = FALSE] \in Policy
    BY FreshCid DEF Policy, TypeOK
  <1>2. QED
    BY <1>1 DEF TypeOK, DeactivatePolicy, Commit, Replace

\* The step CreateNotice keeps every contract well typed.
LEMMA CreateNoticeType ==
    ASSUME TypeOK, NEW e \in Employers, NEW u \in Users, NEW amount \in Amounts,
           CreateNotice(e, u, amount)
    PROVE  TypeOK'
  <1>1. [cid |-> Here, employer |-> e, employee |-> u, grossAmount |-> amount] \in Notice
    BY FreshCid DEF Notice, TypeOK
  <1>2. QED
    BY <1>1 DEF TypeOK, CreateNotice, Commit

\* The step CreateCredit keeps every contract well typed.
LEMMA CreateCreditType ==
    ASSUME TypeOK, NEW u \in Users, NEW amount \in Amounts, CreateCredit(u, amount)
    PROVE  TypeOK'
  <1>1. NewCredit(u, amount, <<0, 0>>) \in Credit
    BY FreshCid DEF NewCredit, Credit, Cid, TypeOK
  <1>2. QED
    BY <1>1 DEF TypeOK, CreateCredit, Commit

\* The step ConfirmReceived keeps every contract well typed.
LEMMA ConfirmReceivedType ==
    ASSUME TypeOK, NEW n \in notices, ConfirmReceived(n)
    PROVE  TypeOK'
  <1>1. NewCredit(n.employee, n.grossAmount, n.cid) \in Credit
    BY FreshCid DEF NewCredit, Credit, Notice, TypeOK
  <1>2. QED
    BY <1>1 DEF TypeOK, ConfirmReceived, Commit

\* The step MarkUnused keeps every contract well typed.
LEMMA MarkUnusedType == ASSUME TypeOK, NEW c \in credits, MarkUnused(c) PROVE TypeOK'
  <1>1. [c EXCEPT !.cid = Here, !.allocated = TRUE] \in Credit
    BY FreshCid DEF Credit, TypeOK
  <1>2. QED
    BY <1>1 DEF TypeOK, MarkUnused, MarkAllocated, Commit, Replace

\* The step CreateRun keeps every contract well typed.
LEMMA CreateRunType ==
    ASSUME TypeOK, NEW p \in policies, NEW c \in credits, NEW runId \in RunIds,
           CreateRun(p, c, runId)
    PROVE  TypeOK'
  <1>1. [cid |-> Here, root |-> Here, user |-> c.user, runId |-> runId,
         policyVersion |-> p.version, payrollAmount |-> c.amount, lines |-> <<>>,
         status |-> "AllocationPending"] \in Run
    BY FreshCid DEF Run, Policy, Credit, TypeOK
  <1>2. QED
    BY <1>1 DEF TypeOK, CreateRun, Commit

\* The step Approve keeps every contract well typed.
LEMMA ApproveType ==
    ASSUME TypeOK, NEW a \in actions, Approve(a)
    PROVE  TypeOK'
  <1>1. [a EXCEPT !.cid = Here, !.status = "Approved"] \in Action
    BY FreshCid DEF Action, TypeOK
  <1>2. QED
    BY <1>1 DEF TypeOK, Approve, Commit, Replace

\* The step Reject keeps every contract well typed.
LEMMA RejectType ==
    ASSUME TypeOK, NEW a \in actions, Reject(a)
    PROVE  TypeOK'
  <1>1. [a EXCEPT !.cid = Here, !.status = "Rejected"] \in Action
    BY FreshCid DEF Action, TypeOK
  <1>2. QED
    BY <1>1 DEF TypeOK, Reject, Commit, Replace

-----------------------------------------------------------------------------
\* What validation guarantees of every category of a policy.
LEMMA ValidCategories ==
    ASSUME NEW rules \in Seq(CategoryRule), validatePolicyCategories(rules)
    PROVE  \A i \in DOMAIN rules : rules[i] \in CategoryRule /\ rules[i].percentageBps \in Nat
  <1>1. ASSUME NEW i \in DOMAIN rules
        PROVE  rules[i] \in CategoryRule /\ rules[i].percentageBps >= 0
    <2>1. validateCategory(rules[i])
      BY DEF validatePolicyCategories
    <2>2. rules[i].percentageBps >= 0
      BY <2>1 DEF validateCategory
    <2>3. rules[i] \in CategoryRule
      OBVIOUS
    <2> QED BY <2>2, <2>3
  <1>2. QED
    BY <1>1 DEF CategoryRule

\* A category's share of a payroll amount is a natural number, and positive
\* for every line whose contract demands it.
LEMMA ShareType ==
    ASSUME NEW rules \in Seq(CategoryRule), validatePolicyCategories(rules),
           NEW amount \in Amounts, EnsuresHold(amount, rules)
    PROVE  /\ \A i \in DOMAIN rules :
                allocationAmount(amount, rules[i].percentageBps) \in Nat
           /\ \A i \in gated(rules) \cup paidAtOnce(rules) \cup investedAtOnce(rules) :
                allocationAmount(amount, rules[i].percentageBps) \in Nat \ {0}
  <1>1. ASSUME NEW i \in DOMAIN rules
        PROVE  allocationAmount(amount, rules[i].percentageBps) \in Nat
    BY ValidCategories, AmountsAssumption DEF allocationAmount
  <1>2. gated(rules) \cup paidAtOnce(rules) \cup investedAtOnce(rules) \subseteq DOMAIN rules
    BY DEF gated, paidAtOnce, investedAtOnce
  <1>3. QED
    BY <1>1, <1>2 DEF EnsuresHold

\* Every artifact of an allocation has the fields of its template.
LEMMA ArtifactTypes ==
    ASSUME tx \in Nat, NEW u \in Users, NEW runId \in RunIds, NEW amount \in Amounts,
           NEW rules \in Seq(CategoryRule), validatePolicyCategories(rules),
           EnsuresHold(amount, rules)
    PROVE  /\ \A i \in DOMAIN rules : newBalance(u, runId, amount, rules, i) \in Balance
           /\ \A i \in gated(rules) : newAction(u, amount, rules, i) \in Action
           /\ \A i \in paidAtOnce(rules) :
                newReceipt(<<tx, i>>, <<tx, i>>, u, rules[i].recipient,
                           allocationAmount(amount, rules[i].percentageBps), runId) \in Receipt
           /\ \A i \in investedAtOnce(rules) :
                newPortfolio(<<tx, i>>, <<tx, i>>, u,
                             allocationAmount(amount, rules[i].percentageBps), runId) \in Portfolio
  <1>1. ASSUME NEW i \in DOMAIN rules
        PROVE  newBalance(u, runId, amount, rules, i) \in Balance
    <2>1. <<tx, i>> \in Cid
      BY FreshCid
    <2>2. rules[i] \in CategoryRule
      OBVIOUS
    <2>3. rules[i].categoryId \in STRING
      BY <2>2 DEF CategoryRule
    <2>4. QED
      BY <2>1, <2>3, ShareType DEF newBalance, Balance
  <1>2. ASSUME NEW i \in gated(rules) PROVE newAction(u, amount, rules, i) \in Action
    <2>1. <<tx, i>> \in Cid /\ i \in DOMAIN rules
      BY FreshCid DEF gated
    <2>2. rules[i] \in CategoryRule
      BY <2>1
    <2>3. categoryActionType(rules[i].categoryType) \in ActionTypes
      BY <2>2 DEF CategoryRule, CategoryTypes, categoryActionType, ActionTypes
    <2>4. QED
      BY <2>1, <2>2, <2>3, ShareType DEF newAction, Action, CategoryRule
  <1>3. ASSUME NEW i \in paidAtOnce(rules)
        PROVE  newReceipt(<<tx, i>>, <<tx, i>>, u, rules[i].recipient,
                          allocationAmount(amount, rules[i].percentageBps), runId) \in Receipt
    <2>1. <<tx, i>> \in Cid /\ i \in DOMAIN rules /\ rules[i].recipient # NoParty
      BY FreshCid DEF paidAtOnce, Pays
    <2>2. rules[i] \in CategoryRule
      BY <2>1
    <2>3. rules[i].recipient \in Recipients
      BY <2>1, <2>2 DEF CategoryRule
    <2>4. QED
      BY <2>1, <2>3, ShareType DEF newReceipt, Receipt
  <1>4. ASSUME NEW i \in investedAtOnce(rules)
        PROVE  newPortfolio(<<tx, i>>, <<tx, i>>, u,
                            allocationAmount(amount, rules[i].percentageBps), runId) \in Portfolio
    <2>1. <<tx, i>> \in Cid
      BY FreshCid DEF investedAtOnce
    <2>2. QED
      BY <2>1, ShareType DEF newPortfolio, Portfolio
  <1>5. QED
    BY <1>1, <1>2, <1>3, <1>4

\* The step ExecuteAllocation keeps every contract well typed.
LEMMA ExecuteAllocationType ==
    ASSUME TypeOK, NEW r \in runs, NEW p \in policies, NEW c \in credits,
           ExecuteAllocation(r, p, c)
    PROVE  TypeOK'
  <1> DEFINE rules == p.categories
  <1>1. /\ tx \in Nat /\ r \in Run /\ p \in Policy /\ c \in Credit
        /\ r.user \in Users /\ r.runId \in RunIds /\ c.amount \in Amounts
        /\ rules \in Seq(CategoryRule)
    BY DEF TypeOK, Run, Policy, Credit
  <1>2. validatePolicyCategories(rules) /\ EnsuresHold(c.amount, rules)
    BY DEF ExecuteAllocation, mayAllocate
  <1>3. tx' \in Nat /\ UNCHANGED <<notices, policies>>
    BY <1>1 DEF ExecuteAllocation, Commit
  <1>4. balances' \subseteq Balance
    BY <1>1, <1>2, ArtifactTypes DEF ExecuteAllocation, TypeOK
  <1>5. actions' \subseteq Action
    <2>1. \A i \in gated(rules) : newAction(r.user, c.amount, rules, i) \in Action
      BY <1>1, <1>2, ArtifactTypes
    <2>2. actions' = actions \cup {newAction(r.user, c.amount, rules, i) : i \in gated(rules)}
      BY DEF ExecuteAllocation
    <2>3. QED
      BY <2>1, <2>2 DEF TypeOK
  <1>6. receipts' \subseteq Receipt
    <2> DEFINE receipt(i) == newReceipt(<<tx, i>>, <<tx, i>>, r.user, rules[i].recipient,
                                 allocationAmount(c.amount, rules[i].percentageBps), r.runId)
    <2>1. \A i \in paidAtOnce(rules) : receipt(i) \in Receipt
      BY <1>1, <1>2, ArtifactTypes
    <2>2. receipts' = receipts \cup {receipt(i) : i \in paidAtOnce(rules)}
      BY DEF ExecuteAllocation
    <2>3. QED
      BY <2>1, <2>2 DEF TypeOK
  <1>7. portfolios' \subseteq Portfolio
    <2> DEFINE record(i) == newPortfolio(<<tx, i>>, <<tx, i>>, r.user,
                                 allocationAmount(c.amount, rules[i].percentageBps), r.runId)
    <2>1. \A i \in investedAtOnce(rules) : record(i) \in Portfolio
      BY <1>1, <1>2, ArtifactTypes
    <2>2. portfolios' = portfolios \cup {record(i) : i \in investedAtOnce(rules)}
      BY DEF ExecuteAllocation
    <2>3. QED
      BY <2>1, <2>2 DEF TypeOK
  <1>8. credits' \subseteq Credit
    <2>1. [c EXCEPT !.cid = Here, !.allocated = TRUE] \in Credit
      BY <1>1, FreshCid DEF Credit
    <2>2. QED
      BY <2>1 DEF ExecuteAllocation, TypeOK, MarkAllocated, Replace
  <1>9. runs' \subseteq Run
    <2> DEFINE lines == [i \in DOMAIN rules |-> ruleToLine(c.amount, rules[i])]
               status == IF gated(rules) # {} THEN "AllocationPartiallyPendingApproval"
                                              ELSE "AllocationExecuted"
    <2>1. \A i \in DOMAIN rules : ruleToLine(c.amount, rules[i]) \in Line
      <3>1. ASSUME NEW i \in DOMAIN rules PROVE ruleToLine(c.amount, rules[i]) \in Line
        <4>1. rules[i] \in CategoryRule
          BY <1>1
        <4>2. allocationAmount(c.amount, rules[i].percentageBps) \in Nat
          BY <1>1, <1>2, ShareType
        <4>3. QED
          BY <4>1, <4>2 DEF ruleToLine, Line, CategoryRule
      <3>2. QED
        BY <3>1
    <2>2. lines \in Seq(Line)
      <3>1. DOMAIN rules = 1..Len(rules) /\ Len(rules) \in Nat
        BY <1>1
      <3>2. QED
        BY <2>1, <3>1
    <2>3. p.version \in Nat
      BY <1>1 DEF Policy
    <2>4. [r EXCEPT !.cid = Here, !.policyVersion = p.version, !.payrollAmount = c.amount,
                    !.lines = lines, !.status = status] \in Run
      <3> HIDE DEF lines
      <3>1. QED
        BY <1>1, <2>2, <2>3, FreshCid DEF Run
    <2>5. runs' = Replace(runs, r,
              [r EXCEPT !.cid = Here, !.policyVersion = p.version, !.payrollAmount = c.amount,
                        !.lines = lines, !.status = status])
      BY DEF ExecuteAllocation
    <2>6. QED
      BY <2>4, <2>5 DEF TypeOK, Replace
  <1>10. allocations' \subseteq Allocation
    <2>1. [at |-> tx, credit |-> c.root, run |-> r.root, amount |-> c.amount,
           rules |-> rules, approvalRules |-> p.approvalRules] \in Allocation
      BY <1>1 DEF Allocation, Run, Policy, Credit
    <2>2. QED
      BY <2>1 DEF ExecuteAllocation, TypeOK
  <1>11. QED
    BY <1>3, <1>4, <1>5, <1>6, <1>7, <1>8, <1>9, <1>10 DEF TypeOK

\* The step ExecuteApprovedAction keeps every contract well typed.
LEMMA ExecuteApprovedActionType ==
    ASSUME TypeOK, NEW a \in actions, NEW runId \in RunIds, ExecuteApprovedAction(a, runId)
    PROVE  TypeOK'
  <1>1. a \in Action /\ Here \in Cid
    BY FreshCid DEF TypeOK
  <1>2. actions' \subseteq Action
    <2>1. [a EXCEPT !.cid = Here, !.status = "Executed"] \in Action
      BY <1>1 DEF Action
    <2>2. QED
      BY <2>1 DEF ExecuteApprovedAction, TypeOK, Replace
  <1>3. receipts' \subseteq Receipt
    <2>1. releasesPayment(a) =>
            newReceipt(Here, a.line, a.user, a.recipient, a.amount, runId) \in Receipt
      BY <1>1 DEF releasesPayment, newReceipt, Receipt, Action
    <2>2. QED
      BY <2>1 DEF ExecuteApprovedAction, TypeOK
  <1>4. portfolios' \subseteq Portfolio
    <2>1. newPortfolio(Here, a.line, a.user, a.amount, runId) \in Portfolio
      BY <1>1 DEF newPortfolio, Portfolio, Action
    <2>2. QED
      BY <2>1 DEF ExecuteApprovedAction, TypeOK
  <1>5. tx' \in Nat /\ UNCHANGED <<notices, credits, policies, runs, balances, allocations>>
    BY DEF ExecuteApprovedAction, TypeOK, Commit
  <1>6. QED
    BY <1>2, <1>3, <1>4, <1>5 DEF TypeOK

\* Replacing a balance by a well typed one keeps the ledger well typed.
LEMMA BalanceChoicesType ==
    ASSUME TypeOK, NEW b \in balances, NEW new \in Balance, ReplaceBalance(b, new)
    PROVE  TypeOK'
  BY DEF TypeOK, ReplaceBalance, Commit, Replace

\* The step IncreaseBalance keeps every contract well typed.
LEMMA IncreaseBalanceType ==
    ASSUME TypeOK, NEW b \in balances, NEW amount \in Adjustments, IncreaseBalance(b, amount)
    PROVE  TypeOK'
  <1>1. b \in Balance /\ amount \in Nat
    BY AdjustmentsAssumption DEF IncreaseBalance, TypeOK
  <1>2. b.balance + amount \in Nat
    BY <1>1 DEF Balance
  <1>3. [b EXCEPT !.cid = Here, !.balance = b.balance + amount] \in Balance
    BY <1>1, <1>2, FreshCid DEF Balance, TypeOK
  <1>4. QED
    BY <1>3, BalanceChoicesType DEF IncreaseBalance

\* The step DecreaseBalance keeps every contract well typed.
LEMMA DecreaseBalanceType ==
    ASSUME TypeOK, NEW b \in balances, NEW amount \in Adjustments, DecreaseBalance(b, amount)
    PROVE  TypeOK'
  <1>1. b \in Balance /\ amount \in Nat /\ amount <= b.balance
    BY AdjustmentsAssumption DEF DecreaseBalance, TypeOK
  <1>2. b.balance - amount \in Nat
    BY <1>1 DEF Balance
  <1>3. [b EXCEPT !.cid = Here, !.balance = b.balance - amount] \in Balance
    BY <1>1, <1>2, FreshCid DEF Balance, TypeOK
  <1>4. QED
    BY <1>3, BalanceChoicesType DEF DecreaseBalance

\* The step RenameCategory keeps every contract well typed.
LEMMA RenameCategoryType ==
    ASSUME TypeOK, NEW b \in balances, NEW label \in Labels, RenameCategory(b, label)
    PROVE  TypeOK'
  <1>1. [b EXCEPT !.cid = Here, !.label = label] \in Balance
    BY FreshCid, LabelsAssumption DEF Balance, TypeOK
  <1>2. QED
    BY <1>1, BalanceChoicesType DEF RenameCategory

\* The step ArchiveIfZero keeps every contract well typed.
LEMMA ArchiveIfZeroType ==
    ASSUME TypeOK, NEW b \in balances, ArchiveIfZero(b)
    PROVE  TypeOK'
  <1>1. [b EXCEPT !.cid = Here, !.archived = TRUE] \in Balance
    BY FreshCid DEF Balance, TypeOK
  <1>2. QED
    BY <1>1, BalanceChoicesType DEF ArchiveIfZero

\* The step Acknowledge keeps every contract well typed.
LEMMA AcknowledgeType ==
    ASSUME TypeOK, NEW x \in receipts, Acknowledge(x)
    PROVE  TypeOK'
  <1>1. [x EXCEPT !.cid = Here, !.acknowledged = TRUE] \in Receipt
    BY FreshCid DEF Receipt, TypeOK
  <1>2. QED
    BY <1>1 DEF TypeOK, Acknowledge, Commit, Replace

\* The step RenamePortfolioAllocation keeps every contract well typed.
LEMMA RenamePortfolioAllocationType ==
    ASSUME TypeOK, NEW x \in portfolios, RenamePortfolioAllocation(x)
    PROVE  TypeOK'
  <1>1. [x EXCEPT !.cid = Here] \in Portfolio
    BY FreshCid DEF Portfolio, TypeOK
  <1>2. QED
    BY <1>1 DEF TypeOK, RenamePortfolioAllocation, Commit, Replace

\* The step ArchivePortfolioAllocation keeps every contract well typed.
LEMMA ArchivePortfolioAllocationType ==
    ASSUME TypeOK, NEW x \in portfolios, ArchivePortfolioAllocation(x)
    PROVE  TypeOK'
  <1>1. [x EXCEPT !.cid = Here, !.archived = TRUE] \in Portfolio
    BY FreshCid DEF Portfolio, TypeOK
  <1>2. QED
    BY <1>1 DEF TypeOK, ArchivePortfolioAllocation, Commit, Replace

-----------------------------------------------------------------------------
\* Every step keeps the ledger well typed.
LEMMA TypeStep == ASSUME TypeOK, [Next]_vars PROVE TypeOK'
  <1>1. ASSUME Next PROVE TypeOK'
    BY <1>1, CreatePolicyType, UpdatePolicyType, DeactivatePolicyType,
       CreateNoticeType, CreateCreditType, ConfirmReceivedType, MarkUnusedType,
       CreateRunType, ExecuteAllocationType, ApproveType,
       RejectType, ExecuteApprovedActionType, IncreaseBalanceType,
       DecreaseBalanceType, RenameCategoryType, ArchiveIfZeroType,
       AcknowledgeType, RenamePortfolioAllocationType, ArchivePortfolioAllocationType
    DEF Next
  <1>2. ASSUME UNCHANGED vars PROVE TypeOK'
    BY <1>2 DEF TypeOK, vars
  <1>3. QED
    BY <1>1, <1>2

\* Every contract that can ever be on the ledger has the fields of its
\* template and satisfies its `ensure` clause.
THEOREM TypeCorrect == Spec => []TypeOK
  <1>1. Init => TypeOK
    BY DEF Init, TypeOK
  <1>2. QED
    BY <1>1, TypeStep, PTL DEF Spec

-----------------------------------------------------------------------------
(* Ids: choices keep the root or line of the contract they replace, creates *)
(* take one of the running transaction.                                     *)

\* The transaction part of a contract id is a number.
LEMMA CidNumber == ASSUME NEW c \in Cid PROVE c[1] \in Nat
  BY DEF Cid

\* Replacing a contract by a version of itself keeps ids unique and old.
LEMMA RootsReplace ==
    ASSUME NEW n \in Nat, NEW S, \A x \in S : x.root \in Cid, UniqueRoot(S), RootsBefore(S, n),
           NEW old \in S, NEW new, new.root = old.root
    PROVE  UniqueRoot(Replace(S, old, new)) /\ RootsBefore(Replace(S, old, new), n + 1)
  <1>1. \A x \in S : x.root[1] < n + 1
    BY CidNumber DEF RootsBefore
  <1>2. QED
    BY <1>1 DEF UniqueRoot, RootsBefore, Replace

\* Creating a contract under the id of this transaction keeps ids unique and old.
LEMMA RootsAdd ==
    ASSUME NEW n \in Nat, NEW S, \A x \in S : x.root \in Cid, UniqueRoot(S), RootsBefore(S, n),
           NEW new, new.root = <<n, 0>>
    PROVE  UniqueRoot(S \cup {new}) /\ RootsBefore(S \cup {new}, n + 1)
  <1>1. \A x \in S : x.root[1] < n + 1 /\ x.root # new.root
    BY CidNumber DEF RootsBefore
  <1>2. new.root[1] < n + 1
    OBVIOUS
  <1>3. QED
    BY <1>1, <1>2 DEF UniqueRoot, RootsBefore

\* Replacing an artifact by one of the same line keeps lines unique and old.
LEMMA LinesReplace ==
    ASSUME NEW n \in Nat, NEW S, \A x \in S : x.line \in Cid, UniqueLine(S), LinesBefore(S, n),
           NEW old \in S, NEW new, new.line = old.line
    PROVE  UniqueLine(Replace(S, old, new)) /\ LinesBefore(Replace(S, old, new), n + 1)
  <1>1. \A x \in S : x.line[1] < n + 1
    BY CidNumber DEF LinesBefore
  <1>2. QED
    BY <1>1 DEF UniqueLine, LinesBefore, Replace

\* Adding artifacts of lines of this transaction keeps lines unique and old.
LEMMA LinesAdd ==
    ASSUME NEW n \in Nat, NEW S, \A x \in S : x.line \in Cid, UniqueLine(S), LinesBefore(S, n),
           NEW T, UniqueLine(T), \A x \in T : x.line[1] = n
    PROVE  UniqueLine(S \cup T) /\ LinesBefore(S \cup T, n + 1)
  <1>1. \A x \in S : x.line[1] \in Nat /\ x.line[1] < n
    BY CidNumber DEF LinesBefore
  <1>2. \A x \in S, y \in T : x.line # y.line
    BY <1>1
  <1>3. QED
    BY <1>1, <1>2 DEF UniqueLine, LinesBefore

\* The typing of ids, in the form the lemmas above ask for.
LEMMA IdTypes ==
    ASSUME TypeOK
    PROVE  /\ tx \in Nat
           /\ \A x \in credits \cup policies \cup runs : x.root \in Cid
           /\ \A x \in balances \cup actions \cup receipts \cup portfolios : x.line \in Cid
           /\ \A h \in allocations : h.at \in Nat /\ h.credit \in Cid
  <1>1. \A x \in credits \cup policies \cup runs : x.root \in Cid
    BY DEF TypeOK, Credit, Policy, Run
  <1>2. \A x \in balances \cup actions : x.line \in Cid
    BY DEF TypeOK, Balance, Action
  <1>3. \A x \in receipts \cup portfolios : x.line \in Cid
    BY DEF TypeOK, Receipt, Portfolio
  <1>4. QED
    BY <1>1, <1>2, <1>3 DEF TypeOK, Allocation

\* What was old for one transaction is old for the next.
LEMMA IdsStayOld ==
    ASSUME TypeOK, IdsAreOld
    PROVE  /\ RootsBefore(credits, tx + 1) /\ RootsBefore(policies, tx + 1)
           /\ RootsBefore(runs, tx + 1)
           /\ LinesBefore(balances, tx + 1) /\ LinesBefore(actions, tx + 1)
           /\ LinesBefore(receipts, tx + 1) /\ LinesBefore(portfolios, tx + 1)
           /\ \A h \in allocations : h.at < tx + 1 /\ h.credit[1] < tx + 1
  <1>1. \A c \in Cid : c[1] < tx => c[1] < tx + 1
    BY CidNumber, IdTypes
  <1>2. QED
    BY <1>1, IdTypes DEF IdsAreOld, RootsBefore, LinesBefore

-----------------------------------------------------------------------------
(* The inductive invariant, action by action.                              *)

\* The parts that speak of credits, pending actions and releases.
Core == /\ CreditAllocatedOnce
        /\ ActionsGateLines
        /\ NoEarlyRelease
        /\ ReleaseNeedsApproval
        /\ ClearedIsReleased

Ids == IdsAreOld /\ OneLiveVersion

\* A step that touches neither allocations, artifacts nor credits keeps the
\* parts of the invariant that are about them.
LEMMA CoreUnchanged ==
    ASSUME LedgerInv, UNCHANGED <<credits, actions, receipts, portfolios, allocations>>
    PROVE  Core'
  <1>1. CreditAllocatedOnce'
    BY DEF LedgerInv, CreditAllocatedOnce
  <1>2. ActionsGateLines'
    BY DEF LedgerInv, ActionsGateLines, LineOf, Gates
  <1>3. NoEarlyRelease'
    BY DEF LedgerInv, NoEarlyRelease, Releases
  <1>4. ReleaseNeedsApproval'
    BY DEF LedgerInv, ReleaseNeedsApproval, Releases, LineOf
  <1>5. ClearedIsReleased'
    BY DEF LedgerInv, ClearedIsReleased, cleared, LineOf
  <1>6. QED
    BY <1>1, <1>2, <1>3, <1>4, <1>5 DEF Core

\* A step that only changes policies, in a way that keeps their ids in order.
LEMMA PoliciesStep ==
    ASSUME LedgerInv, tx' = tx + 1, UniqueRoot(policies'), RootsBefore(policies', tx + 1),
           UNCHANGED <<notices, credits, runs, balances, actions, receipts, portfolios, allocations>>
    PROVE  Ids' /\ Core'
  <1>1. IdsAreOld'
    BY IdsStayOld DEF LedgerInv, IdsAreOld
  <1>2. OneLiveVersion'
    BY DEF LedgerInv, OneLiveVersion, UniqueRoot, UniqueLine
  <1>3. QED
    BY <1>1, <1>2, CoreUnchanged DEF Ids

\* The step CreatePolicy keeps the inductive invariant.
LEMMA CreatePolicyInv ==
    ASSUME LedgerInv, NEW u \in Users, NEW form \in PolicyForms, CreatePolicy(u, form)
    PROVE  Ids' /\ Core'
  <1> DEFINE new == [cid |-> Here, root |-> Here, user |-> u, categories |-> form.categories,
                     approvalRules |-> form.approvalRules, version |-> 1, active |-> TRUE]
  <1>1. policies' = policies \cup {new} /\ tx' = tx + 1
    BY DEF CreatePolicy, Commit
  <1>2. new.root = <<tx, 0>>
    BY DEF Here
  <1> HIDE DEF new
  <1>3. UniqueRoot(policies') /\ RootsBefore(policies', tx + 1)
    BY <1>1, <1>2, RootsAdd, IdTypes DEF LedgerInv, OneLiveVersion, IdsAreOld
  <1>4. QED
    BY <1>1, <1>3, PoliciesStep DEF CreatePolicy

\* The step UpdatePolicy keeps the inductive invariant.
LEMMA UpdatePolicyInv ==
    ASSUME LedgerInv, NEW p \in policies, NEW form \in PolicyForms, UpdatePolicy(p, form)
    PROVE  Ids' /\ Core'
  <1> DEFINE new == [p EXCEPT !.cid = Here, !.categories = form.categories,
                              !.approvalRules = form.approvalRules,
                              !.version = p.version + 1, !.active = TRUE]
  <1>1. policies' = Replace(policies, p, new) /\ tx' = tx + 1
    BY DEF UpdatePolicy, Commit
  <1>2. new.root = p.root
    BY DEF LedgerInv, TypeOK, Policy
  <1> HIDE DEF new
  <1>3. UniqueRoot(policies') /\ RootsBefore(policies', tx + 1)
    BY <1>1, <1>2, RootsReplace, IdTypes DEF LedgerInv, OneLiveVersion, IdsAreOld
  <1>4. QED
    BY <1>1, <1>3, PoliciesStep DEF UpdatePolicy

\* The step DeactivatePolicy keeps the inductive invariant.
LEMMA DeactivatePolicyInv ==
    ASSUME LedgerInv, NEW p \in policies, DeactivatePolicy(p)
    PROVE  Ids' /\ Core'
  <1> DEFINE new == [p EXCEPT !.cid = Here, !.active = FALSE]
  <1>1. policies' = Replace(policies, p, new) /\ tx' = tx + 1
    BY DEF DeactivatePolicy, Commit
  <1>2. new.root = p.root
    BY DEF LedgerInv, TypeOK, Policy
  <1> HIDE DEF new
  <1>3. UniqueRoot(policies') /\ RootsBefore(policies', tx + 1)
    BY <1>1, <1>2, RootsReplace, IdTypes DEF LedgerInv, OneLiveVersion, IdsAreOld
  <1>4. QED
    BY <1>1, <1>3, PoliciesStep DEF DeactivatePolicy

\* The step CreateNotice keeps the inductive invariant.
LEMMA CreateNoticeInv ==
    ASSUME LedgerInv, NEW e \in Employers, NEW u \in Users, NEW amount \in Amounts,
           CreateNotice(e, u, amount)
    PROVE  Ids' /\ Core'
  <1>1. /\ tx' = tx + 1
        /\ UNCHANGED <<credits, policies, runs, balances, actions, receipts, portfolios, allocations>>
    BY DEF CreateNotice, Commit
  <1>2. IdsAreOld' /\ OneLiveVersion'
    BY <1>1, IdsStayOld DEF LedgerInv, IdsAreOld, OneLiveVersion, UniqueRoot, UniqueLine
  <1>3. QED
    BY <1>1, <1>2, CoreUnchanged DEF Ids

\* The step CreateRun keeps the inductive invariant.
LEMMA CreateRunInv ==
    ASSUME LedgerInv, NEW p \in policies, NEW c \in credits, NEW runId \in RunIds,
           CreateRun(p, c, runId)
    PROVE  Ids' /\ Core'
  <1> DEFINE new == [cid |-> Here, root |-> Here, user |-> c.user, runId |-> runId,
                     policyVersion |-> p.version, payrollAmount |-> c.amount, lines |-> <<>>,
                     status |-> "AllocationPending"]
  <1>1. /\ runs' = runs \cup {new} /\ tx' = tx + 1
        /\ UNCHANGED <<credits, policies, balances, actions, receipts, portfolios, allocations>>
    BY DEF CreateRun, Commit
  <1>2. new.root = <<tx, 0>>
    BY DEF Here
  <1> HIDE DEF new
  <1>3. UniqueRoot(runs') /\ RootsBefore(runs', tx + 1)
    BY <1>1, <1>2, RootsAdd, IdTypes DEF LedgerInv, OneLiveVersion, IdsAreOld
  <1>4. IdsAreOld' /\ OneLiveVersion'
    BY <1>1, <1>3, IdsStayOld DEF LedgerInv, IdsAreOld, OneLiveVersion, UniqueRoot, UniqueLine
  <1>5. QED
    BY <1>1, <1>4, CoreUnchanged DEF Ids

\* Replacing a balance by one of the same line keeps the invariant.
LEMMA BalanceChoicesInv ==
    ASSUME LedgerInv, NEW b \in balances, NEW new, new.line = b.line, ReplaceBalance(b, new)
    PROVE  Ids' /\ Core'
  <1>1. /\ balances' = Replace(balances, b, new) /\ tx' = tx + 1
        /\ UNCHANGED <<credits, policies, runs, actions, receipts, portfolios, allocations>>
    BY DEF ReplaceBalance, Commit
  <1>2. UniqueLine(balances') /\ LinesBefore(balances', tx + 1)
    BY <1>1, LinesReplace, IdTypes DEF LedgerInv, OneLiveVersion, IdsAreOld
  <1>3. IdsAreOld' /\ OneLiveVersion'
    BY <1>1, <1>2, IdsStayOld DEF LedgerInv, IdsAreOld, OneLiveVersion, UniqueRoot, UniqueLine
  <1>4. QED
    BY <1>1, <1>3, CoreUnchanged DEF Ids

\* The four choices of a CategoryBalance keep the line it stands for.
LEMMA AllBalanceChoicesInv ==
    ASSUME LedgerInv, NEW b \in balances,
           \/ \E amount \in Adjustments : IncreaseBalance(b, amount)
           \/ \E amount \in Adjustments : DecreaseBalance(b, amount)
           \/ \E label \in Labels : RenameCategory(b, label)
           \/ ArchiveIfZero(b)
    PROVE  Ids' /\ Core'
  <1>1. b \in Balance
    BY DEF LedgerInv, TypeOK
  <1>2. \A v : /\ [b EXCEPT !.cid = Here, !.balance = v].line = b.line
               /\ [b EXCEPT !.cid = Here, !.label = v].line = b.line
               /\ [b EXCEPT !.cid = Here, !.archived = v].line = b.line
    BY <1>1 DEF Balance
  <1>3. QED
    BY <1>2, BalanceChoicesInv DEF IncreaseBalance, DecreaseBalance, RenameCategory, ArchiveIfZero

\* A new, unallocated credit: no allocation can name it yet.
LEMMA NewCreditInv ==
    ASSUME LedgerInv, NEW u, NEW amount, NEW notice, Commit,
           credits' = credits \cup {NewCredit(u, amount, notice)},
           UNCHANGED <<notices, policies, runs, balances, actions, receipts, portfolios, allocations>>
    PROVE  Ids' /\ Core'
  <1> DEFINE new == NewCredit(u, amount, notice)
  <1>1. tx' = tx + 1 /\ new.root = <<tx, 0>> /\ new.allocated = FALSE
    BY DEF Commit, NewCredit, Here
  <1> HIDE DEF new
  <1>2. credits' = credits \cup {new}
    BY DEF new
  <1>3. UniqueRoot(credits') /\ RootsBefore(credits', tx + 1)
    BY <1>1, <1>2, RootsAdd, IdTypes DEF LedgerInv, OneLiveVersion, IdsAreOld
  <1>4. IdsAreOld' /\ OneLiveVersion'
    BY <1>1, <1>3, IdsStayOld DEF LedgerInv, IdsAreOld, OneLiveVersion, UniqueRoot, UniqueLine
  <1>5. \A h \in allocations : h.credit # new.root
    BY <1>1, IdTypes, CidNumber DEF LedgerInv, IdsAreOld
  <1>6. CreditAllocatedOnce'
    BY <1>1, <1>2, <1>5 DEF LedgerInv, CreditAllocatedOnce
  <1>7. ActionsGateLines' /\ NoEarlyRelease'
    BY DEF LedgerInv, ActionsGateLines, LineOf, Gates, NoEarlyRelease, Releases
  <1>8. ReleaseNeedsApproval' /\ ClearedIsReleased'
    BY DEF LedgerInv, ReleaseNeedsApproval, Releases, LineOf, ClearedIsReleased, cleared
  <1>9. QED
    BY <1>4, <1>6, <1>7, <1>8 DEF Ids, Core

\* A credit marked outside of an allocation: no allocation names it, then or later.
LEMMA MarkUnusedInv == ASSUME LedgerInv, NEW c \in credits, MarkUnused(c) PROVE Ids' /\ Core'
  <1> DEFINE new == [c EXCEPT !.cid = Here, !.allocated = TRUE]
  <1>1. /\ credits' = Replace(credits, c, new) /\ tx' = tx + 1
        /\ UNCHANGED <<policies, runs, balances, actions, receipts, portfolios, allocations>>
    BY DEF MarkUnused, MarkAllocated, Commit
  <1>2. new.root = c.root /\ new.allocated = TRUE
    BY DEF LedgerInv, TypeOK, Credit
  <1> HIDE DEF new
  <1>3. UniqueRoot(credits') /\ RootsBefore(credits', tx + 1)
    BY <1>1, <1>2, RootsReplace, IdTypes DEF LedgerInv, OneLiveVersion, IdsAreOld
  <1>4. IdsAreOld' /\ OneLiveVersion'
    BY <1>1, <1>3, IdsStayOld DEF LedgerInv, IdsAreOld, OneLiveVersion, UniqueRoot, UniqueLine
  <1>5. CreditAllocatedOnce'
    BY <1>1, <1>2 DEF LedgerInv, CreditAllocatedOnce, Replace
  <1>6. ActionsGateLines' /\ NoEarlyRelease'
    BY <1>1 DEF LedgerInv, ActionsGateLines, LineOf, Gates, NoEarlyRelease, Releases
  <1>7. ReleaseNeedsApproval' /\ ClearedIsReleased'
    BY <1>1 DEF LedgerInv, ReleaseNeedsApproval, Releases, LineOf, ClearedIsReleased, cleared
  <1>8. QED
    BY <1>4, <1>5, <1>6, <1>7 DEF Ids, Core

-----------------------------------------------------------------------------
\* Approve and Reject: the action changes status, nothing else changes.
LEMMA DecideInv ==
    ASSUME LedgerInv, NEW a \in actions, NEW st \in {"Approved", "Rejected"},
           a.status = "Pending", Commit,
           actions' = Replace(actions, a, [a EXCEPT !.cid = Here, !.status = st]),
           UNCHANGED <<notices, credits, policies, runs, balances, receipts, portfolios, allocations>>
    PROVE  Ids' /\ Core'
  <1> DEFINE new == [a EXCEPT !.cid = Here, !.status = st]
  <1>1. actions' = Replace(actions, a, new) /\ tx' = tx + 1
    BY DEF Commit
  <1>2. /\ new.line = a.line /\ new.actionType = a.actionType /\ new.recipient = a.recipient
        /\ new.portfolioTarget = a.portfolioTarget /\ new.status # "Executed"
    BY DEF LedgerInv, TypeOK, Action
  <1> HIDE DEF new
  <1>3. UniqueLine(actions') /\ LinesBefore(actions', tx + 1)
    BY <1>1, <1>2, LinesReplace, IdTypes DEF LedgerInv, OneLiveVersion, IdsAreOld
  <1>4. IdsAreOld' /\ OneLiveVersion'
    BY <1>1, <1>3, IdsStayOld DEF LedgerInv, IdsAreOld, OneLiveVersion, UniqueRoot, UniqueLine
  <1>5. CreditAllocatedOnce'
    BY DEF LedgerInv, CreditAllocatedOnce
  <1>6. ActionsGateLines'
    BY <1>1, <1>2 DEF LedgerInv, ActionsGateLines, LineOf, Gates, Replace
  <1>7. NoEarlyRelease'
    BY <1>1, <1>2 DEF LedgerInv, NoEarlyRelease, Releases, Replace
  <1>8. \A b \in actions : b.status = "Executed" => b \in actions'
    BY <1>1 DEF Replace
  <1>9. \A b \in actions' : b.status = "Executed" => b \in actions
    BY <1>1, <1>2 DEF Replace
  <1>10. ReleaseNeedsApproval'
    BY <1>8 DEF LedgerInv, ReleaseNeedsApproval, Releases, LineOf
  <1>11. ClearedIsReleased'
    BY <1>9 DEF LedgerInv, ClearedIsReleased, cleared, LineOf
  <1>12. QED
    BY <1>4, <1>5, <1>6, <1>7, <1>10, <1>11 DEF Ids, Core

\* The contracts an executed action releases.
payments(a, runId) ==
    IF releasesPayment(a) THEN {newReceipt(Here, a.line, a.user, a.recipient, a.amount, runId)}
    ELSE {}
records(a, runId) ==
    IF releasesPortfolio(a) THEN {newPortfolio(Here, a.line, a.user, a.amount, runId)} ELSE {}

\* Executing an approved action releases the money of its line, once.
LEMMA ExecuteApprovedActionInv ==
    ASSUME LedgerInv, NEW a \in actions, NEW runId \in RunIds, ExecuteApprovedAction(a, runId)
    PROVE  Ids' /\ Core'
  <1> DEFINE new == [a EXCEPT !.cid = Here, !.status = "Executed"]
             P == payments(a, runId)
             R == records(a, runId)
  <1>1. /\ actions' = Replace(actions, a, new) /\ tx' = tx + 1
        /\ receipts' = receipts \cup P /\ portfolios' = portfolios \cup R
        /\ a.status = "Approved"
        /\ UNCHANGED <<credits, policies, runs, balances, allocations>>
    BY DEF ExecuteApprovedAction, Commit, payments, records
  <1>2. /\ new.line = a.line /\ new.actionType = a.actionType /\ new.recipient = a.recipient
        /\ new.portfolioTarget = a.portfolioTarget /\ new.status = "Executed"
    BY DEF LedgerInv, TypeOK, Action
  <1>3. /\ \A x \in P : x.line = a.line /\ x.recipient = a.recipient
        /\ \A x \in R : x.line = a.line
        /\ releasesPayment(a) => P # {}
        /\ releasesPortfolio(a) => R # {}
        /\ \A x, y \in P : x = y
        /\ \A x, y \in R : x = y
        /\ P = {} \/ R = {}
    <2>1. \A x \in P : x.line = a.line /\ x.recipient = a.recipient
      BY DEF payments, newReceipt
    <2>2. \A x \in R : x.line = a.line
      BY DEF records, newPortfolio
    <2>3. /\ releasesPayment(a) => P # {}
          /\ \A x, y \in P : x = y
      BY DEF payments
    <2>4. /\ releasesPortfolio(a) => R # {}
          /\ \A x, y \in R : x = y
      BY DEF records
    <2>5. P = {} \/ R = {}
      BY DEF payments, records, releasesPayment, releasesPortfolio
    <2>6. QED
      BY <2>1, <2>2, <2>3, <2>4, <2>5
  <1>4. a.line \in Cid /\ a.line[1] \in Nat /\ a.line[1] < tx /\ tx \in Nat
    BY IdTypes, CidNumber DEF LedgerInv, IdsAreOld, LinesBefore
  <1>5. \A x \in Releases : x.line # a.line
    BY <1>1 DEF LedgerInv, NoEarlyRelease
  <1> HIDE DEF new, P, R
  <1>6. UniqueLine(actions') /\ LinesBefore(actions', tx + 1)
    BY <1>1, <1>2, LinesReplace, IdTypes DEF LedgerInv, OneLiveVersion, IdsAreOld
  <1>7. LinesBefore(receipts', tx + 1) /\ LinesBefore(portfolios', tx + 1)
    BY <1>1, <1>3, <1>4, IdsStayOld DEF LedgerInv, LinesBefore
  <1>8. UniqueLine(receipts') /\ UniqueLine(portfolios')
    BY <1>1, <1>3, <1>5 DEF LedgerInv, OneLiveVersion, UniqueLine, Releases
  <1>9. \A x \in receipts', y \in portfolios' : x.line # y.line
    BY <1>1, <1>3, <1>5 DEF LedgerInv, OneLiveVersion, Releases
  <1>10. IdsAreOld' /\ OneLiveVersion'
    BY <1>1, <1>6, <1>7, <1>8, <1>9, IdsStayOld
    DEF LedgerInv, IdsAreOld, OneLiveVersion, UniqueRoot, UniqueLine
  <1>11. CreditAllocatedOnce'
    BY <1>1 DEF LedgerInv, CreditAllocatedOnce
  <1>12. ActionsGateLines'
    BY <1>1, <1>2 DEF LedgerInv, ActionsGateLines, LineOf, Gates, Replace
  <1>13. \A x \in Releases' : x \in Releases \/ x.line = a.line
    BY <1>1, <1>3 DEF Releases
  <1>14. \A b \in actions' : b = new \/ (b \in actions /\ b.line # a.line)
    BY <1>1 DEF Replace, LedgerInv, OneLiveVersion, UniqueLine
  <1>15. NoEarlyRelease'
    BY <1>2, <1>5, <1>13, <1>14 DEF LedgerInv, NoEarlyRelease
  <1>16. \A b \in actions : b.status = "Executed" => b \in actions'
    BY <1>1 DEF Replace
  <1>17. new \in actions'
    BY <1>1 DEF Replace
  <1>18. ReleaseNeedsApproval'
    <2>1. ASSUME NEW x \in Releases'
          PROVE  \E h \in allocations : \E i \in DOMAIN h.rules :
                    /\ x.line = <<h.at, i>>
                    /\ h.rules[i].requiresApproval =>
                           \E b \in actions' : b.line = x.line /\ b.status = "Executed"
      <3>1. CASE x \in Releases
        BY <3>1, <1>16 DEF LedgerInv, ReleaseNeedsApproval, LineOf
      <3>2. CASE x.line = a.line
        BY <3>2, <1>2, <1>17 DEF LedgerInv, ActionsGateLines, LineOf
      <3>3. QED
        BY <3>1, <3>2, <1>13
    <2>2. QED
      BY <2>1, <1>1 DEF ReleaseNeedsApproval, LineOf
  <1>19. ClearedIsReleased'
    <2>1. ASSUME NEW h \in allocations, NEW i \in DOMAIN h.rules, a.line = LineOf(h, i)
          PROVE  /\ Pays(h.rules[i].categoryType, h.rules[i].recipient) =>
                      \E x \in receipts' : x.line = LineOf(h, i) /\ x.recipient = h.rules[i].recipient
                 /\ Invests(h.rules[i].categoryType, h.rules[i].portfolioTarget) =>
                      \E x \in portfolios' : x.line = LineOf(h, i)
      <3>1. Gates(a, h, i)
        BY <2>1 DEF LedgerInv, ActionsGateLines
      <3>2. Pays(h.rules[i].categoryType, h.rules[i].recipient) => releasesPayment(a)
        BY <3>1 DEF Gates, Pays, releasesPayment, categoryActionType
      <3>3. Invests(h.rules[i].categoryType, h.rules[i].portfolioTarget) => releasesPortfolio(a)
        BY <3>1 DEF Gates, Invests, releasesPortfolio, categoryActionType
      <3>4. a.recipient = h.rules[i].recipient
        BY <3>1 DEF Gates
      <3>5. QED
        BY <2>1, <3>2, <3>3, <3>4, <1>1, <1>3
    <2>2. receipts \subseteq receipts' /\ portfolios \subseteq portfolios'
      BY <1>1
    <2>3. \A h \in allocations : \A i \in DOMAIN h.rules :
            cleared(h, i)' => a.line = LineOf(h, i) \/ cleared(h, i)
      BY <1>2, <1>14 DEF cleared, LineOf
    <2>4. ASSUME NEW h \in allocations, NEW i \in DOMAIN h.rules, cleared(h, i)'
          PROVE  /\ Pays(h.rules[i].categoryType, h.rules[i].recipient) =>
                      \E x \in receipts' : x.line = LineOf(h, i) /\ x.recipient = h.rules[i].recipient
                 /\ Invests(h.rules[i].categoryType, h.rules[i].portfolioTarget) =>
                      \E x \in portfolios' : x.line = LineOf(h, i)
      <3>1. CASE a.line = LineOf(h, i)
        BY <3>1, <2>1
      <3>2. CASE cleared(h, i)
        BY <3>2, <2>2 DEF LedgerInv, ClearedIsReleased
      <3>3. QED
        BY <2>3, <2>4, <3>1, <3>2
    <2>5. QED
      BY <2>4, <1>1 DEF ClearedIsReleased, LineOf
  <1>20. QED
    BY <1>10, <1>11, <1>12, <1>15, <1>18, <1>19 DEF Ids, Core

\* A receipt or a portfolio record is replaced by one of the same line.
LEMMA AcknowledgeInv ==
    ASSUME LedgerInv, NEW x \in receipts, Acknowledge(x)
    PROVE  Ids' /\ Core'
  <1> DEFINE new == [x EXCEPT !.cid = Here, !.acknowledged = TRUE]
  <1>1. /\ receipts' = Replace(receipts, x, new) /\ tx' = tx + 1
        /\ UNCHANGED <<credits, policies, runs, balances, actions, portfolios, allocations>>
    BY DEF Acknowledge, Commit
  <1>2. new.line = x.line /\ new.recipient = x.recipient
    BY DEF LedgerInv, TypeOK, Receipt
  <1> HIDE DEF new
  <1>3. UniqueLine(receipts') /\ LinesBefore(receipts', tx + 1)
    BY <1>1, <1>2, LinesReplace, IdTypes DEF LedgerInv, OneLiveVersion, IdsAreOld
  <1>4. /\ \A y \in receipts' : \E z \in receipts : y.line = z.line
        /\ \A z \in receipts : \E y \in receipts' : y.line = z.line /\ y.recipient = z.recipient
    BY <1>1, <1>2 DEF Replace
  <1>5. \A y \in receipts', z \in portfolios' : y.line # z.line
    BY <1>1, <1>4 DEF LedgerInv, OneLiveVersion
  <1>6. IdsAreOld' /\ OneLiveVersion'
    BY <1>1, <1>3, <1>5, IdsStayOld
    DEF LedgerInv, IdsAreOld, OneLiveVersion, UniqueRoot, UniqueLine
  <1>7. CreditAllocatedOnce' /\ ActionsGateLines'
    BY <1>1 DEF LedgerInv, CreditAllocatedOnce, ActionsGateLines, LineOf, Gates
  <1>8. \A y \in Releases' : \E z \in Releases : y.line = z.line
    BY <1>1, <1>4 DEF Releases
  <1>9. NoEarlyRelease'
    BY <1>1, <1>8 DEF LedgerInv, NoEarlyRelease
  <1>10. ReleaseNeedsApproval'
    BY <1>1, <1>8 DEF LedgerInv, ReleaseNeedsApproval, LineOf
  <1>11. ClearedIsReleased'
    <2>1. \A h \in allocations : \A i \in DOMAIN h.rules :
            /\ cleared(h, i)' <=> cleared(h, i)
            /\ LineOf(h, i)' = LineOf(h, i)
      BY <1>1 DEF cleared, LineOf
    <2>2. QED
      BY <2>1, <1>1, <1>4 DEF LedgerInv, ClearedIsReleased
  <1>12. QED
    BY <1>6, <1>7, <1>9, <1>10, <1>11 DEF Ids, Core

\* Renaming or archiving a portfolio record keeps its line and its amount.
LEMMA PortfolioChoicesInv ==
    ASSUME LedgerInv, NEW x \in portfolios,
           RenamePortfolioAllocation(x) \/ ArchivePortfolioAllocation(x)
    PROVE  Ids' /\ Core'
  <1>1. PICK new : /\ portfolios' = Replace(portfolios, x, new) /\ tx' = tx + 1
                   /\ new.line = x.line
                   /\ UNCHANGED <<credits, policies, runs, balances, actions, receipts, allocations>>
    <2>1. x \in Portfolio
      BY DEF LedgerInv, TypeOK
    <2>2. /\ [x EXCEPT !.cid = Here].line = x.line
          /\ [x EXCEPT !.cid = Here, !.archived = TRUE].line = x.line
      BY <2>1 DEF Portfolio
    <2>3. QED
      BY <2>2 DEF RenamePortfolioAllocation, ArchivePortfolioAllocation, Commit
  <1>2. UniqueLine(portfolios') /\ LinesBefore(portfolios', tx + 1)
    BY <1>1, LinesReplace, IdTypes DEF LedgerInv, OneLiveVersion, IdsAreOld
  <1>3. /\ \A y \in portfolios' : \E z \in portfolios : y.line = z.line
        /\ \A z \in portfolios : \E y \in portfolios' : y.line = z.line
    BY <1>1 DEF Replace
  <1>4. \A y \in receipts', z \in portfolios' : y.line # z.line
    BY <1>1, <1>3 DEF LedgerInv, OneLiveVersion
  <1>5. IdsAreOld' /\ OneLiveVersion'
    BY <1>1, <1>2, <1>4, IdsStayOld
    DEF LedgerInv, IdsAreOld, OneLiveVersion, UniqueRoot, UniqueLine
  <1>6. CreditAllocatedOnce' /\ ActionsGateLines'
    BY <1>1 DEF LedgerInv, CreditAllocatedOnce, ActionsGateLines, LineOf, Gates
  <1>7. \A y \in Releases' : \E z \in Releases : y.line = z.line
    BY <1>1, <1>3 DEF Releases
  <1>8. NoEarlyRelease'
    BY <1>1, <1>7 DEF LedgerInv, NoEarlyRelease
  <1>9. ReleaseNeedsApproval'
    BY <1>1, <1>7 DEF LedgerInv, ReleaseNeedsApproval, LineOf
  <1>10. ClearedIsReleased'
    <2>1. \A h \in allocations : \A i \in DOMAIN h.rules :
            /\ cleared(h, i)' <=> cleared(h, i)
            /\ LineOf(h, i)' = LineOf(h, i)
      BY <1>1 DEF cleared, LineOf
    <2>2. QED
      BY <2>1, <1>1, <1>3 DEF LedgerInv, ClearedIsReleased
  <1>11. QED
    BY <1>5, <1>6, <1>8, <1>9, <1>10 DEF Ids, Core

-----------------------------------------------------------------------------
\* ExecuteAllocation: everything it creates stands for a line of its own
\* transaction, so nothing that was there before can be mistaken for it.
LEMMA ExecuteAllocationInv ==
    ASSUME LedgerInv, NEW r \in runs, NEW p \in policies, NEW c \in credits,
           ExecuteAllocation(r, p, c)
    PROVE  Ids' /\ Core'
  <1> DEFINE rules == p.categories
             share(i) == allocationAmount(c.amount, rules[i].percentageBps)
             B == {newBalance(r.user, r.runId, c.amount, rules, i) : i \in DOMAIN rules}
             A == {newAction(r.user, c.amount, rules, i) : i \in gated(rules)}
             P == {newReceipt(<<tx, i>>, <<tx, i>>, r.user, rules[i].recipient, share(i), r.runId) :
                       i \in paidAtOnce(rules)}
             F == {newPortfolio(<<tx, i>>, <<tx, i>>, r.user, share(i), r.runId) :
                       i \in investedAtOnce(rules)}
             h0 == [at |-> tx, credit |-> c.root, run |-> r.root, amount |-> c.amount,
                    rules |-> rules, approvalRules |-> p.approvalRules]
  <1>1. /\ tx' = tx + 1 /\ policies' = policies
        /\ balances' = balances \cup B /\ actions' = actions \cup A
        /\ receipts' = receipts \cup P /\ portfolios' = portfolios \cup F
        /\ allocations' = allocations \cup {h0}
        /\ credits' = MarkAllocated(credits, c)
        /\ ~c.allocated
    BY DEF ExecuteAllocation, mayAllocate, Commit
  <1>2. PICK run : runs' = Replace(runs, r, run) /\ run.root = r.root
    <2>1. r \in Run
      BY DEF LedgerInv, TypeOK
    <2> DEFINE lines == [i \in DOMAIN rules |-> ruleToLine(c.amount, rules[i])]
               status == IF gated(rules) # {} THEN "AllocationPartiallyPendingApproval"
                                              ELSE "AllocationExecuted"
               new == [r EXCEPT !.cid = Here, !.policyVersion = p.version,
                                !.payrollAmount = c.amount, !.lines = lines, !.status = status]
    <2>2. runs' = Replace(runs, r, new)
      BY DEF ExecuteAllocation
    <2>3. new.root = r.root
      <3> HIDE DEF lines, status
      <3>1. QED
        BY <2>1 DEF Run
    <2>4. QED
      BY <2>2, <2>3
  <1>3. /\ \A x \in B : \E i \in DOMAIN rules : x.line = <<tx, i>>
        /\ UniqueLine(B)
    <2>1. \A i : newBalance(r.user, r.runId, c.amount, rules, i).line = <<tx, i>>
      BY DEF newBalance
    <2>2. QED
      BY <2>1 DEF UniqueLine
  <1>4. /\ \A x \in A : \E i \in gated(rules) :
               x.line = <<tx, i>> /\ x = newAction(r.user, c.amount, rules, i)
        /\ UniqueLine(A)
        /\ \A x \in A : x.status = "Pending"
    BY DEF newAction, UniqueLine
  <1>5. /\ \A x \in P : \E i \in paidAtOnce(rules) : x.line = <<tx, i>>
        /\ \A i \in paidAtOnce(rules) : \E x \in P :
               x.line = <<tx, i>> /\ x.recipient = rules[i].recipient
        /\ UniqueLine(P)
    <2> DEFINE receipt(i) ==
                 newReceipt(<<tx, i>>, <<tx, i>>, r.user, rules[i].recipient, share(i), r.runId)
    <2>1. \A i : receipt(i).line = <<tx, i>> /\ receipt(i).recipient = rules[i].recipient
      BY DEF newReceipt
    <2>2. P = {receipt(i) : i \in paidAtOnce(rules)}
      OBVIOUS
    <2> HIDE DEF receipt, P
    <2>3. QED
      BY <2>1, <2>2 DEF UniqueLine
  <1>6. /\ \A x \in F : \E i \in investedAtOnce(rules) : x.line = <<tx, i>>
        /\ \A i \in investedAtOnce(rules) : \E x \in F : x.line = <<tx, i>>
        /\ UniqueLine(F)
    <2> DEFINE record(i) == newPortfolio(<<tx, i>>, <<tx, i>>, r.user, share(i), r.runId)
    <2>1. \A i : record(i).line = <<tx, i>>
      BY DEF newPortfolio
    <2>2. F = {record(i) : i \in investedAtOnce(rules)}
      OBVIOUS
    <2> HIDE DEF record, F
    <2>3. QED
      BY <2>1, <2>2 DEF UniqueLine
  <1>7. h0.at = tx /\ h0.rules = rules /\ h0.credit = c.root
    OBVIOUS
  <1>8. /\ \A i \in gated(rules) : i \in DOMAIN rules /\ rules[i].requiresApproval
        /\ \A i \in DOMAIN rules : rules[i].requiresApproval => i \in gated(rules)
        /\ \A i \in paidAtOnce(rules) : i \in DOMAIN rules /\ ~rules[i].requiresApproval
        /\ \A i \in investedAtOnce(rules) : i \in DOMAIN rules /\ ~rules[i].requiresApproval
        /\ \A i \in DOMAIN rules : ~rules[i].requiresApproval =>
               /\ Pays(rules[i].categoryType, rules[i].recipient) => i \in paidAtOnce(rules)
               /\ Invests(rules[i].categoryType, rules[i].portfolioTarget) => i \in investedAtOnce(rules)
        /\ \A i \in paidAtOnce(rules) : i \notin investedAtOnce(rules)
    BY DEF gated, paidAtOnce, investedAtOnce, Pays, Invests
  <1>9. \A i \in gated(rules) : newAction(r.user, c.amount, rules, i).line = <<tx, i>>
                                /\ Gates(newAction(r.user, c.amount, rules, i), h0, i)
    BY <1>7, <1>8 DEF newAction, Gates
  <1>10. /\ tx \in Nat
         /\ \A x \in balances \cup actions \cup receipts \cup portfolios :
                \A i : x.line # <<tx, i>>
         /\ \A h \in allocations : h.at # tx
    BY IdTypes, CidNumber DEF LedgerInv, IdsAreOld, LinesBefore
  <1> HIDE DEF B, A, P, F, h0, rules
  <1>11. UniqueLine(balances') /\ LinesBefore(balances', tx + 1)
    BY <1>1, <1>3, LinesAdd, IdTypes DEF LedgerInv, OneLiveVersion, IdsAreOld
  <1>12. UniqueLine(actions') /\ LinesBefore(actions', tx + 1)
    BY <1>1, <1>4, LinesAdd, IdTypes DEF LedgerInv, OneLiveVersion, IdsAreOld
  <1>13. UniqueLine(receipts') /\ LinesBefore(receipts', tx + 1)
    BY <1>1, <1>5, LinesAdd, IdTypes DEF LedgerInv, OneLiveVersion, IdsAreOld
  <1>14. UniqueLine(portfolios') /\ LinesBefore(portfolios', tx + 1)
    BY <1>1, <1>6, LinesAdd, IdTypes DEF LedgerInv, OneLiveVersion, IdsAreOld
  <1>15. UniqueRoot(runs') /\ RootsBefore(runs', tx + 1)
    BY <1>2, RootsReplace, IdTypes DEF LedgerInv, OneLiveVersion, IdsAreOld
  <1>16. PICK spent : /\ credits' = Replace(credits, c, spent)
                      /\ spent.root = c.root /\ spent.allocated
    <2>1. c \in Credit
      BY DEF LedgerInv, TypeOK
    <2>2. /\ [c EXCEPT !.cid = Here, !.allocated = TRUE].root = c.root
          /\ [c EXCEPT !.cid = Here, !.allocated = TRUE].allocated
      BY <2>1 DEF Credit
    <2>3. QED
      BY <2>2, <1>1 DEF MarkAllocated
  <1>17. UniqueRoot(credits') /\ RootsBefore(credits', tx + 1)
    BY <1>16, RootsReplace, IdTypes DEF LedgerInv, OneLiveVersion, IdsAreOld
  <1>18. \A x \in receipts', y \in portfolios' : x.line # y.line
    <2>1. \A x \in receipts, y \in portfolios : x.line # y.line
      BY DEF LedgerInv, OneLiveVersion
    <2>2. \A x \in receipts, y \in F : x.line # y.line
      BY <1>6, <1>10
    <2>3. \A x \in P, y \in portfolios : x.line # y.line
      BY <1>5, <1>10
    <2>4. \A x \in P, y \in F : x.line # y.line
      BY <1>5, <1>6, <1>8
    <2>5. QED
      BY <2>1, <2>2, <2>3, <2>4, <1>1
  <1>19. \A h \in allocations' : h.at < tx + 1 /\ h.credit[1] < tx + 1
    BY <1>1, <1>7, <1>10, IdsStayOld DEF LedgerInv, IdsAreOld, RootsBefore
  <1>20. IdsAreOld' /\ OneLiveVersion'
    BY <1>1, <1>11, <1>12, <1>13, <1>14, <1>15, <1>17, <1>18, <1>19, IdsStayOld
    DEF LedgerInv, IdsAreOld, OneLiveVersion, UniqueRoot
  <1>21. CreditAllocatedOnce'
    <2>1. \A h \in allocations : h.credit # c.root
      BY <1>1 DEF LedgerInv, CreditAllocatedOnce
    <2>2. \A x \in credits : x = c \/ x.root # c.root
      BY DEF LedgerInv, OneLiveVersion, UniqueRoot
    <2>3. \A x \in credits' : x = spent \/ (x \in credits /\ x.root # c.root)
      BY <2>2, <1>16 DEF Replace
    <2>4. \A g, h \in allocations' : g.credit = h.credit => g = h
      BY <2>1, <1>1, <1>7 DEF LedgerInv, CreditAllocatedOnce
    <2>5. \A x \in credits' : (\E h \in allocations' : h.credit = x.root) => x.allocated
      BY <2>3, <1>1, <1>7, <1>16 DEF LedgerInv, CreditAllocatedOnce
    <2>6. QED
      BY <2>4, <2>5 DEF CreditAllocatedOnce
  <1>22. ActionsGateLines'
    <2>1. ASSUME NEW a \in actions'
          PROVE  /\ \E h \in allocations' : \E i \in DOMAIN h.rules : a.line = <<h.at, i>>
                 /\ \A h \in allocations' : \A i \in DOMAIN h.rules :
                        a.line = <<h.at, i>> => Gates(a, h, i)
      <3>1. CASE a \in actions
        BY <3>1, <1>1, <1>7, <1>10 DEF LedgerInv, ActionsGateLines, LineOf
      <3>2. CASE a \in A
        <4>1. PICK i \in gated(rules) :
                  a.line = <<tx, i>> /\ a = newAction(r.user, c.amount, rules, i)
          BY <3>2, <1>4
        <4>2. h0 \in allocations' /\ i \in DOMAIN h0.rules /\ a.line = <<h0.at, i>>
          BY <4>1, <1>1, <1>7, <1>8
        <4>3. ASSUME NEW h \in allocations', NEW j \in DOMAIN h.rules, a.line = <<h.at, j>>
              PROVE  Gates(a, h, j)
          <5>1. h = h0 /\ j = i
            BY <4>1, <4>3, <1>1, <1>7, <1>10
          <5>2. QED
            BY <5>1, <4>1, <1>9
        <4>4. QED
          BY <4>2, <4>3
      <3>3. QED
        BY <3>1, <3>2, <1>1
    <2>2. QED
      BY <2>1 DEF ActionsGateLines, LineOf, Gates
  <1>23. NoEarlyRelease'
    <2>1. ASSUME NEW a \in actions', NEW x \in Releases', x.line = a.line
          PROVE  a.status = "Executed"
      <3>1. x \in Releases \/ x \in P \/ x \in F
        BY <1>1 DEF Releases
      <3>2. CASE a \in actions /\ x \in Releases
        BY <3>2, <2>1 DEF LedgerInv, NoEarlyRelease
      <3>3. CASE a \in actions /\ x \notin Releases
        BY <3>1, <3>3, <2>1, <1>5, <1>6, <1>10
      <3>4. CASE a \in A /\ x \in Releases
        BY <3>4, <2>1, <1>4, <1>10 DEF Releases
      <3>5. CASE a \in A /\ x \notin Releases
        BY <3>1, <3>5, <2>1, <1>4, <1>5, <1>6, <1>8
      <3>6. QED
        BY <3>2, <3>3, <3>4, <3>5, <1>1
    <2>2. QED
      BY <2>1 DEF NoEarlyRelease
  <1>24. ReleaseNeedsApproval'
    <2>1. ASSUME NEW x \in Releases'
          PROVE  \E h \in allocations' : \E i \in DOMAIN h.rules :
                    /\ x.line = <<h.at, i>>
                    /\ h.rules[i].requiresApproval =>
                           \E b \in actions' : b.line = x.line /\ b.status = "Executed"
      <3>1. CASE x \in Releases
        BY <3>1, <1>1 DEF LedgerInv, ReleaseNeedsApproval, LineOf
      <3>2. CASE x \in P \/ x \in F
        <4>1. PICK i \in DOMAIN rules : x.line = <<tx, i>> /\ ~rules[i].requiresApproval
          BY <3>2, <1>5, <1>6, <1>8
        <4>2. h0 \in allocations'
          BY <1>1
        <4>3. QED
          BY <4>1, <4>2, <1>7
      <3>3. QED
        BY <3>1, <3>2, <1>1 DEF Releases
    <2>2. QED
      BY <2>1 DEF ReleaseNeedsApproval, LineOf
  <1>25. ClearedIsReleased'
    <2>1. ASSUME NEW h \in allocations', NEW i \in DOMAIN h.rules, cleared(h, i)'
          PROVE  /\ Pays(h.rules[i].categoryType, h.rules[i].recipient) =>
                      \E x \in receipts' : x.line = <<h.at, i>> /\ x.recipient = h.rules[i].recipient
                 /\ Invests(h.rules[i].categoryType, h.rules[i].portfolioTarget) =>
                      \E x \in portfolios' : x.line = <<h.at, i>>
      <3>1. ~h.rules[i].requiresApproval \/ \E b \in actions : b.line = <<h.at, i>> /\ b.status = "Executed"
        BY <2>1, <1>1, <1>4 DEF cleared, LineOf
      <3>2. CASE h \in allocations
        <4>1. cleared(h, i)
          BY <3>1 DEF cleared, LineOf
        <4>2. receipts \subseteq receipts' /\ portfolios \subseteq portfolios'
          BY <1>1
        <4>3. QED
          BY <3>2, <4>1, <4>2 DEF LedgerInv, ClearedIsReleased, LineOf
      <3>3. CASE h = h0
        <4>1. i \in DOMAIN rules /\ ~rules[i].requiresApproval
          BY <3>1, <3>3, <1>7, <1>10
        <4>2. QED
          BY <4>1, <3>3, <1>1, <1>5, <1>6, <1>7, <1>8
      <3>4. QED
        BY <3>2, <3>3, <1>1
    <2>2. QED
      BY <2>1 DEF ClearedIsReleased, LineOf
  <1>26. QED
    BY <1>20, <1>21, <1>22, <1>23, <1>24, <1>25 DEF Ids, Core

-----------------------------------------------------------------------------
\* Every step keeps the inductive invariant.
LEMMA LedgerInvStep == ASSUME LedgerInv, [Next]_vars PROVE LedgerInv'
  <1>1. TypeOK'
    BY TypeStep DEF LedgerInv
  <1>2. ASSUME Next PROVE Ids' /\ Core'
    <2>1. CASE \E u \in Users, form \in PolicyForms : CreatePolicy(u, form)
      BY <2>1, CreatePolicyInv
    <2>2. CASE \E q \in policies, form \in PolicyForms : UpdatePolicy(q, form)
      BY <2>2, UpdatePolicyInv
    <2>3. CASE \E q \in policies : DeactivatePolicy(q)
      BY <2>3, DeactivatePolicyInv
    <2>4. CASE \E e \in Employers, u \in Users, amount \in Amounts : CreateNotice(e, u, amount)
      BY <2>4, CreateNoticeInv
    <2>5. CASE \E u \in Users, amount \in Amounts : CreateCredit(u, amount)
      BY <2>5, NewCreditInv DEF CreateCredit
    <2>6. CASE \E n \in notices : ConfirmReceived(n)
      BY <2>6, NewCreditInv DEF ConfirmReceived
    <2>7. CASE \E q \in policies, c \in credits, runId \in RunIds : CreateRun(q, c, runId)
      BY <2>7, CreateRunInv
    <2>8. CASE \E r \in runs, q \in policies, c \in credits : ExecuteAllocation(r, q, c)
      BY <2>8, ExecuteAllocationInv
    <2>9. CASE \E a \in actions : Approve(a) \/ Reject(a)
      BY <2>9, DecideInv DEF Approve, Reject
    <2>10. CASE \E a \in actions, runId \in RunIds : ExecuteApprovedAction(a, runId)
      BY <2>10, ExecuteApprovedActionInv
    <2>11. CASE \E b \in balances :
                  \/ \E amount \in Adjustments : IncreaseBalance(b, amount) \/ DecreaseBalance(b, amount)
                  \/ \E label \in Labels : RenameCategory(b, label)
                  \/ ArchiveIfZero(b)
      BY <2>11, AllBalanceChoicesInv
    <2>12. CASE \E x \in receipts : Acknowledge(x)
      BY <2>12, AcknowledgeInv
    <2>13. CASE \E x \in portfolios : RenamePortfolioAllocation(x) \/ ArchivePortfolioAllocation(x)
      BY <2>13, PortfolioChoicesInv
    <2>14. CASE \E c \in credits : MarkUnused(c)
      BY <2>14, MarkUnusedInv
    <2>15. QED
      BY <1>2, <2>1, <2>2, <2>3, <2>4, <2>5, <2>6, <2>7, <2>8, <2>9, <2>10, <2>11, <2>12, <2>13, <2>14
      DEF Next
  <1>3. ASSUME UNCHANGED vars PROVE Ids' /\ Core'
    <2>1. IdsAreOld' /\ OneLiveVersion'
      BY <1>3 DEF vars, LedgerInv, IdsAreOld, OneLiveVersion, UniqueRoot, UniqueLine, RootsBefore,
                  LinesBefore
    <2>2. QED
      BY <1>3, <2>1, CoreUnchanged DEF vars, Ids
  <1>4. QED
    BY <1>1, <1>2, <1>3 DEF LedgerInv, Ids, Core

\* The empty ledger satisfies the invariant.
LEMMA LedgerInvInit == ASSUME Init PROVE LedgerInv
  <1>1. TypeOK /\ IdsAreOld /\ OneLiveVersion
    BY DEF Init, TypeOK, IdsAreOld, OneLiveVersion, UniqueRoot, UniqueLine, RootsBefore, LinesBefore
  <1>2. CreditAllocatedOnce /\ ActionsGateLines /\ NoEarlyRelease
    BY DEF Init, CreditAllocatedOnce, ActionsGateLines, NoEarlyRelease
  <1>3. ReleaseNeedsApproval /\ ClearedIsReleased
    BY DEF Init, ReleaseNeedsApproval, Releases, ClearedIsReleased
  <1>4. QED
    BY <1>1, <1>2, <1>3 DEF LedgerInv

\* Every reachable ledger satisfies the inductive invariant.
THEOREM LedgerInvariant == Spec => []LedgerInv
  BY LedgerInvInit, LedgerInvStep, PTL DEF Spec

\* No choice leaves two live versions of a contract, and no allocation line
\* is paid or invested twice.
THEOREM OneLiveVersionHolds == Spec => []OneLiveVersion
  <1>1. LedgerInv => OneLiveVersion
    BY DEF LedgerInv
  <1>2. QED
    BY <1>1, LedgerInvariant, PTL

\* A payroll credit is spent at most once, and marked when it is.
THEOREM CreditAllocatedOnceHolds == Spec => []CreditAllocatedOnce
  <1>1. LedgerInv => CreditAllocatedOnce
    BY DEF LedgerInv
  <1>2. QED
    BY <1>1, LedgerInvariant, PTL

\* Money of a gated line leaves the ledger only through its executed action.
THEOREM ReleaseNeedsApprovalHolds == Spec => []ReleaseNeedsApproval
  <1>1. LedgerInv => ReleaseNeedsApproval
    BY DEF LedgerInv
  <1>2. QED
    BY <1>1, LedgerInvariant, PTL

\* A line nothing holds back has its receipt or portfolio record.
THEOREM ClearedIsReleasedHolds == Spec => []ClearedIsReleased
  <1>1. LedgerInv => ClearedIsReleased
    BY DEF LedgerInv
  <1>2. QED
    BY <1>1, LedgerInvariant, PTL

-----------------------------------------------------------------------------
(* The life of a pending action.                                           *)

\* Replacing one action by a legal successor is a legal step.
LEMMA ReplaceActionStep ==
    ASSUME TypeOK, NEW a \in actions,
           NEW st, \/ a.status = "Pending" /\ st \in {"Approved", "Rejected"}
                   \/ a.status = "Approved" /\ st = "Executed",
           actions' = Replace(actions, a, [a EXCEPT !.cid = Here, !.status = st])
    PROVE  ActionStep
  <1> DEFINE new == [a EXCEPT !.cid = Here, !.status = st]
  <1>1. \A x \in actions : x = [x EXCEPT !.cid = x.cid, !.status = x.status]
    BY DEF TypeOK, Action
  <1>2. a \in Action
    BY DEF TypeOK
  <1>3. new.status = st /\ new = [a EXCEPT !.cid = new.cid, !.status = new.status]
    BY <1>2 DEF Action
  <1>4. new \in actions' /\ \A x \in actions : x = a \/ x \in actions'
    BY DEF Replace
  <1> HIDE DEF new
  <1>5. QED
    BY <1>1, <1>3, <1>4 DEF ActionStep

\* An action is kept as it is by every step that only adds actions.
LEMMA KeepActionStep == ASSUME TypeOK, actions \subseteq actions' PROVE ActionStep
  <1>1. \A x \in actions : x = [x EXCEPT !.cid = x.cid, !.status = x.status]
    BY DEF TypeOK, Action
  <1>2. QED
    BY <1>1 DEF ActionStep

\* A pending action is decided once, executed only after it was approved,
\* and never changes what it stands for.
THEOREM ActionLifecycleHolds == Spec => ActionLifecycle
  <1>1. ASSUME TypeOK, Next PROVE ActionStep
    <2>1. CASE \E a \in actions : Approve(a)
      BY <1>1, <2>1, ReplaceActionStep DEF Approve
    <2>2. CASE \E a \in actions : Reject(a)
      BY <1>1, <2>2, ReplaceActionStep DEF Reject
    <2>3. CASE \E a \in actions, runId \in RunIds : ExecuteApprovedAction(a, runId)
      BY <1>1, <2>3, ReplaceActionStep DEF ExecuteApprovedAction
    <2>4. CASE \E r \in runs, p \in policies, c \in credits : ExecuteAllocation(r, p, c)
      BY <1>1, <2>4, KeepActionStep DEF ExecuteAllocation
    <2>5. CASE UNCHANGED actions
      BY <1>1, <2>5, KeepActionStep
    <2>6. QED
      BY <1>1, <2>1, <2>2, <2>3, <2>4, <2>5
      DEF Next, CreatePolicy, UpdatePolicy, DeactivatePolicy, CreateNotice, CreateCredit,
          ConfirmReceived, MarkUnused, CreateRun, IncreaseBalance, DecreaseBalance, RenameCategory,
          ArchiveIfZero, ReplaceBalance, Acknowledge, RenamePortfolioAllocation,
          ArchivePortfolioAllocation
  <1>2. TypeOK /\ [Next]_vars => [ActionStep]_vars
    BY <1>1
  <1>3. QED
    BY <1>2, TypeCorrect, PTL DEF Spec, ActionLifecycle

-----------------------------------------------------------------------------
(* Who owns what an allocation leaves behind.                              *)

\* What a step does to contracts: each one left in T is a version of one in
\* S, under the same root and owner, or was made up by this transaction.
RootsKept(S, T) ==
    \A y \in T : y.root[1] = tx \/ \E x \in S : x.root = y.root /\ x.user = y.user

\* Each artifact in T stands for the line of one in S, of the same owner.
LinesKept(S, T) == \A y \in T : \E x \in S : x.line = y.line /\ x.user = y.user

Artifacts == balances \cup actions \cup portfolios

\* Receipts name their payer, and may come from the execution of an action.
ReceiptsKept ==
    \A y \in receipts' :
        \/ \E x \in receipts : x.line = y.line /\ x.payer = y.payer
        \/ \E x \in actions : x.line = y.line /\ x.user = y.payer

\* Contracts left alone, replaced and created keep roots and owners.
LEMMA RootsKeptBy ==
    ASSUME NEW S
    PROVE  /\ RootsKept(S, S)
           /\ \A old \in S : \A new : new.root = old.root /\ new.user = old.user
                  => RootsKept(S, Replace(S, old, new))
           /\ \A new : new.root = Here => RootsKept(S, S \cup {new})
  BY DEF RootsKept, Replace, Here

\* Artifacts left alone and replaced keep lines and owners.
LEMMA LinesKeptBy ==
    ASSUME NEW S, NEW T, NEW old \in S, NEW new, new.line = old.line, new.user = old.user
    PROVE  LinesKept(S \cup T, Replace(S, old, new) \cup T)
  BY DEF LinesKept, Replace

\* A step that allocates nothing and keeps owners keeps the invariant.
LEMMA OwnersKept ==
    ASSUME LedgerInv, OwnedInv, Commit, allocations' = allocations,
           RootsKept(credits, credits'), RootsKept(runs, runs'),
           LinesKept(Artifacts, Artifacts'), ReceiptsKept
    PROVE  OwnedInv'
  <1>1. tx \in Nat /\ tx' = tx + 1
    BY DEF LedgerInv, TypeOK, Commit
  <1>2. \A h \in allocations : h.run \in Cid /\ h.credit \in Cid /\ h.at \in Nat
    BY DEF LedgerInv, TypeOK, Allocation
  <1>3. \A h \in allocations : h.run[1] \in Nat /\ h.run[1] < tx /\ h.credit[1] < tx
    BY <1>2, CidNumber DEF OwnedInv, LedgerInv, IdsAreOld
  <1>4. \A h \in allocations' : h.run[1] < tx'
    BY <1>1, <1>3
  <1>5. ASSUME NEW h \in allocations, NEW c \in credits', h.credit = c.root
        PROVE  /\ \A r \in runs' : r.root = h.run => r.user = c.user
               /\ \A b \in Artifacts' : b.line[1] = h.at => b.user = c.user
               /\ \A x \in receipts' : x.line[1] = h.at => x.payer = c.user
    <2>1. c.root[1] # tx
      BY <1>3, <1>1, <1>2, <1>5, CidNumber
    <2>2. PICK k \in credits : k.root = c.root /\ k.user = c.user
      BY <2>1 DEF RootsKept
    <2>3. /\ \A r \in runs : r.root = h.run => r.user = c.user
          /\ \A b \in Artifacts : b.line[1] = h.at => b.user = c.user
          /\ \A x \in receipts : x.line[1] = h.at => x.payer = c.user
      BY <2>2, <1>5 DEF OwnedInv, AllocationOwned, Artifacts
    <2>4. \A r \in runs' : r.root = h.run => r.root[1] # tx
      BY <1>1, <1>3
    <2>5. \A r \in runs' : r.root = h.run => r.user = c.user
      BY <2>3, <2>4 DEF RootsKept
    <2>6. \A b \in Artifacts' : b.line[1] = h.at => b.user = c.user
      BY <2>3 DEF LinesKept
    <2>7. \A x \in receipts' : x.line[1] = h.at => x.payer = c.user
      BY <2>3 DEF ReceiptsKept, Artifacts
    <2>8. QED
      BY <2>5, <2>6, <2>7
  <1>6. AllocationOwned'
    BY <1>5 DEF AllocationOwned, Artifacts
  <1>7. QED
    BY <1>4, <1>6 DEF OwnedInv

\* The parts of a step that OwnersKept asks of artifacts, when it changes none.
LEMMA ArtifactsAlone ==
    ASSUME UNCHANGED <<balances, actions, portfolios, receipts>>
    PROVE  LinesKept(Artifacts, Artifacts') /\ ReceiptsKept
  BY DEF LinesKept, Artifacts, ReceiptsKept

\* Steps on policies, notices, credits and runs that were not yet executed.
LEMMA PlainStepOwned ==
    ASSUME LedgerInv, OwnedInv,
           \/ \E u \in Users, form \in PolicyForms : CreatePolicy(u, form)
           \/ \E p \in policies, form \in PolicyForms : UpdatePolicy(p, form)
           \/ \E p \in policies : DeactivatePolicy(p)
           \/ \E e \in Employers, u \in Users, amount \in Amounts : CreateNotice(e, u, amount)
    PROVE  OwnedInv'
  BY OwnersKept, ArtifactsAlone, RootsKeptBy
  DEF CreatePolicy, UpdatePolicy, DeactivatePolicy, CreateNotice

\* A new credit, a credit taken out of use, a new run.
LEMMA CreditStepOwned ==
    ASSUME LedgerInv, OwnedInv,
           \/ \E u \in Users, amount \in Amounts : CreateCredit(u, amount)
           \/ \E n \in notices : ConfirmReceived(n)
           \/ \E c \in credits : MarkUnused(c)
           \/ \E p \in policies, c \in credits, runId \in RunIds : CreateRun(p, c, runId)
    PROVE  OwnedInv'
  <1>1. \A u, amount, notice : NewCredit(u, amount, notice).root = Here
    BY DEF NewCredit
  <1>2. CASE \E u \in Users, amount \in Amounts : CreateCredit(u, amount)
    BY <1>1, <1>2, OwnersKept, ArtifactsAlone, RootsKeptBy DEF CreateCredit
  <1>3. CASE \E n \in notices : ConfirmReceived(n)
    BY <1>1, <1>3, OwnersKept, ArtifactsAlone, RootsKeptBy DEF ConfirmReceived
  <1>4. ASSUME NEW c \in credits, MarkUnused(c) PROVE OwnedInv'
    <2> DEFINE new == [c EXCEPT !.cid = Here, !.allocated = TRUE]
    <2>1. new.root = c.root /\ new.user = c.user
      BY DEF LedgerInv, TypeOK, Credit
    <2>2. credits' = Replace(credits, c, new)
      BY <1>4 DEF MarkUnused, MarkAllocated
    <2> HIDE DEF new
    <2>3. QED
      BY <1>4, <2>1, <2>2, OwnersKept, ArtifactsAlone, RootsKeptBy DEF MarkUnused
  <1>5. ASSUME NEW p \in policies, NEW c \in credits, NEW runId \in RunIds, CreateRun(p, c, runId)
        PROVE  OwnedInv'
    <2> DEFINE new == [cid |-> Here, root |-> Here, user |-> c.user, runId |-> runId,
                       policyVersion |-> p.version, payrollAmount |-> c.amount, lines |-> <<>>,
                       status |-> "AllocationPending"]
    <2>1. /\ new.root = Here /\ runs' = runs \cup {new} /\ Commit
          /\ UNCHANGED <<credits, balances, actions, receipts, portfolios, allocations>>
      BY <1>5 DEF CreateRun
    <2> HIDE DEF new
    <2>2. QED
      BY <2>1, OwnersKept, ArtifactsAlone, RootsKeptBy
  <1>6. QED
    BY <1>2, <1>3, <1>4, <1>5

\* The decision of an action, and its execution.
LEMMA ActionStepOwned ==
    ASSUME LedgerInv, OwnedInv, NEW a \in actions,
           Approve(a) \/ Reject(a) \/ \E runId \in RunIds : ExecuteApprovedAction(a, runId)
    PROVE  OwnedInv'
  <1>1. PICK st : actions' = Replace(actions, a, [a EXCEPT !.cid = Here, !.status = st])
    BY DEF Approve, Reject, ExecuteApprovedAction
  <1> DEFINE new == [a EXCEPT !.cid = Here, !.status = st]
  <1>2. new.line = a.line /\ new.user = a.user
    BY DEF LedgerInv, TypeOK, Action
  <1>3. actions' = Replace(actions, a, new)
    BY <1>1
  <1> HIDE DEF new
  <1>4. \A y \in actions' : \E x \in actions : x.line = y.line /\ x.user = y.user
    BY <1>2, <1>3 DEF Replace
  <1>5. CASE Approve(a) \/ Reject(a)
    <2>1. UNCHANGED <<credits, runs, balances, receipts, portfolios, allocations>> /\ Commit
      BY <1>5 DEF Approve, Reject
    <2>2. LinesKept(Artifacts, Artifacts') /\ ReceiptsKept
      BY <1>4, <2>1 DEF LinesKept, Artifacts, ReceiptsKept
    <2>3. QED
      BY <2>1, <2>2, OwnersKept, RootsKeptBy
  <1>6. ASSUME NEW runId \in RunIds, ExecuteApprovedAction(a, runId) PROVE OwnedInv'
    <2>1. /\ UNCHANGED <<credits, runs, balances, allocations>> /\ Commit
          /\ receipts' = receipts \cup payments(a, runId)
          /\ portfolios' = portfolios \cup records(a, runId)
      BY <1>6 DEF ExecuteApprovedAction, payments, records
    <2>2. \A y \in payments(a, runId) : y.line = a.line /\ y.payer = a.user
      BY DEF payments, newReceipt
    <2>3. \A y \in records(a, runId) : y.line = a.line /\ y.user = a.user
      BY DEF records, newPortfolio
    <2>4. LinesKept(Artifacts, Artifacts')
      BY <1>4, <2>1, <2>3 DEF LinesKept, Artifacts
    <2>5. ReceiptsKept
      BY <2>1, <2>2 DEF ReceiptsKept
    <2>6. QED
      BY <2>1, <2>4, <2>5, OwnersKept, RootsKeptBy
  <1>7. QED
    BY <1>5, <1>6

\* The choices of balances, receipts and portfolio records.
LEMMA ArtifactStepOwned ==
    ASSUME LedgerInv, OwnedInv,
           \/ \E b \in balances, amount \in Adjustments : IncreaseBalance(b, amount)
           \/ \E b \in balances, amount \in Adjustments : DecreaseBalance(b, amount)
           \/ \E b \in balances, label \in Labels : RenameCategory(b, label)
           \/ \E b \in balances : ArchiveIfZero(b)
           \/ \E x \in receipts : Acknowledge(x)
           \/ \E x \in portfolios : RenamePortfolioAllocation(x)
           \/ \E x \in portfolios : ArchivePortfolioAllocation(x)
    PROVE  OwnedInv'
  <1>1. ASSUME NEW b \in balances, NEW new, new.line = b.line, new.user = b.user,
               ReplaceBalance(b, new)
        PROVE  OwnedInv'
    <2>1. /\ UNCHANGED <<credits, runs, actions, receipts, portfolios, allocations>> /\ Commit
          /\ balances' = Replace(balances, b, new)
      BY <1>1 DEF ReplaceBalance
    <2>2. LinesKept(Artifacts, Artifacts') /\ ReceiptsKept
      BY <1>1, <2>1 DEF LinesKept, Artifacts, Replace, ReceiptsKept
    <2>3. QED
      BY <2>1, <2>2, OwnersKept, RootsKeptBy
  <1>2. \A b \in balances : b \in Balance
    BY DEF LedgerInv, TypeOK
  <1>3. CASE \E b \in balances, amount \in Adjustments : IncreaseBalance(b, amount)
    BY <1>1, <1>2, <1>3 DEF IncreaseBalance, Balance
  <1>4. CASE \E b \in balances, amount \in Adjustments : DecreaseBalance(b, amount)
    BY <1>1, <1>2, <1>4 DEF DecreaseBalance, Balance
  <1>5. CASE \E b \in balances, label \in Labels : RenameCategory(b, label)
    BY <1>1, <1>2, <1>5 DEF RenameCategory, Balance
  <1>6. CASE \E b \in balances : ArchiveIfZero(b)
    BY <1>1, <1>2, <1>6 DEF ArchiveIfZero, Balance
  <1>7. ASSUME NEW x \in receipts, Acknowledge(x) PROVE OwnedInv'
    <2> DEFINE new == [x EXCEPT !.cid = Here, !.acknowledged = TRUE]
    <2>1. new.line = x.line /\ new.payer = x.payer
      BY DEF LedgerInv, TypeOK, Receipt
    <2>2. /\ UNCHANGED <<credits, runs, balances, actions, portfolios, allocations>> /\ Commit
          /\ receipts' = Replace(receipts, x, new)
      BY <1>7 DEF Acknowledge
    <2> HIDE DEF new
    <2>3. LinesKept(Artifacts, Artifacts') /\ ReceiptsKept
      BY <2>1, <2>2 DEF LinesKept, Artifacts, Replace, ReceiptsKept
    <2>4. QED
      BY <2>2, <2>3, OwnersKept, RootsKeptBy
  <1>8. ASSUME NEW x \in portfolios,
               RenamePortfolioAllocation(x) \/ ArchivePortfolioAllocation(x)
        PROVE  OwnedInv'
    <2>1. PICK new : /\ new.line = x.line /\ new.user = x.user
                     /\ portfolios' = Replace(portfolios, x, new)
      <3>1. x \in Portfolio
        BY DEF LedgerInv, TypeOK
      <3>2. /\ [x EXCEPT !.cid = Here].line = x.line /\ [x EXCEPT !.cid = Here].user = x.user
            /\ [x EXCEPT !.cid = Here, !.archived = TRUE].line = x.line
            /\ [x EXCEPT !.cid = Here, !.archived = TRUE].user = x.user
        BY <3>1 DEF Portfolio
      <3>3. QED
        BY <1>8, <3>2 DEF RenamePortfolioAllocation, ArchivePortfolioAllocation
    <2>2. UNCHANGED <<credits, runs, balances, actions, receipts, allocations>> /\ Commit
      BY <1>8 DEF RenamePortfolioAllocation, ArchivePortfolioAllocation
    <2>3. LinesKept(Artifacts, Artifacts') /\ ReceiptsKept
      BY <2>1, <2>2 DEF LinesKept, Artifacts, Replace, ReceiptsKept
    <2>4. QED
      BY <2>2, <2>3, OwnersKept, RootsKeptBy
  <1>9. QED
    BY <1>3, <1>4, <1>5, <1>6, <1>7, <1>8

\* The credit, the run and the policy of an allocation are of one user, whose
\* are all its artifacts; no older artifact has one of its lines.
LEMMA ExecuteAllocationOwned ==
    ASSUME LedgerInv, OwnedInv, NEW r \in runs, NEW p \in policies, NEW c \in credits,
           ExecuteAllocation(r, p, c)
    PROVE  OwnedInv'
  <1> DEFINE rules == p.categories
             share(i) == allocationAmount(c.amount, rules[i].percentageBps)
             B == {newBalance(r.user, r.runId, c.amount, rules, i) : i \in DOMAIN rules}
             A == {newAction(r.user, c.amount, rules, i) : i \in gated(rules)}
             receipt(i) == newReceipt(<<tx, i>>, <<tx, i>>, r.user, rules[i].recipient,
                                      share(i), r.runId)
             record(i) == newPortfolio(<<tx, i>>, <<tx, i>>, r.user, share(i), r.runId)
             P == {receipt(i) : i \in paidAtOnce(rules)}
             F == {record(i) : i \in investedAtOnce(rules)}
             h0 == [at |-> tx, credit |-> c.root, run |-> r.root, amount |-> c.amount,
                    rules |-> rules, approvalRules |-> p.approvalRules]
  <1>1. /\ tx' = tx + 1 /\ tx \in Nat
        /\ balances' = balances \cup B /\ actions' = actions \cup A
        /\ receipts' = receipts \cup P /\ portfolios' = portfolios \cup F
        /\ allocations' = allocations \cup {h0}
        /\ credits' = MarkAllocated(credits, c)
        /\ c.user = r.user
    BY DEF ExecuteAllocation, mayAllocate, Commit, LedgerInv, TypeOK
  <1>2. PICK run : runs' = Replace(runs, r, run) /\ run.root = r.root /\ run.user = r.user
    <2>1. r \in Run
      BY DEF LedgerInv, TypeOK
    <2> DEFINE lines == [i \in DOMAIN rules |-> ruleToLine(c.amount, rules[i])]
               status == IF gated(rules) # {} THEN "AllocationPartiallyPendingApproval"
                                              ELSE "AllocationExecuted"
               new == [r EXCEPT !.cid = Here, !.policyVersion = p.version,
                                !.payrollAmount = c.amount, !.lines = lines, !.status = status]
    <2>2. runs' = Replace(runs, r, new)
      BY DEF ExecuteAllocation
    <2>3. new.root = r.root /\ new.user = r.user
      <3> HIDE DEF lines, status
      <3>1. QED
        BY <2>1 DEF Run
    <2>4. QED
      BY <2>2, <2>3
  <1>3. \A x \in B \cup A \cup F : x.line[1] = tx /\ x.user = r.user
    <2>1. \A i : newBalance(r.user, r.runId, c.amount, rules, i).line = <<tx, i>>
                 /\ newBalance(r.user, r.runId, c.amount, rules, i).user = r.user
      BY DEF newBalance
    <2>2. \A i : newAction(r.user, c.amount, rules, i).line = <<tx, i>>
                 /\ newAction(r.user, c.amount, rules, i).user = r.user
      BY DEF newAction
    <2>3. \A i : record(i).line = <<tx, i>> /\ record(i).user = r.user
      BY DEF newPortfolio
    <2> HIDE DEF record
    <2>4. QED
      BY <2>1, <2>2, <2>3
  <1>4. \A x \in P : x.line[1] = tx /\ x.payer = r.user
    <2>1. \A i : receipt(i).line = <<tx, i>> /\ receipt(i).payer = r.user
      BY DEF newReceipt
    <2> HIDE DEF receipt
    <2>2. QED
      BY <2>1
  <1>5. \A y \in credits' : \E x \in credits : x.root = y.root /\ x.user = y.user
    <2>1. [c EXCEPT !.cid = Here, !.allocated = TRUE].root = c.root
          /\ [c EXCEPT !.cid = Here, !.allocated = TRUE].user = c.user
      BY DEF LedgerInv, TypeOK, Credit
    <2>2. QED
      BY <1>1, <2>1 DEF MarkAllocated, Replace
  <1>6. \A y \in runs' : \E x \in runs : x.root = y.root /\ x.user = y.user
    BY <1>2 DEF Replace
  <1>7. h0.at = tx /\ h0.credit = c.root /\ h0.run = r.root
    OBVIOUS
  <1> HIDE DEF B, A, P, F, h0, rules
  <1>8. /\ \A x \in Artifacts \cup receipts : x.line[1] < tx
        /\ \A x \in runs : x.root[1] \in Nat /\ x.root[1] < tx
        /\ \A h \in allocations : h.at < tx /\ h.run[1] \in Nat /\ h.run[1] < tx
    BY IdTypes, CidNumber DEF LedgerInv, TypeOK, Allocation, IdsAreOld, LinesBefore, RootsBefore,
       Artifacts, OwnedInv
  <1>9. UniqueRoot(credits) /\ UniqueRoot(runs)
    BY DEF LedgerInv, OneLiveVersion
  <1>10. ASSUME NEW h \in allocations', NEW k \in credits', h.credit = k.root
         PROVE  /\ \A y \in runs' : y.root = h.run => y.user = k.user
                /\ \A y \in Artifacts' : y.line[1] = h.at => y.user = k.user
                /\ \A y \in receipts' : y.line[1] = h.at => y.payer = k.user
    <2>1. PICK k0 \in credits : k0.root = k.root /\ k0.user = k.user
      BY <1>5
    <2>2. CASE h \in allocations
      <3>1. /\ \A x \in runs : x.root = h.run => x.user = k.user
            /\ \A x \in Artifacts : x.line[1] = h.at => x.user = k.user
            /\ \A x \in receipts : x.line[1] = h.at => x.payer = k.user
        BY <1>10, <2>1, <2>2 DEF OwnedInv, AllocationOwned, Artifacts
      <3>2. h.at # tx
        BY <1>1, <1>8, <2>2
      <3>3. \A y \in Artifacts' : y \in Artifacts \/ y.line[1] = tx
        BY <1>1, <1>3 DEF Artifacts
      <3>4. \A y \in receipts' : y \in receipts \/ y.line[1] = tx
        BY <1>1, <1>4
      <3>5. \A y \in runs' : y.root = h.run => y.user = k.user
        BY <1>6, <3>1
      <3>6. QED
        BY <3>1, <3>2, <3>3, <3>4, <3>5
    <2>3. CASE h = h0
      <3>1. k0 = c /\ k.user = r.user
        BY <1>1, <1>7, <1>9, <1>10, <2>1, <2>3 DEF UniqueRoot
      <3>2. \A y \in runs' : y.root = h.run => y.user = k.user
        BY <1>6, <1>7, <1>9, <2>3, <3>1 DEF UniqueRoot
      <3>3. \A x \in Artifacts \cup receipts : x.line[1] # tx
        BY <1>1, <1>8
      <3>4. \A y \in Artifacts' : y.line[1] = h.at => y.user = k.user
        BY <1>1, <1>3, <1>7, <2>3, <3>1, <3>3 DEF Artifacts
      <3>5. \A y \in receipts' : y.line[1] = h.at => y.payer = k.user
        BY <1>1, <1>4, <1>7, <2>3, <3>1, <3>3
      <3>6. QED
        BY <3>2, <3>4, <3>5
    <2>4. QED
      BY <1>1, <2>2, <2>3
  <1>11. AllocationOwned'
    BY <1>10 DEF AllocationOwned, Artifacts
  <1>12. \A h \in allocations' : h.run[1] < tx'
    BY <1>1, <1>7, <1>8
  <1>13. QED
    BY <1>11, <1>12 DEF OwnedInv

\* What an allocation used and left behind has one owner, for good.
THEOREM AllocationOwnedHolds == Spec => []AllocationOwned
  <1>1. Init => OwnedInv
    BY DEF Init, OwnedInv, AllocationOwned
  <1>2. LedgerInv /\ OwnedInv /\ [Next]_vars => OwnedInv'
    <2>1. ASSUME LedgerInv, OwnedInv, Next PROVE OwnedInv'
      BY <2>1, PlainStepOwned, CreditStepOwned, ActionStepOwned, ArtifactStepOwned,
         ExecuteAllocationOwned DEF Next
    <2>2. ASSUME LedgerInv, OwnedInv, UNCHANGED vars PROVE OwnedInv'
      BY <2>2 DEF vars, OwnedInv, AllocationOwned
    <2>3. QED
      BY <2>1, <2>2
  <1>3. OwnedInv => AllocationOwned
    BY DEF OwnedInv
  <1>4. QED
    BY <1>1, <1>2, <1>3, LedgerInvariant, PTL DEF Spec

-----------------------------------------------------------------------------
(* The lines of an executed run add up.                                    *)

linesOf(amount, rules) == [i \in DOMAIN rules |-> ruleToLine(amount, rules[i])]
total(lines) == SumOver([i \in DOMAIN lines |-> lines[i].amount])

\* The lines of a valid policy add up to the whole of what is allocated: the
\* amount is a factor of every line, and the percentages add up to 10000.
LEMMA LinesAddUp ==
    ASSUME NEW rules \in Seq(CategoryRule), validatePolicyCategories(rules), NEW amount \in Int
    PROVE  total(linesOf(amount, rules)) = amount * 10000
  <1> DEFINE lines == linesOf(amount, rules)
             shares == [i \in DOMAIN rules |-> rules[i].percentageBps]
             amounts == [i \in DOMAIN lines |-> lines[i].amount]
  <1>1. DOMAIN rules = 1..Len(rules) /\ Len(rules) \in Nat /\ DOMAIN lines = DOMAIN rules
    BY DEF linesOf
  <1>2. \A i \in 1..Len(rules) : rules[i].percentageBps \in Int
    BY <1>1, ValidCategories
  <1>3. shares \in Seq(Int) /\ Len(shares) = Len(rules)
    BY <1>1, <1>2
  <1>4. Len(amounts) = Len(rules)
    BY <1>1
  <1>5. \A i \in 1..Len(rules) : amounts[i] = amount * shares[i]
    BY <1>1 DEF linesOf, ruleToLine, allocationAmount
  <1>6. SumOver(shares) = 10000
    BY DEF validatePolicyCategories
  <1> HIDE DEF shares, amounts
  <1>7. SumOver(amounts) = amount * SumOver(shares)
    BY <1>3, <1>4, <1>5, SumScaled
  <1>8. QED
    BY <1>6, <1>7 DEF amounts, total

\* A step that executes no run keeps the lines of all that were.
LEMMA ConservesKept ==
    ASSUME RunConservesCredit, allocations \subseteq allocations',
           \A r \in runs' : r \in runs \/ r.status = "AllocationPending"
    PROVE  RunConservesCredit'
  BY DEF RunConservesCredit

\* The run an allocation leaves has lines that add up to its credit.
LEMMA ExecuteAllocationConserves ==
    ASSUME TypeOK, RunConservesCredit, NEW r \in runs, NEW p \in policies, NEW c \in credits,
           ExecuteAllocation(r, p, c)
    PROVE  RunConservesCredit'
  <1> DEFINE rules == p.categories
             lines == linesOf(c.amount, rules)
             status == IF gated(rules) # {} THEN "AllocationPartiallyPendingApproval"
                                            ELSE "AllocationExecuted"
             new == [r EXCEPT !.cid = Here, !.policyVersion = p.version, !.payrollAmount = c.amount,
                              !.lines = lines, !.status = status]
             h0 == [at |-> tx, credit |-> c.root, run |-> r.root, amount |-> c.amount,
                    rules |-> rules, approvalRules |-> p.approvalRules]
  <1>1. rules \in Seq(CategoryRule) /\ c.amount \in Int /\ r \in Run
    <2>1. c \in Credit /\ p \in Policy /\ r \in Run
      BY DEF TypeOK
    <2>2. c.amount \in Amounts /\ rules \in Seq(CategoryRule)
      BY <2>1 DEF Credit, Policy
    <2>3. Amounts \subseteq Int
      BY AmountsAssumption
    <2>4. QED
      BY <2>1, <2>2, <2>3
  <1>2. validatePolicyCategories(rules)
    BY DEF ExecuteAllocation, mayAllocate
  <1>3. total(lines) = c.amount * 10000
    BY <1>1, <1>2, LinesAddUp
  <1>4. runs' = Replace(runs, r, new) /\ allocations' = allocations \cup {h0}
    BY DEF ExecuteAllocation, linesOf
  <1> HIDE DEF lines, status
  <1>5. new.lines = lines /\ new.payrollAmount = c.amount /\ new.root = r.root
    BY <1>1 DEF Run
  <1>6. h0.run = r.root /\ h0.amount = c.amount
    OBVIOUS
  <1> HIDE DEF new, h0
  <1>7. ASSUME NEW y \in runs', y.status # "AllocationPending"
        PROVE  /\ total(y.lines) = y.payrollAmount * 10000
               /\ \E h \in allocations' : h.run = y.root /\ h.amount = y.payrollAmount
    <2>1. CASE y = new
      BY <1>3, <1>4, <1>5, <1>6, <2>1
    <2>2. CASE y \in runs
      BY <1>4, <1>7, <2>2 DEF RunConservesCredit, total
    <2>3. QED
      BY <1>4, <2>1, <2>2 DEF Replace
  <1>8. QED
    BY <1>7 DEF RunConservesCredit, total

\* Nothing of a credit is lost to rounding and nothing is made up.
THEOREM RunConservesCreditHolds == Spec => []RunConservesCredit
  <1>1. Init => RunConservesCredit
    BY DEF Init, RunConservesCredit
  <1>2. TypeOK /\ RunConservesCredit /\ [Next]_vars => RunConservesCredit'
    <2>1. ASSUME TypeOK, RunConservesCredit, NEW p \in policies, NEW c \in credits,
                 NEW runId \in RunIds, CreateRun(p, c, runId)
          PROVE  RunConservesCredit'
      BY <2>1, ConservesKept DEF CreateRun
    <2>2. CASE UNCHANGED <<runs, allocations>>
      BY <2>2, ConservesKept
    <2>3. QED
      BY <2>1, <2>2, ExecuteAllocationConserves
      DEF Next, vars, CreatePolicy, UpdatePolicy, DeactivatePolicy, CreateNotice, CreateCredit,
          ConfirmReceived, MarkUnused, Approve, Reject, ExecuteApprovedAction, IncreaseBalance,
          DecreaseBalance, RenameCategory, ArchiveIfZero, ReplaceBalance, Acknowledge,
          RenamePortfolioAllocation, ArchivePortfolioAllocation
  <1>3. QED
    BY <1>1, <1>2, TypeCorrect, PTL DEF Spec

-----------------------------------------------------------------------------
(* The ledger implements ApprovalGate: initially nothing is gated, and each *)
(* choice of each template is a step of the gate, or changes neither the    *)
(* status of a pending action nor which gated lines were released.          *)

\* The lines whose money has left the ledger, gated or not.
Paid == {x.line : x \in Releases}

-----------------------------------------------------------------------------
(* Lemmas about lines and the status the gate sees                         *)

\* The status the gate sees is that of the one live version of the action.
LEMMA StatusOfAction ==
    ASSUME UniqueLine(actions), NEW a \in actions
    PROVE  a.line \in Gated /\ statusOf[a.line] = a.status
  <1>1. a.line \in Gated
    BY DEF Gated
  <1>2. \A b \in actions : b.line = a.line => b = a
    BY DEF UniqueLine
  <1>3. (CHOOSE b \in actions : b.line = a.line) = a
    BY <1>2
  <1> QED BY <1>1, <1>3 DEF statusOf

\* The same after a step.
LEMMA StatusOfActionNext ==
    ASSUME UniqueLine(actions'), NEW a \in actions'
    PROVE  a.line \in Gated' /\ statusOf'[a.line] = a.status
  <1>1. a.line \in Gated'
    BY DEF Gated
  <1>2. \A b \in actions' : b.line = a.line => b = a
    BY DEF UniqueLine
  <1>3. (CHOOSE b \in actions' : b.line = a.line) = a
    BY <1>2
  <1> QED BY <1>1, <1>3 DEF statusOf

\* A new version of a contract stands for the line of the old one.
LEMMA ReplaceLines ==
    ASSUME NEW S, NEW old \in S, NEW new, new.line = old.line
    PROVE  {x.line : x \in Replace(S, old, new)} = {x.line : x \in S}
  BY DEF Replace

\* A choice that touches no action and releases no other line stutters.
LEMMA GateStutters ==
    ASSUME actions' = actions, Paid' = Paid
    PROVE  UNCHANGED Gate!gateVars
  <1>1. Gated' = Gated
    BY DEF Gated
  <1>2. statusOf' = statusOf
    BY DEF statusOf, Gated
  <1> QED BY <1>1, <1>2 DEF Gate!gateVars, Paid

\* Replacing one action by a version with another status changes what the
\* gate sees of its line only.
LEMMA GateMoves ==
    ASSUME LedgerInv, LedgerInv', NEW a \in actions, NEW new,
           new.line = a.line, actions' = Replace(actions, a, new)
    PROVE  /\ Gated' = Gated
           /\ statusOf' = [statusOf EXCEPT ![a.line] = new.status]
  <1>1. UniqueLine(actions) /\ UniqueLine(actions')
    BY DEF LedgerInv, OneLiveVersion
  <1>2. Gated' = Gated
    <2>1. {b.line : b \in actions'} = {b.line : b \in actions}
      BY ReplaceLines
    <2> QED BY <2>1 DEF Gated
  <1>3. new \in actions'
    BY DEF Replace
  <1>4. ASSUME NEW l \in Gated
        PROVE  statusOf'[l] = IF l = a.line THEN new.status ELSE statusOf[l]
    <2>1. CASE l = a.line
      BY <1>1, <1>3, <2>1, StatusOfActionNext
    <2>2. CASE l # a.line
      <3>1. PICK b \in actions : b.line = l
        BY DEF Gated
      <3>2. b \in actions'
        BY <2>2, <3>1 DEF Replace
      <3>3. statusOf[l] = b.status
        BY <1>1, <3>1, StatusOfAction
      <3>4. statusOf'[l] = b.status
        BY <1>1, <3>1, <3>2, StatusOfActionNext
      <3> QED BY <2>2, <3>3, <3>4
    <2> QED BY <2>1, <2>2
  <1>5. statusOf = [l \in Gated |-> statusOf[l]] /\ statusOf' = [l \in Gated |-> statusOf'[l]]
    BY <1>2 DEF statusOf
  <1>6. [statusOf EXCEPT ![a.line] = new.status]
        = [l \in Gated |-> IF l = a.line THEN new.status ELSE statusOf[l]]
    BY <1>5
  <1> QED BY <1>2, <1>4, <1>5, <1>6

-----------------------------------------------------------------------------
(* One lemma per kind of step                                              *)

\* Approve and Reject decide a pending action.
LEMMA DecideGate ==
    ASSUME LedgerInv, LedgerInv', NEW a \in actions, Approve(a) \/ Reject(a)
    PROVE  Gate!GateNext
  <1>1. PICK d \in {"Approved", "Rejected"} :
            actions' = Replace(actions, a, [a EXCEPT !.cid = Here, !.status = d])
    BY DEF Approve, Reject
  <1>2. a.status = "Pending" /\ receipts' = receipts /\ portfolios' = portfolios
    BY DEF Approve, Reject
  <1>3. a \in Action
    BY DEF LedgerInv, TypeOK
  <1> DEFINE new == [a EXCEPT !.cid = Here, !.status = d]
  <1>4. new.line = a.line /\ new.status = d
    BY <1>3 DEF Action
  <1>5. actions' = Replace(actions, a, new)
    BY <1>1
  <1> HIDE DEF new
  <1>6. Gated' = Gated /\ statusOf' = [statusOf EXCEPT ![a.line] = d]
    BY <1>4, <1>5, GateMoves
  <1>7. a.line \in DOMAIN statusOf /\ statusOf[a.line] = "Pending"
    BY <1>2, StatusOfAction DEF LedgerInv, OneLiveVersion, statusOf
  <1>8. Gate!Decide(a.line, d)
    BY <1>2, <1>6, <1>7 DEF Gate!Decide, Releases
  <1> QED BY <1>7, <1>8 DEF Gate!GateNext

\* ExecuteApprovedAction releases at most the line of its action.
LEMMA ExecuteGate ==
    ASSUME LedgerInv, LedgerInv', NEW a \in actions, NEW runId \in RunIds,
           ExecuteApprovedAction(a, runId)
    PROVE  Gate!GateNext
  <1> DEFINE new == [a EXCEPT !.cid = Here, !.status = "Executed"]
  <1>1. a.status = "Approved" /\ actions' = Replace(actions, a, new)
    BY DEF ExecuteApprovedAction
  <1>2. a \in Action
    BY DEF LedgerInv, TypeOK
  <1>3. new.line = a.line /\ new.status = "Executed"
    BY <1>2 DEF Action
  <1> HIDE DEF new
  <1>4. Gated' = Gated /\ statusOf' = [statusOf EXCEPT ![a.line] = "Executed"]
    BY <1>1, <1>3, GateMoves
  <1>5. a.line \in DOMAIN statusOf /\ statusOf[a.line] = "Approved"
    BY <1>1, StatusOfAction DEF LedgerInv, OneLiveVersion, statusOf
  <1>6. Paid \subseteq Paid' /\ Paid' \subseteq Paid \cup {a.line}
    <2>1. /\ receipts' = receipts \cup
                 (IF releasesPayment(a)
                  THEN {newReceipt(Here, a.line, a.user, a.recipient, a.amount, runId)} ELSE {})
          /\ portfolios' = portfolios \cup
                 (IF releasesPortfolio(a)
                  THEN {newPortfolio(Here, a.line, a.user, a.amount, runId)} ELSE {})
      BY DEF ExecuteApprovedAction
    <2>2. /\ newReceipt(Here, a.line, a.user, a.recipient, a.amount, runId).line = a.line
          /\ newPortfolio(Here, a.line, a.user, a.amount, runId).line = a.line
      BY DEF newReceipt, newPortfolio
    <2>3. \A x \in Releases' : x \in Releases \/ x.line = a.line
      BY <2>1, <2>2 DEF Releases
    <2>4. Releases \subseteq Releases'
      BY <2>1 DEF Releases
    <2> QED BY <2>3, <2>4 DEF Paid
  <1>7. Paid' \cap Gated \in {Paid \cap Gated, (Paid \cap Gated) \cup {a.line}}
    <2>1. a.line \in Gated
      BY <1>5 DEF statusOf
    <2>2. CASE a.line \in Paid'
      BY <1>6, <2>1, <2>2
    <2>3. CASE a.line \notin Paid'
      BY <1>6, <2>1, <2>3
    <2> QED BY <2>2, <2>3
  <1>8. Gate!Execute(a.line)
    BY <1>4, <1>5, <1>7 DEF Gate!Execute, Paid
  <1> QED BY <1>5, <1>8 DEF Gate!GateNext

\* ExecuteAllocation opens the actions of its gated lines, and releases only
\* lines that are not gated.
LEMMA AllocationGate ==
    ASSUME LedgerInv, LedgerInv', NEW r \in runs, NEW p \in policies, NEW c \in credits,
           ExecuteAllocation(r, p, c)
    PROVE  Gate!GateNext
  <1> DEFINE rules == p.categories
             opened == {newAction(r.user, c.amount, rules, i) : i \in gated(rules)}
             new == {<<tx, i>> : i \in gated(rules)}
             atOnce == {<<tx, i>> : i \in paidAtOnce(rules) \cup investedAtOnce(rules)}
  <1>1. UniqueLine(actions) /\ UniqueLine(actions')
    BY DEF LedgerInv, OneLiveVersion
  <1>2. actions' = actions \cup opened
    BY DEF ExecuteAllocation
  <1>3. Gated' = Gated \cup new
    <2>1. \A i : newAction(r.user, c.amount, rules, i).line = <<tx, i>>
      BY DEF newAction
    <2>2. {a.line : a \in opened} = new
      BY <2>1
    <2> QED BY <1>2, <2>2 DEF Gated
  <1>4. Paid' = Paid \cup atOnce
    <2> DEFINE rec(i) == newReceipt(<<tx, i>>, <<tx, i>>, r.user, rules[i].recipient,
                                    allocationAmount(c.amount, rules[i].percentageBps), r.runId)
               inv(i) == newPortfolio(<<tx, i>>, <<tx, i>>, r.user,
                                    allocationAmount(c.amount, rules[i].percentageBps), r.runId)
    <2>1. /\ receipts' = receipts \cup {rec(i) : i \in paidAtOnce(rules)}
          /\ portfolios' = portfolios \cup {inv(i) : i \in investedAtOnce(rules)}
      BY DEF ExecuteAllocation
    <2>2. \A i : rec(i).line = <<tx, i>> /\ inv(i).line = <<tx, i>>
      BY DEF newReceipt, newPortfolio
    <2> HIDE DEF rec, inv, rules
    <2>3. Releases' = Releases \cup {rec(i) : i \in paidAtOnce(rules)}
                               \cup {inv(i) : i \in investedAtOnce(rules)}
      BY <2>1 DEF Releases
    <2>4. ASSUME NEW l \in Paid' PROVE l \in Paid \cup atOnce
      BY <2>2, <2>3 DEF Paid
    <2>5. ASSUME NEW l \in Paid \cup atOnce PROVE l \in Paid'
      BY <2>2, <2>3 DEF Paid
    <2> QED BY <2>4, <2>5
  <1>5. \A i : <<tx, i>> \notin Gated /\ <<tx, i>> \notin Paid
    <2>1. tx \in Nat
      BY DEF LedgerInv, TypeOK
    <2>2. \A l \in Gated \cup Paid : l[1] < tx
      BY DEF LedgerInv, IdsAreOld, LinesBefore, Gated, Paid, Releases
    <2>3. \A i : <<tx, i>>[1] = tx
      OBVIOUS
    <2> QED BY <2>1, <2>2, <2>3
  <1>6. atOnce \cap new = {}
    BY DEF paidAtOnce, investedAtOnce
  <1> HIDE DEF new, atOnce, opened, rules
  <1>7. atOnce \cap Gated = {} /\ new \cap Gated = {} /\ new \cap Paid = {}
    BY <1>5 DEF atOnce, new
  <1>8. Paid' \cap Gated' = Paid \cap Gated
    BY <1>3, <1>4, <1>6, <1>7
  <1>9. \A l \in Gated : statusOf'[l] = statusOf[l]
    <2> SUFFICES ASSUME NEW l \in Gated PROVE statusOf'[l] = statusOf[l]
      OBVIOUS
    <2>1. PICK a \in actions : a.line = l
      BY DEF Gated
    <2>2. a \in actions'
      BY <1>2
    <2> QED BY <1>1, <2>1, <2>2, StatusOfAction, StatusOfActionNext
  <1>10. \A l \in Gated' \ Gated : statusOf'[l] = "Pending"
    <2> SUFFICES ASSUME NEW l \in Gated' \ Gated PROVE statusOf'[l] = "Pending"
      OBVIOUS
    <2>1. PICK a \in actions' : a.line = l
      BY DEF Gated
    <2>2. a \in opened
      BY <1>2, <2>1 DEF Gated
    <2>3. a.status = "Pending"
      BY <2>2 DEF opened, newAction
    <2> QED BY <1>1, <2>1, <2>3, StatusOfActionNext
  <1>11. DOMAIN statusOf = Gated /\ DOMAIN statusOf' = Gated'
    BY DEF statusOf
  <1>12. Gate!OpenActions
    BY <1>3, <1>8, <1>9, <1>10, <1>11 DEF Gate!OpenActions, Paid
  <1> QED BY <1>12 DEF Gate!GateNext

\* Every other choice leaves the gate alone.
LEMMA OtherStepsGate ==
    ASSUME LedgerInv,
           \/ UNCHANGED <<actions, receipts, portfolios>>
           \/ \E x \in receipts : Acknowledge(x)
           \/ \E x \in portfolios : RenamePortfolioAllocation(x) \/ ArchivePortfolioAllocation(x)
    PROVE  UNCHANGED Gate!gateVars
  <1>1. CASE UNCHANGED <<actions, receipts, portfolios>>
    BY <1>1, GateStutters DEF Paid, Releases
  <1>2. ASSUME NEW x \in receipts, Acknowledge(x)
        PROVE  UNCHANGED Gate!gateVars
    <2> DEFINE new == [x EXCEPT !.cid = Here, !.acknowledged = TRUE]
    <2>1. /\ receipts' = Replace(receipts, x, new)
          /\ portfolios' = portfolios /\ actions' = actions
      BY <1>2 DEF Acknowledge
    <2>2. new.line = x.line
      BY DEF LedgerInv, TypeOK, Receipt
    <2> HIDE DEF new
    <2>3. {y.line : y \in receipts'} = {y.line : y \in receipts}
      BY <2>1, <2>2, ReplaceLines
    <2>4. Paid' = Paid
      BY <2>1, <2>3 DEF Paid, Releases
    <2> QED BY <2>1, <2>4, GateStutters
  <1>3. ASSUME NEW x \in portfolios, RenamePortfolioAllocation(x) \/ ArchivePortfolioAllocation(x)
        PROVE  UNCHANGED Gate!gateVars
    <2>1. PICK new : /\ portfolios' = Replace(portfolios, x, new)
                     /\ new \in {[x EXCEPT !.cid = Here], [x EXCEPT !.cid = Here, !.archived = TRUE]}
      BY <1>3 DEF RenamePortfolioAllocation, ArchivePortfolioAllocation
    <2>2. receipts' = receipts /\ actions' = actions
      BY <1>3 DEF RenamePortfolioAllocation, ArchivePortfolioAllocation
    <2>3. new.line = x.line
      BY <2>1 DEF LedgerInv, TypeOK, Portfolio
    <2>4. {y.line : y \in portfolios'} = {y.line : y \in portfolios}
      BY <2>1, <2>3, ReplaceLines
    <2>5. Paid' = Paid
      BY <2>2, <2>4 DEF Paid, Releases
    <2> QED BY <2>2, <2>5, GateStutters
  <1> QED BY <1>1, <1>2, <1>3

-----------------------------------------------------------------------------
\* An empty ledger gates nothing.
LEMMA GateStarts == ASSUME Init PROVE Gate!GateInit
  <1>1. Gated = {} /\ Paid = {}
    BY DEF Init, Gated, Paid, Releases
  <1>2. statusOf = [l \in {} |-> "Pending"] /\ DOMAIN statusOf = {}
    BY <1>1 DEF statusOf
  <1> QED BY <1>1, <1>2 DEF Gate!GateInit, Paid

\* Every step of the ledger is one of the gate, or changes nothing the gate
\* sees.
LEMMA GateSteps == ASSUME LedgerInv, [Next]_vars PROVE [Gate!GateNext]_Gate!gateVars
  <1>1. LedgerInv'
    BY LedgerInvStep
  <1>2. CASE \E a \in actions : Approve(a) \/ Reject(a)
    BY <1>1, <1>2, DecideGate
  <1>3. CASE \E a \in actions, runId \in RunIds : ExecuteApprovedAction(a, runId)
    BY <1>1, <1>3, ExecuteGate
  <1>4. CASE \E r \in runs, p \in policies, c \in credits : ExecuteAllocation(r, p, c)
    BY <1>1, <1>4, AllocationGate
  <1>5. CASE \/ \E x \in receipts : Acknowledge(x)
             \/ \E x \in portfolios : RenamePortfolioAllocation(x) \/ ArchivePortfolioAllocation(x)
    BY <1>5, OtherStepsGate
  <1>6. CASE UNCHANGED <<actions, receipts, portfolios>>
    BY <1>6, OtherStepsGate
  <1> QED
    BY <1>2, <1>3, <1>4, <1>5, <1>6
    DEF Next, CreatePolicy, UpdatePolicy, DeactivatePolicy, CreateNotice, CreateCredit,
        ConfirmReceived, MarkUnused, CreateRun, IncreaseBalance, DecreaseBalance, RenameCategory,
        ArchiveIfZero, ReplaceBalance, vars

\* The detailed ledger implements the abstract gate: the money of a gated
\* line leaves in the step that executes its approved action, or not at all.
THEOREM GateImplementedHolds == Spec => GateImplemented
  <1>1. Init => Gate!GateInit
    BY GateStarts
  <1>2. LedgerInv /\ [Next]_vars => [Gate!GateNext]_Gate!gateVars
    BY GateSteps
  <1> QED BY <1>1, <1>2, LedgerInvariant, PTL DEF Spec, GateImplemented, Gate!GateSpec
=============================================================================
