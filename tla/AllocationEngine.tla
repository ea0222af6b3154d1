--------------------------- MODULE AllocationEngine ---------------------------
(***************************************************************************)
(* The policy engine (packages/policy-engine): buildAllocationPlan checks  *)
(* a policy category by category, splits a payroll amount over the         *)
(* categories in whole units, the last one taking what rounding left, and  *)
(* files every line under what happens to it next.                         *)
(*                                                                         *)
(* One step per iteration of the loops of validatePolicy, allocateAtomic   *)
(* and buildAllocationPlan.  Amounts are whole numbers of 10^-6, the API's *)
(* precision.  The units of an asset with fewer decimals are `dust` of     *)
(* these (10000 for two decimals), and it loses the remainder; one of 10^-6*)
(* has `finer` units of an asset with more decimals (10^12 for ether).     *)
(***************************************************************************)
EXTENDS Sums, Integers, Sequences, FiniteSets

CONSTANTS
    Amounts,        \* payroll amounts
    Assets,         \* by their precision
    Parties,        \* Canton parties a policy may name
    Policies,       \* policies somebody may submit
    NewRecipients   \* sets of categories whose recipient is new

CategoryTypes == {"ExternalPayment", "PortfolioAllocation", "ManualHold", "InternalReserve"}
ActionTypes == {"ExternalPayment", "PortfolioAllocation", "ExternalWithdrawal", "PolicyChange",
                "NewRecipient", "LargeTransfer"}

\* An empty name stands for a missing one; address: missing, well formed or not.
Category == [id : STRING, bps : Int, type : CategoryTypes, recipient : Parties \cup {""},
             address : {"none", "valid", "bad"}, target : BOOLEAN, approval : BOOLEAN]

Asset == [dust : Nat \ {0}, finer : Nat \ {0}]

\* threshold: empty for undefined, else the one value.
Rule == [id : STRING, action : ActionTypes, enabled : BOOLEAN, threshold : SUBSET Int,
         category : STRING]

ASSUME EnginePoliciesAssumption ==
    Policies \subseteq [categories : Seq(Category), rules : Seq(Rule)]
ASSUME EngineAmountsAssumption ==
    /\ Amounts \subseteq Nat /\ Assets \subseteq Asset
    /\ \A a \in Assets : a.dust = 1 \/ a.finer = 1

VARIABLES
    policy, amount, asset, newRecipients,   \* the arguments
    pc,             \* the loop that is running
    ids,            \* validatePolicy: category ids seen
    totalBps,       \* validatePolicy: sum of the percentages
    ok,             \* validatePolicy: no error so far
    running,        \* history: totalBps after 0, 1, 2, ... categories
    allocated,      \* allocateAtomic: units given out
    lines,          \* units of each line
    plan            \* buildAllocationPlan: the bucket of each routed line

input == <<policy, amount, asset, newRecipients>>
vars == <<input, pc, ids, totalBps, ok, running, allocated, lines, plan>>

categories == policy.categories
n == Len(categories)

Init ==
    /\ policy \in Policies /\ amount \in Amounts /\ asset \in Assets
    /\ newRecipients \in NewRecipients
    /\ pc = "validate"
    /\ ids = {} /\ totalBps = 0 /\ ok = TRUE /\ running = <<0>>
    /\ allocated = 0 /\ lines = <<>> /\ plan = <<>>

-----------------------------------------------------------------------------
(* validatePolicy                                                          *)

next == Len(running)            \* the category validatePolicy looks at

validBps(c) == c.bps >= 0

\* Mutant: a category id that was seen is not refused.
validCategory_duplicates(c) ==
    /\ c.id # "" /\ validBps(c)
    /\ c.type = "ExternalPayment" => c.recipient # "" \/ c.address # "none"
    /\ c.type = "PortfolioAllocation" => c.target
    /\ c.address # "bad"

validCategory(c) ==
    /\ c.id # "" /\ c.id \notin ids
    /\ validBps(c)
    /\ c.type = "ExternalPayment" => c.recipient # "" \/ c.address # "none"
    /\ c.type = "PortfolioAllocation" => c.target
    /\ c.address # "bad"

\* One iteration over the categories; errors are collected, not thrown.
CheckCategory ==
    /\ pc = "validate" /\ next <= n
    /\ LET c == categories[next] IN
       /\ ok' = (ok /\ validCategory(c))
       /\ totalBps' = IF validBps(c) THEN totalBps + c.bps ELSE totalBps
       /\ ids' = ids \cup ({c.id} \ {""})
       /\ running' = Append(running, totalBps')
    /\ UNCHANGED <<input, pc, allocated, lines, plan>>

validRules(rules) ==
    /\ \A i \in DOMAIN rules : rules[i].id # "" /\ \A t \in rules[i].threshold : t >= 0
    /\ \A i, j \in DOMAIN rules : rules[i].id = rules[j].id => i = j

\* Mutant: the sum of the percentages is not checked.
CheckPolicy_anySum ==
    /\ pc = "validate" /\ next > n
    /\ pc' = IF ok /\ n > 0 /\ validRules(policy.rules) THEN "allocate" ELSE "refused"
    /\ UNCHANGED <<input, ids, totalBps, ok, running, allocated, lines, plan>>

\* The checks on the policy as a whole; buildAllocationPlan throws if any failed.
CheckPolicy ==
    /\ pc = "validate" /\ next > n
    /\ pc' = IF ok /\ n > 0 /\ totalBps = 10000 /\ validRules(policy.rules)
             THEN "allocate" ELSE "refused"
    /\ UNCHANGED <<input, ids, totalBps, ok, running, allocated, lines, plan>>

-----------------------------------------------------------------------------
(* allocateAtomic                                                          *)

\* parseAmountToUnits cuts off the digits the asset has no decimals for.
totalUnits == (amount * asset.finer) \div asset.dust

share(i) == (totalUnits * categories[i].bps) \div 10000

\* Mutant: the last line gets its share like the others.
allocateAtomic_noResidual(i) == share(i)

\* Mutant: one line early.
allocateAtomic_early(i) == IF i >= n - 1 THEN totalUnits - allocated ELSE share(i)

allocateAtomic(i) == IF i = n THEN totalUnits - allocated ELSE share(i)

AllocateLine ==
    /\ pc = "allocate" /\ Len(lines) < n
    /\ LET units == allocateAtomic(Len(lines) + 1) IN
       /\ lines' = Append(lines, units)
       /\ allocated' = allocated + units
    /\ pc' = IF Len(lines) + 1 = n THEN "route" ELSE "allocate"
    /\ UNCHANGED <<input, ids, totalBps, ok, running, plan>>

-----------------------------------------------------------------------------
(* buildAllocationPlan: where each line goes                               *)

categoryActionType(type) ==
    CASE type = "ExternalPayment" -> "ExternalPayment"
      [] type = "PortfolioAllocation" -> "PortfolioAllocation"
      [] type = "ManualHold" -> "ExternalWithdrawal"
      [] type = "InternalReserve" -> "LargeTransfer"

\* Mutant: a line has to be above the threshold.
ruleAsks_above(r, c, units) ==
    /\ r.enabled
    /\ r.category \in {"", c.id}
    /\ \/ r.action = "NewRecipient" /\ c.id \in newRecipients
       \/ r.action # "NewRecipient" /\ r.action = categoryActionType(c.type)
          /\ \A t \in r.threshold : units * asset.dust > t * asset.finer

ruleAsks(r, c, units) ==
    /\ r.enabled
    /\ r.category \in {"", c.id}
    /\ \/ r.action = "NewRecipient" /\ c.id \in newRecipients
       \/ r.action # "NewRecipient" /\ r.action = categoryActionType(c.type)
          /\ \A t \in r.threshold : units * asset.dust >= t * asset.finer

requiresApproval(c, units) ==
    c.approval \/ \E i \in DOMAIN policy.rules : ruleAsks(policy.rules[i], c, units)

bucketOf(type) ==
    CASE type = "InternalReserve" -> "immediateInternalBalances"
      [] type = "ExternalPayment" -> "immediatePayments"
      [] type = "PortfolioAllocation" -> "immediatePortfolioAllocations"
      [] type = "ManualHold" -> "manualHolds"

RouteLine ==
    /\ pc = "route" /\ Len(plan) < n
    /\ LET i == Len(plan) + 1
           bucket == IF requiresApproval(categories[i], lines[i])
                     THEN "pendingActions" ELSE bucketOf(categories[i].type)
       IN  /\ plan' = Append(plan, bucket)
           /\ pc' = IF i = n THEN "done" ELSE "route"
    /\ UNCHANGED <<input, ids, totalBps, ok, running, allocated, lines>>

\* The call has returned its plan, or thrown.
Return ==
    /\ pc \in {"done", "refused"}
    /\ UNCHANGED vars

Next == CheckCategory \/ CheckPolicy \/ AllocateLine \/ RouteLine \/ Return

Spec == Init /\ [][Next]_vars
FairSpec == Spec /\ WF_vars(Next)

-----------------------------------------------------------------------------
(* Properties                                                              *)

Buckets == {"pendingActions", "immediateInternalBalances", "immediatePayments",
            "immediatePortfolioAllocations", "manualHolds"}

\* The loop variables have their types, and no line is ever negative.
TypeOK ==
    /\ policy \in Policies /\ amount \in Amounts /\ asset \in Assets
    /\ newRecipients \in NewRecipients
    /\ pc \in {"validate", "allocate", "route", "done", "refused"}
    /\ ids \subseteq STRING /\ totalBps \in Nat /\ ok \in BOOLEAN
    /\ running \in Seq(Nat) /\ Len(running) \in 1..(n + 1)
    /\ allocated \in Nat
    /\ lines \in Seq(Nat) /\ Len(lines) <= n
    /\ plan \in Seq(Buckets) /\ Len(plan) <= n

\* Every line gets its percentage of the amount rounded down, and the last
\* one besides less than a unit for each line before it: the residual never
\* makes it negative and is never more than rounding explains.  That a category
\* of 0 bps "will receive no allocation", as validatePolicy warns, is true of all
\* but the last one, which takes the residual too: here the two parts of the
\* engine disagree, and the property says what the split does.
SharesFair ==
    \A i \in DOMAIN lines :
        /\ i < n => lines[i] = share(i)
        /\ i = n => /\ totalUnits * categories[i].bps <= 10000 * lines[i]
                    /\ 10000 * lines[i] < totalUnits * categories[i].bps + 10000 * n

\* The units of a finished split: all of the amount, but for the digits the
\* asset cannot hold.
SplitConserves ==
    pc \in {"route", "done"} =>
        /\ allocated = totalUnits
        /\ amount * asset.finer - asset.dust < asset.dust * SumOver(lines)
        /\ asset.dust * SumOver(lines) <= amount * asset.finer

\* The rule is about the type of a category and names it or none.
concerns(rule, c) ==
    /\ rule.enabled /\ rule.category \in {"", c.id}
    /\ rule.action = categoryActionType(c.type)

\* The exact percentage of the split units reaches the rule's threshold, one
\* of whole units.
reached(rule, c) ==
    \A t \in rule.threshold : \E units \in 0..totalUnits :
        /\ units * asset.dust = t * asset.finer
        /\ units * 10000 <= totalUnits * c.bps

\* A category whose percentage reaches the threshold of a rule about it waits
\* for approval: neither rounding nor the residual takes its line below it.
LargeSharesWait ==
    pc = "done" => \A i \in 1..n, r \in DOMAIN policy.rules :
        concerns(policy.rules[r], categories[i]) /\ reached(policy.rules[r], categories[i])
            => plan[i] = "pendingActions"

\* A plan exists only for a policy whose percentages are all there: the
\* lines and the categories are one to one, by distinct ids.
PlansAreValid ==
    pc \in {"allocate", "route", "done"} =>
        /\ n > 0 /\ running[n + 1] = 10000
        /\ \A i, j \in 1..n : categories[i].id = categories[j].id => i = j
=============================================================================
