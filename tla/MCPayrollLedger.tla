--------------------------- MODULE MCPayrollLedger ---------------------------
(* PayrollLedger on small instances: which policies a user may submit.      *)
EXTENDS PayrollLedger, TLC

CONSTANTS ana, bea, acme, landlord, none

rule(id, bps, type, recipient, target, approval) ==
    [categoryId |-> id, percentageBps |-> bps, categoryType |-> type, recipient |-> recipient,
     externalAddress |-> FALSE, portfolioTarget |-> target, requiresApproval |-> approval]

rent(bps, approval) == rule("rent", bps, "ExternalPayment", landlord, FALSE, approval)
save(bps) == rule("save", bps, "InternalReserve", none, FALSE, FALSE)
stocks(bps, approval) == rule("stocks", bps, "PortfolioAllocation", none, TRUE, approval)

form(categories) == [categories |-> categories, approvalRules |-> {}]

\* Both lines wait for approval.
bothGated == form(<<rent(6000, TRUE), stocks(4000, TRUE)>>)
\* The percentages do not add up; ExecuteAllocation must refuse it.
short == form(<<rent(2500, FALSE), save(2500)>>)
\* Rent waits for approval, the investment is made at once.
mixed == form(<<rent(2500, TRUE), stocks(7500, FALSE)>>)

OneUser == {ana}
TwoUsers == {ana, bea}
UserSymmetry == Permutations(TwoUsers)
OneEmployer == {acme}
OneRecipient == {landlord}
OneAmount == {3}
OneRunId == {"run"}
CoreForms == {bothGated, short}
ChoiceForms == {mixed}
\* The first line is listed but gets nothing.
zeroRent == form(<<rent(0, TRUE), save(10000)>>)
\* No category asks for approval; a rule of the policy does, for every payment.
ruledRent == [categories |-> <<rent(6000, FALSE), save(4000)>>,
              approvalRules |-> {[actionType |-> "ActionExternalPayment", thresholdAmount |-> 0,
                                  appliesTo |-> ""]}]
ZeroForms == {zeroRent}
RuledForms == {ruledRent}
Nothing == {}
\* Exactly the balance rent receives, a second decrease would go below zero;
\* and an amount the choices refuse.
RentShare == {7500, 0}
OneLabel == {"flat", ""}
=============================================================================
