-------------------------- MODULE MCAllocationEngine --------------------------
(* AllocationEngine on small amounts and policies that round, fail to       *)
(* validate, or ask for approval by a rule.                                 *)
EXTENDS AllocationEngine

category(id, bps, type) ==
    [id |-> id, bps |-> bps, type |-> type, recipient |-> "landlord", address |-> "none",
     target |-> TRUE, approval |-> FALSE]

rule(action, threshold, categoryId) ==
    [id |-> action, action |-> action, enabled |-> TRUE, threshold |-> threshold,
     category |-> categoryId]

rent(bps) == category("rent", bps, "ExternalPayment")
save(bps) == category("save", bps, "InternalReserve")
stocks(bps) == category("stocks", bps, "PortfolioAllocation")
hold(bps) == category("hold", bps, "ManualHold")

\* Three roundings, and a residual of up to two units for the last line.
thirds == <<rent(3333), stocks(3333), save(3334)>>
\* The last line is entitled to nothing and still takes the residual.
zeroLast == <<rent(3333), hold(6667), save(0)>>

ok1 == [categories |-> thirds, rules |-> <<rule("LargeTransfer", {10}, "")>>]
ok2 == [categories |-> zeroLast, rules |-> <<rule("NewRecipient", {}, ""),
                                            rule("ExternalWithdrawal", {7}, "hold")>>]
ok3 == [categories |-> <<[rent(10000) EXCEPT !.approval = TRUE]>>, rules |-> <<>>]
ok4 == [categories |-> thirds,
        rules |-> <<[rule("ExternalPayment", {}, "") EXCEPT !.enabled = FALSE],
                    rule("PortfolioAllocation", {}, "rent")>>]
over == [categories |-> <<rent(9000), stocks(3000), save(0)>>, rules |-> <<>>]
short == [categories |-> <<rent(3333), save(3333)>>, rules |-> <<>>]
negative == [categories |-> <<rent(10001), save(-1)>>, rules |-> <<>>]
twice == [categories |-> <<rent(5000), rent(5000)>>, rules |-> <<>>]
unpaid == [categories |-> <<[rent(10000) EXCEPT !.recipient = ""]>>, rules |-> <<>>]
empty == [categories |-> <<>>, rules |-> <<>>]
badRule == [categories |-> thirds, rules |-> <<rule("LargeTransfer", {-1}, "")>>]

AllPolicies == {ok1, ok2, ok3, ok4, over, short, negative, twice, unpaid, empty, badRule}
SmallAmounts == 1..40
\* An asset of as many decimals as an amount, one of fewer, one of more.
ThreeAssets == {[dust |-> 1, finer |-> 1], [dust |-> 10, finer |-> 1], [dust |-> 1, finer |-> 10]}
OneParty == {"landlord"}
NoneOrRent == {{}, {"rent"}}
=============================================================================
