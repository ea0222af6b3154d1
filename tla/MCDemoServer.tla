----------------------------- MODULE MCDemoServer -----------------------------
(* DemoServer with two users and workloads of up to six requests.           *)
EXTENDS DemoServer, TLC

CONSTANTS ann, bob

category(id, bps, type, recipient, approval) ==
    [id |-> id, bps |-> bps, type |-> type, recipient |-> recipient, address |-> "valid",
     target |-> type = "PortfolioAllocation", approval |-> approval]

\* Rounds, pays outside Canton at once, a user at once and after approval, and
\* invests.  2500 bps of six are 1.5.
Mixed(party) ==
    [categories |-> <<category("card", 2500, "ExternalPayment", NoParty, FALSE),
                      category("rent", 2500, "ExternalPayment", party, FALSE),
                      category("loan", 3333, "ExternalPayment", party, TRUE),
                      category("stocks", 1667, "PortfolioAllocation", NoParty, FALSE)>>,
     rules |-> <<>>]
Short == [Mixed(NoParty) EXCEPT !.categories = SubSeq(@, 1, 2)]

MCPolicies == {Mixed(ann), Mixed(bob), Short}
MCParties == {ann, bob, Employer, Recipient, Operator, OtherUser}

\* Two decimals and eighteen, of which shares need ten.
Cents == [dust |-> 10, finer |-> 1]
Ether == [dust |-> 1, finer |-> 10000]
MCPayrolls == {[amount |-> 100, asset |-> Usdc], [amount |-> 3, asset |-> Usdc],
               [amount |-> 105, asset |-> Cents], [amount |-> 6, asset |-> Ether]}

\* As the doubles of 0.0000005, 0.0000015, ... are.
MCRoundedUp == {1, 2, 4, 7, 9, 11, 12, 14, 15, 16}

MCWorkloads == {
    <<"bootstrap", "bootstrap", "reset", "bootstrap">>,
    <<"bootstrap", "policy", "policy", "reset">>,
    <<"bootstrap", "policy", "confirm", "allocate", "allocate">>,
    <<"bootstrap", "policy", "confirm", "allocate", "approve", "execute">>,
    <<"bootstrap", "payroll", "payroll">>,
    <<"bootstrap", "policy", "policy", "policy">>,
    <<"fullFlow", "policy">>,
    <<"fullFlow", "allocate", "reset">>,
    <<"fullFlow", "execute", "reject">>,
    <<"fullFlow", "fullFlow", "approve">>}
Symmetric == Permutations({ann, bob})
=============================================================================
