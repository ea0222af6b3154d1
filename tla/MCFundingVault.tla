---------------------------- MODULE MCFundingVault ----------------------------
(* FundingVault with two vaults and tokens, and environments that vary      *)
(* together the variables that some code reads together.                    *)
EXTENDS FundingVault, TLC

CONSTANTS ann, bob, main, old, other, Agent, key, mainnet

Bare == [DEMO_MODE |-> FALSE, SETTLEMENT_CHAIN_ID |-> Unset, TESTNET_USDC_ADDRESS |-> Unset,
         PREO_FUNDING_VAULT_ADDRESS |-> Unset, SETTLEMENT_RPC_URL |-> FALSE,
         BLINK_MERCHANT_ID |-> FALSE, BLINK_MERCHANT_PRIVATE_KEY |-> Unset,
         DYNAMIC_ENVIRONMENT_ID |-> FALSE, DYNAMIC_AGENT_PRIVATE_KEY |-> FALSE,
         DYNAMIC_AGENT_WALLET_METADATA_JSON |-> FALSE]

Settlement ==
    {[Bare EXCEPT !.DEMO_MODE = d, !.SETTLEMENT_CHAIN_ID = n, !.TESTNET_USDC_ADDRESS = t,
                  !.PREO_FUNDING_VAULT_ADDRESS = v, !.SETTLEMENT_RPC_URL = r] :
        d \in BOOLEAN, n \in {Unset, Invalid, mainnet}, t \in {Unset, Invalid, Usdc}, v \in {Unset, Invalid, main}, r \in BOOLEAN}

Signers ==
    UNION {{[e EXCEPT !.BLINK_MERCHANT_ID = m, !.BLINK_MERCHANT_PRIVATE_KEY = k] :
        m \in BOOLEAN, k \in {Unset, Invalid, key}} : e \in Settlement}

Wallets ==
    UNION {{[e EXCEPT !.DYNAMIC_ENVIRONMENT_ID = i, !.DYNAMIC_AGENT_PRIVATE_KEY = k,
                      !.DYNAMIC_AGENT_WALLET_METADATA_JSON = m] :
        i \in BOOLEAN, k \in BOOLEAN, m \in BOOLEAN} : e \in Settlement}

MCEnvironments == Signers \cup Wallets

\* The chain runs beside a server that can ask it.
MCTrafficked ==
    {[Bare EXCEPT !.TESTNET_USDC_ADDRESS = Usdc, !.PREO_FUNDING_VAULT_ADDRESS = main,
                  !.SETTLEMENT_RPC_URL = TRUE]}
Symmetric == Permutations({ann, bob})
=============================================================================
