------------------------------ MODULE Environment ------------------------------
(***************************************************************************)
(* What the server makes of its environment variables: which settlement    *)
(* contracts it trusts, with what it signs, whether its agent wallet is    *)
(* real, and what its health routes say about all that.                    *)
(*                                                                         *)
(* An environment `env` is a record of variables, named as in              *)
(* .env.example.  A variable is Unset when it is missing or empty, Invalid *)
(* when the code cannot parse it, and otherwise a value; those of which    *)
(* only the presence matters are booleans.  Refused is a thrown error or   *)
(* an answer that is not 200.                                              *)
(***************************************************************************)
CONSTANTS Unset, Invalid, Refused, DemoToken, DemoVault, BaseSepolia

ASSUME EnvironmentAssumption ==
    /\ Refused \notin {Unset, Invalid, "merchant", "generated", "simulated", "real"}
    /\ Unset # Invalid
    /\ {DemoToken, DemoVault, BaseSepolia} \cap {Unset, Invalid, Refused} = {}

orElse(value, fallback) == IF value = Unset THEN fallback ELSE value

-----------------------------------------------------------------------------
(* The settlement contracts                                                *)

\* The number of an Invalid chain id is NaN, which no comparison finds equal to
\* anything; a value is the id of a chain.
settlementChain(env) == orElse(env.SETTLEMENT_CHAIN_ID, BaseSepolia)

\* Neither of these asks whether the chain id is a number.
settlementConfig(env, demoMode, tokenFallback, vaultFallback) ==
    LET token == orElse(env.TESTNET_USDC_ADDRESS, tokenFallback)
        vault == orElse(env.PREO_FUNDING_VAULT_ADDRESS, vaultFallback)
    IN  IF {token, vault} \cap {Unset, Invalid} # {} THEN Refused
        ELSE [demoMode |-> demoMode, chainId |-> settlementChain(env),
              rpcUrl |-> env.SETTLEMENT_RPC_URL, token |-> token, vault |-> vault]

getSettlementConfig(env) ==
    IF env.DEMO_MODE THEN settlementConfig(env, TRUE, DemoToken, DemoVault)
                     ELSE settlementConfig(env, FALSE, Unset, Unset)

getFundingSettlementConfig(env) ==
    LET config == getSettlementConfig(env)
    IN  IF config # Refused THEN config
        ELSE settlementConfig(env, TRUE, DemoToken, DemoVault)

sameChain(chainId, config) == chainId = config.chainId /\ chainId # Invalid

-----------------------------------------------------------------------------
(* The Blink signer                                                        *)

privateKeyFromOptions(key, demoMode) ==
    CASE key = Invalid -> Refused
      [] key \notin {Unset, Invalid} -> "merchant"
      [] key = Unset /\ demoMode -> "generated"
      [] key = Unset /\ ~demoMode -> Refused

createBlinkSignedPayload(env, config) ==
    IF ~env.BLINK_MERCHANT_ID /\ ~config.demoMode THEN Refused
    ELSE privateKeyFromOptions(env.BLINK_MERCHANT_PRIVATE_KEY, config.demoMode)

\* The answer to a request to sign a payment of a token to an address on a chain.
signPayment(env, chainId, token, vault) ==
    LET config == getFundingSettlementConfig(env)
    IN  IF config = Refused THEN Refused
        ELSE IF ~sameChain(chainId, config) \/ token # config.token \/ vault # config.vault
             THEN Refused
        ELSE createBlinkSignedPayload(env, config)

hasMerchant(env) == env.BLINK_MERCHANT_ID /\ env.BLINK_MERCHANT_PRIVATE_KEY # Unset

\* Mutant: the health route asks the forgiving configuration.
blinkHealth_forgiving(env) ==
    getFundingSettlementConfig(env) # Refused /\ (hasMerchant(env) \/ env.DEMO_MODE)

\* signerReady
blinkHealth(env) == getSettlementConfig(env) # Refused /\ (hasMerchant(env) \/ env.DEMO_MODE)

-----------------------------------------------------------------------------
(* The agent wallet                                                        *)

createAgentWalletFromEnv(env) ==
    IF env.DEMO_MODE \/ (~env.DYNAMIC_AGENT_PRIVATE_KEY /\ ~env.DYNAMIC_AGENT_WALLET_METADATA_JSON)
    THEN "demo"
    ELSE IF env.DYNAMIC_AGENT_PRIVATE_KEY THEN "local" ELSE "dynamic"

\* getDynamicWallet, for a wallet without a private key of its own.
hasDynamicWallet(env) ==
    env.DYNAMIC_ENVIRONMENT_ID /\ env.SETTLEMENT_RPC_URL /\ env.DYNAMIC_AGENT_WALLET_METADATA_JSON

\* The wallet knows its address without being told.
getAddress(env) ==
    createAgentWalletFromEnv(env) = "dynamic" => hasDynamicWallet(env)

\* A client for a chain without a number sends nothing.
sendUsdc(env) ==
    LET wallet == createAgentWalletFromEnv(env)
        token == env.TESTNET_USDC_ADDRESS
    IN  IF wallet = "demo" THEN "simulated"
        ELSE IF /\ token \notin {Unset, Invalid} /\ settlementChain(env) # Invalid
                /\ IF wallet = "local" THEN env.SETTLEMENT_RPC_URL ELSE hasDynamicWallet(env)
             THEN "real" ELSE Refused

settlementHealth(env) ==
    LET config == getSettlementConfig(env)
    IN  config # Refused /\ (config.demoMode \/ config.rpcUrl)
=============================================================================
