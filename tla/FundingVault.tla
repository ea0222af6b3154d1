----------------------------- MODULE FundingVault -----------------------------
(***************************************************************************)
(* PreoFundingVault on its chain, and the server that takes the events of  *)
(* one vault for evidence of payroll.                                      *)
(*                                                                         *)
(* Several vaults may be deployed; the server trusts the one its           *)
(* environment names.  A transaction makes one or more calls (`open`), and *)
(* its logs can be read once it is mined.  A call that reverts leaves      *)
(* nothing.  The vault's tokens are plain ERC20 tokens (MockUSDC): a       *)
(* transfer moves the amount it names or reverts.  Their allowances, and   *)
(* their own Transfer events, which the server passes over, are left out.  *)
(*                                                                         *)
(* A row of EvmEvent is what the verify-deposit route stores; the credit   *)
(* that follows from a row is SettlementAttestor's.  The chain is the one  *)
(* the server's environment names; its reorganisations are left out.       *)
(***************************************************************************)
EXTENDS Environment, Sums, FiniteSets, FiniteSetsExt, SequencesExt

CONSTANTS
    Environments,
    ChainIds,       \* that an environment or a request may name
    Users,          \* each stands for its own preoUserIdHash
    Vaults, Tokens, \* addresses of contracts on the chain
    Usdc,           \* the token a vault is deployed for
    Owner,          \* of every vault
    Accounts,       \* who sends transactions, Owner among them
    Nobody,
    Amounts,
    Wealth,         \* what an account holds of each token at first
    Trafficked,     \* bound: environments whose chain has transactions
    MaxCalls,       \* bound: calls of all transactions
    MaxTransaction, \* bound: transactions and logs a request may name
    MaxEvents,      \* bound: events of all transactions
    MaxRows         \* bound: rows of the server

None == 0
NoDeposit == [event |-> "none"]

ASSUME VaultAssumption ==
    /\ BaseSepolia \in ChainIds /\ ChainIds \cap {Unset, Invalid} = {}
    /\ Usdc \in Tokens /\ Owner \in Accounts /\ Nobody \notin Accounts
    /\ Amounts \subseteq Nat /\ Wealth \in Nat /\ MaxCalls \in Nat /\ MaxTransaction \in Nat
    /\ MaxEvents \in Nat /\ MaxRows \in Nat
    /\ Vaults \cap (Accounts \cup {DemoVault}) = {} /\ DemoToken \notin Tokens

VARIABLES
    env,            \* of the server, fixed when it starts
    supportedTokens,
    authorizedAgents,
    paused,
    balance,        \* of each token, of accounts and vaults
    open,           \* the transaction being executed
    receipts,       \* logs of each transaction mined
    rows,           \* EvmEvent
    signed,         \* payments the Blink signer has signed
    everAgents,     \* history: agents each vault has ever had
    calls           \* number of calls so far

vault == <<supportedTokens, authorizedAgents, paused, balance, everAgents>>
chain == <<vault, open, receipts, calls>>
vars == <<env, chain, rows, signed>>

\* A vault as deploy.ts leaves it, before an agent is authorised.
Init ==
    /\ env \in Environments
    /\ supportedTokens = [v \in Vaults |-> {Usdc}]
    /\ authorizedAgents = [v \in Vaults |-> {}] /\ everAgents = authorizedAgents
    /\ paused = [v \in Vaults |-> FALSE]
    /\ balance = [t \in Tokens |-> [h \in Accounts \cup Vaults |->
                                        IF h \in Accounts THEN Wealth ELSE 0]]
    /\ open = [from |-> Nobody, logs |-> <<>>] /\ receipts = <<>> /\ calls = 0
    /\ rows = {} /\ signed = {}

-----------------------------------------------------------------------------
(* Transactions and the calls they make                                    *)

\* Account c makes one more call, in the open transaction if that is its own.
call(c, logs) ==
    /\ calls < MaxCalls /\ calls' = calls + 1
    /\ open.from \in {Nobody, c} /\ env \in Trafficked
    /\ open' = [from |-> c, logs |-> open.logs \o logs]
    /\ logs # <<>> =>
           /\ Len(open'.logs) <= MaxTransaction
           /\ Len(FlattenSeq(receipts)) + Len(open'.logs) <= MaxEvents
    /\ UNCHANGED <<env, receipts, rows, signed>>

\* A transaction without events has nothing for the server to read.
Mine ==
    /\ open.from # Nobody
    /\ receipts' = IF open.logs = <<>> THEN receipts ELSE Append(receipts, open.logs)
    /\ open' = [from |-> Nobody, logs |-> <<>>]
    /\ UNCHANGED <<env, vault, rows, signed, calls>>

\* The two setters: calls that change nothing are left out.
SetSupportedToken(c, v, token, supported) ==
    /\ call(c, <<>>) /\ c = Owner
    /\ supported # (token \in supportedTokens[v])
    /\ supportedTokens' = [supportedTokens EXCEPT ![v] =
                              IF supported THEN @ \cup {token} ELSE @ \ {token}]
    /\ UNCHANGED <<authorizedAgents, paused, balance, everAgents>>

SetAuthorizedAgent(c, v, agent, authorized) ==
    LET set(agents) == IF authorized THEN agents \cup {agent} ELSE agents \ {agent}
    IN  /\ call(c, <<>>) /\ c = Owner
        /\ authorized # (agent \in authorizedAgents[v])
        /\ authorizedAgents' = [authorizedAgents EXCEPT ![v] = set(@)]
        /\ everAgents' = [everAgents EXCEPT ![v] = @ \cup authorizedAgents'[v]]
        /\ UNCHANGED <<supportedTokens, paused, balance>>

\* pause and unpause each revert when there is nothing to do.
SetPaused(c, v, value) ==
    /\ call(c, <<>>) /\ c = Owner
    /\ paused[v] # value /\ paused' = [paused EXCEPT ![v] = value]
    /\ UNCHANGED <<supportedTokens, authorizedAgents, balance, everAgents>>

\* An ERC20 transfer.
move(token, sender, recipient, amount) ==
    /\ balance[token][sender] >= amount
    /\ LET paid == [balance[token] EXCEPT ![sender] = @ - amount]
       IN  balance' = [balance EXCEPT ![token] = [paid EXCEPT ![recipient] = @ + amount]]

log(event, c, v, user, token, amount) ==
    <<[event |-> event, by |-> c, vault |-> v, user |-> user, token |-> token, amount |-> amount]>>

\* Mutant: anybody may record and withdraw.
onlyAuthorizedAgent_anybody(c, v) == TRUE

onlyAuthorizedAgent(c, v) == c = Owner \/ c \in authorizedAgents[v]

\* The modifiers and arguments every movement of money passes.
mayMove(v, token, amount) == ~paused[v] /\ token \in supportedTokens[v] /\ amount # 0

\* Mutant: transferFrom instead of safeTransferFrom: a refused transfer is not noticed.
DepositFor_unsafe(c, v, user, token, amount) ==
    /\ mayMove(v, token, amount)
    /\ call(c, log("PreoDepositReceived", c, v, user, token, amount))
    /\ IF balance[token][c] >= amount THEN move(token, c, v, amount) ELSE UNCHANGED balance
    /\ UNCHANGED <<supportedTokens, authorizedAgents, paused, everAgents>>

DepositFor(c, v, user, token, amount) ==
    /\ mayMove(v, token, amount)
    /\ call(c, log("PreoDepositReceived", c, v, user, token, amount))
    /\ move(token, c, v, amount)
    /\ UNCHANGED <<supportedTokens, authorizedAgents, paused, everAgents>>

\* Employer payroll that came another way: evidence only, no token moves.
RecordPayrollDeposit(c, v, user, token, amount) ==
    /\ mayMove(v, token, amount) /\ onlyAuthorizedAgent(c, v)
    /\ call(c, log("PayrollDepositRecorded", c, v, user, token, amount))
    /\ UNCHANGED vault

WithdrawTo(c, v, recipient, token, amount) ==
    /\ mayMove(v, token, amount) /\ onlyAuthorizedAgent(c, v)
    /\ call(c, log("PreoWithdrawalExecuted", c, v, recipient, token, amount))
    /\ move(token, v, recipient, amount)
    /\ UNCHANGED <<supportedTokens, authorizedAgents, paused, everAgents>>

\* A plain token transfer to a vault: no event names a user.
Transfer(c, v, token, amount) ==
    /\ call(c, <<>>)
    /\ move(token, c, v, amount)
    /\ UNCHANGED <<supportedTokens, authorizedAgents, paused, everAgents>>

-----------------------------------------------------------------------------
(* The server                                                              *)

\* The log is evidence of funding: an event of the vault, about its token.
decodeVaultFundingLog(entry, config) ==
    /\ entry.vault = config.vault
    /\ entry.event \in {"PreoDepositReceived", "PayrollDepositRecorded"}
    /\ entry.token = config.token

\* The first log that fits, or the one at the index the request expects.
selectVerifiedVaultDeposit(tx, config, user, expectedLogIndex) ==
    LET fits(i) == /\ expectedLogIndex \in {None, i}
                   /\ decodeVaultFundingLog(receipts[tx][i], config)
                   /\ receipts[tx][i].user = user
        found == {i \in DOMAIN receipts[tx] : fits(i)}
    IN  IF found = {} THEN NoDeposit
        ELSE LET i == Min(found)
             IN  [tx |-> tx, index |-> i, user |-> user, event |-> receipts[tx][i].event,
                  amount |-> receipts[tx][i].amount, made |-> FALSE]

getReceiptDeposit(tx, config, user, expectedLogIndex) ==
    IF config.rpcUrl /\ tx \in DOMAIN receipts
    THEN selectVerifiedVaultDeposit(tx, config, user, expectedLogIndex) ELSE NoDeposit

makeDemoVerifiedVaultDeposit(tx, user, amount, expectedLogIndex) ==
    [tx |-> tx, index |-> IF expectedLogIndex = None THEN 1 ELSE expectedLogIndex,
     user |-> user, event |-> "PreoDepositReceived", amount |-> amount, made |-> TRUE]

makesUp(config) == config.demoMode /\ ~config.rpcUrl

\* A request that names no chain means the configured one.
chainAccepted(chainId, config) ==
    sameChain(IF chainId = Unset THEN config.chainId ELSE chainId, config)

\* Mutant: a receipt without a matching log is stored all the same.
VerifyDeposit_unchecked(user, chainId, tx, expectedLogIndex, demoAmount) ==
    LET config == getSettlementConfig(env)
    IN  /\ config # Refused /\ chainAccepted(chainId, config) /\ Cardinality(rows) < MaxRows
        /\ rows' = rows \cup {getReceiptDeposit(tx, config, user, expectedLogIndex)}
        /\ UNCHANGED <<env, chain, signed>>

\* One row per transaction and index: a row that has its credit is left alone,
\* one that has none is taken over by the user who verifies it again.
VerifyDeposit(user, chainId, tx, expectedLogIndex, demoAmount) ==
    LET config == getSettlementConfig(env)
        deposit == IF makesUp(config)
                   THEN makeDemoVerifiedVaultDeposit(tx, user, demoAmount, expectedLogIndex)
                   ELSE getReceiptDeposit(tx, config, user, expectedLogIndex)
        existing == {r \in rows : r.tx = deposit.tx /\ r.index = deposit.index}
    IN  /\ config # Refused /\ chainAccepted(chainId, config)
        /\ deposit # NoDeposit
        /\ IF existing = {}
           THEN Cardinality(rows) < MaxRows /\ rows' = rows \cup {deposit}
           ELSE rows' \in {rows, (rows \ existing) \cup {[r EXCEPT !.user = user] : r \in existing}}
        /\ UNCHANGED <<env, chain, signed>>

SignPayment(chainId, token, v) ==
    /\ signPayment(env, chainId, token, v) # Refused
    /\ signed' = signed \cup {[chainId |-> chainId, token |-> token, vault |-> v]}
    /\ UNCHANGED <<env, chain, rows>>

-----------------------------------------------------------------------------
VaultCall(c, v) ==
    \E t \in Tokens, a \in Amounts :
        \/ \E b \in BOOLEAN : SetSupportedToken(c, v, t, b)
        \/ \E agent \in Accounts \ {Owner}, b \in BOOLEAN : SetAuthorizedAgent(c, v, agent, b)
        \/ \E b \in BOOLEAN : SetPaused(c, v, b)
        \/ \E u \in Users : DepositFor(c, v, u, t, a) \/ RecordPayrollDeposit(c, v, u, t, a)
        \/ \E h \in Accounts \cup Vaults : WithdrawTo(c, v, h, t, a)
        \/ Transfer(c, v, t, a)

indexes == 1..MaxTransaction

Next ==
    \/ \E c \in Accounts, v \in Vaults : VaultCall(c, v)
    \/ Mine
    \/ \E u \in Users, n \in ChainIds \cup {Unset}, tx \in indexes, i \in {None} \cup indexes,
          a \in Amounts : VerifyDeposit(u, n, tx, i, a)
    \/ \E n \in ChainIds, t \in Tokens \cup {DemoToken}, v \in Vaults \cup {DemoVault} :
           SignPayment(n, t, v)

Spec == Init /\ [][Next]_vars

-----------------------------------------------------------------------------
(* Properties                                                              *)

Logs == [event : {"PreoDepositReceived", "PayrollDepositRecorded", "PreoWithdrawalExecuted"},
         by : Accounts, vault : Vaults, user : Users \cup Accounts \cup Vaults,
         token : Tokens, amount : Amounts \ {0}]
Rows == [tx : Nat \ {0}, index : Nat \ {0}, user : Users, amount : Amounts, made : BOOLEAN,
         event : {"PreoDepositReceived", "PayrollDepositRecorded"}]

\* Every variable has its type: balances never go below zero, and a row comes
\* from a deposit.
TypeOK ==
    /\ supportedTokens \in [Vaults -> SUBSET Tokens]
    /\ authorizedAgents \in [Vaults -> SUBSET Accounts]
    /\ everAgents \in [Vaults -> SUBSET Accounts]
    /\ paused \in [Vaults -> BOOLEAN]
    /\ balance \in [Tokens -> [Accounts \cup Vaults -> Nat]]
    /\ open.from \in Accounts \cup {Nobody} /\ open.logs \in Seq(Logs)
    /\ receipts \in Seq(Seq(Logs))
    /\ rows \subseteq Rows
    /\ signed \subseteq [chainId : ChainIds, token : Tokens \cup {DemoToken},
                         vault : Vaults \cup {DemoVault}]
    /\ calls \in 0..MaxCalls

\* The amounts that some logs say of an event of a vault and a token, added up;
\* and those of all logs so far.
said(entry, event, v, token) ==
    IF entry.event = event /\ entry.vault = v /\ entry.token = token THEN entry.amount ELSE 0

logged(logs, event, v, token) ==
    SumOver([i \in 1..Len(logs) |-> said(logs[i], event, v, token)])

mined(event, v, token) ==
    SumOver([tx \in 1..Len(receipts) |-> logged(receipts[tx], event, v, token)])

loggedEver(event, v, token) == mined(event, v, token) + logged(open.logs, event, v, token)

\* However calls, pauses, delistings and withdrawals follow each other, a vault
\* holds of each token all that its deposit events say, less what its withdrawal
\* events say: recorded payroll and plain transfers never make up for a deposit.
DepositsAreHeld ==
    \A v \in Vaults, t \in Tokens :
        balance[t][v] >= loggedEver("PreoDepositReceived", v, t)
                         - loggedEver("PreoWithdrawalExecuted", v, t)

\* What the server stored from the chain is evidence: a log of the vault and the
\* token it is configured for, about that user and amount, that no other row
\* took; and recorded payroll is the word of the owner or of an agent it had.
VerifiedIsBacked ==
    \A r \in rows :
        LET entry == receipts[r.tx][r.index]
        IN  ~r.made =>
            /\ r.tx \in DOMAIN receipts /\ r.index \in DOMAIN receipts[r.tx]
            /\ entry.vault = env.PREO_FUNDING_VAULT_ADDRESS
            /\ entry.token = env.TESTNET_USDC_ADDRESS
            /\ <<entry.user, entry.amount, entry.event>> = <<r.user, r.amount, r.event>>
            /\ \A s \in rows \ {r} : <<s.tx, s.index>> # <<r.tx, r.index>>
            /\ r.event = "PayrollDepositRecorded" =>
                   entry.by \in everAgents[entry.vault] \cup {Owner}

\* What the health routes report, the routes keep, where the variables can be
\* parsed.  A ready Blink signer signs, if its key and the chain id are ones, and
\* only payments to the vault, in the token and on the chain that verify-deposit
\* looks for.  With the settlement contracts reported well and a chain id, that
\* route takes requests, and either has a chain to ask or makes deposits up; and an
\* agent wallet that knows its address can transfer.
ReadinessHonest ==
    LET config == getSettlementConfig(env)
        chainKnown == env.SETTLEMENT_CHAIN_ID # Invalid
    IN  /\ blinkHealth(env) =>
            /\ config # Refused
            /\ chainKnown /\ env.BLINK_MERCHANT_PRIVATE_KEY # Invalid =>
                   signPayment(env, config.chainId, config.token, config.vault) # Refused
            /\ \A p \in signed : <<p.chainId, p.token, p.vault>>
                                     = <<config.chainId, config.token, config.vault>>
        /\ settlementHealth(env) /\ chainKnown =>
            /\ config.rpcUrl \/ makesUp(config)
            /\ \A n \in {Unset, config.chainId} : chainAccepted(n, config)
            /\ getAddress(env) => sendUsdc(env) # Refused
=============================================================================
