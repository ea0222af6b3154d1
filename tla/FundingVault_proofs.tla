-------------------------- MODULE FundingVault_proofs --------------------------
(***************************************************************************)
(* Proofs about FundingVault, for any vaults, tokens, accounts, users,     *)
(* environments and lengths of history: TypeCorrect (balances never go     *)
(* below zero), DepositsAreHeldHolds (a vault holds what its events say),  *)
(* VerifiedIsBackedHolds (what the server stored from the chain is         *)
(* evidence) and ReadinessHonestHolds (what the health routes report, the  *)
(* others keep, but for a key or a chain id that cannot be parsed).        *)
(*                                                                         *)
(* VerifiedIsBacked is not inductive: a recorded payroll is stored later   *)
(* than it was emitted, so its sender must be remembered as an agent from  *)
(* the call on (EmittedByAgents), and a row taken over must be the only    *)
(* one of its log (RowsUnique) and of the kind the environment makes       *)
(* (RowsOfOneKind).  DepositsAreHeld is inductive among typed states: a    *)
(* call adds at most one log, and mining moves the sum of the open logs to *)
(* the mined ones.  ReadinessHonest needs the signed payments to be ones   *)
(* the signer would sign again (SignedTrusted), then it is a matter of     *)
(* cases over the environment.                                             *)
(***************************************************************************)
EXTENDS FundingVault, Sums_proofs, SequenceTheorems, WellFoundedInduction, TLAPS

\* Agents that are authorised are remembered.
AgentsRemembered == \A v \in Vaults : authorizedAgents[v] \subseteq everAgents[v]

\* A log of a recorded payroll was emitted by the owner or an agent.
emittedBy(entry, agents) ==
    entry.event = "PayrollDepositRecorded" => entry.by \in agents[entry.vault] \cup {Owner}

emittedByAgent(entry) == emittedBy(entry, everAgents)

EmittedByAgents ==
    /\ \A i \in DOMAIN open.logs : emittedByAgent(open.logs[i])
    /\ \A tx \in DOMAIN receipts : \A i \in DOMAIN receipts[tx] : emittedByAgent(receipts[tx][i])

\* A server makes all its deposits up, or none.
RowsOfOneKind ==
    rows # {} => /\ getSettlementConfig(env) # Refused
                 /\ \A r \in rows : r.made <=> makesUp(getSettlementConfig(env))

RowsUnique == \A r, s \in rows : r.tx = s.tx /\ r.index = s.index => r = s

\* A row is what a log of the configured contracts says.
backed(r) ==
    LET entry == receipts[r.tx][r.index]
    IN  /\ r.tx \in DOMAIN receipts /\ r.index \in DOMAIN receipts[r.tx]
        /\ entry.vault = env.PREO_FUNDING_VAULT_ADDRESS
        /\ entry.token = env.TESTNET_USDC_ADDRESS
        /\ <<entry.user, entry.amount, entry.event>> = <<r.user, r.amount, r.event>>
        /\ emittedByAgent(entry)

RowsBacked == \A r \in rows : ~r.made => backed(r)

VaultInv ==
    TypeOK /\ AgentsRemembered /\ EmittedByAgents /\ RowsOfOneKind /\ RowsUnique /\ RowsBacked

-----------------------------------------------------------------------------
(* Operators                                                               *)

\* A set of positive numbers that is not empty has a smallest member.
LEMMA MinIsMember ==
    ASSUME NEW S \in SUBSET (Nat \ {0}), S # {}
    PROVE  Min(S) \in S
  <1> DEFINE R == {ss \in Nat \X Nat : ss[1] < ss[2]}
  <1>1. IsWellFoundedOn(R, Nat)
    BY NatLessThanWellFounded DEF OpToRel
  <1>2. PICK x \in S : \A y \in S : <<y, x>> \notin R
    <2> HIDE DEF R
    <2> QED BY <1>1, WFMin
  <1>3. \A y \in S : x =< y
    <2> TAKE y \in S
    <2>1. x \in Nat /\ y \in Nat
      OBVIOUS
    <2>2. ~(y < x)
      BY <1>2, <2>1
    <2> QED BY <2>1, <2>2
  <1> QED BY <1>2, <1>3 DEF Min

\* The contracts trusted are the configured ones: those of the demo are on
\* no chain.
LEMMA TrustedContracts ==
    ASSUME getSettlementConfig(env) # Refused
    PROVE  LET config == getSettlementConfig(env)
           IN  /\ config.vault \in Vaults => config.vault = env.PREO_FUNDING_VAULT_ADDRESS
               /\ config.token \in Tokens => config.token = env.TESTNET_USDC_ADDRESS
               /\ config.demoMode <=> env.DEMO_MODE
  BY VaultAssumption, EnvironmentAssumption
     DEF getSettlementConfig, settlementConfig, orElse

\* A log that is found is evidence for the user.
LEMMA ReceiptDeposit ==
    ASSUME TypeOK, NEW tx, NEW user, NEW i, NEW config,
           getReceiptDeposit(tx, config, user, i) # NoDeposit
    PROVE  LET d == getReceiptDeposit(tx, config, user, i)
           IN  /\ config.rpcUrl /\ tx \in DOMAIN receipts /\ d.index \in DOMAIN receipts[tx]
               /\ d = [tx |-> tx, index |-> d.index, user |-> user,
                       event |-> receipts[tx][d.index].event,
                       amount |-> receipts[tx][d.index].amount, made |-> FALSE]
               /\ decodeVaultFundingLog(receipts[tx][d.index], config)
               /\ receipts[tx][d.index].user = user
  <1> DEFINE fits(j) == /\ i \in {None, j}
                        /\ decodeVaultFundingLog(receipts[tx][j], config)
                        /\ receipts[tx][j].user = user
             found == {j \in DOMAIN receipts[tx] : fits(j)}
  <1>1. config.rpcUrl /\ tx \in DOMAIN receipts
    BY DEF getReceiptDeposit
  <1>2. receipts[tx] \in Seq(Logs)
    BY <1>1 DEF TypeOK
  <1>3. found \in SUBSET (Nat \ {0})
    BY <1>2
  <1>4. /\ found # {}
        /\ getReceiptDeposit(tx, config, user, i) =
               [tx |-> tx, index |-> Min(found), user |-> user,
                event |-> receipts[tx][Min(found)].event,
                amount |-> receipts[tx][Min(found)].amount, made |-> FALSE]
    BY <1>1 DEF getReceiptDeposit, selectVerifiedVaultDeposit
  <1>5. Min(found) \in found
    <2> HIDE DEF found
    <2> QED BY <1>3, <1>4, MinIsMember
  <1> QED BY <1>1, <1>4, <1>5

-----------------------------------------------------------------------------
(* Types                                                                   *)

\* A call extends the open transaction and leaves the server alone.
LEMMA CallTypes ==
    ASSUME TypeOK, NEW c \in Accounts, NEW logs \in Seq(Logs), call(c, logs)
    PROVE  /\ open'.from \in Accounts \cup {Nobody}
           /\ open'.logs = open.logs \o logs /\ open'.logs \in Seq(Logs)
           /\ calls' \in 0..MaxCalls
           /\ UNCHANGED <<env, receipts, rows, signed>>
  BY VaultAssumption DEF TypeOK, call

LEMMA LogTypes ==
    ASSUME NEW event \in {"PreoDepositReceived", "PayrollDepositRecorded", "PreoWithdrawalExecuted"},
           NEW c \in Accounts, NEW v \in Vaults, NEW user \in Users \cup Accounts \cup Vaults,
           NEW token \in Tokens, NEW amount \in Amounts, mayMove(v, token, amount)
    PROVE  log(event, c, v, user, token, amount) \in Seq(Logs)
  <1>1. [event |-> event, by |-> c, vault |-> v, user |-> user, token |-> token,
         amount |-> amount] \in Logs
    BY DEF Logs, mayMove
  <1> QED BY <1>1 DEF log

\* A transfer that is covered leaves no balance below zero.
LEMMA MoveTypes ==
    ASSUME balance \in [Tokens -> [Accounts \cup Vaults -> Nat]], NEW token \in Tokens,
           NEW sender \in Accounts \cup Vaults, NEW recipient \in Accounts \cup Vaults,
           NEW amount \in Amounts, move(token, sender, recipient, amount)
    PROVE  balance' \in [Tokens -> [Accounts \cup Vaults -> Nat]]
  <1>1. amount \in Nat
    BY VaultAssumption
  <1>2. balance[token] \in [Accounts \cup Vaults -> Nat]
    OBVIOUS
  <1> DEFINE less == [balance[token] EXCEPT ![sender] = @ - amount]
             after == [less EXCEPT ![recipient] = @ + amount]
  <1>3. less \in [Accounts \cup Vaults -> Nat]
    BY <1>1, <1>2 DEF move
  <1>4. after \in [Accounts \cup Vaults -> Nat]
    BY <1>1, <1>3
  <1>5. balance' = [balance EXCEPT ![token] = after]
    BY DEF move
  <1> HIDE DEF after
  <1> QED BY <1>4, <1>5

-----------------------------------------------------------------------------
(* Calls                                                                   *)

\* A call that appends logs of the owner or of agents, and forgets no agent,
\* leaves the rows as backed as they were.
LEMMA CallInv ==
    ASSUME VaultInv, NEW c \in Accounts, NEW logs \in Seq(Logs), call(c, logs),
           supportedTokens' \in [Vaults -> SUBSET Tokens],
           authorizedAgents' \in [Vaults -> SUBSET Accounts],
           everAgents' \in [Vaults -> SUBSET Accounts],
           paused' \in [Vaults -> BOOLEAN],
           balance' \in [Tokens -> [Accounts \cup Vaults -> Nat]],
           AgentsRemembered', \A v \in Vaults : everAgents[v] \subseteq everAgents'[v],
           \A j \in DOMAIN logs : emittedByAgent(logs[j])
    PROVE  VaultInv'
  <1>1. /\ TypeOK /\ EmittedByAgents /\ RowsOfOneKind /\ RowsUnique /\ RowsBacked
        /\ open'.from \in Accounts \cup {Nobody}
        /\ open'.logs = open.logs \o logs /\ open'.logs \in Seq(Logs)
        /\ calls' \in 0..MaxCalls
        /\ env' = env /\ receipts' = receipts /\ rows' = rows /\ signed' = signed
    BY CallTypes DEF VaultInv
  <1>2. TypeOK'
    BY <1>1 DEF TypeOK
  <1>3. \A entry \in Logs : emittedByAgent(entry) => emittedBy(entry, everAgents')
    BY DEF emittedByAgent, emittedBy, Logs
  <1>4. open.logs \in Seq(Logs) /\ receipts \in Seq(Seq(Logs))
    BY <1>1 DEF TypeOK
  <1>5. ASSUME NEW tx \in DOMAIN receipts, NEW j \in DOMAIN receipts[tx]
        PROVE  receipts[tx][j] \in Logs
    <2>1. receipts[tx] \in Seq(Logs)
      BY <1>4
    <2> QED BY <2>1
  <1>6. EmittedByAgents'
    <2>1. ASSUME NEW j \in DOMAIN open'.logs PROVE emittedBy(open'.logs[j], everAgents')
      <3>1. /\ open'.logs[j] \in Logs
            /\ \/ j \in DOMAIN open.logs /\ open'.logs[j] = open.logs[j]
               \/ j - Len(open.logs) \in DOMAIN logs
                  /\ open'.logs[j] = logs[j - Len(open.logs)]
        BY <1>1, <1>4
      <3>2. emittedByAgent(open'.logs[j])
        BY <1>1, <3>1 DEF EmittedByAgents
      <3> QED BY <1>3, <3>1, <3>2
    <2>2. ASSUME NEW tx \in DOMAIN receipts, NEW j \in DOMAIN receipts[tx]
          PROVE  emittedBy(receipts[tx][j], everAgents')
      BY <1>1, <1>3, <1>5 DEF EmittedByAgents
    <2> QED BY <1>1, <2>1, <2>2 DEF EmittedByAgents, emittedByAgent
  <1>7. RowsOfOneKind' /\ RowsUnique'
    BY <1>1 DEF RowsOfOneKind, RowsUnique
  <1>8. RowsBacked'
    <2> SUFFICES ASSUME NEW r \in rows, ~r.made PROVE backed(r)'
      BY <1>1 DEF RowsBacked
    <2>1. backed(r)
      BY <1>1 DEF RowsBacked
    <2> QED BY <1>1, <1>3, <1>5, <2>1 DEF backed, emittedByAgent
  <1> QED BY <1>2, <1>6, <1>7, <1>8 DEF VaultInv

\* The setters and the plain transfer emit nothing.
LEMMA SettersInv ==
    ASSUME VaultInv, NEW c \in Accounts, NEW v \in Vaults,
           \/ \E t \in Tokens, b \in BOOLEAN : SetSupportedToken(c, v, t, b)
           \/ \E agent \in Accounts, b \in BOOLEAN : SetAuthorizedAgent(c, v, agent, b)
           \/ \E b \in BOOLEAN : SetPaused(c, v, b)
           \/ \E t \in Tokens, a \in Amounts : Transfer(c, v, t, a)
    PROVE  VaultInv'
  <1>1. TypeOK /\ AgentsRemembered /\ <<>> \in Seq(Logs) /\ DOMAIN <<>> = {}
    BY DEF VaultInv
  <1>2. CASE \E t \in Tokens, b \in BOOLEAN : SetSupportedToken(c, v, t, b)
    <2>1. PICK t \in Tokens, b \in BOOLEAN : SetSupportedToken(c, v, t, b)
      BY <1>2
    <2>2. supportedTokens' \in [Vaults -> SUBSET Tokens]
      BY <1>1, <2>1 DEF SetSupportedToken, TypeOK
    <2>3. /\ authorizedAgents' = authorizedAgents /\ everAgents' = everAgents
          /\ paused' = paused /\ balance' = balance /\ call(c, <<>>)
      BY <2>1 DEF SetSupportedToken
    <2>4. AgentsRemembered'
      BY <1>1, <2>3 DEF AgentsRemembered
    <2> QED BY <1>1, <2>2, <2>3, <2>4, CallInv DEF TypeOK
  <1>3. CASE \E agent \in Accounts, b \in BOOLEAN : SetAuthorizedAgent(c, v, agent, b)
    <2>1. PICK agent \in Accounts, b \in BOOLEAN : SetAuthorizedAgent(c, v, agent, b)
      BY <1>3
    <2> DEFINE agents == IF b THEN authorizedAgents[v] \cup {agent}
                              ELSE authorizedAgents[v] \ {agent}
    <2>2. /\ agents \in SUBSET Accounts
          /\ authorizedAgents' = [authorizedAgents EXCEPT ![v] = agents]
          /\ everAgents' = [everAgents EXCEPT ![v] = @ \cup authorizedAgents'[v]]
      BY <1>1, <2>1 DEF SetAuthorizedAgent, TypeOK
    <2> HIDE DEF agents
    <2>3. /\ authorizedAgents' \in [Vaults -> SUBSET Accounts]
          /\ everAgents' \in [Vaults -> SUBSET Accounts]
          /\ \A w \in Vaults : everAgents[w] \subseteq everAgents'[w]
          /\ \A w \in Vaults : authorizedAgents'[w] \subseteq everAgents'[w]
      BY <1>1, <2>2 DEF TypeOK, AgentsRemembered
    <2>4. /\ supportedTokens' = supportedTokens /\ paused' = paused /\ balance' = balance
          /\ call(c, <<>>)
      BY <2>1 DEF SetAuthorizedAgent
    <2>5. AgentsRemembered'
      BY <2>3 DEF AgentsRemembered
    <2> QED BY <1>1, <2>3, <2>4, <2>5, CallInv DEF TypeOK
  <1>4. CASE \E b \in BOOLEAN : SetPaused(c, v, b)
    <2>1. PICK b \in BOOLEAN : SetPaused(c, v, b)
      BY <1>4
    <2>2. paused' \in [Vaults -> BOOLEAN]
      BY <1>1, <2>1 DEF SetPaused, TypeOK
    <2>3. /\ authorizedAgents' = authorizedAgents /\ everAgents' = everAgents
          /\ supportedTokens' = supportedTokens /\ balance' = balance /\ call(c, <<>>)
      BY <2>1 DEF SetPaused
    <2>4. AgentsRemembered'
      BY <1>1, <2>3 DEF AgentsRemembered
    <2> QED BY <1>1, <2>2, <2>3, <2>4, CallInv DEF TypeOK
  <1>5. CASE \E t \in Tokens, a \in Amounts : Transfer(c, v, t, a)
    <2>1. PICK t \in Tokens, a \in Amounts : Transfer(c, v, t, a)
      BY <1>5
    <2>2. /\ supportedTokens' = supportedTokens /\ authorizedAgents' = authorizedAgents
          /\ everAgents' = everAgents /\ paused' = paused
          /\ call(c, <<>>) /\ move(t, c, v, a)
      BY <2>1 DEF Transfer
    <2>3. balance' \in [Tokens -> [Accounts \cup Vaults -> Nat]]
      BY <1>1, <2>2, MoveTypes DEF TypeOK
    <2>4. AgentsRemembered'
      BY <1>1, <2>2 DEF AgentsRemembered
    <2> QED BY <1>1, <2>2, <2>3, <2>4, CallInv DEF TypeOK
  <1> QED BY <1>2, <1>3, <1>4, <1>5

\* Whoever records payroll is the owner or an agent at that moment.
LEMMA MovementsInv ==
    ASSUME VaultInv, NEW c \in Accounts, NEW v \in Vaults, NEW t \in Tokens, NEW a \in Amounts,
           \/ \E u \in Users : DepositFor(c, v, u, t, a)
           \/ \E u \in Users : RecordPayrollDeposit(c, v, u, t, a)
           \/ \E h \in Accounts \cup Vaults : WithdrawTo(c, v, h, t, a)
    PROVE  VaultInv'
  <1>1. TypeOK /\ AgentsRemembered
    BY DEF VaultInv
  <1>2. CASE \E u \in Users : DepositFor(c, v, u, t, a)
    <2>1. PICK u \in Users : DepositFor(c, v, u, t, a)
      BY <1>2
    <2> DEFINE logs == log("PreoDepositReceived", c, v, u, t, a)
    <2>2. /\ mayMove(v, t, a) /\ call(c, logs) /\ move(t, c, v, a)
          /\ supportedTokens' = supportedTokens /\ authorizedAgents' = authorizedAgents
          /\ everAgents' = everAgents /\ paused' = paused
      BY <2>1 DEF DepositFor
    <2>3. logs \in Seq(Logs)
      BY <2>2, LogTypes
    <2>4. \A j \in DOMAIN logs : emittedByAgent(logs[j])
      BY DEF log, emittedByAgent, emittedBy
    <2>5. balance' \in [Tokens -> [Accounts \cup Vaults -> Nat]]
      BY <1>1, <2>2, MoveTypes DEF TypeOK
    <2>6. AgentsRemembered'
      BY <1>1, <2>2 DEF AgentsRemembered
    <2> HIDE DEF logs
    <2> QED BY <1>1, <2>2, <2>3, <2>4, <2>5, <2>6, CallInv DEF TypeOK
  <1>3. CASE \E u \in Users : RecordPayrollDeposit(c, v, u, t, a)
    <2>1. PICK u \in Users : RecordPayrollDeposit(c, v, u, t, a)
      BY <1>3
    <2> DEFINE logs == log("PayrollDepositRecorded", c, v, u, t, a)
    <2>2. /\ mayMove(v, t, a) /\ onlyAuthorizedAgent(c, v) /\ call(c, logs)
          /\ supportedTokens' = supportedTokens /\ authorizedAgents' = authorizedAgents
          /\ everAgents' = everAgents /\ paused' = paused /\ balance' = balance
      BY <2>1 DEF RecordPayrollDeposit, vault
    <2>3. logs \in Seq(Logs)
      BY <2>2, LogTypes
    <2>4. c \in everAgents[v] \cup {Owner}
      BY <1>1, <2>2 DEF onlyAuthorizedAgent, AgentsRemembered
    <2>5. \A j \in DOMAIN logs : emittedByAgent(logs[j])
      BY <2>4 DEF log, emittedByAgent, emittedBy
    <2>6. AgentsRemembered'
      BY <1>1, <2>2 DEF AgentsRemembered
    <2> HIDE DEF logs
    <2> QED BY <1>1, <2>2, <2>3, <2>5, <2>6, CallInv DEF TypeOK
  <1>4. CASE \E h \in Accounts \cup Vaults : WithdrawTo(c, v, h, t, a)
    <2>1. PICK h \in Accounts \cup Vaults : WithdrawTo(c, v, h, t, a)
      BY <1>4
    <2> DEFINE logs == log("PreoWithdrawalExecuted", c, v, h, t, a)
    <2>2. /\ mayMove(v, t, a) /\ call(c, logs) /\ move(t, v, h, a)
          /\ supportedTokens' = supportedTokens /\ authorizedAgents' = authorizedAgents
          /\ everAgents' = everAgents /\ paused' = paused
      BY <2>1 DEF WithdrawTo
    <2>3. logs \in Seq(Logs)
      BY <2>2, LogTypes
    <2>4. \A j \in DOMAIN logs : emittedByAgent(logs[j])
      BY DEF log, emittedByAgent, emittedBy
    <2>5. balance' \in [Tokens -> [Accounts \cup Vaults -> Nat]]
      BY <1>1, <2>2, MoveTypes DEF TypeOK
    <2>6. AgentsRemembered'
      BY <1>1, <2>2 DEF AgentsRemembered
    <2> HIDE DEF logs
    <2> QED BY <1>1, <2>2, <2>3, <2>4, <2>5, <2>6, CallInv DEF TypeOK
  <1> QED BY <1>2, <1>3, <1>4

\* A mined transaction joins the others under a number of its own.
LEMMA MineInv == VaultInv /\ Mine => VaultInv'
  <1> SUFFICES ASSUME VaultInv, Mine PROVE VaultInv'
    OBVIOUS
  <1>1. /\ TypeOK /\ EmittedByAgents /\ AgentsRemembered /\ RowsOfOneKind /\ RowsUnique
        /\ RowsBacked
        /\ receipts' = IF open.logs = <<>> THEN receipts ELSE Append(receipts, open.logs)
        /\ open'.from = Nobody /\ open'.logs = <<>>
        /\ env' = env /\ rows' = rows /\ signed' = signed /\ calls' = calls
        /\ supportedTokens' = supportedTokens /\ authorizedAgents' = authorizedAgents
        /\ paused' = paused /\ balance' = balance /\ everAgents' = everAgents
    BY DEF VaultInv, Mine, vault
  <1>2. open.logs \in Seq(Logs) /\ receipts \in Seq(Seq(Logs))
    BY <1>1 DEF TypeOK
  <1>3. receipts' \in Seq(Seq(Logs)) /\ open'.logs \in Seq(Logs)
    BY <1>1, <1>2
  <1>4. TypeOK'
    BY <1>1, <1>3 DEF TypeOK
  <1>5. /\ \A tx \in DOMAIN receipts : tx \in DOMAIN receipts' /\ receipts'[tx] = receipts[tx]
        /\ \A tx \in DOMAIN receipts' : \/ tx \in DOMAIN receipts /\ receipts'[tx] = receipts[tx]
                                       \/ receipts'[tx] = open.logs
    BY <1>1, <1>2
  <1>6. EmittedByAgents'
    BY <1>1, <1>5 DEF EmittedByAgents, emittedByAgent
  <1>7. AgentsRemembered' /\ RowsOfOneKind' /\ RowsUnique'
    BY <1>1 DEF AgentsRemembered, RowsOfOneKind, RowsUnique
  <1>8. RowsBacked'
    <2> SUFFICES ASSUME NEW r \in rows, ~r.made PROVE backed(r)'
      BY <1>1 DEF RowsBacked
    <2>1. backed(r)
      BY <1>1 DEF RowsBacked
    <2> QED BY <1>1, <1>5, <2>1 DEF backed, emittedByAgent
  <1> QED BY <1>4, <1>6, <1>7, <1>8 DEF VaultInv

-----------------------------------------------------------------------------
(* The server                                                              *)

\* A deposit that is found becomes a backed row.
LEMMA FoundIsBacked ==
    ASSUME VaultInv, NEW user \in Users, NEW tx, NEW i,
           getSettlementConfig(env) # Refused,
           getReceiptDeposit(tx, getSettlementConfig(env), user, i) # NoDeposit
    PROVE  LET d == getReceiptDeposit(tx, getSettlementConfig(env), user, i)
           IN  /\ d \in Rows /\ ~d.made /\ d.user = user /\ backed(d)
               /\ receipts[d.tx][d.index].user = user
  <1> DEFINE config == getSettlementConfig(env)
             d == getReceiptDeposit(tx, config, user, i)
  <1>1. TypeOK /\ EmittedByAgents
    BY DEF VaultInv
  <1>2. PICK index \in DOMAIN receipts[tx] :
            /\ tx \in DOMAIN receipts
            /\ d = [tx |-> tx, index |-> index, user |-> user,
                    event |-> receipts[tx][index].event,
                    amount |-> receipts[tx][index].amount, made |-> FALSE]
            /\ decodeVaultFundingLog(receipts[tx][index], config)
            /\ receipts[tx][index].user = user
    BY <1>1, ReceiptDeposit
  <1> HIDE DEF d
  <1> DEFINE entry == receipts[tx][index]
  <1>3. receipts \in Seq(Seq(Logs)) /\ receipts[tx] \in Seq(Logs)
    BY <1>1, <1>2 DEF TypeOK
  <1>4. tx \in Nat \ {0} /\ index \in Nat \ {0} /\ entry \in Logs
    BY <1>2, <1>3
  <1>5. /\ d.tx = tx /\ d.index = index /\ d.user = user /\ d.event = entry.event
        /\ d.amount = entry.amount /\ d.made = FALSE
    BY <1>2
  <1>6. /\ entry.vault \in Vaults /\ entry.token \in Tokens /\ entry.amount \in Amounts
        /\ entry.event \in {"PreoDepositReceived", "PayrollDepositRecorded"}
        /\ entry.vault = config.vault /\ entry.token = config.token
    BY <1>2, <1>4 DEF Logs, decodeVaultFundingLog
  <1>7. d \in Rows
    <2> HIDE DEF entry
    <2>1. d = [tx |-> tx, index |-> index, user |-> user, event |-> entry.event,
               amount |-> entry.amount, made |-> FALSE]
      BY <1>2 DEF entry
    <2> QED BY <1>4, <1>6, <2>1 DEF Rows
  <1>8. /\ entry.vault = env.PREO_FUNDING_VAULT_ADDRESS
        /\ entry.token = env.TESTNET_USDC_ADDRESS
    BY <1>6, TrustedContracts
  <1>9. emittedByAgent(entry)
    BY <1>1, <1>2 DEF EmittedByAgents
  <1>10. backed(d)
    BY <1>2, <1>5, <1>8, <1>9 DEF backed
  <1> QED BY <1>2, <1>5, <1>7, <1>10 DEF d

\* A log is stored once, and its row taken over only by the user it names.
LEMMA VerifyDepositInv ==
    ASSUME VaultInv, NEW user \in Users, NEW n \in ChainIds \cup {Unset}, NEW tx \in indexes,
           NEW i \in {None} \cup indexes, NEW a \in Amounts, VerifyDeposit(user, n, tx, i, a)
    PROVE  VaultInv'
  <1> DEFINE config == getSettlementConfig(env)
             deposit == IF makesUp(config)
                        THEN makeDemoVerifiedVaultDeposit(tx, user, a, i)
                        ELSE getReceiptDeposit(tx, config, user, i)
             existing == {r \in rows : r.tx = deposit.tx /\ r.index = deposit.index}
             takenOver(r) == [r EXCEPT !.user = user]
  <1>1. /\ TypeOK /\ EmittedByAgents /\ AgentsRemembered /\ RowsOfOneKind /\ RowsUnique
        /\ RowsBacked
    BY DEF VaultInv
  <1>2. /\ config # Refused /\ deposit # NoDeposit
        /\ \/ existing = {} /\ rows' = rows \cup {deposit}
           \/ rows' = rows
           \/ rows' = (rows \ existing) \cup {takenOver(r) : r \in existing}
        /\ env' = env /\ open' = open /\ receipts' = receipts /\ signed' = signed
        /\ calls' = calls /\ supportedTokens' = supportedTokens /\ paused' = paused
        /\ authorizedAgents' = authorizedAgents /\ balance' = balance
        /\ everAgents' = everAgents
    BY DEF VerifyDeposit, chain, vault
  <1>3. /\ deposit \in Rows /\ deposit.user = user
        /\ deposit.made <=> makesUp(config)
        /\ ~deposit.made => backed(deposit) /\ receipts[deposit.tx][deposit.index].user = user
    <2>1. CASE makesUp(config)
      <3>1. deposit = makeDemoVerifiedVaultDeposit(tx, user, a, i)
        BY <2>1
      <3>2. tx \in Nat \ {0} /\ (IF i = None THEN 1 ELSE i) \in Nat \ {0}
        BY VaultAssumption DEF indexes, None
      <3> QED BY <2>1, <3>1, <3>2 DEF makeDemoVerifiedVaultDeposit, Rows
    <2>2. CASE ~makesUp(config)
      <3>1. deposit = getReceiptDeposit(tx, config, user, i)
        BY <2>2
      <3> HIDE DEF deposit, config
      <3>2. config = getSettlementConfig(env)
        BY DEF config
      <3> QED BY <1>2, <2>2, <3>1, <3>2, FoundIsBacked
    <2> QED BY <2>1, <2>2
  <1> HIDE DEF deposit, config, takenOver
  <1>4. rows \subseteq Rows /\ \A r \in existing : r \in rows
    BY <1>1 DEF TypeOK
  <1>5. ASSUME NEW r \in existing
        PROVE  LET s == takenOver(r)
               IN  /\ s \in Rows /\ s.tx = r.tx /\ s.index = r.index /\ s.made = r.made
                   /\ ~r.made => s = r
    <2>1. r \in Rows /\ r \in rows /\ r.tx = deposit.tx /\ r.index = deposit.index
      BY <1>4
    <2>2. ~r.made => r.user = user
      <3>1. ASSUME ~r.made PROVE r.user = user
        <4>1. ~deposit.made
          BY <1>1, <1>3, <2>1, <3>1 DEF RowsOfOneKind, config
        <4>2. backed(r)
          BY <1>1, <2>1, <3>1 DEF RowsBacked
        <4>3. receipts[r.tx][r.index].user = r.user
          BY <4>2 DEF backed
        <4> QED BY <1>3, <2>1, <4>1, <4>3
      <3> QED BY <3>1
    <2> QED BY <2>1, <2>2 DEF Rows, takenOver
  <1>6. CASE rows' = rows
    BY <1>1, <1>2, <1>6
       DEF VaultInv, TypeOK, EmittedByAgents, AgentsRemembered, RowsOfOneKind, RowsUnique,
           RowsBacked, backed, emittedByAgent
  <1>7. CASE existing = {} /\ rows' = rows \cup {deposit}
    <2>1. rows' \subseteq Rows
      BY <1>3, <1>4, <1>7
    <2>2. RowsOfOneKind'
      BY <1>1, <1>2, <1>3, <1>7 DEF RowsOfOneKind, config
    <2>3. RowsUnique'
      BY <1>1, <1>7 DEF RowsUnique
    <2>4. \A r \in rows' : ~r.made => backed(r)
      BY <1>1, <1>3, <1>7 DEF RowsBacked
    <2> QED BY <1>1, <1>2, <2>1, <2>2, <2>3, <2>4
            DEF VaultInv, TypeOK, EmittedByAgents, AgentsRemembered, RowsBacked, backed,
                emittedByAgent
  <1>8. CASE rows' = (rows \ existing) \cup {takenOver(r) : r \in existing}
    <2>1. ASSUME NEW s \in rows'
          PROVE  \E r \in rows : /\ s \in Rows /\ s.tx = r.tx /\ s.index = r.index
                                 /\ s.made = r.made /\ (~r.made => s = r)
                                 /\ r \notin existing => s = r
                                 /\ r \in existing => s = takenOver(r)
      <3>1. CASE s \in rows \ existing
        BY <1>4, <3>1
      <3>2. CASE \E r \in existing : s = takenOver(r)
        <4>1. PICK r \in existing : s = takenOver(r)
          BY <3>2
        <4> HIDE DEF existing
        <4>2. /\ s \in Rows /\ s.tx = r.tx /\ s.index = r.index
              /\ s.made = r.made /\ (~r.made => s = r)
          BY <1>5, <4>1
        <4> QED BY <1>4, <4>1, <4>2
      <3> QED BY <1>8, <3>1, <3>2
    <2> HIDE DEF existing
    <2>2. rows' \subseteq Rows
      BY <2>1
    <2>3. RowsOfOneKind'
      <3> SUFFICES ASSUME NEW s \in rows'
                   PROVE  config # Refused /\ (s.made <=> makesUp(config))
        BY <1>2 DEF RowsOfOneKind, config
      <3>1. PICK r \in rows : s.made = r.made
        BY <2>1
      <3> QED BY <1>1, <1>2, <3>1 DEF RowsOfOneKind, config
    <2>4. RowsUnique'
      <3> SUFFICES ASSUME NEW s \in rows', NEW t \in rows', s.tx = t.tx, s.index = t.index
                   PROVE  s = t
        BY DEF RowsUnique
      <3>1. PICK r \in rows : /\ s.tx = r.tx /\ s.index = r.index
                              /\ r \notin existing => s = r
                              /\ r \in existing => s = takenOver(r)
        BY <2>1
      <3>2. PICK q \in rows : /\ t.tx = q.tx /\ t.index = q.index
                              /\ q \notin existing => t = q
                              /\ q \in existing => t = takenOver(q)
        BY <2>1
      <3>3. r = q
        BY <1>1, <3>1, <3>2 DEF RowsUnique
      <3> QED BY <3>1, <3>2, <3>3
    <2>5. \A s \in rows' : ~s.made => backed(s)
      <3> SUFFICES ASSUME NEW s \in rows', ~s.made PROVE backed(s)
        OBVIOUS
      <3>1. s \in rows
        BY <2>1
      <3> QED BY <1>1, <3>1 DEF RowsBacked
    <2> QED BY <1>1, <1>2, <2>2, <2>3, <2>4, <2>5
            DEF VaultInv, TypeOK, EmittedByAgents, AgentsRemembered, RowsBacked, backed,
                emittedByAgent
  <1> QED BY <1>2, <1>6, <1>7, <1>8

LEMMA SignPaymentInv ==
    ASSUME VaultInv, NEW n \in ChainIds, NEW t \in Tokens \cup {DemoToken},
           NEW v \in Vaults \cup {DemoVault}, SignPayment(n, t, v)
    PROVE  VaultInv'
  <1>1. /\ signed' \subseteq [chainId : ChainIds, token : Tokens \cup {DemoToken},
                          vault : Vaults \cup {DemoVault}]
        /\ UNCHANGED <<env, chain, rows>>
    BY DEF SignPayment, VaultInv, TypeOK
  <1> QED BY <1>1 DEF VaultInv, TypeOK, EmittedByAgents, AgentsRemembered, RowsOfOneKind,
                      RowsUnique, RowsBacked, backed, emittedByAgent, chain, vault

-----------------------------------------------------------------------------
(* The theorems                                                            *)

\* A chain without transactions and a server without rows.
LEMMA InitInv == Init => VaultInv
  <1> SUFFICES ASSUME Init PROVE VaultInv
    OBVIOUS
  <1>1. /\ Vaults \cap Accounts = {} /\ Wealth \in Nat /\ MaxCalls \in Nat /\ Usdc \in Tokens
    BY VaultAssumption
  <1>2. /\ rows = {} /\ signed = {} /\ calls = 0 /\ receipts = <<>>
        /\ open.from = Nobody /\ open.logs = <<>>
    BY DEF Init
  <1>3. /\ supportedTokens \in [Vaults -> SUBSET Tokens]
        /\ authorizedAgents \in [Vaults -> SUBSET Accounts]
        /\ everAgents = authorizedAgents /\ paused \in [Vaults -> BOOLEAN]
    BY <1>1 DEF Init
  <1>4. balance \in [Tokens -> [Accounts \cup Vaults -> Nat]]
    BY <1>1 DEF Init
  <1>5. TypeOK
    <2>1. open.logs \in Seq(Logs) /\ receipts \in Seq(Seq(Logs)) /\ calls \in 0..MaxCalls
      BY <1>1, <1>2
    <2>2. open.from \in Accounts \cup {Nobody}
      BY <1>2
    <2>3. rows \subseteq Rows
          /\ signed \subseteq [chainId : ChainIds, token : Tokens \cup {DemoToken},
                               vault : Vaults \cup {DemoVault}]
      BY <1>2
    <2> QED BY <1>3, <1>4, <2>1, <2>2, <2>3 DEF TypeOK
  <1>6. EmittedByAgents /\ AgentsRemembered
    BY <1>2, <1>3 DEF EmittedByAgents, AgentsRemembered
  <1>7. RowsOfOneKind /\ RowsUnique /\ RowsBacked
    BY <1>2 DEF RowsOfOneKind, RowsUnique, RowsBacked
  <1> QED BY <1>5, <1>6, <1>7 DEF VaultInv

\* Every step of the chain or of the server keeps the invariant.
LEMMA NextInv == VaultInv /\ [Next]_vars => VaultInv'
  <1> SUFFICES ASSUME VaultInv, [Next]_vars PROVE VaultInv'
    OBVIOUS
  <1>1. ASSUME NEW c \in Accounts, NEW v \in Vaults, VaultCall(c, v)
        PROVE  VaultInv'
    <2> SUFFICES ASSUME NEW t \in Tokens, NEW a \in Amounts,
                        \/ \E b \in BOOLEAN : SetSupportedToken(c, v, t, b)
                        \/ \E agent \in Accounts \ {Owner}, b \in BOOLEAN :
                               SetAuthorizedAgent(c, v, agent, b)
                        \/ \E b \in BOOLEAN : SetPaused(c, v, b)
                        \/ \E u \in Users : \/ DepositFor(c, v, u, t, a)
                                             \/ RecordPayrollDeposit(c, v, u, t, a)
                        \/ \E h \in Accounts \cup Vaults : WithdrawTo(c, v, h, t, a)
                        \/ Transfer(c, v, t, a)
                 PROVE  VaultInv'
      BY <1>1 DEF VaultCall
    <2>1. CASE \/ \E b \in BOOLEAN : SetSupportedToken(c, v, t, b)
               \/ \E agent \in Accounts \ {Owner}, b \in BOOLEAN :
                      SetAuthorizedAgent(c, v, agent, b)
               \/ \E b \in BOOLEAN : SetPaused(c, v, b)
               \/ Transfer(c, v, t, a)
      BY <2>1, SettersInv
    <2>2. CASE \/ \E u \in Users : \/ DepositFor(c, v, u, t, a)
                                    \/ RecordPayrollDeposit(c, v, u, t, a)
               \/ \E h \in Accounts \cup Vaults : WithdrawTo(c, v, h, t, a)
      BY <2>2, MovementsInv
    <2> QED BY <2>1, <2>2
  <1>2. CASE Mine
    BY <1>2, MineInv
  <1>3. ASSUME NEW u \in Users, NEW n \in ChainIds \cup {Unset}, NEW tx \in indexes,
               NEW i \in {None} \cup indexes, NEW a \in Amounts,
               VerifyDeposit(u, n, tx, i, a)
        PROVE  VaultInv'
    BY <1>3, VerifyDepositInv
  <1>4. ASSUME NEW n \in ChainIds, NEW t \in Tokens \cup {DemoToken},
               NEW v \in Vaults \cup {DemoVault}, SignPayment(n, t, v)
        PROVE  VaultInv'
    BY <1>4, SignPaymentInv
  <1>5. CASE UNCHANGED vars
    BY <1>5 DEF VaultInv, TypeOK, EmittedByAgents, AgentsRemembered, RowsOfOneKind, RowsUnique,
                RowsBacked, backed, emittedByAgent, vars, chain, vault
  <1> QED BY <1>1, <1>2, <1>3, <1>4, <1>5 DEF Next

LEMMA InvHolds == Spec => []VaultInv
  BY InitInv, NextInv, PTL DEF Spec

\* The variables keep their types however long the history: in particular no
\* balance of a vault or an account goes below zero.
THEOREM TypeCorrect == Spec => []TypeOK
  <1>1. VaultInv => TypeOK
    BY DEF VaultInv
  <1> QED BY <1>1, InvHolds, PTL

\* Whatever calls a transaction makes, in whatever order, and whoever verifies a
\* deposit again: a row stored from the chain stands for a log of the configured
\* vault and token about its user and amount, of which it is the only row, and
\* for recorded payroll the owner or an agent of that vault answered.
THEOREM VerifiedIsBackedHolds == Spec => []VerifiedIsBacked
  <1>1. VaultInv => VerifiedIsBacked
    <2> SUFFICES ASSUME VaultInv, NEW r \in rows, ~r.made
                 PROVE  LET entry == receipts[r.tx][r.index]
                        IN  /\ r.tx \in DOMAIN receipts /\ r.index \in DOMAIN receipts[r.tx]
                            /\ entry.vault = env.PREO_FUNDING_VAULT_ADDRESS
                            /\ entry.token = env.TESTNET_USDC_ADDRESS
                            /\ <<entry.user, entry.amount, entry.event>>
                                   = <<r.user, r.amount, r.event>>
                            /\ \A s \in rows \ {r} : <<s.tx, s.index>> # <<r.tx, r.index>>
                            /\ r.event = "PayrollDepositRecorded" =>
                                   entry.by \in everAgents[entry.vault] \cup {Owner}
      BY DEF VerifiedIsBacked
    <2>1. backed(r)
      BY DEF VaultInv, RowsBacked
    <2>2. \A s \in rows \ {r} : <<s.tx, s.index>> # <<r.tx, r.index>>
      BY DEF VaultInv, RowsUnique
    <2> QED BY <2>1, <2>2 DEF backed, emittedByAgent, emittedBy
  <1> QED BY <1>1, InvHolds, PTL

-----------------------------------------------------------------------------
(* Deposits and withdrawals                                                *)

\* The sequences the sums run over.
saidEach(logs, event, v, t) == [i \in 1..Len(logs) |-> said(logs[i], event, v, t)]

loggedEach(txs, event, v, t) == [tx \in 1..Len(txs) |-> logged(txs[tx], event, v, t)]

\* What one log says is a number; what it says of another vault or token is
\* nothing.
LEMMA SaidTypes ==
    ASSUME NEW entry \in Logs, NEW event, NEW v, NEW t
    PROVE  said(entry, event, v, t) \in Nat
  BY VaultAssumption DEF said, Logs

LEMMA SaidEachTypes ==
    ASSUME NEW logs \in Seq(Logs), NEW event, NEW v, NEW t
    PROVE  saidEach(logs, event, v, t) \in Seq(Int) /\ logged(logs, event, v, t) \in Int
  <1>1. \A i \in 1..Len(logs) : said(logs[i], event, v, t) \in Int
    BY SaidTypes
  <1>2. Len(logs) \in Nat
    OBVIOUS
  <1>3. saidEach(logs, event, v, t) \in Seq(Int)
    BY <1>1, <1>2 DEF saidEach
  <1>4. logged(logs, event, v, t) = SumOver(saidEach(logs, event, v, t))
    BY DEF logged, saidEach
  <1> QED BY <1>3, <1>4, SumInt

\* No logs say nothing.
LEMMA LoggedNone == ASSUME NEW event, NEW v, NEW t PROVE logged(<<>>, event, v, t) = 0
  <1>1. logged(<<>>, event, v, t) = SumOver(saidEach(<<>>, event, v, t))
    BY DEF logged, saidEach
  <1>2. Len(saidEach(<<>>, event, v, t)) = 0
    BY DEF saidEach
  <1> QED BY <1>1, <1>2, SumEmpty

\* A log more says what it says.
LEMMA LoggedAppend ==
    ASSUME NEW logs \in Seq(Logs), NEW entry \in Logs, NEW event, NEW v, NEW t
    PROVE  logged(logs \o <<entry>>, event, v, t)
               = logged(logs, event, v, t) + said(entry, event, v, t)
  <1> DEFINE more == logs \o <<entry>>
             f == saidEach(logs, event, v, t)
             g == saidEach(more, event, v, t)
             x == said(entry, event, v, t)
  <1>1. /\ Len(more) = Len(logs) + 1 /\ Len(logs) \in Nat /\ more[Len(logs) + 1] = entry
        /\ \A i \in 1..Len(logs) : more[i] = logs[i]
    OBVIOUS
  <1>2. f \in Seq(Int) /\ x \in Int
    BY SaidEachTypes, SaidTypes
  <1> HIDE DEF more
  <1>3. /\ Len(f) = Len(logs) /\ Len(g) = Len(f) + 1 /\ g[Len(f) + 1] = x
        /\ \A i \in 1..Len(f) : g[i] = f[i]
    BY <1>1 DEF saidEach
  <1>4. /\ logged(more, event, v, t) = SumOver(g)
        /\ logged(logs, event, v, t) = SumOver(f)
    BY DEF logged, saidEach
  <1> HIDE DEF f, g, x
  <1>5. SumOver(g) = SumOver(f) + x
    BY <1>2, <1>3, SumLonger
  <1> QED BY <1>4, <1>5 DEF more, x

LEMMA LoggedEachTypes ==
    ASSUME NEW txs \in Seq(Seq(Logs)), NEW event, NEW v, NEW t
    PROVE  loggedEach(txs, event, v, t) \in Seq(Int)
  <1>1. \A tx \in 1..Len(txs) : logged(txs[tx], event, v, t) \in Int
    <2> TAKE tx \in 1..Len(txs)
    <2>1. txs[tx] \in Seq(Logs)
      OBVIOUS
    <2> QED BY <2>1, SaidEachTypes
  <1>2. Len(txs) \in Nat
    OBVIOUS
  <1> QED BY <1>1, <1>2 DEF loggedEach

\* A transaction more says what its logs say.
LEMMA MinedAppend ==
    ASSUME NEW txs \in Seq(Seq(Logs)), NEW logs \in Seq(Logs), NEW event, NEW v, NEW t
    PROVE  SumOver(loggedEach(Append(txs, logs), event, v, t))
               = SumOver(loggedEach(txs, event, v, t)) + logged(logs, event, v, t)
  <1> DEFINE more == Append(txs, logs)
             f == loggedEach(txs, event, v, t)
             g == loggedEach(more, event, v, t)
             x == logged(logs, event, v, t)
  <1>1. /\ Len(more) = Len(txs) + 1 /\ Len(txs) \in Nat /\ more[Len(txs) + 1] = logs
        /\ \A i \in 1..Len(txs) : more[i] = txs[i]
    OBVIOUS
  <1>2. f \in Seq(Int) /\ x \in Int
    BY LoggedEachTypes, SaidEachTypes
  <1> HIDE DEF more
  <1>3. /\ Len(f) = Len(txs) /\ Len(g) = Len(f) + 1 /\ g[Len(f) + 1] = x
        /\ \A i \in 1..Len(f) : g[i] = f[i]
    BY <1>1 DEF loggedEach
  <1> HIDE DEF f, g, x
  <1>4. SumOver(g) = SumOver(f) + x
    BY <1>2, <1>3, SumLonger
  <1> QED BY <1>4 DEF more, f, g, x

\* All that was logged is a number, added up by transactions and the open one.
LEMMA LoggedEverTypes ==
    ASSUME TypeOK, NEW event, NEW v, NEW t
    PROVE  /\ mined(event, v, t) = SumOver(loggedEach(receipts, event, v, t))
           /\ mined(event, v, t) \in Int /\ logged(open.logs, event, v, t) \in Int
           /\ loggedEver(event, v, t) = mined(event, v, t) + logged(open.logs, event, v, t)
  <1>1. receipts \in Seq(Seq(Logs)) /\ open.logs \in Seq(Logs)
    BY DEF TypeOK
  <1>2. mined(event, v, t) = SumOver(loggedEach(receipts, event, v, t))
    BY DEF mined, loggedEach
  <1>3. mined(event, v, t) \in Int
    BY <1>1, <1>2, LoggedEachTypes, SumInt
  <1>4. logged(open.logs, event, v, t) \in Int
    BY <1>1, SaidEachTypes
  <1> QED BY <1>2, <1>3, <1>4 DEF loggedEver

\* A transfer takes from one what it gives to another.
LEMMA MoveBalances ==
    ASSUME TypeOK, NEW token \in Tokens, NEW sender \in Accounts \cup Vaults,
           NEW recipient \in Accounts \cup Vaults,
           NEW amount \in Amounts, move(token, sender, recipient, amount)
    PROVE  \A t \in Tokens, h \in Accounts \cup Vaults :
               balance'[t][h] = balance[t][h]
                                + (IF t = token /\ h = recipient THEN amount ELSE 0)
                                - (IF t = token /\ h = sender THEN amount ELSE 0)
  <1>1. amount \in Nat /\ balance \in [Tokens -> [Accounts \cup Vaults -> Nat]]
    BY VaultAssumption DEF TypeOK
  <1> DEFINE less == [balance[token] EXCEPT ![sender] = @ - amount]
             after == [less EXCEPT ![recipient] = @ + amount]
  <1>2. balance' = [balance EXCEPT ![token] = after]
    BY DEF move
  <1>3. balance[token] \in [Accounts \cup Vaults -> Nat]
    BY <1>1
  <1>4. \A h \in Accounts \cup Vaults :
            after[h] = balance[token][h] + (IF h = recipient THEN amount ELSE 0)
                                         - (IF h = sender THEN amount ELSE 0)
    BY <1>1, <1>3
  <1> HIDE DEF after
  <1> QED BY <1>1, <1>2, <1>4

\* A call that emits nothing, and takes nothing from a vault, leaves what its
\* deposits say held.
LEMMA QuietHeld ==
    ASSUME TypeOK, DepositsAreHeld, receipts' = receipts, open'.logs = open.logs,
           balance' \in [Tokens -> [Accounts \cup Vaults -> Nat]],
           \A v \in Vaults, t \in Tokens : balance'[t][v] >= balance[t][v]
    PROVE  DepositsAreHeld'
  <1> SUFFICES ASSUME NEW v \in Vaults, NEW t \in Tokens
               PROVE  balance'[t][v] >= loggedEver("PreoDepositReceived", v, t)'
                                        - loggedEver("PreoWithdrawalExecuted", v, t)'
    BY DEF DepositsAreHeld
  <1>1. \A event : loggedEver(event, v, t)' = loggedEver(event, v, t)
    BY DEF loggedEver, mined
  <1>2. \A event : loggedEver(event, v, t) \in Int
    <2> TAKE event
    <2> QED BY LoggedEverTypes
  <1>3. balance[t][v] \in Nat /\ balance'[t][v] \in Nat
    BY DEF TypeOK
  <1>4. balance[t][v] >= loggedEver("PreoDepositReceived", v, t)
                         - loggedEver("PreoWithdrawalExecuted", v, t)
    BY DEF DepositsAreHeld
  <1> QED BY <1>1, <1>2, <1>3, <1>4

\* A call that emits one log changes what vaults hold by no less than it says.
LEMMA LoudHeld ==
    ASSUME TypeOK, DepositsAreHeld, receipts' = receipts, NEW entry \in Logs,
           open'.logs = open.logs \o <<entry>>,
           balance' \in [Tokens -> [Accounts \cup Vaults -> Nat]],
           \A v \in Vaults, t \in Tokens :
               balance'[t][v] >= balance[t][v] + said(entry, "PreoDepositReceived", v, t)
                                 - said(entry, "PreoWithdrawalExecuted", v, t)
    PROVE  DepositsAreHeld'
  <1> SUFFICES ASSUME NEW v \in Vaults, NEW t \in Tokens
               PROVE  balance'[t][v] >= loggedEver("PreoDepositReceived", v, t)'
                                        - loggedEver("PreoWithdrawalExecuted", v, t)'
    BY DEF DepositsAreHeld
  <1>1. open.logs \in Seq(Logs)
    BY DEF TypeOK
  <1>2. ASSUME NEW event
        PROVE  /\ loggedEver(event, v, t)' = loggedEver(event, v, t) + said(entry, event, v, t)
               /\ loggedEver(event, v, t) \in Int /\ said(entry, event, v, t) \in Nat
    <2>1. mined(event, v, t)' = mined(event, v, t)
      BY DEF mined
    <2>2. logged(open.logs, event, v, t)'
              = logged(open.logs, event, v, t) + said(entry, event, v, t)
      <3>1. logged(open.logs, event, v, t)' = logged(open.logs \o <<entry>>, event, v, t)
        BY DEF logged
      <3> QED BY <1>1, <3>1, LoggedAppend
    <2>3. loggedEver(event, v, t)' = mined(event, v, t)' + logged(open.logs, event, v, t)'
      BY DEF loggedEver
    <2>4. said(entry, event, v, t) \in Nat
      BY SaidTypes
    <2> QED BY <2>1, <2>2, <2>3, <2>4, LoggedEverTypes
  <1>3. balance[t][v] \in Nat /\ balance'[t][v] \in Nat
    BY DEF TypeOK
  <1>4. balance[t][v] >= loggedEver("PreoDepositReceived", v, t)
                         - loggedEver("PreoWithdrawalExecuted", v, t)
    BY DEF DepositsAreHeld
  <1>5. balance'[t][v] >= balance[t][v] + said(entry, "PreoDepositReceived", v, t)
                          - said(entry, "PreoWithdrawalExecuted", v, t)
    OBVIOUS
  <1> QED BY <1>2, <1>3, <1>4, <1>5

\* Mining moves what the open transaction said to those mined.
LEMMA MineHeld == TypeOK /\ DepositsAreHeld /\ Mine => DepositsAreHeld'
  <1> SUFFICES ASSUME TypeOK, DepositsAreHeld, Mine PROVE DepositsAreHeld'
    OBVIOUS
  <1>1. balance' = balance /\ open'.logs = <<>>
    BY DEF Mine, vault
  <1>2. receipts \in Seq(Seq(Logs)) /\ open.logs \in Seq(Logs)
        /\ balance \in [Tokens -> [Accounts \cup Vaults -> Nat]]
    BY DEF TypeOK
  <1>3. CASE open.logs = <<>>
    <2>1. receipts' = receipts /\ open'.logs = open.logs
      BY <1>1, <1>3 DEF Mine
    <2>2. \A v \in Vaults, t \in Tokens : balance'[t][v] >= balance[t][v]
      BY <1>1, <1>2
    <2> QED BY <1>1, <1>2, <2>1, <2>2, QuietHeld
  <1>4. CASE open.logs # <<>>
    <2>1. receipts' = Append(receipts, open.logs)
      BY <1>4 DEF Mine
    <2>2. ASSUME NEW event, NEW v, NEW t
          PROVE  loggedEver(event, v, t)' = loggedEver(event, v, t)
      <3>1. mined(event, v, t)' = SumOver(loggedEach(receipts', event, v, t))
        BY DEF mined, loggedEach
      <3>2. SumOver(loggedEach(receipts', event, v, t))
                = SumOver(loggedEach(receipts, event, v, t)) + logged(open.logs, event, v, t)
        BY <1>2, <2>1, MinedAppend
      <3>3. logged(open.logs, event, v, t)' = logged(<<>>, event, v, t)
        BY <1>1 DEF logged
      <3>4. logged(open.logs, event, v, t)' = 0
        BY <3>3, LoggedNone
      <3>5. loggedEver(event, v, t)' = mined(event, v, t)' + logged(open.logs, event, v, t)'
        BY DEF loggedEver
      <3> QED BY <3>1, <3>2, <3>4, <3>5, LoggedEverTypes
    <2> QED BY <1>1, <2>2 DEF DepositsAreHeld
  <1> QED BY <1>3, <1>4

\* A deposit is paid in before it is said, a withdrawal said as it is paid out,
\* recorded payroll and plain transfers say nothing of either.
LEMMA CallsHeld ==
    ASSUME TypeOK, TypeOK', DepositsAreHeld, NEW c \in Accounts, NEW v \in Vaults,
           VaultCall(c, v)
    PROVE  DepositsAreHeld'
  <1>1. /\ balance \in [Tokens -> [Accounts \cup Vaults -> Nat]]
        /\ balance' \in [Tokens -> [Accounts \cup Vaults -> Nat]]
        /\ c \notin Vaults /\ v \notin Accounts /\ c # v
        /\ open.logs \o <<>> = open.logs
    <2>1. open.logs \in Seq(Logs)
      BY DEF TypeOK
    <2>2. open.logs \o <<>> = open.logs
      BY <2>1, ConcatEmptySeq
    <2> QED BY <2>2, VaultAssumption DEF TypeOK
  <1>2. \A logs : call(c, logs) => receipts' = receipts /\ open'.logs = open.logs \o logs
    BY DEF call
  <1> SUFFICES ASSUME NEW t \in Tokens, NEW a \in Amounts,
                      \/ \E b \in BOOLEAN : SetSupportedToken(c, v, t, b)
                      \/ \E agent \in Accounts \ {Owner}, b \in BOOLEAN :
                             SetAuthorizedAgent(c, v, agent, b)
                      \/ \E b \in BOOLEAN : SetPaused(c, v, b)
                      \/ \E u \in Users : \/ DepositFor(c, v, u, t, a)
                                           \/ RecordPayrollDeposit(c, v, u, t, a)
                      \/ \E h \in Accounts \cup Vaults : WithdrawTo(c, v, h, t, a)
                      \/ Transfer(c, v, t, a)
               PROVE  DepositsAreHeld'
    BY DEF VaultCall
  <1>3. a \in Nat
    BY VaultAssumption
  <1>4. CASE \/ \E b \in BOOLEAN : SetSupportedToken(c, v, t, b)
             \/ \E agent \in Accounts \ {Owner}, b \in BOOLEAN :
                    SetAuthorizedAgent(c, v, agent, b)
             \/ \E b \in BOOLEAN : SetPaused(c, v, b)
    <2>1. call(c, <<>>) /\ balance' = balance
      BY <1>4 DEF SetSupportedToken, SetAuthorizedAgent, SetPaused
    <2>2. receipts' = receipts /\ open'.logs = open.logs
      BY <1>1, <1>2, <2>1
    <2>3. \A w \in Vaults, s \in Tokens : balance'[s][w] >= balance[s][w]
      BY <1>1, <2>1
    <2> QED BY <1>1, <2>2, <2>3, QuietHeld
  <1>5. CASE Transfer(c, v, t, a)
    <2>1. call(c, <<>>) /\ move(t, c, v, a)
      BY <1>5 DEF Transfer
    <2>2. receipts' = receipts /\ open'.logs = open.logs
      BY <1>1, <1>2, <2>1
    <2>3. \A w \in Vaults, s \in Tokens : balance'[s][w] >= balance[s][w]
      <3> TAKE w \in Vaults, s \in Tokens
      <3>1. balance'[s][w] = balance[s][w] + (IF s = t /\ w = v THEN a ELSE 0)
                                           - (IF s = t /\ w = c THEN a ELSE 0)
        BY <1>1, <2>1, MoveBalances
      <3>2. balance[s][w] \in Nat /\ w # c
        BY <1>1
      <3> QED BY <1>3, <3>1, <3>2
    <2> QED BY <1>1, <2>2, <2>3, QuietHeld
  <1>6. ASSUME NEW u \in Users, DepositFor(c, v, u, t, a)
        PROVE  DepositsAreHeld'
    <2> DEFINE entry == [event |-> "PreoDepositReceived", by |-> c, vault |-> v, user |-> u,
                         token |-> t, amount |-> a]
    <2>1. mayMove(v, t, a) /\ call(c, <<entry>>) /\ move(t, c, v, a)
      BY <1>6 DEF DepositFor, log
    <2>2. entry \in Logs
      BY <2>1 DEF Logs, mayMove
    <2>3. receipts' = receipts /\ open'.logs = open.logs \o <<entry>>
      BY <1>2, <2>1
    <2>4. \A w \in Vaults, s \in Tokens :
              balance'[s][w] >= balance[s][w] + said(entry, "PreoDepositReceived", w, s)
                                - said(entry, "PreoWithdrawalExecuted", w, s)
      <3> TAKE w \in Vaults, s \in Tokens
      <3>1. balance'[s][w] = balance[s][w] + (IF s = t /\ w = v THEN a ELSE 0)
                                           - (IF s = t /\ w = c THEN a ELSE 0)
        BY <1>1, <2>1, MoveBalances
      <3>2. balance[s][w] \in Nat /\ w # c
        BY <1>1
      <3>3. /\ said(entry, "PreoDepositReceived", w, s) = IF s = t /\ w = v THEN a ELSE 0
            /\ said(entry, "PreoWithdrawalExecuted", w, s) = 0
        BY DEF said
      <3> QED BY <1>3, <3>1, <3>2, <3>3
    <2> HIDE DEF entry
    <2> QED BY <1>1, <2>2, <2>3, <2>4, LoudHeld
  <1>7. ASSUME NEW u \in Users, RecordPayrollDeposit(c, v, u, t, a)
        PROVE  DepositsAreHeld'
    <2> DEFINE entry == [event |-> "PayrollDepositRecorded", by |-> c, vault |-> v, user |-> u,
                         token |-> t, amount |-> a]
    <2>1. mayMove(v, t, a) /\ call(c, <<entry>>) /\ balance' = balance
      BY <1>7 DEF RecordPayrollDeposit, log, vault
    <2>2. entry \in Logs
      BY <2>1 DEF Logs, mayMove
    <2>3. receipts' = receipts /\ open'.logs = open.logs \o <<entry>>
      BY <1>2, <2>1
    <2>4. \A w \in Vaults, s \in Tokens :
              balance'[s][w] >= balance[s][w] + said(entry, "PreoDepositReceived", w, s)
                                - said(entry, "PreoWithdrawalExecuted", w, s)
      <3> TAKE w \in Vaults, s \in Tokens
      <3>1. balance[s][w] \in Nat
        BY <1>1
      <3>2. /\ said(entry, "PreoDepositReceived", w, s) = 0
            /\ said(entry, "PreoWithdrawalExecuted", w, s) = 0
        BY DEF said
      <3> QED BY <2>1, <3>1, <3>2
    <2> HIDE DEF entry
    <2> QED BY <1>1, <2>2, <2>3, <2>4, LoudHeld
  <1>8. ASSUME NEW h \in Accounts \cup Vaults, WithdrawTo(c, v, h, t, a)
        PROVE  DepositsAreHeld'
    <2> DEFINE entry == [event |-> "PreoWithdrawalExecuted", by |-> c, vault |-> v, user |-> h,
                         token |-> t, amount |-> a]
    <2>1. mayMove(v, t, a) /\ call(c, <<entry>>) /\ move(t, v, h, a)
      BY <1>8 DEF WithdrawTo, log
    <2>2. entry \in Logs
      BY <2>1 DEF Logs, mayMove
    <2>3. receipts' = receipts /\ open'.logs = open.logs \o <<entry>>
      BY <1>2, <2>1
    <2>4. \A w \in Vaults, s \in Tokens :
              balance'[s][w] >= balance[s][w] + said(entry, "PreoDepositReceived", w, s)
                                - said(entry, "PreoWithdrawalExecuted", w, s)
      <3> TAKE w \in Vaults, s \in Tokens
      <3>1. balance'[s][w] = balance[s][w] + (IF s = t /\ w = h THEN a ELSE 0)
                                           - (IF s = t /\ w = v THEN a ELSE 0)
        BY <1>1, <2>1, MoveBalances
      <3>2. balance[s][w] \in Nat
        BY <1>1
      <3>3. /\ said(entry, "PreoWithdrawalExecuted", w, s) = IF s = t /\ w = v THEN a ELSE 0
            /\ said(entry, "PreoDepositReceived", w, s) = 0
        BY DEF said
      <3> QED BY <1>3, <3>1, <3>2, <3>3
    <2> HIDE DEF entry
    <2> QED BY <1>1, <2>2, <2>3, <2>4, LoudHeld
  <1> QED BY <1>4, <1>5, <1>6, <1>7, <1>8

\* The server moves no token and emits no event.
LEMMA NextHeld == TypeOK /\ TypeOK' /\ DepositsAreHeld /\ [Next]_vars => DepositsAreHeld'
  <1> SUFFICES ASSUME TypeOK, TypeOK', DepositsAreHeld, [Next]_vars PROVE DepositsAreHeld'
    OBVIOUS
  <1>1. ASSUME chain' = chain PROVE DepositsAreHeld'
    <2>1. receipts' = receipts /\ open'.logs = open.logs /\ balance' = balance
      BY <1>1 DEF chain, vault
    <2>2. balance' \in [Tokens -> [Accounts \cup Vaults -> Nat]]
      BY DEF TypeOK
    <2>3. \A v \in Vaults, t \in Tokens : balance'[t][v] >= balance[t][v]
      <3> TAKE v \in Vaults, t \in Tokens
      <3>1. balance'[t][v] \in Nat
        BY <2>2
      <3> QED BY <2>1, <3>1
    <2> QED BY <2>1, <2>2, <2>3, QuietHeld
  <1>2. ASSUME NEW c \in Accounts, NEW v \in Vaults, VaultCall(c, v) PROVE DepositsAreHeld'
    BY <1>2, CallsHeld
  <1>3. CASE Mine
    BY <1>3, MineHeld
  <1>4. ASSUME NEW u \in Users, NEW n \in ChainIds \cup {Unset}, NEW tx \in indexes,
               NEW i \in {None} \cup indexes, NEW a \in Amounts,
               VerifyDeposit(u, n, tx, i, a)
        PROVE  DepositsAreHeld'
    BY <1>1, <1>4 DEF VerifyDeposit
  <1>5. ASSUME NEW n \in ChainIds, NEW t \in Tokens \cup {DemoToken},
               NEW v \in Vaults \cup {DemoVault}, SignPayment(n, t, v)
        PROVE  DepositsAreHeld'
    BY <1>1, <1>5 DEF SignPayment
  <1>6. CASE UNCHANGED vars
    BY <1>1, <1>6 DEF vars
  <1> QED BY <1>2, <1>3, <1>4, <1>5, <1>6 DEF Next

LEMMA InitHeld == Init => DepositsAreHeld
  <1> SUFFICES ASSUME Init, NEW v \in Vaults, NEW t \in Tokens
               PROVE  balance[t][v] >= loggedEver("PreoDepositReceived", v, t)
                                       - loggedEver("PreoWithdrawalExecuted", v, t)
    BY DEF DepositsAreHeld
  <1>1. receipts = <<>> /\ open.logs = <<>> /\ balance[t][v] = 0
    BY VaultAssumption DEF Init
  <1>2. \A event : mined(event, v, t) = 0 /\ logged(open.logs, event, v, t) = 0
    <2> TAKE event
    <2>1. Len(loggedEach(receipts, event, v, t)) = 0
      BY <1>1 DEF loggedEach
    <2>2. mined(event, v, t) = SumOver(loggedEach(receipts, event, v, t))
      BY DEF mined, loggedEach
    <2> QED BY <1>1, <2>1, <2>2, SumEmpty, LoggedNone
  <1> QED BY <1>1, <1>2 DEF loggedEver

\* However calls, pauses, delistings and withdrawals follow each other: what a
\* vault holds covers what its deposit events say less what its withdrawal
\* events say, for any number of vaults, tokens, accounts and transactions.
THEOREM DepositsAreHeldHolds == Spec => []DepositsAreHeld
  <1>1. Init /\ []TypeOK /\ [][Next]_vars => []DepositsAreHeld
    BY InitHeld, NextHeld, PTL
  <1> QED BY <1>1, TypeCorrect, PTL DEF Spec

-----------------------------------------------------------------------------
(* Readiness                                                               *)

\* What was signed, the signer would sign again: its environment is fixed.
SignedTrusted == \A p \in signed : signPayment(env, p.chainId, p.token, p.vault) # Refused

LEMMA SignedTrustedHolds == Spec => []SignedTrusted
  <1>1. Init => SignedTrusted
    BY DEF Init, SignedTrusted
  <1>2. SignedTrusted /\ [Next]_vars => SignedTrusted'
    <2> SUFFICES ASSUME SignedTrusted, [Next]_vars PROVE SignedTrusted'
      OBVIOUS
    <2>1. ASSUME env' = env, signed' = signed PROVE SignedTrusted'
      BY <2>1 DEF SignedTrusted
    <2>2. ASSUME NEW c \in Accounts, NEW v \in Vaults, VaultCall(c, v) PROVE SignedTrusted'
      <3>1. \A logs : call(c, logs) => env' = env /\ signed' = signed
        BY DEF call
      <3> QED BY <2>1, <2>2, <3>1 DEF VaultCall, SetSupportedToken, SetAuthorizedAgent, SetPaused,
                                DepositFor, RecordPayrollDeposit, WithdrawTo, Transfer
    <2>3. CASE Mine
      BY <2>1, <2>3 DEF Mine
    <2>4. ASSUME NEW u \in Users, NEW n \in ChainIds \cup {Unset}, NEW tx \in indexes,
                 NEW i \in {None} \cup indexes, NEW a \in Amounts,
                 VerifyDeposit(u, n, tx, i, a)
          PROVE  SignedTrusted'
      BY <2>1, <2>4 DEF VerifyDeposit
    <2>5. ASSUME NEW n \in ChainIds, NEW t \in Tokens \cup {DemoToken},
                 NEW v \in Vaults \cup {DemoVault}, SignPayment(n, t, v)
          PROVE  SignedTrusted'
      BY <2>5 DEF SignPayment, SignedTrusted
    <2>6. CASE UNCHANGED vars
      BY <2>1, <2>6 DEF vars
    <2> QED BY <2>2, <2>3, <2>4, <2>5, <2>6 DEF Next
  <1> QED BY <1>1, <1>2, PTL DEF Spec

\* A configuration names a token and a vault; without demo mode, those of the
\* environment.
LEMMA ConfigNames ==
    ASSUME getSettlementConfig(env) # Refused
    PROVE  LET config == getSettlementConfig(env)
           IN  /\ config.demoMode <=> env.DEMO_MODE
               /\ config.rpcUrl = env.SETTLEMENT_RPC_URL
               /\ ~env.DEMO_MODE => env.TESTNET_USDC_ADDRESS \notin {Unset, Invalid}
               /\ env.SETTLEMENT_CHAIN_ID # Invalid =>
                      config.chainId # Invalid /\ settlementChain(env) # Invalid
               /\ getFundingSettlementConfig(env) = config
  BY EnvironmentAssumption
     DEF getSettlementConfig, settlementConfig, settlementChain, orElse, getFundingSettlementConfig

\* In every environment: a signer reported ready signs the payments that
\* verify-deposit looks for and no other, if its key and the chain id can be
\* parsed; and with the settlement contracts reported well, and a chain id, a
\* deposit can be verified and a wallet that knows its address can transfer.
THEOREM ReadinessHonestHolds == Spec => []ReadinessHonest
  <1>1. SignedTrusted => ReadinessHonest
    <2> SUFFICES ASSUME SignedTrusted PROVE ReadinessHonest
      OBVIOUS
    <2> DEFINE config == getSettlementConfig(env)
               chainKnown == env.SETTLEMENT_CHAIN_ID # Invalid
    <2>1. ASSUME blinkHealth(env)
          PROVE  /\ config # Refused
                 /\ chainKnown /\ env.BLINK_MERCHANT_PRIVATE_KEY # Invalid =>
                        signPayment(env, config.chainId, config.token, config.vault) # Refused
                 /\ \A p \in signed : <<p.chainId, p.token, p.vault>>
                                          = <<config.chainId, config.token, config.vault>>
      <3>1. config # Refused /\ (hasMerchant(env) \/ env.DEMO_MODE)
        BY <2>1 DEF blinkHealth
      <3>2. /\ getFundingSettlementConfig(env) = config /\ (config.demoMode <=> env.DEMO_MODE)
            /\ chainKnown => config.chainId # Invalid
        BY <3>1, ConfigNames
      <3> HIDE DEF config
      <3>3. ASSUME chainKnown, env.BLINK_MERCHANT_PRIVATE_KEY # Invalid
            PROVE  signPayment(env, config.chainId, config.token, config.vault) # Refused
        <4>1. signPayment(env, config.chainId, config.token, config.vault)
                  = createBlinkSignedPayload(env, config)
          BY <3>1, <3>2, <3>3 DEF signPayment, sameChain
        <4>2. createBlinkSignedPayload(env, config)
                  = privateKeyFromOptions(env.BLINK_MERCHANT_PRIVATE_KEY, config.demoMode)
          BY <3>1, <3>2 DEF createBlinkSignedPayload, hasMerchant
        <4>3. privateKeyFromOptions(env.BLINK_MERCHANT_PRIVATE_KEY, config.demoMode)
                  \in {"merchant", "generated"}
          BY <3>1, <3>2, <3>3, EnvironmentAssumption DEF privateKeyFromOptions, hasMerchant
        <4> QED BY <4>1, <4>2, <4>3, EnvironmentAssumption
      <3>4. \A p \in signed : /\ p.chainId = config.chainId
                              /\ p.token = config.token /\ p.vault = config.vault
        BY <3>1, <3>2 DEF SignedTrusted, signPayment, sameChain
      <3> QED BY <3>1, <3>3, <3>4
    <2>2. ASSUME settlementHealth(env), chainKnown
          PROVE  /\ config.rpcUrl \/ makesUp(config)
                 /\ \A n \in {Unset, config.chainId} : chainAccepted(n, config)
                 /\ getAddress(env) => sendUsdc(env) # Refused
      <3>1. config # Refused /\ (config.demoMode \/ config.rpcUrl)
        BY <2>2 DEF settlementHealth
      <3>2. /\ config.demoMode <=> env.DEMO_MODE
            /\ config.rpcUrl = env.SETTLEMENT_RPC_URL
            /\ ~env.DEMO_MODE => env.TESTNET_USDC_ADDRESS \notin {Unset, Invalid}
            /\ config.chainId # Invalid /\ settlementChain(env) # Invalid
        BY <2>2, <3>1, ConfigNames
      <3> HIDE DEF config
      <3>3. getAddress(env) => sendUsdc(env) \in {"simulated", "real"}
        BY <3>1, <3>2 DEF getAddress, sendUsdc, createAgentWalletFromEnv
      <3>4. config.rpcUrl \/ makesUp(config)
        BY <3>1 DEF makesUp
      <3>5. \A n \in {Unset, config.chainId} : chainAccepted(n, config)
        BY <3>2 DEF chainAccepted, sameChain
      <3> QED BY <3>3, <3>4, <3>5, EnvironmentAssumption
    <2> QED BY <2>1, <2>2 DEF ReadinessHonest
  <1> QED BY <1>1, SignedTrustedHolds, PTL
=============================================================================
