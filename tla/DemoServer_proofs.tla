-------------------------- MODULE DemoServer_proofs --------------------------
(***************************************************************************)
(* Proofs about DemoServer, for any users, policies, workloads and number  *)
(* of requests at once.                                                    *)
(*                                                                         *)
(* The invariant has two halves.  TablesInv says what a request remembers  *)
(* fits the calls it still makes and the rows there are, so that who has   *)
(* deactivated the policies of a row is about to save one: from it follows *)
(* UserKeepsPolicy.  Of the ledger, Grown says what the calls of a user    *)
(* may do to it: add contracts of the user and archive them, with a change *)
(* of what they hold.  Every call but the reset makes the ledger grow so,  *)
(* by nothing in sum: from it follow LedgerConserves and, as nobody sees   *)
(* the contracts of another but payments to them, OthersUndisturbed.       *)
(*                                                                         *)
(* SerialInv, in the last part, is about users whose requests come one     *)
(* after the other: Fine says for each call what the calls before it have  *)
(* left of the rows and policies for it, and Settled that between requests *)
(* the one active row is that of the newest policy.  From it follows       *)
(* SerialUserConsistent.                                                   *)
(***************************************************************************)
EXTENDS DemoServer, Sums_proofs, FiniteSetTheorems, TLAPS

-----------------------------------------------------------------------------
(* The invariant: requests, rows, contracts                                *)

IsSeq(l) == Len(l) \in Nat /\ l = [i \in 1..Len(l) |-> l[i]]

\* What is needed of a policy, a submitted or the demo one.
IsCategory(c) ==
    /\ c = [id |-> c.id, bps |-> c.bps, type |-> c.type, recipient |-> c.recipient,
            address |-> c.address, target |-> c.target, approval |-> c.approval]
    /\ c.bps \in Int /\ c.type \in Engine(<<>>, NoPayroll, 0, {})!CategoryTypes
IsPolicy(p) ==
    IsSeq(p.categories) /\ \A i \in 1..Len(p.categories) : IsCategory(p.categories[i])

\* The precision of an asset is that of amounts, coarser or finer.
IsAsset(a) ==
    /\ a.dust \in Nat \ {0} /\ a.finer \in Nat \ {0}
    /\ a.dust = 1 \/ a.finer = 1
IsPayroll(p) ==
    p = [amount |-> p.amount, asset |-> p.asset] /\ p.amount \in Nat /\ IsAsset(p.asset)

\* A record with the fields of a request.
IsRequest(w) ==
    w = [user |-> w.user, todo |-> w.todo, id |-> w.id, policy |-> w.policy,
         version |-> w.version, intent |-> w.intent, policyId |-> w.policyId,
         credit |-> w.credit, run |-> w.run, runId |-> w.runId, action |-> w.action,
         payroll |-> w.payroll, due |-> w.due]

SaveCalls == {"latestPolicy", "deactivate", "createPolicy", "cachePolicy"}
EarlyCalls == {"getRequiredUser", "ensureDemoParties", "upsertUser", "queryProfile",
               "createProfile", "record"}

Calls == SaveCalls \cup EarlyCalls \cup
    {"createNotice", "createIntent", "findCredit", "createCredit", "createAudit", "nameCredit",
     "loadPolicyAndCredit", "createRun", "executeRun", "collectActions", "approve", "reject",
     "getPendingAction", "openAgentRow", "executeAction", "findUser", "deleteAgentActions",
     "deleteIntents", "deletePolicies", "deleteUser", "deleteDemoParties", "resetLedger"}

\* The policy is saved by the k-th call still to make: before it the calls of
\* SavePolicy, as far as they are not made yet, and those that log in, after
\* it none of these.
SavesAt(todo, k) ==
    /\ k \in 1..Len(todo)
    /\ \A j \in 1..Len(todo) :
           /\ j < k - 4 => todo[j] \in EarlyCalls
           /\ j < k - 4 /\ todo[j] = "queryProfile" => todo[j + 1] = "createProfile"
           /\ j = k - 4 => todo[j] = "latestPolicy"
           /\ j = k - 3 => todo[j] = "deactivate"
           /\ j = k - 2 => todo[j] = "createPolicy"
           /\ j = k - 1 => todo[j] = "record"
           /\ j = k => todo[j] = "cachePolicy"
           /\ j > k => todo[j] \notin SaveCalls

SavesNothing(todo) == \A j \in 1..Len(todo) : todo[j] \notin SaveCalls

\* The calls that add rows need the row of the user; it is taken before.
RowCalls == {"createIntent", "cachePolicy", "openAgentRow"}
RowTakers == {"getRequiredUser", "upsertUser"}

TakesRow(todo) ==
    \/ Head(todo) \in RowTakers
    \/ Head(todo) = "ensureDemoParties" /\ todo[2] = "upsertUser"
    \/ \A j \in 1..Len(todo) : todo[j] \notin RowCalls

\* What a request remembers fits its calls to come and the rows there are: its
\* row is nobody else's, it has a policy until that is created, and a version
\* from when it was computed.
Fits(w, ids, next) ==
    /\ IsRequest(w) /\ w.todo \in Seq(Calls)
    /\ w = Idle \/ (w.user \in Users /\ w.todo # <<>>)
    /\ w.id \in 0..(next - 1) /\ w.version \in 0..next
    /\ w.id # 0 => \A u \in Users : ids[u] = w.id => u = w.user
    /\ w.id # 0 \/ TakesRow(w.todo)
    /\ SavesNothing(w.todo) \/ \E k \in 1..Len(w.todo) : SavesAt(w.todo, k)
    /\ \A k \in 1..4 : SavesAt(w.todo, k) => w.version # 0
    /\ \A k \in 3..Len(w.todo) : SavesAt(w.todo, k) => IsPolicy(w.policy)
    /\ w.credit = NoContract \/ w.credit[1] = "PayrollCredit"

Requests ==
    /\ handler = [h \in Handlers |-> handler[h]]
    /\ \A h \in Handlers : Fits(handler[h], userIds, nextId)

IsPolicyRow(r) == r = [nr |-> r.nr, user |-> r.user, contract |-> r.contract,
                       version |-> r.version, active |-> r.active]
IsIntent(i) == i = [nr |-> i.nr, user |-> i.user, credit |-> i.credit]

Rows ==
    /\ nextId \in Nat \ {0}
    /\ userIds \in [Users -> 0..(nextId - 1)]
    /\ \A u, v \in Users : userIds[u] = userIds[v] /\ u # v => userIds[u] = 0
    /\ \A r \in policyRows :
           /\ IsPolicyRow(r) /\ r.user \in 1..(nextId - 1) /\ r.version \in 1..(nextId - 1)
           /\ r.active \in BOOLEAN
    /\ \A i \in intents :
           /\ IsIntent(i) /\ i.user \in 1..(nextId - 1)
           /\ i.credit = NoContract \/ i.credit[1] = "PayrollCredit"
    /\ agentRows \subseteq 1..(nextId - 1)

\* A request that has deactivated the policies of its row, and not saved the new one.
replaces(h, id) ==
    handler[h].id = id /\ \E k \in 1..3 : SavesAt(handler[h].todo, k)

PolicyOrSave ==
    \A u \in Users \ cutOff :
        rowsOf(userIds[u]) # {} =>
            \/ activeRows(userIds[u]) # {}
            \/ \E h \in serving(u) : replaces(h, userIds[u])

IsContract(c) == c = [template |-> c.template, payload |-> c.payload, live |-> c.live]
IsCredit(p) == p = [user |-> p.user, amount |-> p.amount, asset |-> p.asset,
                    allocated |-> p.allocated]
IsAction(p) == p = [user |-> p.user, runId |-> p.runId, category |-> p.category,
                    amount |-> p.amount, status |-> p.status]

Contract(c) ==
    /\ IsContract(c) /\ c.live \in BOOLEAN /\ c.template \in ViewTemplates \cup {"UserProfile"}
    /\ c.template # "OperatorAuditEvent" => c.payload.user \in Users
    /\ c.template = "EmployerPayrollNotice" => c.payload.employer = Employer
    /\ c.template = "PayrollPolicy" => IsPolicy(c.payload.policy)
    /\ c.template = "PayrollCredit" =>
           /\ IsCredit(c.payload) /\ c.payload.amount \in Nat /\ IsAsset(c.payload.asset)
           /\ c.payload.allocated \in BOOLEAN
    /\ c.template = "AllocationRun" => lostLittle(c.payload)
    /\ c.template = "PendingAction" => IsAction(c.payload) /\ IsCategory(c.payload.category)
    /\ worth(c) \in Int

Ledger(l) == IsSeq(l) /\ \A i \in 1..Len(l) : Contract(l[i])
LedgerOK == Ledger(ledger) /\ clock \in Nat

-----------------------------------------------------------------------------
(* Requests                                                                *)

\* The calls left when n are made.
LEMMA Rest ==
    ASSUME NEW todo \in Seq(Calls), NEW n \in {1, 2, 5}, NEW rest,
           rest = SubSeq(todo, n + 1, Len(todo)), rest # <<>>
    PROVE  /\ rest \in Seq(Calls) /\ Len(rest) = Len(todo) - n /\ Len(todo) > n
           /\ \A j \in 1..Len(rest) : rest[j] = todo[j + n]
  <1>1. Len(todo) > n
    OBVIOUS
  <1>2. QED
    BY <1>1

\* The call that saves a policy comes nearer with every call made, and the ones
\* that may be left out come before or after all of those.
LEMMA RestSaves ==
    ASSUME NEW todo \in Seq(Calls), NEW n \in {1, 2, 5}, NEW rest,
           rest = SubSeq(todo, n + 1, Len(todo)), rest # <<>>,
           SavesNothing(todo) \/ \E k \in 1..Len(todo) : SavesAt(todo, k)
    PROVE  /\ SavesNothing(rest) \/ \E k \in 1..Len(rest) : SavesAt(rest, k)
           /\ \A k \in 1..Len(rest) : SavesAt(rest, k) => SavesAt(todo, k + n)
  <1>1. /\ rest \in Seq(Calls) /\ Len(rest) = Len(todo) - n /\ Len(todo) > n
        /\ \A j \in 1..Len(rest) : rest[j] = todo[j + n] /\ j + n \in 1..Len(todo)
    BY Rest
  <1>2. CASE SavesNothing(todo)
    <2>1. SavesNothing(rest)
      BY <1>1, <1>2 DEF SavesNothing
    <2>2. \A k \in 1..Len(rest) : ~SavesAt(rest, k)
      BY <2>1 DEF SavesNothing, SavesAt, SaveCalls
    <2> QED BY <2>1, <2>2
  <1>3. ASSUME NEW k \in 1..Len(todo), SavesAt(todo, k)
        PROVE  /\ SavesNothing(rest) \/ \E i \in 1..Len(rest) : SavesAt(rest, i)
               /\ \A i \in 1..Len(rest) : SavesAt(rest, i) => SavesAt(todo, i + n)
    <2>1. CASE k <= n
      <3>1. SavesNothing(rest)
        BY <1>1, <1>3, <2>1 DEF SavesAt, SavesNothing
      <3>2. \A i \in 1..Len(rest) : ~SavesAt(rest, i)
        BY <3>1 DEF SavesNothing, SavesAt, SaveCalls
      <3> QED BY <3>1, <3>2
    <2>2. CASE k > n
      <3>1. k - n \in 1..Len(rest)
        BY <1>1, <2>2
      <3>2. ASSUME NEW j \in 1..Len(rest)
            PROVE  /\ j < (k - n) - 4 => rest[j] \in EarlyCalls
                   /\ j < (k - n) - 4 /\ rest[j] = "queryProfile" => rest[j + 1] = "createProfile"
        <4>1. j < (k - n) - 4 => j + 1 \in 1..Len(rest) /\ (j + 1) + n = (j + n) + 1
          BY <3>1, <1>1
        <4> QED BY <1>1, <1>3, <4>1 DEF SavesAt
      <3>3. ASSUME NEW j \in 1..Len(rest)
            PROVE  /\ j = (k - n) - 4 => rest[j] = "latestPolicy"
                   /\ j = (k - n) - 3 => rest[j] = "deactivate"
                   /\ j = (k - n) - 2 => rest[j] = "createPolicy"
                   /\ j = (k - n) - 1 => rest[j] = "record"
                   /\ j = (k - n) => rest[j] = "cachePolicy"
                   /\ j > (k - n) => rest[j] \notin SaveCalls
        BY <1>1, <1>3 DEF SavesAt
      <3>4. SavesAt(rest, k - n)
        BY <3>1, <3>2, <3>3 DEF SavesAt
      <3>5. ASSUME NEW i \in 1..Len(rest), SavesAt(rest, i) PROVE i + n = k
        <4>1. todo[i + n] = "cachePolicy" /\ i + n \in 1..Len(todo)
          BY <1>1, <3>5 DEF SavesAt
        <4>2. i + n < k - 4 \/ i + n = k - 4 \/ i + n = k - 3 \/ i + n = k - 2 \/ i + n = k - 1
              \/ i + n = k \/ i + n > k
          OBVIOUS
        <4> QED BY <1>3, <4>1, <4>2 DEF SavesAt, SaveCalls, EarlyCalls
      <3> QED BY <1>3, <3>1, <3>4, <3>5
    <2> QED BY <2>1, <2>2
  <1>4. QED
    BY <1>2, <1>3

\* What fits stays so when rows are added and users get other ones or none.
LEMMA FitsStays ==
    ASSUME NEW w, NEW ids, NEW ids2, NEW next \in Nat, NEW next2 \in Nat, next <= next2,
           Fits(w, ids, next), \A u \in Users : ids2[u] \in {ids[u], 0, next}
    PROVE  Fits(w, ids2, next2)
  BY DEF Fits

LEMMA IdleFits == ASSUME NEW ids, NEW next \in Nat \ {0} PROVE Fits(Idle, ids, next)
  <1>1. IsRequest(Idle) /\ Idle.todo = <<>> /\ Idle.id = 0 /\ Idle.version = 0
        /\ Idle.credit = NoContract
    BY DEF IsRequest, Idle
  <1>2. <<>> \in Seq(Calls) /\ Len(<<>>) = 0
    OBVIOUS
  <1>3. SavesNothing(<<>>) /\ \A k : ~SavesAt(<<>>, k)
    BY <1>2 DEF SavesNothing, SavesAt
  <1>4. TakesRow(<<>>)
    BY <1>2 DEF TakesRow
  <1> HIDE DEF Idle
  <1>5. QED
    BY <1>1, <1>2, <1>3, <1>4 DEF Fits

\* Until the row is taken the call that takes it is ahead, or none needs it.
LEMMA MovedTakes ==
    ASSUME NEW todo \in Seq(Calls), NEW n \in {1, 2, 5}, NEW rest,
           rest = SubSeq(todo, n + 1, Len(todo)), rest # <<>>, todo # <<>>,
           TakesRow(todo), Head(todo) \notin RowTakers, Head(todo) = "ensureDemoParties" => n = 1
    PROVE  TakesRow(rest)
  <1>1. /\ rest \in Seq(Calls) /\ Len(rest) = Len(todo) - n
        /\ \A j \in 1..Len(rest) : rest[j] = todo[j + n]
    BY Rest
  <1>2. 1 \in 1..Len(rest) /\ Head(rest) = rest[1]
    BY <1>1
  <1>3. CASE Head(todo) = "ensureDemoParties" /\ todo[2] = "upsertUser"
    <2>1. rest[1] = todo[1 + 1] /\ 1 + 1 = 2
      BY <1>1, <1>2, <1>3
    <2> QED BY <1>2, <1>3, <2>1 DEF TakesRow, RowTakers
  <1>4. CASE \A j \in 1..Len(todo) : todo[j] \notin RowCalls
    <2>1. \A j \in 1..Len(rest) : j + n \in 1..Len(todo)
      BY <1>1
    <2>2. \A j \in 1..Len(rest) : rest[j] \notin RowCalls
      BY <1>1, <1>4, <2>1
    <2> QED BY <2>2 DEF TakesRow
  <1> QED BY <1>3, <1>4 DEF TakesRow

\* A request that made calls, and remembers what r does.
LEMMA MovedFits ==
    ASSUME NEW w, NEW ids, NEW next \in Nat \ {0}, Fits(w, ids, next), w.todo # <<>>,
           NEW n \in {1, 2, 5}, NEW r, IsRequest(r), r.user = w.user,
           r.id \in 0..(next - 1), r.version \in 0..next,
           r.id # 0 => \A u \in Users : ids[u] = r.id => u = r.user,
           r.credit = NoContract \/ r.credit[1] = "PayrollCredit",
           Head(w.todo) = "latestPolicy" \/ r.version = w.version,
           Head(w.todo) = "latestPolicy" => r.version # 0,
           Head(w.todo) = "createPolicy" \/ r.policy = w.policy,
           n = 2 => Head(w.todo) = "queryProfile",
           n = 5 => Head(w.todo) \in {"findCredit", "findUser"},
           NEW rest, rest = SubSeq(w.todo, n + 1, Len(w.todo)), rest # <<>>,
           r.id # 0 \/ TakesRow(rest)
    PROVE  Fits([r EXCEPT !.todo = rest], ids, next)
  <1>0. PICK new, todo : new = [r EXCEPT !.todo = rest] /\ todo = w.todo
    OBVIOUS
  <1>1. /\ IsRequest(new) /\ new.user = r.user /\ new.todo = rest /\ new.id = r.id
        /\ new.version = r.version /\ new.policy = r.policy /\ new.credit = r.credit
    BY <1>0 DEF IsRequest
  <1>2. /\ todo \in Seq(Calls) /\ w.user \in Users
        /\ SavesNothing(todo) \/ \E k \in 1..Len(todo) : SavesAt(todo, k)
        /\ \A k \in 1..4 : SavesAt(todo, k) => w.version # 0
        /\ \A k \in 3..Len(todo) : SavesAt(todo, k) => IsPolicy(w.policy)
    <2>1. w # Idle
      BY DEF Idle
    <2> QED BY <1>0, <2>1 DEF Fits
  <1>3. /\ rest \in Seq(Calls) /\ Len(rest) = Len(todo) - n /\ Len(todo) > n
        /\ \A j \in 1..Len(rest) : rest[j] = todo[j + n]
    <2>1. todo \in Seq(Calls) /\ rest = SubSeq(todo, n + 1, Len(todo))
      BY <1>0, <1>2
    <2>2. Len(todo) > n
      BY <2>1
    <2> QED BY <2>1, <2>2
  <1>4. /\ SavesNothing(rest) \/ \E k \in 1..Len(rest) : SavesAt(rest, k)
        /\ \A k \in 1..Len(rest) : SavesAt(rest, k) => SavesAt(todo, k + n)
    <2>1. todo \in Seq(Calls) /\ rest = SubSeq(todo, n + 1, Len(todo))
      BY <1>0, <1>2
    <2> QED BY <1>2, <2>1, RestSaves, Zenon
  <1>5. /\ Head(w.todo) = todo[1] /\ 1 \in 1..Len(todo)
    BY <1>0, <1>2, <1>3
  <1>6. ASSUME NEW k \in 1..4, SavesAt(rest, k) PROVE r.version # 0
    <2>1. k \in 1..Len(rest) /\ SavesAt(todo, k + n)
      BY <1>4, <1>6 DEF SavesAt
    <2>2. CASE k + n = 5 /\ n = 1
      <3>1. todo[1] = "latestPolicy"
        BY <2>1, <2>2, <1>5 DEF SavesAt
      <3> QED BY <3>1, <1>5
    <2>3. CASE k + n <= 4
      <3>1. todo[1] # "latestPolicy"
        BY <2>1, <2>3, <1>5 DEF SavesAt
      <3> QED BY <1>2, <1>5, <2>1, <2>3, <3>1
    <2>4. CASE n = 2 /\ k + n > 4
      <3>1. todo[1] = "queryProfile" /\ 2 \in 1..Len(todo)
        BY <1>3, <1>5, <2>4
      <3>2. k + n \in {5, 6}
        BY <2>4
      <3>3. CASE k + n = 5
        <4>1. todo[1] = "latestPolicy"
          <5>1. SavesAt(todo, 5)
            BY <2>1, <3>3
          <5> QED BY <5>1, <1>5 DEF SavesAt
        <4> QED BY <4>1, <3>1
      <3>4. CASE k + n = 6
        <4>1. todo[2] = "latestPolicy"
          BY <2>1, <3>4, <1>3 DEF SavesAt
        <4>2. todo[2] = "createProfile"
          BY <2>1, <3>4, <1>5, <3>1 DEF SavesAt
        <4> QED BY <4>1, <4>2
      <3> QED BY <3>2, <3>3, <3>4
    <2>5. CASE n = 5
      <3>1. todo[1] \in {"findCredit", "findUser"}
        BY <1>5, <2>5
      <3>2. 1 < (k + n) - 4 \/ 1 = (k + n) - 4
        BY <2>5
      <3> QED BY <1>5, <2>1, <3>1, <3>2 DEF SavesAt, EarlyCalls
    <2> QED BY <2>2, <2>3, <2>4, <2>5
  <1>7. ASSUME NEW k \in 3..Len(rest), SavesAt(rest, k) PROVE IsPolicy(r.policy)
    <2>1. SavesAt(todo, k + n) /\ k + n \in 3..Len(todo)
      BY <1>3, <1>4, <1>7
    <2>2. todo[1] # "createPolicy"
      <3>1. 1 < (k + n) - 4 \/ 1 = (k + n) - 4 \/ 1 = (k + n) - 3
        BY <1>7
      <3> QED BY <1>5, <2>1, <3>1 DEF SavesAt, EarlyCalls
    <2> QED BY <1>2, <1>5, <2>1, <2>2
  <1>8. Fits(new, ids, next)
    BY <1>1, <1>2, <1>3, <1>4, <1>6, <1>7 DEF Fits
  <1> QED BY <1>8, <1>0

\* A policy is saved at most once.
LEMMA SavesOnce ==
    ASSUME NEW todo, NEW k, NEW i, SavesAt(todo, k), SavesAt(todo, i)
    PROVE  k = i
  <1>1. todo[i] = "cachePolicy" /\ i \in 1..Len(todo) /\ k \in 1..Len(todo)
    BY DEF SavesAt
  <1>2. i < k - 4 \/ i = k - 4 \/ i = k - 3 \/ i = k - 2 \/ i = k - 1 \/ i = k \/ i > k
    BY <1>1
  <1> QED BY <1>1, <1>2 DEF SavesAt, SaveCalls, EarlyCalls

\* Calls that save nothing may follow.
LEMMA NothingMore ==
    ASSUME NEW s \in Seq(Calls), NEW t \in Seq(Calls), SavesNothing(t)
    PROVE  /\ s \o t \in Seq(Calls) /\ Len(s \o t) = Len(s) + Len(t)
           /\ SavesNothing(s) => SavesNothing(s \o t)
           /\ \A k : SavesAt(s, k) => SavesAt(s \o t, k)
  <1>1. PICK r : r = s \o t
    OBVIOUS
  <1>2. /\ r \in Seq(Calls) /\ Len(r) = Len(s) + Len(t)
        /\ \A j \in 1..Len(s) : r[j] = s[j]
        /\ \A j \in 1..Len(r) : j > Len(s) => r[j] = t[j - Len(s)] /\ j - Len(s) \in 1..Len(t)
    BY <1>1
  <1>3. \A j \in 1..Len(r) : j > Len(s) => r[j] \notin SaveCalls
    BY <1>2 DEF SavesNothing
  <1>4. SavesNothing(s) => SavesNothing(r)
    <2>1. \A j \in 1..Len(r) : j > Len(s) \/ j \in 1..Len(s)
      BY <1>2
    <2> QED BY <1>2, <1>3, <2>1 DEF SavesNothing
  <1>5. ASSUME NEW k, SavesAt(s, k) PROVE SavesAt(r, k)
    <2>1. k \in 1..Len(s) /\ k \in 1..Len(r)
      BY <1>2, <1>5 DEF SavesAt
    <2>2. ASSUME NEW j \in 1..Len(r), j \in 1..Len(s)
          PROVE  /\ j < k - 4 => r[j] \in EarlyCalls
                 /\ j < k - 4 /\ r[j] = "queryProfile" => r[j + 1] = "createProfile"
                 /\ j = k - 4 => r[j] = "latestPolicy"
                 /\ j = k - 3 => r[j] = "deactivate"
                 /\ j = k - 2 => r[j] = "createPolicy"
                 /\ j = k - 1 => r[j] = "record"
                 /\ j = k => r[j] = "cachePolicy"
                 /\ j > k => r[j] \notin SaveCalls
      <3>1. j < k - 4 => j + 1 \in 1..Len(s)
        BY <2>1, <2>2
      <3> QED BY <1>2, <1>5, <2>2, <3>1 DEF SavesAt
    <2>3. \A j \in 1..Len(r) : j \notin 1..Len(s) => j > k /\ j > Len(s)
      BY <1>2, <2>1
    <2> QED BY <1>3, <2>1, <2>2, <2>3 DEF SavesAt
  <1> QED BY <1>1, <1>2, <1>4, <1>5

\* Calls that log in may come before a policy is saved.
LEMMA EarlyThenSave ==
    ASSUME NEW s \in Seq(Calls), \A j \in 1..Len(s) : s[j] \in EarlyCalls,
           \A j \in 1..Len(s) : s[j] = "queryProfile" =>
               j + 1 \in 1..Len(s) /\ s[j + 1] = "createProfile"
    PROVE  /\ s \o SavePolicy \in Seq(Calls)
           /\ SavesAt(s \o SavePolicy, Len(s) + 5)
  <1>1. PICK r : r = s \o SavePolicy
    OBVIOUS
  <1>2. PICK n \in Nat : n = Len(s)
    OBVIOUS
  <1>3. /\ r \in Seq(Calls) /\ Len(r) = n + 5
        /\ \A j \in 1..n : r[j] = s[j]
        /\ r[n + 1] = "latestPolicy" /\ r[n + 2] = "deactivate" /\ r[n + 3] = "createPolicy"
        /\ r[n + 4] = "record" /\ r[n + 5] = "cachePolicy"
    <2>1. PICK t : t = SavePolicy
      OBVIOUS
    <2>2. /\ t \in Seq(Calls) /\ Len(t) = 5 /\ t[1] = "latestPolicy" /\ t[2] = "deactivate"
          /\ t[3] = "createPolicy" /\ t[4] = "record" /\ t[5] = "cachePolicy"
      BY <2>1 DEF SavePolicy, Calls, SaveCalls, EarlyCalls
    <2>3. r = s \o t
      BY <1>1, <2>1
    <2>4. /\ r \in Seq(Calls) /\ Len(r) = Len(s) + Len(t)
          /\ \A j \in 1..Len(s) : r[j] = s[j]
          /\ \A j \in 1..Len(r) : j > Len(s) => r[j] = t[j - Len(s)]
      <3>1. t \in Seq(Calls)
        BY <2>2
      <3> QED BY <2>3, <3>1
    <2>5. /\ n + 1 \in 1..Len(r) /\ n + 1 > Len(s) /\ (n + 1) - Len(s) = 1
          /\ n + 2 \in 1..Len(r) /\ n + 2 > Len(s) /\ (n + 2) - Len(s) = 2
          /\ n + 3 \in 1..Len(r) /\ n + 3 > Len(s) /\ (n + 3) - Len(s) = 3
          /\ n + 4 \in 1..Len(r) /\ n + 4 > Len(s) /\ (n + 4) - Len(s) = 4
          /\ n + 5 \in 1..Len(r) /\ n + 5 > Len(s) /\ (n + 5) - Len(s) = 5
      BY <1>2, <2>2, <2>4
    <2>6. /\ r[n + 1] = t[1] /\ r[n + 2] = t[2] /\ r[n + 3] = t[3]
          /\ r[n + 4] = t[4] /\ r[n + 5] = t[5]
      BY <2>4, <2>5
    <2> QED BY <1>2, <2>2, <2>4, <2>6
  <1>4. ASSUME NEW j \in 1..Len(r)
        PROVE  /\ j < (n + 5) - 4 => j \in 1..n
               /\ j > n + 5 => FALSE
    BY <1>3
  <1>5. SavesAt(r, n + 5)
    BY <1>2, <1>3, <1>4 DEF SavesAt
  <1> QED BY <1>1, <1>2, <1>3, <1>5

\* The calls of each kind of request.
Kinds == {"bootstrap", "policy", "payroll", "confirm", "allocate", "approve", "reject", "execute",
          "fullFlow", "reset"}

LEMMA PaySavesNothing == Pay \in Seq(Calls) /\ SavesNothing(Pay)
  BY DEF Pay, SavesNothing, SaveCalls, EarlyCalls, Calls

LEMMA AllocateSavesNothing == Allocate \in Seq(Calls) /\ SavesNothing(Allocate)
  BY DEF Allocate, SavesNothing, SaveCalls, EarlyCalls, Calls

LEMMA GetUserSavesNothing ==
    /\ <<"getRequiredUser">> \in Seq(Calls) /\ SavesNothing(<<"getRequiredUser">>)
    /\ Len(<<"getRequiredUser">>) = 1
  BY DEF SavesNothing, SaveCalls, EarlyCalls, Calls

\* Only two kinds of requests save a policy, and these not at once.
LEMMA StepsSave ==
    ASSUME NEW kind \in Kinds
    PROVE  /\ Steps[kind] \in Seq(Calls) /\ Steps[kind] # <<>>
           /\ \/ SavesNothing(Steps[kind])
              \/ kind \in {"policy", "fullFlow"} /\ \E k \in Nat : k > 5 /\ SavesAt(Steps[kind], k)
  <1>1. CASE kind = "policy"
    <2>1. PICK s : s = <<"getRequiredUser">>
      OBVIOUS
    <2>2. s \in Seq(Calls) /\ Len(s) = 1 /\ s[1] = "getRequiredUser"
      BY <2>1 DEF Calls, EarlyCalls
    <2>3. Steps[kind] = s \o SavePolicy
      BY <1>1, <2>1 DEF Steps
    <2>4. s \o SavePolicy \in Seq(Calls) /\ SavesAt(s \o SavePolicy, Len(s) + 5)
      <3>1. /\ \A j \in 1..Len(s) : s[j] \in EarlyCalls
            /\ \A j \in 1..Len(s) : s[j] # "queryProfile"
        BY <2>2 DEF EarlyCalls
      <3> QED BY <2>2, <3>1, EarlyThenSave
    <2>5. SavesAt(Steps[kind], 6)
      BY <2>2, <2>3, <2>4
    <2>6. Steps[kind] # <<>>
      BY <2>5 DEF SavesAt
    <2> QED BY <1>1, <2>3, <2>4, <2>5, <2>6
  <1>2. CASE kind = "fullFlow"
    <2>1. PICK s, a, b : /\ s = <<"ensureDemoParties", "upsertUser", "queryProfile",
                                  "createProfile", "record">>
                         /\ a = <<"createNotice", "record">>
                         /\ b = <<"collectActions", "approve", "record", "openAgentRow",
                                  "executeAction">>
      OBVIOUS
    <2>2. /\ s \in Seq(Calls) /\ Len(s) = 5 /\ \A j \in 1..5 : s[j] \in EarlyCalls
          /\ \A j \in 1..5 : s[j] = "queryProfile" => j = 3
          /\ s[4] = "createProfile"
      BY <2>1 DEF EarlyCalls, Calls
    <2>3. a \in Seq(Calls) /\ SavesNothing(a) /\ b \in Seq(Calls) /\ SavesNothing(b)
      BY <2>1 DEF SavesNothing, SaveCalls, EarlyCalls, Calls
    <2>4. Steps[kind] = s \o SavePolicy \o a \o Pay \o Allocate \o b
      BY <1>2, <2>1 DEF Steps
    <2>5. s \o SavePolicy \in Seq(Calls) /\ SavesAt(s \o SavePolicy, 10)
      <3>1. Len(s) + 5 = 10
        BY <2>2
      <3>2. \A j \in 1..Len(s) : s[j] = "queryProfile" =>
                j + 1 \in 1..Len(s) /\ s[j + 1] = "createProfile"
        BY <2>2
      <3>3. \A j \in 1..Len(s) : s[j] \in EarlyCalls
        BY <2>2
      <3>4. SavesAt(s \o SavePolicy, Len(s) + 5)
        BY <2>2, <3>2, <3>3, EarlyThenSave
      <3>5. s \o SavePolicy \in Seq(Calls)
        BY <2>2, <3>2, <3>3, EarlyThenSave
      <3> QED BY <3>1, <3>4, <3>5
    <2>6. PICK x \in Seq(Calls) : x = s \o SavePolicy
      BY <2>5
    <2>7. PICK y \in Seq(Calls) : y = x \o a /\ SavesAt(y, 10)
      BY <2>3, <2>5, <2>6, NothingMore
    <2>8. PICK z \in Seq(Calls) : z = y \o Pay /\ SavesAt(z, 10)
      BY <2>7, PaySavesNothing, NothingMore
    <2>9. PICK v \in Seq(Calls) : v = z \o Allocate /\ SavesAt(v, 10)
      BY <2>8, AllocateSavesNothing, NothingMore
    <2>10. v \o b \in Seq(Calls) /\ SavesAt(v \o b, 10)
      BY <2>3, <2>9, NothingMore
    <2>11. Steps[kind] = v \o b
      BY <2>4, <2>6, <2>7, <2>8, <2>9
    <2>12. Steps[kind] # <<>>
      BY <2>10, <2>11 DEF SavesAt
    <2> QED BY <1>2, <2>10, <2>11, <2>12
  <1>3. CASE kind \in {"bootstrap", "approve", "reject", "execute", "reset"}
    <2>1. PICK t : t = Steps[kind]
      OBVIOUS
    <2>2. t \in Seq(Calls) /\ t # <<>> /\ \A j \in 1..Len(t) : t[j] \notin SaveCalls
      <3>1. CASE kind = "bootstrap"
        BY <2>1, <3>1 DEF Steps, Login, SaveCalls, EarlyCalls, Calls
      <3>2. CASE kind = "approve"
        BY <2>1, <3>2 DEF Steps, SaveCalls, EarlyCalls, Calls
      <3>5. CASE kind = "reject"
        BY <2>1, <3>5 DEF Steps, SaveCalls, EarlyCalls, Calls
      <3>3. CASE kind = "execute"
        BY <2>1, <3>3 DEF Steps, SaveCalls, EarlyCalls, Calls
      <3>4. CASE kind = "reset"
        BY <2>1, <3>4 DEF Steps, SaveCalls, EarlyCalls, Calls
      <3> QED BY <1>3, <3>1, <3>2, <3>3, <3>4, <3>5
    <2> QED BY <2>1, <2>2 DEF SavesNothing
  <1>4. CASE kind \in {"confirm", "allocate"}
    <2>1. PICK s : s = <<"getRequiredUser">>
      OBVIOUS
    <2>2. s \in Seq(Calls) /\ SavesNothing(s) /\ Len(s) = 1
      BY <2>1, GetUserSavesNothing
    <2>3. Steps[kind] = s \o Pay \/ Steps[kind] = s \o Allocate
      <3>1. CASE kind = "confirm"
        BY <2>1, <3>1 DEF Steps
      <3>2. CASE kind = "allocate"
        BY <2>1, <3>2 DEF Steps
      <3> QED BY <1>4, <3>1, <3>2
    <2>4. s \o Pay \in Seq(Calls) /\ SavesNothing(s \o Pay) /\ s \o Pay # <<>>
      <3>1. s \o Pay \in Seq(Calls) /\ SavesNothing(s \o Pay) /\ Len(s \o Pay) = 1 + Len(Pay)
        BY <2>2, PaySavesNothing, NothingMore
      <3> QED BY <3>1, PaySavesNothing
    <2>5. s \o Allocate \in Seq(Calls) /\ SavesNothing(s \o Allocate) /\ s \o Allocate # <<>>
      <3>1. /\ s \o Allocate \in Seq(Calls) /\ SavesNothing(s \o Allocate)
            /\ Len(s \o Allocate) = 1 + Len(Allocate)
        BY <2>2, AllocateSavesNothing, NothingMore
      <3> QED BY <3>1, AllocateSavesNothing
    <2> QED BY <2>3, <2>4, <2>5
  <1>5. CASE kind = "payroll"
    <2>1. PICK t : t = <<"getRequiredUser", "ensureDemoParties", "createNotice", "record">>
      OBVIOUS
    <2>2. t \in Seq(Calls) /\ SavesNothing(t) /\ Len(t) = 4
      BY <2>1 DEF SavesNothing, SaveCalls, EarlyCalls, Calls
    <2>3. Steps[kind] = t \o Pay
      BY <1>5, <2>1 DEF Steps
    <2>4. t \o Pay \in Seq(Calls) /\ SavesNothing(t \o Pay) /\ Len(t \o Pay) = 4 + Len(Pay)
      BY <2>2, PaySavesNothing, NothingMore
    <2>5. t \o Pay # <<>>
      BY <2>4, PaySavesNothing
    <2> QED BY <2>3, <2>4, <2>5
  <1> QED BY <1>1, <1>2, <1>3, <1>4, <1>5 DEF Kinds

-----------------------------------------------------------------------------
(* Steps of requests                                                       *)

\* Request w may go on after n calls.
MaySkip(w, n) ==
    /\ n \in {1, 2, 5} /\ w.todo # <<>>
    /\ n = 2 => Head(w.todo) = "queryProfile"
    /\ n = 5 => Head(w.todo) \in {"findCredit", "findUser"}

\* What r remembers after the first call of w.
Remembers(r, w, ids, next) ==
    /\ IsRequest(r) /\ r.user = w.user
    /\ r.id \in 0..(next - 1) /\ r.version \in 0..next
    /\ r.id # 0 => \A u \in Users : ids[u] = r.id => u = r.user
    /\ r.credit = NoContract \/ r.credit[1] = "PayrollCredit"
    /\ Head(w.todo) # "latestPolicy" => r.version = w.version
    /\ Head(w.todo) = "latestPolicy" => r.version # 0
    /\ Head(w.todo) # "createPolicy" => r.policy = w.policy
    /\ w.id # 0 \/ Head(w.todo) \in RowTakers => r.id # 0

restOf(w, n) == SubSeq(w.todo, n + 1, Len(w.todo))
goneOn(w, n, r) == IF restOf(w, n) = <<>> THEN Idle ELSE [r EXCEPT !.todo = restOf(w, n)]

\* The rows are the same or more, and a user has the row it had, none, or a new one.
RowsGrow ==
    /\ nextId \in Nat \ {0} /\ nextId' \in Nat \ {0} /\ nextId <= nextId'
    /\ \A u \in Users : userIds'[u] \in {userIds[u], 0, nextId}

LEMMA SkipFits ==
    ASSUME NEW w, NEW ids, NEW next \in Nat \ {0}, Fits(w, ids, next), NEW n, MaySkip(w, n),
           NEW r, Remembers(r, w, ids, next)
    PROVE  Fits(goneOn(w, n, r), ids, next)
  <1>1. PICK rest : rest = restOf(w, n)
    OBVIOUS
  <1>2. CASE rest = <<>>
    BY <1>1, <1>2, IdleFits DEF goneOn
  <1>3. CASE rest # <<>>
    <2>1. goneOn(w, n, r) = [r EXCEPT !.todo = rest]
      BY <1>1, <1>3 DEF goneOn
    <2>2. rest = SubSeq(w.todo, n + 1, Len(w.todo))
      BY <1>1 DEF restOf
    <2>3. Fits([r EXCEPT !.todo = rest], ids, next)
      <3>1. /\ w.todo # <<>> /\ n \in {1, 2, 5}
            /\ n = 2 => Head(w.todo) = "queryProfile"
            /\ n = 5 => Head(w.todo) \in {"findCredit", "findUser"}
        BY DEF MaySkip
      <3>2. /\ IsRequest(r) /\ r.user = w.user
            /\ r.id \in 0..(next - 1) /\ r.version \in 0..next
            /\ r.id # 0 => \A u \in Users : ids[u] = r.id => u = r.user
            /\ r.credit = NoContract \/ r.credit[1] = "PayrollCredit"
            /\ Head(w.todo) = "latestPolicy" \/ r.version = w.version
            /\ Head(w.todo) = "latestPolicy" => r.version # 0
            /\ Head(w.todo) = "createPolicy" \/ r.policy = w.policy
        BY DEF Remembers
      <3>3. r.id # 0 \/ TakesRow(rest)
        <4>1. SUFFICES ASSUME r.id = 0 PROVE TakesRow(rest)
          OBVIOUS
        <4>2. w.id = 0 /\ Head(w.todo) \notin RowTakers
          BY <4>1 DEF Remembers
        <4>3. w.todo \in Seq(Calls) /\ TakesRow(w.todo)
          BY <4>2 DEF Fits
        <4>4. Head(w.todo) = "ensureDemoParties" => n = 1
          BY <3>1
        <4> QED BY <1>3, <2>2, <3>1, <4>2, <4>3, <4>4, MovedTakes
      <3> QED BY <3>1, <3>2, <3>3, <1>3, <2>2, MovedFits
    <2> QED BY <2>1, <2>3
  <1> QED BY <1>2, <1>3

\* The step of one handler.
LEMMA MoveRequests ==
    ASSUME Requests, RowsGrow, NEW h \in Handlers, NEW w, Fits(w, userIds', nextId'),
           handler' = [handler EXCEPT ![h] = w]
    PROVE  Requests'
  <1>1. /\ handler' = [g \in Handlers |-> IF g = h THEN w ELSE handler[g]]
        /\ \A g \in Handlers : Fits(handler[g], userIds, nextId)
    BY DEF Requests
  <1>2. \A g \in Handlers : Fits(handler[g], userIds', nextId')
    <2>1. PICK ids, next : ids = userIds' /\ next = nextId'
      OBVIOUS
    <2>2. \A g \in Handlers : Fits(handler[g], ids, next)
      BY <1>1, <2>1, FitsStays DEF RowsGrow
    <2> QED BY <2>1, <2>2
  <1>3. handler' = [g \in Handlers |-> handler'[g]]
    BY <1>1
  <1>4. \A g \in Handlers : Fits(handler'[g], userIds', nextId')
    BY <1>1, <1>2
  <1> QED BY <1>3, <1>4 DEF Requests

\* The step that makes n calls.
LEMMA SkipRequests ==
    ASSUME Requests, RowsGrow, NEW h \in Handlers, NEW n, MaySkip(handler[h], n),
           NEW r, Remembers(r, handler[h], userIds', nextId'), Skip(h, n, r)
    PROVE  Requests'
  <1>1. PICK w, ids, next : w = handler[h] /\ ids = userIds' /\ next = nextId'
    OBVIOUS
  <1>2. next \in Nat \ {0} /\ Fits(w, ids, next)
    BY <1>1, FitsStays DEF Requests, RowsGrow
  <1>3. Fits(goneOn(w, n, r), ids, next)
    BY <1>1, <1>2, SkipFits
  <1>4. PICK x : x = goneOn(w, n, r)
    OBVIOUS
  <1>5. handler' = [handler EXCEPT ![h] = x]
    BY <1>1, <1>4 DEF Skip, goneOn, restOf
  <1>6. Fits(x, userIds', nextId')
    BY <1>1, <1>3, <1>4
  <1> QED BY <1>5, <1>6, MoveRequests

\* The step that ends a request.
LEMMA FinishRequests ==
    ASSUME Requests, RowsGrow, NEW h \in Handlers, Finish(h)
    PROVE  Requests'
  <1>1. PICK x, ids, next : x = Idle /\ ids = userIds' /\ next = nextId'
    OBVIOUS
  <1>2. Fits(x, ids, next)
    BY <1>1, IdleFits DEF RowsGrow
  <1>3. handler' = [handler EXCEPT ![h] = x]
    BY <1>1 DEF Finish
  <1> QED BY <1>1, <1>2, <1>3, MoveRequests

\* What a request at a call is like.
LEMMA AtCall ==
    ASSUME Requests, NEW h \in Handlers, NEW call, At(h, call)
    PROVE  LET w == handler[h] IN
           /\ IsRequest(w) /\ w.todo # <<>> /\ Head(w.todo) = call /\ w.user \in Users
           /\ w.id \in 0..(nextId - 1) /\ w.version \in 0..nextId
           /\ w.id # 0 => \A u \in Users : userIds[u] = w.id => u = w.user
           /\ w.credit = NoContract \/ w.credit[1] = "PayrollCredit"
           /\ call \in RowCalls => w.id # 0
           /\ MaySkip(w, 1)
  <1>1. PICK w : w = handler[h]
    OBVIOUS
  <1>2. w.todo # <<>> /\ Head(w.todo) = call /\ Fits(w, userIds, nextId)
    BY <1>1 DEF At, Requests
  <1>3. w # Idle
    BY <1>2 DEF Idle
  <1>4. /\ IsRequest(w) /\ w.user \in Users
        /\ w.id \in 0..(nextId - 1) /\ w.version \in 0..nextId
        /\ w.id # 0 => \A u \in Users : userIds[u] = w.id => u = w.user
        /\ w.credit = NoContract \/ w.credit[1] = "PayrollCredit"
    BY <1>2, <1>3 DEF Fits
  <1>5. MaySkip(w, 1)
    BY <1>2 DEF MaySkip
  <1>6. call \in RowCalls => w.id # 0
    <2>1. w.todo \in Seq(Calls) /\ (w.id # 0 \/ TakesRow(w.todo))
      BY <1>2 DEF Fits
    <2>2. Head(w.todo) = w.todo[1] /\ 1 \in 1..Len(w.todo)
      BY <1>2, <2>1
    <2> QED BY <1>2, <2>1, <2>2 DEF TakesRow, RowCalls, RowTakers
  <1> QED BY <1>1, <1>2, <1>4, <1>5, <1>6

\* A step that remembers nothing new, or nothing of rows, versions and policies.
LEMMA PlainMemory ==
    ASSUME Requests, RowsGrow, NEW h \in Handlers, NEW call, At(h, call),
           call \notin {"latestPolicy"} \cup RowTakers, NEW r, IsRequest(r),
           r.user = handler[h].user, r.id = handler[h].id, r.version = handler[h].version,
           call = "createPolicy" \/ r.policy = handler[h].policy,
           r.credit = NoContract \/ r.credit[1] = "PayrollCredit"
    PROVE  Remembers(r, handler[h], userIds', nextId')
  <1>1. PICK w, ids, next : w = handler[h] /\ ids = userIds' /\ next = nextId'
    OBVIOUS
  <1>2. /\ Head(w.todo) = call /\ w.id \in 0..(nextId - 1) /\ w.version \in 0..nextId
        /\ w.id # 0 => \A u \in Users : userIds[u] = w.id => u = w.user
    BY <1>1, AtCall
  <1>3. w.id \in 0..(next - 1) /\ w.version \in 0..next
    BY <1>1, <1>2 DEF RowsGrow
  <1>4. w.id # 0 => \A u \in Users : ids[u] = w.id => u = w.user
    BY <1>1, <1>2 DEF RowsGrow
  <1>5. Remembers(r, w, ids, next)
    BY <1>1, <1>2, <1>3, <1>4 DEF Remembers
  <1> QED BY <1>1, <1>5

LEMMA ProceedRequests ==
    ASSUME Requests, RowsGrow, NEW h \in Handlers, NEW call, At(h, call),
           call \notin {"latestPolicy"} \cup RowTakers, Proceed(h)
    PROVE  Requests'
  <1>1. PICK r : r = handler[h]
    OBVIOUS
  <1>2. IsRequest(r) /\ (r.credit = NoContract \/ r.credit[1] = "PayrollCredit")
        /\ MaySkip(handler[h], 1)
    BY <1>1, AtCall
  <1>3. Remembers(r, handler[h], userIds', nextId')
    BY <1>1, <1>2, PlainMemory
  <1>4. Skip(h, 1, r)
    BY <1>1 DEF Proceed, GoOn
  <1> QED BY <1>2, <1>3, <1>4, SkipRequests

-----------------------------------------------------------------------------
(* Users keep a policy                                                     *)

TablesInv == Requests /\ Rows /\ PolicyOrSave

LEMMA RowsStay ==
    ASSUME Rows, UNCHANGED tables
    PROVE  Rows' /\ RowsGrow
  <1>1. /\ userIds' = userIds /\ policyRows' = policyRows /\ intents' = intents
        /\ agentRows' = agentRows /\ nextId' = nextId
    BY DEF tables
  <1> QED BY <1>1 DEF Rows, RowsGrow

\* A request that has deactivated a user's policies is at one of three calls.
LEMMA Replacing ==
    ASSUME Requests, NEW h \in Handlers, NEW k \in 1..3, SavesAt(handler[h].todo, k)
    PROVE  /\ k = 3 => At(h, "createPolicy")
           /\ k = 2 => At(h, "record")
           /\ k = 1 => At(h, "cachePolicy")
  <1>1. PICK todo : todo = handler[h].todo
    OBVIOUS
  <1>2. todo \in Seq(Calls) /\ SavesAt(todo, k)
    BY <1>1 DEF Requests, Fits
  <1>3. 1 \in 1..Len(todo) /\ Head(todo) = todo[1] /\ todo # <<>>
    BY <1>2 DEF SavesAt
  <1> QED BY <1>1, <1>2, <1>3 DEF SavesAt, At

LEMMA KeepsQuiet ==
    ASSUME Requests, PolicyOrSave, policyRows' = policyRows, userIds' = userIds,
           cutOff' = cutOff, NEW h \in Handlers, NEW call, At(h, call),
           call \notin {"createPolicy", "record", "cachePolicy"},
           \A g \in Handlers \ {h} : handler'[g] = handler[g]
    PROVE  PolicyOrSave'
  <1>1. \A id : ~replaces(h, id)
    BY Replacing DEF replaces, At
  <1>2. SUFFICES ASSUME NEW u \in Users \ cutOff, rowsOf(userIds[u]) # {},
                        activeRows(userIds[u]) = {}
                 PROVE  \E g \in serving(u)' : replaces(g, userIds[u])'
    BY DEF PolicyOrSave, rowsOf, activeRows
  <1>3. PICK g \in serving(u) : replaces(g, userIds[u])
    BY <1>2 DEF PolicyOrSave
  <1>4. g \in Handlers \ {h} /\ handler'[g] = handler[g]
    BY <1>1, <1>3 DEF serving
  <1> QED BY <1>3, <1>4 DEF serving, replaces

\* The call before the policy is saved is made.
LEMMA SavesSooner ==
    ASSUME NEW todo \in Seq(Calls), NEW k \in 2..5, SavesAt(todo, k)
    PROVE  LET rest == SubSeq(todo, 2, Len(todo)) IN rest # <<>> /\ SavesAt(rest, k - 1)
  <1>1. PICK rest : rest = SubSeq(todo, 2, Len(todo))
    OBVIOUS
  <1>2. /\ rest \in Seq(Calls) /\ Len(rest) = Len(todo) - 1
        /\ \A j \in 1..Len(rest) : rest[j] = todo[j + 1]
    BY <1>1 DEF SavesAt
  <1>3. k - 1 \in 1..Len(rest) /\ rest # <<>> /\ rest[k - 1] = "cachePolicy"
    BY <1>2 DEF SavesAt
  <1>4. rest = SubSeq(todo, 1 + 1, Len(todo)) /\ 1 \in {1, 2, 5}
    BY <1>1
  <1>5. /\ SavesNothing(rest) \/ \E i \in 1..Len(rest) : SavesAt(rest, i)
        /\ \A i \in 1..Len(rest) : SavesAt(rest, i) => SavesAt(todo, i + 1)
    <2>1. k \in 1..Len(todo)
      BY DEF SavesAt
    <2> QED BY <1>3, <1>4, <2>1, RestSaves
  <1>6. ~SavesNothing(rest)
    BY <1>3 DEF SavesNothing, SaveCalls
  <1>7. PICK i \in 1..Len(rest) : SavesAt(rest, i)
    BY <1>5, <1>6
  <1>8. i + 1 = k
    BY <1>5, <1>7, SavesOnce
  <1>9. i = k - 1
    BY <1>8
  <1> QED BY <1>1, <1>3, <1>7, <1>9

\* The calls between goes on with the same row.
LEMMA KeepsOn ==
    ASSUME Requests, PolicyOrSave, policyRows' = policyRows, userIds' = userIds,
           cutOff' = cutOff, NEW h \in Handlers, NEW call, At(h, call),
           call \in {"createPolicy", "record"}, NEW r, IsRequest(r),
           r.user = handler[h].user, r.id = handler[h].id, Skip(h, 1, r)
    PROVE  PolicyOrSave'
  <1>1. SUFFICES ASSUME NEW u \in Users \ cutOff, rowsOf(userIds[u]) # {},
                        activeRows(userIds[u]) = {}
                 PROVE  \E g \in serving(u)' : replaces(g, userIds[u])'
    BY DEF PolicyOrSave, rowsOf, activeRows
  <1>2. PICK g \in serving(u) : replaces(g, userIds[u])
    BY <1>1 DEF PolicyOrSave
  <1>3. CASE g # h
    <2>1. handler'[g] = handler[g]
      BY <1>2, <1>3 DEF Skip, Requests, serving
    <2> QED BY <1>2, <2>1 DEF serving, replaces
  <1>4. CASE g = h
    <2>1. PICK todo : todo = handler[h].todo
      OBVIOUS
    <2>2. PICK k \in 1..3 : SavesAt(todo, k)
      BY <1>2, <1>4, <2>1 DEF replaces
    <2>3. todo \in Seq(Calls)
      BY <2>1 DEF Requests, Fits
    <2>4. k \in 2..3 /\ k \in 2..5
      BY <2>1, <2>2, Replacing DEF At
    <2>5. PICK rest : rest = SubSeq(todo, 2, Len(todo)) /\ rest # <<>> /\ SavesAt(rest, k - 1)
      BY <2>2, <2>3, <2>4, SavesSooner
    <2>6. PICK x : x = [r EXCEPT !.todo = rest]
      OBVIOUS
    <2>7. x.user = r.user /\ x.id = r.id /\ x.todo = rest
      BY <2>6 DEF IsRequest
    <2>8. handler'[h] = x
      BY <2>1, <2>5, <2>6 DEF Skip, Requests
    <2>9. k - 1 \in 1..3
      BY <2>4
    <2> QED BY <1>2, <1>4, <2>5, <2>7, <2>8, <2>9 DEF serving, replaces
  <1> QED BY <1>3, <1>4

\* A request ends that is not replacing the policy of its user.
LEMMA OthersMove ==
    ASSUME Requests, NEW h \in Handlers, NEW x, handler' = [handler EXCEPT ![h] = x]
    PROVE  handler'[h] = x /\ \A g \in Handlers \ {h} : handler'[g] = handler[g]
  BY DEF Requests

\* A step that is about none of these: it ends the request, or it goes on with
\* the same row, version and policy.
LEMMA PlainStep ==
    ASSUME TablesInv, Rows', RowsGrow, policyRows' = policyRows, userIds' = userIds,
           cutOff' = cutOff, NEW h \in Handlers, NEW call, At(h, call),
           call \notin {"latestPolicy", "createPolicy", "record", "cachePolicy"},
           \/ Finish(h)
           \/ /\ call \notin RowTakers
              /\ \E n, r :
                        /\ MaySkip(handler[h], n) /\ IsRequest(r) /\ Skip(h, n, r)
                        /\ r.user = handler[h].user /\ r.id = handler[h].id
                        /\ r.version = handler[h].version /\ r.policy = handler[h].policy
                        /\ r.credit = NoContract \/ r.credit[1] = "PayrollCredit"
    PROVE  TablesInv'
  <1>1. Requests /\ Rows /\ PolicyOrSave
    BY DEF TablesInv
  <1>2. Requests'
    <2>1. CASE Finish(h)
      BY <1>1, <2>1, FinishRequests
    <2>2. ASSUME call \notin RowTakers,
                 NEW n, NEW r, MaySkip(handler[h], n), IsRequest(r), Skip(h, n, r),
                 r.user = handler[h].user, r.id = handler[h].id,
                 r.version = handler[h].version, r.policy = handler[h].policy,
                 r.credit = NoContract \/ r.credit[1] = "PayrollCredit"
          PROVE  Requests'
      <3>1. Remembers(r, handler[h], userIds', nextId')
        BY <1>1, <2>2, PlainMemory
      <3> QED BY <1>1, <2>2, <3>1, SkipRequests
    <2> QED BY <2>1, <2>2
  <1>3. \A g \in Handlers \ {h} : handler'[g] = handler[g]
    BY <1>1 DEF Finish, Skip, Requests
  <1>4. PolicyOrSave'
    BY <1>1, <1>3, KeepsQuiet
  <1> QED BY <1>2, <1>4 DEF TablesInv

\* A step that remembers another row of the user.
LEMMA RowStep ==
    ASSUME TablesInv, Rows', RowsGrow, NEW h \in Handlers, NEW call, At(h, call),
           call \in {"getRequiredUser", "upsertUser", "findUser"}, NEW id \in 1..(nextId' - 1),
           \A u \in Users : userIds'[u] = id => u = handler[h].user,
           GoOn(h, [handler[h] EXCEPT !.id = id])
    PROVE  Requests' /\ \A g \in Handlers \ {h} : handler'[g] = handler[g]
  <1>1. Requests /\ Rows
    BY DEF TablesInv
  <1>2. PICK r, w : r = [handler[h] EXCEPT !.id = id] /\ w = handler[h]
    OBVIOUS
  <1>3. /\ IsRequest(w) /\ MaySkip(w, 1) /\ Head(w.todo) = call /\ w.version \in 0..nextId
        /\ w.credit = NoContract \/ w.credit[1] = "PayrollCredit"
    BY <1>1, <1>2, AtCall
  <1>4. /\ IsRequest(r) /\ r.id = id /\ r.user = w.user /\ r.version = w.version
        /\ r.policy = w.policy /\ r.credit = w.credit
    BY <1>2, <1>3 DEF IsRequest
  <1>5. Skip(h, 1, r)
    BY <1>2 DEF GoOn
  <1>6. PICK ids, next : ids = userIds' /\ next = nextId'
    OBVIOUS
  <1>7. w.version \in 0..next
    BY <1>3, <1>6 DEF RowsGrow
  <1>8. Remembers(r, w, ids, next)
    BY <1>2, <1>3, <1>4, <1>6, <1>7 DEF Remembers
  <1>9. Requests'
    BY <1>1, <1>2, <1>3, <1>5, <1>6, <1>8, SkipRequests
  <1> QED BY <1>1, <1>5, <1>9 DEF Skip, Requests

LEMMA getRequiredUserTables ==
    ASSUME TablesInv, NEW h \in Handlers, getRequiredUser(h) PROVE TablesInv'
  <1>1. /\ At(h, "getRequiredUser") /\ UNCHANGED tables /\ policyRows' = policyRows
        /\ userIds' = userIds /\ nextId' = nextId /\ cutOff' = cutOff
    BY DEF getRequiredUser, Unchanged, tables, Counters
  <1>2. Requests /\ Rows /\ PolicyOrSave /\ Rows' /\ RowsGrow
    BY <1>1, RowsStay DEF TablesInv
  <1>3. CASE Finish(h)
    BY <1>1, <1>2, <1>3, PlainStep
  <1>4. CASE /\ userIds[handler[h].user] # 0
              /\ GoOn(h, [handler[h] EXCEPT !.id = userIds[handler[h].user]])
    <2>1. handler[h].user \in Users
      BY <1>1, <1>2, AtCall
    <2>2. PICK id : id = userIds[handler[h].user]
      OBVIOUS
    <2>3. /\ id \in 1..(nextId' - 1)
          /\ \A u \in Users : userIds'[u] = id => u = handler[h].user
      BY <1>1, <1>2, <1>4, <2>1, <2>2 DEF Rows
    <2>4. GoOn(h, [handler[h] EXCEPT !.id = id])
      BY <1>4, <2>2
    <2>5. Requests' /\ \A g \in Handlers \ {h} : handler'[g] = handler[g]
      BY <1>1, <1>2, <2>3, <2>4, RowStep
    <2>6. PolicyOrSave'
      BY <1>1, <1>2, <2>5, KeepsQuiet
    <2> QED BY <1>2, <2>5, <2>6 DEF TablesInv
  <1> QED BY <1>3, <1>4 DEF getRequiredUser

LEMMA FindUserTables ==
    ASSUME TablesInv, NEW h \in Handlers, FindUser(h) PROVE TablesInv'
  <1>1. /\ At(h, "findUser") /\ UNCHANGED tables /\ policyRows' = policyRows
        /\ userIds' = userIds /\ nextId' = nextId /\ cutOff' = cutOff
    BY DEF FindUser, Unchanged, tables, Counters
  <1>2. Requests /\ Rows /\ PolicyOrSave /\ Rows' /\ RowsGrow
    BY <1>1, RowsStay DEF TablesInv
  <1>3. CASE Skip(h, 5, handler[h])
    <2>1. PICK r : r = handler[h]
      OBVIOUS
    <2>2. /\ IsRequest(r) /\ (r.credit = NoContract \/ r.credit[1] = "PayrollCredit")
          /\ Head(r.todo) = "findUser" /\ r.todo # <<>>
      BY <1>1, <1>2, <2>1, AtCall
    <2>3. MaySkip(handler[h], 5) /\ Skip(h, 5, r)
      BY <1>3, <2>1, <2>2 DEF MaySkip
    <2> QED BY <1>1, <1>2, <2>1, <2>2, <2>3, PlainStep DEF RowTakers
  <1>4. CASE /\ userIds[handler[h].user] # 0
              /\ GoOn(h, [handler[h] EXCEPT !.id = userIds[handler[h].user]])
    <2>1. handler[h].user \in Users
      BY <1>1, <1>2, AtCall
    <2>2. PICK id : id = userIds[handler[h].user]
      OBVIOUS
    <2>3. /\ id \in 1..(nextId' - 1)
          /\ \A u \in Users : userIds'[u] = id => u = handler[h].user
      BY <1>1, <1>2, <1>4, <2>1, <2>2 DEF Rows
    <2>4. GoOn(h, [handler[h] EXCEPT !.id = id])
      BY <1>4, <2>2
    <2>5. Requests' /\ \A g \in Handlers \ {h} : handler'[g] = handler[g]
      BY <1>1, <1>2, <2>3, <2>4, RowStep
    <2>6. PolicyOrSave'
      BY <1>1, <1>2, <2>5, KeepsQuiet
    <2> QED BY <1>2, <2>5, <2>6 DEF TablesInv
  <1> QED BY <1>3, <1>4 DEF FindUser

\* The row of a new user has no policies yet.
LEMMA UpsertUserTables ==
    ASSUME TablesInv, NEW h \in Handlers, UpsertUser(h) PROVE TablesInv'
  <1>1. PICK u, id : u = handler[h].user /\ id = IF userIds[u] = 0 THEN nextId ELSE userIds[u]
    OBVIOUS
  <1>2. /\ At(h, "upsertUser") /\ userIds' = [userIds EXCEPT ![u] = id]
        /\ nextId' = IF id = nextId THEN nextId + 1 ELSE nextId
        /\ GoOn(h, [handler[h] EXCEPT !.id = id])
        /\ policyRows' = policyRows /\ intents' = intents /\ agentRows' = agentRows
        /\ cutOff' = cutOff
    BY <1>1 DEF UpsertUser, OnlyTables, Counters
  <1>3. Requests /\ Rows /\ PolicyOrSave
    BY DEF TablesInv
  <1>4. u \in Users
    BY <1>1, <1>2, <1>3, AtCall
  <1>5. /\ nextId \in Nat \ {0} /\ userIds \in [Users -> 0..(nextId - 1)]
        /\ \A v, z \in Users : userIds[v] = userIds[z] /\ v # z => userIds[v] = 0
    BY <1>3 DEF Rows
  <1>6. /\ nextId' \in Nat \ {0} /\ nextId <= nextId' /\ id \in 1..(nextId' - 1)
        /\ id = nextId \/ (id = userIds[u] /\ nextId' = nextId)
    BY <1>1, <1>2, <1>4, <1>5
  <1>7. /\ userIds' \in [Users -> 0..(nextId' - 1)]
        /\ \A v \in Users : userIds'[v] = IF v = u THEN id ELSE userIds[v]
    BY <1>2, <1>4, <1>5, <1>6
  <1>8. \A v \in Users \ {u} : userIds[v] # id
    BY <1>4, <1>5, <1>6
  <1>9. Rows'
    <2>1. \A v, z \in Users : userIds'[v] = userIds'[z] /\ v # z => userIds'[v] = 0
      BY <1>5, <1>7, <1>8
    <2>2. \A r \in policyRows' :
              /\ IsPolicyRow(r) /\ r.user \in 1..(nextId' - 1) /\ r.version \in 1..(nextId' - 1)
              /\ r.active \in BOOLEAN
      BY <1>2, <1>3, <1>5, <1>6 DEF Rows
    <2>3. /\ \A i \in intents' :
              /\ IsIntent(i) /\ i.user \in 1..(nextId' - 1)
              /\ i.credit = NoContract \/ i.credit[1] = "PayrollCredit"
          /\ agentRows' \subseteq 1..(nextId' - 1)
      BY <1>2, <1>3, <1>5, <1>6 DEF Rows
    <2> QED BY <1>6, <1>7, <2>1, <2>2, <2>3 DEF Rows
  <1>10. RowsGrow
    BY <1>5, <1>6, <1>7 DEF RowsGrow
  <1>11. Requests' /\ \A g \in Handlers \ {h} : handler'[g] = handler[g]
    <2>1. id \in 1..(nextId' - 1) /\ \A v \in Users : userIds'[v] = id => v = handler[h].user
      BY <1>1, <1>6, <1>7, <1>8
    <2> QED BY <1>2, <1>9, <1>10, <2>1, RowStep
  <1>12. PolicyOrSave'
    <2>1. SUFFICES ASSUME NEW v \in Users \ cutOff, rowsOf(userIds'[v]) # {},
                          activeRows(userIds'[v]) = {}
                   PROVE  \E g \in serving(v)' : handler'[g].id = userIds'[v] /\
                              \E k \in 1..3 : SavesAt(handler'[g].todo, k)
      BY <1>2 DEF PolicyOrSave, rowsOf, activeRows, replaces
    <2>2. userIds'[v] = userIds[v]
      <3>1. rowsOf(nextId) = {}
        BY <1>3, <1>5 DEF Rows, rowsOf
      <3> QED BY <1>6, <1>7, <2>1, <3>1
    <2>3. PICK g \in serving(v) : replaces(g, userIds[v])
      BY <1>3, <2>1, <2>2 DEF PolicyOrSave
    <2>4. g # h
      BY <1>2, <1>3, <2>3, Replacing DEF replaces, At
    <2>5. g \in Handlers /\ handler'[g] = handler[g]
      BY <1>11, <2>3, <2>4 DEF serving
    <2> QED BY <2>2, <2>3, <2>5 DEF serving, replaces
  <1> QED BY <1>9, <1>11, <1>12 DEF TablesInv

\* A request whose user lost its row does not replace policies of that user.
LEMMA RecordCantonContractTables ==
    ASSUME TablesInv, NEW h \in Handlers, RecordCantonContract(h) PROVE TablesInv'
  <1>1. /\ At(h, "record") /\ UNCHANGED tables /\ policyRows' = policyRows
        /\ userIds' = userIds /\ nextId' = nextId /\ cutOff' = cutOff
    BY DEF RecordCantonContract, Unchanged, tables, Counters
  <1>2. Requests /\ Rows /\ PolicyOrSave /\ Rows' /\ RowsGrow
    BY <1>1, RowsStay DEF TablesInv
  <1>3. CASE Proceed(h)
    <2>1. Requests'
      BY <1>1, <1>2, <1>3, ProceedRequests DEF RowTakers
    <2>2. PICK r : r = handler[h]
      OBVIOUS
    <2>3. IsRequest(r) /\ Skip(h, 1, r)
      BY <1>1, <1>2, <1>3, <2>2, AtCall DEF Proceed, GoOn
    <2>4. PolicyOrSave'
      BY <1>1, <1>2, <2>2, <2>3, KeepsOn
    <2> QED BY <1>2, <2>1, <2>4 DEF TablesInv
  <1>4. CASE ~hasUser(h) /\ Finish(h)
    <2>1. Requests'
      BY <1>2, <1>4, FinishRequests
    <2>2. PolicyOrSave'
      <3>1. SUFFICES ASSUME NEW v \in Users \ cutOff, rowsOf(userIds[v]) # {},
                            activeRows(userIds[v]) = {}
                     PROVE  \E g \in serving(v)' : replaces(g, userIds[v])'
        BY <1>1 DEF PolicyOrSave, rowsOf, activeRows
      <3>2. PICK g \in serving(v) : replaces(g, userIds[v])
        BY <1>2, <3>1 DEF PolicyOrSave
      <3>3. g # h
        BY <1>4, <3>2 DEF replaces, hasUser, serving
      <3>4. handler'[g] = handler[g]
        BY <1>2, <1>4, <3>2, <3>3 DEF Finish, Requests, serving
      <3> QED BY <1>1, <3>2, <3>4 DEF serving, replaces
    <2> QED BY <1>2, <2>1, <2>2 DEF TablesInv
  <1> QED BY <1>3, <1>4 DEF RecordCantonContract

\* Versions are bounded by the ids given out, so one is the highest.
LEMMA HighestVersion ==
    ASSUME Rows, NEW id
    PROVE  LET versions == {row.version : row \in rowsOf(id)} \cup {0}
               latest == CHOOSE v \in versions : \A w \in versions : v >= w
           IN  latest \in 0..(nextId - 1) /\ \A w \in versions : latest >= w
  <1>1. PICK versions : versions = {row.version : row \in rowsOf(id)} \cup {0}
    OBVIOUS
  <1>2. PICK next \in Nat \ {0} : next = nextId
    BY DEF Rows
  <1>3. versions \subseteq 0..(next - 1) /\ 0 \in versions
    BY <1>1, <1>2 DEF Rows, rowsOf
  <1>4. PICK gaps : gaps = {next - v : v \in versions}
    OBVIOUS
  <1>5. gaps \subseteq Nat /\ gaps # {}
    BY <1>3, <1>4
  <1>6. PICK m \in gaps : \A k \in gaps : m <= k
    BY <1>5, LeastNumber
  <1>7. PICK v \in versions : m = next - v
    BY <1>4
  <1>8. \A w \in versions : v >= w
    <2>1. SUFFICES ASSUME NEW w \in versions PROVE v >= w
      OBVIOUS
    <2>2. next - w \in gaps
      BY <1>4
    <2>3. m <= next - w /\ w \in 0..(next - 1) /\ v \in 0..(next - 1)
      BY <1>3, <1>6, <2>2
    <2> QED BY <1>7, <2>3
  <1>9. PICK latest : latest = CHOOSE x \in versions : \A w \in versions : x >= w
    OBVIOUS
  <1>10. latest \in versions /\ \A w \in versions : latest >= w
    BY <1>8, <1>9
  <1> QED BY <1>1, <1>2, <1>3, <1>9, <1>10

LEMMA LatestPolicyTables ==
    ASSUME TablesInv, NEW h \in Handlers, LatestPolicy(h) PROVE TablesInv'
  <1>1. /\ At(h, "latestPolicy") /\ UNCHANGED tables /\ policyRows' = policyRows
        /\ userIds' = userIds /\ nextId' = nextId /\ cutOff' = cutOff
    BY DEF LatestPolicy, Unchanged, tables, Counters
  <1>2. Requests /\ Rows /\ PolicyOrSave /\ Rows' /\ RowsGrow
    BY <1>1, RowsStay DEF TablesInv
  <1>3. PICK latest \in 0..(nextId - 1) : GoOn(h, [handler[h] EXCEPT !.version = latest + 1])
    BY <1>2, HighestVersion DEF LatestPolicy
  <1>4. PICK r, w : r = [handler[h] EXCEPT !.version = latest + 1] /\ w = handler[h]
    OBVIOUS
  <1>5. /\ IsRequest(w) /\ MaySkip(w, 1) /\ Head(w.todo) = "latestPolicy"
        /\ w.id \in 0..(nextId - 1)
        /\ w.id # 0 => \A u \in Users : userIds[u] = w.id => u = w.user
        /\ w.credit = NoContract \/ w.credit[1] = "PayrollCredit"
    BY <1>1, <1>2, <1>4, AtCall
  <1>6. /\ IsRequest(r) /\ r.id = w.id /\ r.user = w.user /\ r.version = latest + 1
        /\ r.policy = w.policy /\ r.credit = w.credit
    BY <1>4, <1>5 DEF IsRequest
  <1>7. PICK ids, next : ids = userIds' /\ next = nextId'
    OBVIOUS
  <1>8. r.version \in 1..next /\ next \in Nat
    BY <1>1, <1>2, <1>3, <1>6, <1>7 DEF Rows
  <1>9. Remembers(r, w, ids, next)
    BY <1>1, <1>5, <1>6, <1>7, <1>8 DEF Remembers, RowTakers
  <1>10. Skip(h, 1, r)
    BY <1>3, <1>4 DEF GoOn
  <1>11. Requests'
    BY <1>2, <1>4, <1>5, <1>7, <1>9, <1>10, SkipRequests
  <1>12. \A g \in Handlers \ {h} : handler'[g] = handler[g]
    BY <1>2, <1>10 DEF Skip, Requests
  <1>13. PolicyOrSave'
    BY <1>1, <1>2, <1>12, KeepsQuiet
  <1> QED BY <1>2, <1>11, <1>13 DEF TablesInv

LEMMA CreatePolicyTables ==
    ASSUME TablesInv, NEW h \in Handlers, CreatePolicy(h) PROVE TablesInv'
  <1>1. /\ At(h, "createPolicy") /\ UNCHANGED tables /\ policyRows' = policyRows
        /\ userIds' = userIds /\ nextId' = nextId /\ cutOff' = cutOff
    BY DEF CreatePolicy, OnlyLedger, tables, Counters
  <1>2. Requests /\ Rows /\ PolicyOrSave /\ Rows' /\ RowsGrow
    BY <1>1, RowsStay DEF TablesInv
  <1>3. PICK id : GoOn(h, [handler[h] EXCEPT !.policyId = id, !.policy = {}])
    BY DEF CreatePolicy
  <1>4. PICK r, w : r = [handler[h] EXCEPT !.policyId = id, !.policy = {}] /\ w = handler[h]
    OBVIOUS
  <1>5. /\ IsRequest(w) /\ MaySkip(w, 1)
        /\ w.credit = NoContract \/ w.credit[1] = "PayrollCredit"
    BY <1>1, <1>2, <1>4, AtCall
  <1>6. /\ IsRequest(r) /\ r.id = w.id /\ r.user = w.user /\ r.version = w.version
        /\ r.credit = w.credit
    BY <1>4, <1>5 DEF IsRequest
  <1>7. Remembers(r, handler[h], userIds', nextId')
    BY <1>1, <1>2, <1>4, <1>5, <1>6, PlainMemory DEF RowTakers
  <1>8. Skip(h, 1, r)
    BY <1>3, <1>4 DEF GoOn
  <1>9. Requests'
    BY <1>2, <1>4, <1>5, <1>7, <1>8, SkipRequests
  <1>10. PolicyOrSave'
    BY <1>1, <1>2, <1>4, <1>6, <1>8, KeepsOn
  <1> QED BY <1>2, <1>9, <1>10 DEF TablesInv

\* The request that deactivates the rows of a user is of that user, and goes on
\* to save a policy.
LEMMA DeactivateTables ==
    ASSUME TablesInv, NEW h \in Handlers, Deactivate(h) PROVE TablesInv'
  <1>1. PICK old, new, id : /\ id = handler[h].id /\ old = activeRows(id)
                            /\ new = {[row EXCEPT !.active = FALSE] : row \in old}
    OBVIOUS
  <1>2. /\ At(h, "deactivate") /\ policyRows' = (policyRows \ old) \cup new /\ Proceed(h)
        /\ userIds' = userIds /\ intents' = intents /\ agentRows' = agentRows
        /\ nextId' = nextId /\ cutOff' = cutOff
    BY <1>1 DEF Deactivate, OnlyTables, Counters
  <1>3. Requests /\ Rows /\ PolicyOrSave
    BY DEF TablesInv
  <1>4. \A r \in new : \E row \in old :
            /\ IsPolicyRow(r) /\ r.user = row.user /\ r.version = row.version /\ r.active = FALSE
    <2>1. SUFFICES ASSUME NEW row \in old, NEW r, r = [row EXCEPT !.active = FALSE]
                   PROVE  /\ IsPolicyRow(r) /\ r.user = row.user /\ r.version = row.version
                          /\ r.active = FALSE
      BY <1>1
    <2>2. IsPolicyRow(row)
      BY <1>1, <1>3 DEF activeRows, rowsOf, Rows
    <2> QED BY <2>1, <2>2 DEF IsPolicyRow
  <1>5. old \subseteq policyRows /\ \A row \in old : row.user = id
    BY <1>1 DEF activeRows, rowsOf
  <1>6. Rows' /\ RowsGrow
    <2>1. \A r \in policyRows' :
              /\ IsPolicyRow(r) /\ r.user \in 1..(nextId' - 1) /\ r.version \in 1..(nextId' - 1)
              /\ r.active \in BOOLEAN
      BY <1>2, <1>3, <1>4, <1>5 DEF Rows
    <2>2. Rows'
      BY <1>2, <1>3, <2>1 DEF Rows
    <2>3. RowsGrow
      BY <1>2, <1>3 DEF Rows, RowsGrow
    <2> QED BY <2>2, <2>3
  <1>7. Requests'
    BY <1>2, <1>3, <1>6, ProceedRequests DEF RowTakers
  <1>8. \A g \in Handlers \ {h} : handler'[g] = handler[g]
    BY <1>2, <1>3 DEF Proceed, GoOn, Skip, Requests
  <1>9. \A i : i # id => rowsOf(i)' = rowsOf(i) /\ activeRows(i)' = activeRows(i)
    <2>1. \A i : i # id => rowsOf(i)' = rowsOf(i)
      BY <1>2, <1>4, <1>5 DEF rowsOf
    <2> QED BY <2>1 DEF activeRows
  <1>10. handler'[h].user = handler[h].user /\ handler'[h].id = id
         /\ \E k \in 1..3 : SavesAt(handler'[h].todo, k)
    <2>1. PICK w : w = handler[h]
      OBVIOUS
    <2>2. /\ w.todo \in Seq(Calls) /\ w.todo # <<>> /\ Head(w.todo) = "deactivate" /\ IsRequest(w)
          /\ SavesNothing(w.todo) \/ \E k \in 1..Len(w.todo) : SavesAt(w.todo, k)
      BY <1>2, <1>3, <2>1, AtCall DEF Requests, Fits
    <2>3. PICK todo \in Seq(Calls) : todo = w.todo
      BY <2>2
    <2>4. todo[1] = "deactivate" /\ 1 \in 1..Len(todo)
      BY <2>2, <2>3
    <2>5. PICK k \in 1..Len(todo) : SavesAt(todo, k)
      BY <2>2, <2>3, <2>4 DEF SavesNothing, SaveCalls
    <2>6. k = 4
      <3>1. 1 < k - 4 \/ 1 = k - 4 \/ 1 = k - 3 \/ 1 = k - 2 \/ 1 = k - 1 \/ 1 = k
        OBVIOUS
      <3>2. ~(1 < k - 4) /\ 1 # k - 4 /\ 1 # k - 2 /\ 1 # k - 1 /\ 1 # k
        BY <2>4, <2>5 DEF SavesAt, EarlyCalls
      <3> QED BY <3>1, <3>2
    <2>7. PICK rest : rest = SubSeq(todo, 2, Len(todo))
      OBVIOUS
    <2>8. /\ rest \in Seq(Calls) /\ Len(rest) = Len(todo) - 1 /\ Len(rest) >= 3 /\ rest # <<>>
          /\ \A j \in 1..Len(rest) : rest[j] = todo[j + 1]
      <3>1. Len(todo) >= 4 /\ Len(todo) \in Nat
        BY <2>5, <2>6 DEF SavesAt
      <3>2. rest \in Seq(Calls) /\ Len(rest) = Len(todo) - 1
        BY <2>7, <3>1
      <3>3. \A j \in 1..Len(rest) : rest[j] = todo[j + 1]
        BY <2>7, <3>1
      <3> QED BY <3>1, <3>2, <3>3
    <2>9. SavesAt(rest, 3)
      <3>1. rest = SubSeq(todo, 1 + 1, Len(todo))
        BY <2>7
      <3>2. /\ SavesNothing(rest) \/ \E i \in 1..Len(rest) : SavesAt(rest, i)
            /\ \A i \in 1..Len(rest) : SavesAt(rest, i) => SavesAt(todo, i + 1)
        BY <2>5, <2>8, <3>1, RestSaves
      <3>3. todo[4] = "cachePolicy" /\ rest[3] = "cachePolicy"
        BY <2>5, <2>6, <2>8 DEF SavesAt
      <3>4. ~SavesNothing(rest)
        BY <2>8, <3>3 DEF SavesNothing, SaveCalls
      <3>5. PICK i \in 1..Len(rest) : SavesAt(rest, i)
        BY <3>2, <3>4
      <3>6. i + 1 = 4
        BY <2>5, <2>6, <3>2, <3>5, SavesOnce
      <3>7. i = 3
        BY <3>6
      <3> QED BY <3>5, <3>7
    <2>10. PICK x : x = [w EXCEPT !.todo = rest]
      OBVIOUS
    <2>11. x.user = w.user /\ x.id = w.id /\ x.todo = rest
      BY <2>2, <2>10 DEF IsRequest
    <2>12. handler'[h] = x
      BY <1>2, <1>3, <2>1, <2>3, <2>7, <2>8, <2>10 DEF Proceed, GoOn, Skip, Requests
    <2>13. x.user = handler[h].user /\ x.id = id /\ \E i \in 1..3 : SavesAt(x.todo, i)
      BY <1>1, <2>1, <2>9, <2>11
    <2> QED BY <2>12, <2>13
  <1>11. PolicyOrSave'
    <2>1. SUFFICES ASSUME NEW u \in Users \ cutOff, rowsOf(userIds[u])' # {},
                          activeRows(userIds[u])' = {}
                   PROVE  \E g \in serving(u)' : replaces(g, userIds[u])'
      BY <1>2 DEF PolicyOrSave, rowsOf, activeRows
    <2>2. CASE userIds[u] = id
      <3>1. id # 0
        BY <1>6, <2>1, <2>2, <1>2 DEF Rows, rowsOf
      <3>2. u = handler[h].user
        BY <1>1, <1>2, <1>3, <2>2, <3>1, AtCall
      <3> QED BY <1>2, <1>10, <2>2, <3>2 DEF serving, replaces
    <2>3. CASE userIds[u] # id
      <3>1. rowsOf(userIds[u]) # {} /\ activeRows(userIds[u]) = {}
        <4>1. PICK i : i = userIds[u]
          OBVIOUS
        <4>2. rowsOf(i)' # {} /\ activeRows(i)' = {}
          BY <1>2, <2>1, <4>1 DEF rowsOf, activeRows
        <4>3. rowsOf(i) # {} /\ activeRows(i) = {}
          BY <1>9, <2>3, <4>1, <4>2
        <4> QED BY <4>1, <4>3
      <3>2. PICK g \in serving(u) : replaces(g, userIds[u])
        BY <1>3, <2>1, <3>1 DEF PolicyOrSave
      <3>3. g \in Handlers /\ g # h
        BY <1>1, <2>3, <3>2 DEF replaces, serving
      <3>4. handler'[g] = handler[g]
        BY <1>8, <3>3
      <3> QED BY <1>2, <3>2, <3>3, <3>4 DEF serving, replaces
    <2> QED BY <2>2, <2>3
  <1> QED BY <1>6, <1>7, <1>11 DEF TablesInv

LEMMA CachePolicyTables ==
    ASSUME TablesInv, NEW h \in Handlers, CachePolicy(h) PROVE TablesInv'
  <1>1. /\ At(h, "cachePolicy") /\ userIds' = userIds /\ intents' = intents
        /\ agentRows' = agentRows /\ cutOff' = cutOff
    BY DEF CachePolicy, OnlyTables, Counters
  <1>2. Requests /\ Rows /\ PolicyOrSave
    BY DEF TablesInv
  <1>3. CASE ~hasUser(h)
    <2>0. Finish(h) /\ policyRows' = policyRows /\ nextId' = nextId
      BY <1>3 DEF CachePolicy
    <2>1. Rows' /\ RowsGrow
      BY <1>1, <1>2, <2>0 DEF Rows, RowsGrow
    <2>2. Requests'
      BY <1>2, <2>0, <2>1, FinishRequests
    <2>3. PolicyOrSave'
      <3>1. SUFFICES ASSUME NEW v \in Users \ cutOff, rowsOf(userIds[v]) # {},
                            activeRows(userIds[v]) = {}
                     PROVE  \E g \in serving(v)' : replaces(g, userIds[v])'
        BY <1>1, <2>0 DEF PolicyOrSave, rowsOf, activeRows
      <3>2. PICK g \in serving(v) : replaces(g, userIds[v])
        BY <1>2, <3>1 DEF PolicyOrSave
      <3>3. g # h
        BY <1>3, <3>2 DEF replaces, hasUser, serving
      <3>4. handler'[g] = handler[g]
        BY <1>2, <2>0, <3>2, <3>3 DEF Finish, Requests, serving
      <3> QED BY <1>1, <3>2, <3>4 DEF serving, replaces
    <2> QED BY <2>1, <2>2, <2>3 DEF TablesInv
  <1>4. CASE hasUser(h)
    <2>1. PICK row, w : /\ w = handler[h]
                        /\ row = [nr |-> nextId, user |-> w.id, contract |-> w.policyId,
                                  version |-> w.version, active |-> TRUE]
      OBVIOUS
    <2>2. policyRows' = policyRows \cup {row} /\ nextId' = nextId + 1 /\ Proceed(h)
      BY <1>4, <2>1 DEF CachePolicy
    <2>3. /\ IsPolicyRow(row) /\ row.user = w.id /\ row.version = w.version /\ row.active = TRUE
      BY <2>1 DEF IsPolicyRow
    <2>4. w.user \in Users /\ w.id = userIds[w.user] /\ w.version \in 0..nextId
          /\ w.id \in 1..(nextId - 1) /\ w.todo # <<>> /\ Head(w.todo) = "cachePolicy"
      BY <1>1, <1>2, <1>4, <2>1, AtCall DEF hasUser, RowCalls
    <2>5. w.version # 0
      <3>1. PICK todo \in Seq(Calls) : todo = w.todo
        BY <1>2, <2>1 DEF Requests, Fits
      <3>2. todo[1] = "cachePolicy" /\ 1 \in 1..Len(todo)
        BY <2>4, <3>1
      <3>3. PICK k \in 1..Len(todo) : SavesAt(todo, k)
        BY <1>2, <2>1, <3>1, <3>2 DEF Requests, Fits, SavesNothing, SaveCalls
      <3>4. k = 1
        <4>1. 1 < k - 4 \/ 1 = k - 4 \/ 1 = k - 3 \/ 1 = k - 2 \/ 1 = k - 1 \/ 1 = k
          OBVIOUS
        <4>2. ~(1 < k - 4) /\ 1 # k - 4 /\ 1 # k - 3 /\ 1 # k - 2 /\ 1 # k - 1
          BY <3>2, <3>3 DEF SavesAt, EarlyCalls
        <4> QED BY <4>1, <4>2
      <3>5. \A j \in 1..4 : SavesAt(w.todo, j) => w.version # 0
        BY <1>2, <2>1 DEF Requests, Fits
      <3> QED BY <3>1, <3>3, <3>4, <3>5
    <2>6. Rows' /\ RowsGrow
      <3>1. nextId \in Nat \ {0} /\ nextId' \in Nat \ {0} /\ nextId <= nextId'
        BY <1>2, <2>2 DEF Rows
      <3>2. \A r \in policyRows' :
                /\ IsPolicyRow(r) /\ r.user \in 1..(nextId' - 1) /\ r.version \in 1..(nextId' - 1)
                /\ r.active \in BOOLEAN
        <4>1. row.user \in 1..(nextId' - 1) /\ row.version \in 1..(nextId' - 1)
              /\ row.active \in BOOLEAN
          <5>1. PICK id, v : id = w.id /\ v = w.version
            OBVIOUS
          <5>2. /\ v \in 0..nextId /\ v # 0 /\ id \in 1..(nextId - 1)
                /\ nextId' = nextId + 1 /\ nextId \in Nat
            BY <1>2, <2>2, <2>4, <2>5, <5>1 DEF Rows
          <5>3. id \in 1..(nextId' - 1) /\ v \in 1..(nextId' - 1)
            BY <5>2
          <5> QED BY <2>3, <5>1, <5>3
        <4> QED BY <1>2, <2>2, <2>3, <3>1, <4>1 DEF Rows
      <3>3. Rows'
        BY <1>1, <1>2, <2>2, <3>1, <3>2 DEF Rows
      <3>4. RowsGrow
        BY <1>1, <1>2, <3>1 DEF Rows, RowsGrow
      <3> QED BY <3>3, <3>4
    <2>7. Requests'
      BY <1>1, <1>2, <2>2, <2>6, ProceedRequests DEF RowTakers
    <2>8. PolicyOrSave'
      <3>1. SUFFICES ASSUME NEW v \in Users \ cutOff, rowsOf(userIds[v])' # {},
                            activeRows(userIds[v])' = {}
                     PROVE  \E g \in serving(v)' : replaces(g, userIds[v])'
        BY <1>1 DEF PolicyOrSave, rowsOf, activeRows
      <3>2. PICK id : id = userIds[v]
        OBVIOUS
      <3>3. id # w.id
        BY <1>1, <2>2, <2>3, <3>1, <3>2 DEF rowsOf, activeRows
      <3>4. rowsOf(id)' = rowsOf(id) /\ activeRows(id)' = activeRows(id)
        <4>1. rowsOf(id)' = rowsOf(id)
          BY <2>2, <2>3, <3>3 DEF rowsOf
        <4> QED BY <4>1 DEF activeRows
      <3>5. rowsOf(id)' # {} /\ activeRows(id)' = {}
        BY <1>1, <3>1, <3>2 DEF rowsOf, activeRows
      <3>6. PICK g \in serving(v) : replaces(g, id)
        BY <1>2, <3>1, <3>2, <3>4, <3>5 DEF PolicyOrSave
      <3>7. g \in Handlers /\ g # h
        BY <2>1, <3>3, <3>6 DEF replaces, serving
      <3>8. handler'[g] = handler[g]
        BY <1>2, <2>2, <3>7 DEF Proceed, GoOn, Skip, Requests
      <3> QED BY <1>1, <3>2, <3>6, <3>7, <3>8 DEF serving, replaces
    <2> QED BY <2>6, <2>7, <2>8 DEF TablesInv
  <1> QED BY <1>3, <1>4

-----------------------------------------------------------------------------
(* The other steps                                                         *)

LEMMA SameRows ==
    ASSUME Rows, userIds' = userIds, policyRows' = policyRows, intents' = intents,
           agentRows' = agentRows, nextId' = nextId
    PROVE  Rows' /\ RowsGrow
  BY DEF Rows, RowsGrow

\* Calls after which a request goes on as it was, or ends.
PlainCalls == Calls \ ({"latestPolicy", "createPolicy", "record", "cachePolicy"} \cup RowTakers)

LEMMA ProceedStep ==
    ASSUME TablesInv, Rows', RowsGrow, policyRows' = policyRows, userIds' = userIds,
           cutOff' = cutOff, NEW h \in Handlers, NEW call, At(h, call), call \in PlainCalls,
           Proceed(h) \/ Finish(h)
    PROVE  TablesInv'
  <1>1. call \notin {"latestPolicy", "createPolicy", "record", "cachePolicy"} \cup RowTakers
    BY DEF PlainCalls
  <1>2. Requests
    BY DEF TablesInv
  <1>3. PICK r : r = handler[h]
    OBVIOUS
  <1>4. IsRequest(r) /\ (r.credit = NoContract \/ r.credit[1] = "PayrollCredit")
        /\ MaySkip(handler[h], 1)
    BY <1>2, <1>3, AtCall
  <1>5. Proceed(h) => Skip(h, 1, r)
    BY <1>3 DEF Proceed, GoOn
  <1> QED BY <1>1, <1>3, <1>4, <1>5, PlainStep

\* Calls after which it remembers contracts or an intent.
LEMMA GoOnStep ==
    ASSUME TablesInv, Rows', RowsGrow, policyRows' = policyRows, userIds' = userIds,
           cutOff' = cutOff, NEW h \in Handlers, NEW call, At(h, call), call \in PlainCalls,
           NEW r, GoOn(h, r), IsRequest(r),
           r.user = handler[h].user, r.id = handler[h].id, r.version = handler[h].version,
           r.policy = handler[h].policy, r.credit = NoContract \/ r.credit[1] = "PayrollCredit"
    PROVE  TablesInv'
  <1>1. call \notin {"latestPolicy", "createPolicy", "record", "cachePolicy"} \cup RowTakers
    BY DEF PlainCalls
  <1>2. MaySkip(handler[h], 1)
    BY AtCall DEF TablesInv
  <1>3. Skip(h, 1, r)
    BY DEF GoOn
  <1> QED BY <1>1, <1>2, <1>3, PlainStep

\* The calls that only write the ledger.
LEMMA LedgerOnlyTables ==
    ASSUME TablesInv, NEW h \in Handlers,
           \/ ensureDemoParties(h) \/ CreateProfile(h) \/ CreateNotice(h) \/ CreateAudit(h)
           \/ GetPendingAction(h) \/ DeleteDemoParties(h) \/ ResetLedger(h)
    PROVE  TablesInv'
  <1>1. /\ userIds' = userIds /\ policyRows' = policyRows /\ intents' = intents
        /\ agentRows' = agentRows /\ nextId' = nextId /\ cutOff' = cutOff
        /\ Proceed(h) \/ Finish(h)
    BY DEF ensureDemoParties, CreateProfile, CreateNotice, CreateAudit, GetPendingAction,
           DeleteDemoParties, ResetLedger, OnlyLedger, OnlyTables, Unchanged, tables, Counters
  <1>2. PICK call \in PlainCalls : At(h, call)
    BY DEF ensureDemoParties, CreateProfile, CreateNotice, CreateAudit, GetPendingAction,
           DeleteDemoParties, ResetLedger, PlainCalls, Calls, SaveCalls, EarlyCalls, RowTakers
  <1>3. Rows' /\ RowsGrow
    BY <1>1, SameRows DEF TablesInv
  <1> QED BY <1>1, <1>2, <1>3, ProceedStep

LEMMA QueryProfileTables ==
    ASSUME TablesInv, NEW h \in Handlers, QueryProfile(h) PROVE TablesInv'
  <1>1. /\ At(h, "queryProfile") /\ UNCHANGED tables /\ policyRows' = policyRows
        /\ userIds' = userIds /\ nextId' = nextId /\ cutOff' = cutOff
    BY DEF QueryProfile, Unchanged, tables, Counters
  <1>2. Requests /\ Rows' /\ RowsGrow
    BY <1>1, RowsStay DEF TablesInv
  <1>3. CASE Proceed(h)
    <2>1. "queryProfile" \in PlainCalls
      BY DEF PlainCalls, Calls, EarlyCalls, RowTakers
    <2> QED BY <1>1, <1>2, <1>3, <2>1, ProceedStep
  <1>4. CASE Skip(h, 2, handler[h])
    <2>1. PICK r : r = handler[h]
      OBVIOUS
    <2>2. /\ IsRequest(r) /\ (r.credit = NoContract \/ r.credit[1] = "PayrollCredit")
          /\ Head(r.todo) = "queryProfile" /\ r.todo # <<>>
      BY <1>1, <1>2, <2>1, AtCall
    <2>3. MaySkip(handler[h], 2) /\ Skip(h, 2, r)
      BY <1>4, <2>1, <2>2 DEF MaySkip
    <2> QED BY <1>1, <1>2, <2>1, <2>2, <2>3, PlainStep DEF RowTakers
  <1> QED BY <1>3, <1>4 DEF QueryProfile

\* What a request remembers of the ledger leaves the rest as it was.
LEMMA ContractTables ==
    ASSUME TablesInv, NEW h \in Handlers, userIds' = userIds, policyRows' = policyRows,
           intents' = intents, agentRows' = agentRows, nextId' = nextId, cutOff' = cutOff,
           NEW call \in PlainCalls, At(h, call), NEW a, NEW b,
           \/ Finish(h)
           \/ GoOn(h, [handler[h] EXCEPT !.policyId = a, !.payroll = b])
           \/ GoOn(h, [handler[h] EXCEPT !.action = a, !.due = b])
           \/ GoOn(h, [handler[h] EXCEPT !.action = a])
           \/ GoOn(h, [handler[h] EXCEPT !.run = a, !.runId = b])
    PROVE  TablesInv'
  <1>1. Requests /\ Rows' /\ RowsGrow
    BY SameRows DEF TablesInv
  <1>2. CASE Finish(h)
    BY <1>1, <1>2, ProceedStep
  <1>3. CASE ~Finish(h)
    <2>1. PICK w : w = handler[h]
      OBVIOUS
    <2>2. IsRequest(w) /\ (w.credit = NoContract \/ w.credit[1] = "PayrollCredit")
      BY <1>1, <2>1, AtCall
    <2>3. PICK r : /\ GoOn(h, r)
                   /\ \/ r = [w EXCEPT !.policyId = a, !.payroll = b]
                      \/ r = [w EXCEPT !.action = a, !.due = b]
                      \/ r = [w EXCEPT !.action = a]
                      \/ r = [w EXCEPT !.run = a, !.runId = b]
      BY <1>3, <2>1
    <2>4. /\ IsRequest(r) /\ r.user = w.user /\ r.id = w.id /\ r.version = w.version
          /\ r.policy = w.policy /\ r.credit = w.credit
      <3>1. CASE r = [w EXCEPT !.policyId = a, !.payroll = b]
        BY <2>2, <3>1 DEF IsRequest
      <3>2. CASE r = [w EXCEPT !.action = a, !.due = b]
        BY <2>2, <3>2 DEF IsRequest
      <3>3. CASE r = [w EXCEPT !.action = a]
        BY <2>2, <3>3 DEF IsRequest
      <3>4. CASE r = [w EXCEPT !.run = a, !.runId = b]
        BY <2>2, <3>4 DEF IsRequest
      <3> QED BY <2>3, <3>1, <3>2, <3>3, <3>4
    <2> QED BY <1>1, <2>1, <2>2, <2>3, <2>4, GoOnStep
  <1> QED BY <1>2, <1>3

LEMMA LoadPolicyAndCreditTables ==
    ASSUME TablesInv, NEW h \in Handlers, LoadPolicyAndCredit(h) PROVE TablesInv'
  <1>1. /\ userIds' = userIds /\ policyRows' = policyRows /\ intents' = intents
        /\ agentRows' = agentRows /\ nextId' = nextId /\ cutOff' = cutOff
        /\ At(h, "loadPolicyAndCredit")
    BY DEF LoadPolicyAndCredit, Unchanged, tables, Counters
  <1>2. PICK a, b : Finish(h) \/ GoOn(h, [handler[h] EXCEPT !.policyId = a, !.payroll = b])
    BY DEF LoadPolicyAndCredit
  <1>3. "loadPolicyAndCredit" \in PlainCalls
    BY DEF PlainCalls, Calls, SaveCalls, EarlyCalls, RowTakers
  <1> QED BY <1>1, <1>2, <1>3, ContractTables

LEMMA CreateRunTables ==
    ASSUME TablesInv, NEW h \in Handlers, CreateRun(h) PROVE TablesInv'
  <1>1. /\ userIds' = userIds /\ policyRows' = policyRows /\ intents' = intents
        /\ agentRows' = agentRows /\ nextId' = nextId /\ cutOff' = cutOff
        /\ At(h, "createRun")
    BY DEF CreateRun, tables, Counters
  <1>2. PICK a, b : GoOn(h, [handler[h] EXCEPT !.run = a, !.runId = b])
    BY DEF CreateRun
  <1>3. "createRun" \in PlainCalls
    BY DEF PlainCalls, Calls, SaveCalls, EarlyCalls, RowTakers
  <1> QED BY <1>1, <1>2, <1>3, ContractTables

LEMMA CollectActionsTables ==
    ASSUME TablesInv, NEW h \in Handlers, CollectActions(h) PROVE TablesInv'
  <1>1. /\ userIds' = userIds /\ policyRows' = policyRows /\ intents' = intents
        /\ agentRows' = agentRows /\ nextId' = nextId /\ cutOff' = cutOff
        /\ At(h, "collectActions")
    BY DEF CollectActions, Unchanged, tables, Counters
  <1>2. PICK a, b : Finish(h) \/ GoOn(h, [handler[h] EXCEPT !.action = a, !.due = b])
    BY DEF CollectActions
  <1>3. "collectActions" \in PlainCalls
    BY DEF PlainCalls, Calls, SaveCalls, EarlyCalls, RowTakers
  <1> QED BY <1>1, <1>2, <1>3, ContractTables

LEMMA ExerciseTables ==
    ASSUME TablesInv, NEW h \in Handlers,
           ApprovePendingAction(h) \/ RejectPendingAction(h) \/ ExecuteApprovedAction(h)
    PROVE  TablesInv'
  <1>1. PICK call, choice :
            /\ call \in {"approve", "reject", "executeAction"}
            /\ At(h, call) /\ Exercise(h, choice)
    BY DEF ApprovePendingAction, RejectPendingAction, ExecuteApprovedAction
  <1>2. /\ userIds' = userIds /\ policyRows' = policyRows /\ intents' = intents
        /\ agentRows' = agentRows /\ nextId' = nextId /\ cutOff' = cutOff
    BY <1>1 DEF Exercise, OnlyLedger, tables, Counters
  <1>3. PICK a : Finish(h) \/ GoOn(h, [handler[h] EXCEPT !.action = a])
    BY <1>1 DEF Exercise
  <1>4. call \in PlainCalls
    BY <1>1 DEF PlainCalls, Calls, SaveCalls, EarlyCalls, RowTakers
  <1> QED BY <1>1, <1>2, <1>3, <1>4, ContractTables

LEMMA CreditTables ==
    ASSUME TablesInv, NEW h \in Handlers, Rows', RowsGrow, userIds' = userIds,
           policyRows' = policyRows, cutOff' = cutOff,
           NEW call \in PlainCalls, At(h, call), NEW a, NEW b, NEW c,
           c = NoContract \/ c[1] = "PayrollCredit",
           \/ GoOn(h, [handler[h] EXCEPT !.credit = c])
           \/ GoOn(h, [handler[h] EXCEPT !.run = a, !.credit = c, !.policyId = b])
    PROVE  TablesInv'
  <1>1. Requests
    BY DEF TablesInv
  <1>2. PICK w : w = handler[h]
    OBVIOUS
  <1>3. IsRequest(w)
    BY <1>1, <1>2, AtCall
  <1>4. PICK r : /\ GoOn(h, r)
                 /\ \/ r = [w EXCEPT !.credit = c]
                    \/ r = [w EXCEPT !.run = a, !.credit = c, !.policyId = b]
    BY <1>2
  <1>5. /\ IsRequest(r) /\ r.user = w.user /\ r.id = w.id /\ r.version = w.version
        /\ r.policy = w.policy /\ r.credit = c
    <2>1. CASE r = [w EXCEPT !.credit = c]
      BY <1>3, <2>1 DEF IsRequest
    <2>2. CASE r = [w EXCEPT !.run = a, !.credit = c, !.policyId = b]
      BY <1>3, <2>2 DEF IsRequest
    <2> QED BY <1>4, <2>1, <2>2
  <1> QED BY <1>2, <1>4, <1>5, GoOnStep

LEMMA ExecuteRunTables ==
    ASSUME TablesInv, NEW h \in Handlers, ExecuteRun(h) PROVE TablesInv'
  <1>1. /\ userIds' = userIds /\ policyRows' = policyRows /\ intents' = intents
        /\ agentRows' = agentRows /\ nextId' = nextId /\ cutOff' = cutOff
        /\ At(h, "executeRun")
    BY DEF ExecuteRun, OnlyLedger, tables, Counters
  <1>2. PICK a : a = NoContract
    OBVIOUS
  <1>3. Finish(h) \/ GoOn(h, [handler[h] EXCEPT !.run = a, !.credit = a, !.policyId = a])
    BY <1>2 DEF ExecuteRun
  <1>4. "executeRun" \in PlainCalls
    BY DEF PlainCalls, Calls, SaveCalls, EarlyCalls, RowTakers
  <1>5. Rows' /\ RowsGrow
    BY <1>1, SameRows DEF TablesInv
  <1>6. CASE Finish(h)
    BY <1>1, <1>4, <1>5, <1>6, ProceedStep
  <1>7. CASE ~Finish(h)
    BY <1>1, <1>2, <1>3, <1>4, <1>5, <1>7, CreditTables
  <1> QED BY <1>6, <1>7

LEMMA NewestId ==
    ASSUME IsSeq(ledger), NEW template, NEW p
    PROVE  newest(demoCreate(ledger, template, p))[1] = template
  <1>1. PICK l, c : /\ c = [template |-> template, payload |-> p, live |-> TRUE]
                    /\ l = Append(ledger, c)
    OBVIOUS
  <1>2. Len(l) = Len(ledger) + 1 /\ l[Len(ledger) + 1] = c
    BY <1>1 DEF IsSeq
  <1>3. c.template = template
    BY <1>1
  <1> QED BY <1>1, <1>2, <1>3 DEF newest, demoCreate

LEMMA CreateCreditTables ==
    ASSUME TablesInv, IsSeq(ledger), NEW h \in Handlers, CreateCredit(h) PROVE TablesInv'
  <1>1. /\ userIds' = userIds /\ policyRows' = policyRows /\ intents' = intents
        /\ agentRows' = agentRows /\ nextId' = nextId /\ cutOff' = cutOff
        /\ At(h, "createCredit")
        /\ ledger' = createPayrollCredit(ledger, handler[h].user, handler[h].payroll)
    BY DEF CreateCredit, OnlyLedger, tables, Counters
  <1>2. PICK c : c = newest(ledger')
    OBVIOUS
  <1>3. c[1] = "PayrollCredit"
    <2>1. PICK p : ledger' = demoCreate(ledger, "PayrollCredit", p)
      BY <1>1 DEF createPayrollCredit
    <2> QED BY <1>2, <2>1, NewestId
  <1>4. "createCredit" \in PlainCalls
    BY DEF PlainCalls, Calls, SaveCalls, EarlyCalls, RowTakers
  <1>5. GoOn(h, [handler[h] EXCEPT !.credit = c])
    BY <1>2 DEF CreateCredit
  <1>6. Rows' /\ RowsGrow
    BY <1>1, SameRows DEF TablesInv
  <1> QED BY <1>1, <1>3, <1>4, <1>5, <1>6, CreditTables

LEMMA CreateIntentTables ==
    ASSUME TablesInv, NEW h \in Handlers, CreateIntent(h) PROVE TablesInv'
  <1>1. /\ userIds' = userIds /\ policyRows' = policyRows /\ agentRows' = agentRows
        /\ cutOff' = cutOff /\ At(h, "createIntent")
    BY DEF CreateIntent, OnlyTables, Counters
  <1>2. Requests /\ Rows
    BY DEF TablesInv
  <1>3. "createIntent" \in PlainCalls
    BY DEF PlainCalls, Calls, SaveCalls, EarlyCalls, RowTakers
  <1>4. CASE ~hasUser(h)
    <2>1. Finish(h) /\ intents' = intents /\ nextId' = nextId
      BY <1>4 DEF CreateIntent
    <2>2. Rows' /\ RowsGrow
      BY <1>1, <1>2, <2>1, SameRows
    <2> QED BY <1>1, <1>3, <2>1, <2>2, ProceedStep
  <1>5. CASE hasUser(h)
    <2>1. PICK w, new, next : /\ w = handler[h] /\ next = nextId
                              /\ new = [nr |-> nextId, user |-> w.id, credit |-> NoContract]
      OBVIOUS
    <2>2. /\ intents' = intents \cup {new} /\ nextId' = nextId + 1
          /\ GoOn(h, [w EXCEPT !.intent = next])
      BY <1>5, <2>1 DEF CreateIntent
    <2>3. IsIntent(new) /\ new.user = w.id /\ new.credit = NoContract
      BY <2>1 DEF IsIntent
    <2>4. /\ IsRequest(w) /\ w.id \in 1..(nextId - 1)
          /\ w.credit = NoContract \/ w.credit[1] = "PayrollCredit"
      BY <1>1, <1>2, <2>1, AtCall DEF RowCalls, Rows
    <2>5. Rows' /\ RowsGrow
      <3>1. nextId \in Nat \ {0} /\ nextId' \in Nat \ {0} /\ nextId <= nextId'
        BY <1>2, <2>2 DEF Rows
      <3>2. \A i \in intents' :
                /\ IsIntent(i) /\ i.user \in 1..(nextId' - 1)
                /\ i.credit = NoContract \/ i.credit[1] = "PayrollCredit"
        <4>1. new.user \in 1..(nextId' - 1)
          BY <2>2, <2>3, <2>4, <3>1
        <4> QED BY <1>2, <2>2, <2>3, <3>1, <4>1 DEF Rows
      <3>3. Rows'
        BY <1>1, <1>2, <2>2, <3>1, <3>2 DEF Rows
      <3>4. RowsGrow
        BY <1>1, <1>2, <3>1 DEF Rows, RowsGrow
      <3> QED BY <3>3, <3>4
    <2>6. PICK r : r = [w EXCEPT !.intent = next]
      OBVIOUS
    <2>7. /\ IsRequest(r) /\ r.user = w.user /\ r.id = w.id /\ r.version = w.version
          /\ r.policy = w.policy /\ r.credit = w.credit
      BY <2>4, <2>6 DEF IsRequest
    <2> QED BY <1>1, <1>3, <2>1, <2>2, <2>4, <2>5, <2>6, <2>7, GoOnStep
  <1> QED BY <1>4, <1>5

\* An intent gets the id of a credit.
LEMMA NamedRows ==
    ASSUME Rows, NEW h, NEW c, c = NoContract \/ c[1] = "PayrollCredit", named(h, c),
           userIds' = userIds, policyRows' = policyRows, agentRows' = agentRows, nextId' = nextId
    PROVE  Rows' /\ RowsGrow
  <1>1. PICK own, new : own = ownIntent(h) /\ new = {[i EXCEPT !.credit = c] : i \in own}
    OBVIOUS
  <1>2. intents' = (intents \ own) \cup new /\ own \subseteq intents
    BY <1>1 DEF named, ownIntent
  <1>3. \A i \in new : /\ IsIntent(i) /\ i.user \in 1..(nextId - 1)
                       /\ i.credit = NoContract \/ i.credit[1] = "PayrollCredit"
    <2>1. SUFFICES ASSUME NEW i \in own, NEW j, j = [i EXCEPT !.credit = c]
                   PROVE  IsIntent(j) /\ j.user \in 1..(nextId - 1) /\ j.credit = c
      BY <1>1
    <2>2. IsIntent(i) /\ i.user \in 1..(nextId - 1)
      BY <1>2 DEF Rows
    <2> QED BY <2>1, <2>2 DEF IsIntent
  <1>4. \A i \in intents' : /\ IsIntent(i) /\ i.user \in 1..(nextId' - 1)
                            /\ i.credit = NoContract \/ i.credit[1] = "PayrollCredit"
    BY <1>2, <1>3 DEF Rows
  <1>5. Rows'
    BY <1>4 DEF Rows
  <1> QED BY <1>5 DEF Rows, RowsGrow

LEMMA NameCreditTables ==
    ASSUME TablesInv, NEW h \in Handlers, NameCredit(h) PROVE TablesInv'
  <1>1. /\ userIds' = userIds /\ policyRows' = policyRows /\ agentRows' = agentRows
        /\ nextId' = nextId /\ cutOff' = cutOff /\ At(h, "nameCredit")
        /\ named(h, handler[h].credit)
        /\ Proceed(h) \/ Finish(h)
    BY DEF NameCredit, OnlyTables, Counters
  <1>2. PICK c : c = handler[h].credit
    OBVIOUS
  <1>3. c = NoContract \/ c[1] = "PayrollCredit"
    BY <1>1, <1>2, AtCall DEF TablesInv
  <1>4. Rows' /\ RowsGrow
    <2>1. named(h, c) /\ Rows
      BY <1>1, <1>2 DEF TablesInv
    <2> QED BY <1>1, <1>3, <2>1, NamedRows
  <1>5. "nameCredit" \in PlainCalls
    BY DEF PlainCalls, Calls, SaveCalls, EarlyCalls, RowTakers
  <1> QED BY <1>1, <1>4, <1>5, ProceedStep

LEMMA FindCreditTables ==
    ASSUME TablesInv, NEW h \in Handlers, FindCredit(h) PROVE TablesInv'
  <1>1. /\ userIds' = userIds /\ policyRows' = policyRows /\ agentRows' = agentRows
        /\ nextId' = nextId /\ cutOff' = cutOff /\ At(h, "findCredit")
    BY DEF FindCredit, OnlyTables, Counters
  <1>2. CASE intents' = intents /\ (Proceed(h) \/ Finish(h))
    <2>1. "findCredit" \in PlainCalls
      BY DEF PlainCalls, Calls, SaveCalls, EarlyCalls, RowTakers
    <2>2. Rows' /\ RowsGrow
      BY <1>1, <1>2, SameRows DEF TablesInv
    <2> QED BY <1>1, <1>2, <2>1, <2>2, ProceedStep
  <1>3. ASSUME NEW other \in intents, named(h, other.credit), other.credit # NoContract,
               Skip(h, 5, [handler[h] EXCEPT !.credit = other.credit])
        PROVE  TablesInv'
    <2>1. PICK c, w : c = other.credit /\ w = handler[h]
      OBVIOUS
    <2>2. c[1] = "PayrollCredit"
      BY <1>3, <2>1 DEF TablesInv, Rows
    <2>3. Rows' /\ RowsGrow
      BY <1>1, <1>3, <2>1, <2>2, NamedRows DEF TablesInv
    <2>4. PICK r : r = [w EXCEPT !.credit = c]
      OBVIOUS
    <2>5. IsRequest(w) /\ Head(w.todo) = "findCredit" /\ w.todo # <<>>
      BY <1>1, <2>1, AtCall DEF TablesInv
    <2>6. /\ IsRequest(r) /\ r.user = w.user /\ r.id = w.id /\ r.version = w.version
          /\ r.policy = w.policy /\ r.credit = c
      BY <2>4, <2>5 DEF IsRequest
    <2>7. MaySkip(handler[h], 5) /\ Skip(h, 5, r)
      BY <1>3, <2>1, <2>4, <2>5 DEF MaySkip
    <2> QED BY <1>1, <2>1, <2>2, <2>3, <2>6, <2>7, PlainStep DEF RowTakers
  <1> QED BY <1>2, <1>3 DEF FindCredit

LEMMA OpenAgentRowTables ==
    ASSUME TablesInv, NEW h \in Handlers, OpenAgentRow(h) PROVE TablesInv'
  <1>1. /\ userIds' = userIds /\ policyRows' = policyRows /\ intents' = intents
        /\ nextId' = nextId /\ cutOff' = cutOff /\ At(h, "openAgentRow")
        /\ Proceed(h) \/ Finish(h)
        /\ agentRows' = agentRows \/ agentRows' = agentRows \cup {handler[h].id}
    BY DEF OpenAgentRow, OnlyTables, Counters
  <1>2. handler[h].id \in 1..(nextId - 1)
    BY <1>1, AtCall DEF TablesInv, Rows, RowCalls
  <1>3. Rows' /\ RowsGrow
    <2>1. agentRows' \subseteq 1..(nextId' - 1)
      BY <1>1, <1>2 DEF TablesInv, Rows
    <2> QED BY <1>1, <2>1 DEF TablesInv, Rows, RowsGrow
  <1>4. "openAgentRow" \in PlainCalls
    BY DEF PlainCalls, Calls, SaveCalls, EarlyCalls, RowTakers
  <1> QED BY <1>1, <1>3, <1>4, ProceedStep

LEMMA DeleteRowsTables ==
    ASSUME TablesInv, NEW h \in Handlers, DeleteRows(h) PROVE TablesInv'
  <1>1. /\ userIds' = userIds /\ nextId' = nextId /\ cutOff' = cutOff /\ Proceed(h)
        /\ intents' \subseteq intents /\ agentRows' \subseteq agentRows
        /\ policyRows' = policyRows \/ policyRows' = policyRows \ rowsOf(handler[h].id)
    BY DEF DeleteRows, OnlyTables, Counters
  <1>2. PICK call \in {"deleteAgentActions", "deleteIntents", "deletePolicies"} : At(h, call)
    BY DEF DeleteRows
  <1>3. call \in PlainCalls
    BY DEF PlainCalls, Calls, SaveCalls, EarlyCalls, RowTakers
  <1>4. Requests /\ Rows /\ PolicyOrSave
    BY DEF TablesInv
  <1>5. Rows' /\ RowsGrow
    <2>1. policyRows' \subseteq policyRows
      BY <1>1
    <2> QED BY <1>1, <1>4, <2>1 DEF Rows, RowsGrow
  <1>6. CASE policyRows' = policyRows
    BY <1>1, <1>2, <1>3, <1>5, <1>6, ProceedStep
  <1>7. CASE policyRows' = policyRows \ rowsOf(handler[h].id)
    <2>1. Requests'
      BY <1>1, <1>2, <1>4, <1>5, ProceedRequests DEF RowTakers
    <2>2. \A id : ~replaces(h, id)
      BY <1>2, <1>4, Replacing DEF replaces, At
    <2>3. PolicyOrSave'
      <3>1. SUFFICES ASSUME NEW v \in Users \ cutOff, rowsOf(userIds[v])' # {},
                            activeRows(userIds[v])' = {}
                     PROVE  \E g \in serving(v)' : replaces(g, userIds[v])'
        BY <1>1 DEF PolicyOrSave, rowsOf, activeRows
      <3>2. PICK id : id = userIds[v]
        OBVIOUS
      <3>3. rowsOf(id)' # {} /\ activeRows(id)' = {}
        BY <1>1, <3>1, <3>2 DEF rowsOf, activeRows
      <3>4. id # handler[h].id
        BY <1>7, <3>3 DEF rowsOf
      <3>5. rowsOf(id)' = rowsOf(id)
        BY <1>7, <3>4 DEF rowsOf
      <3>6. activeRows(id)' = activeRows(id)
        BY <3>5 DEF activeRows
      <3>7. PICK g \in serving(v) : replaces(g, id)
        BY <1>4, <3>1, <3>2, <3>3, <3>5, <3>6 DEF PolicyOrSave
      <3>8. g \in Handlers /\ g # h
        BY <2>2, <3>7 DEF serving
      <3>9. handler'[g] = handler[g]
        BY <1>1, <1>4, <3>8 DEF Proceed, GoOn, Skip, Requests
      <3> QED BY <1>1, <3>2, <3>7, <3>8, <3>9 DEF serving, replaces
    <2> QED BY <1>5, <2>1, <2>3 DEF TablesInv
  <1> QED BY <1>1, <1>6, <1>7

LEMMA DeleteUserTables ==
    ASSUME TablesInv, NEW h \in Handlers, DeleteUser(h) PROVE TablesInv'
  <1>1. /\ policyRows' = policyRows /\ intents' = intents /\ agentRows' = agentRows
        /\ nextId' = nextId /\ cutOff' = cutOff /\ At(h, "deleteUser")
        /\ \/ userIds' = userIds /\ Finish(h)
           \/ userIds' = [userIds EXCEPT ![handler[h].user] = 0] /\ Proceed(h)
    BY DEF DeleteUser, OnlyTables, Counters
  <1>2. "deleteUser" \in PlainCalls
    BY DEF PlainCalls, Calls, SaveCalls, EarlyCalls, RowTakers
  <1>3. Requests /\ Rows /\ PolicyOrSave
    BY DEF TablesInv
  <1>4. CASE userIds' = userIds /\ Finish(h)
    <2>1. Rows' /\ RowsGrow
      BY <1>1, <1>3, <1>4, SameRows
    <2> QED BY <1>1, <1>2, <1>4, <2>1, ProceedStep
  <1>5. CASE userIds' = [userIds EXCEPT ![handler[h].user] = 0] /\ Proceed(h)
    <2>1. PICK u : u = handler[h].user
      OBVIOUS
    <2>2. u \in Users
      BY <1>1, <1>3, <2>1, AtCall
    <2>3. \A v \in Users : userIds'[v] = IF v = u THEN 0 ELSE userIds[v]
      BY <1>3, <1>5, <2>1, <2>2 DEF Rows
    <2>4. userIds' \in [Users -> 0..(nextId' - 1)]
      BY <1>1, <1>3, <1>5, <2>1, <2>2 DEF Rows
    <2>5. Rows'
      BY <1>1, <1>3, <2>3, <2>4 DEF Rows
    <2>6. RowsGrow
      BY <1>1, <1>3, <2>3 DEF Rows, RowsGrow
    <2>7. Requests'
      BY <1>1, <1>3, <1>5, <2>6, ProceedRequests DEF RowTakers
    <2>8. PolicyOrSave'
      <3>1. SUFFICES ASSUME NEW v \in Users \ cutOff, rowsOf(userIds'[v]) # {},
                            activeRows(userIds'[v]) = {}
                     PROVE  \E g \in serving(v)' : handler'[g].id = userIds'[v] /\
                                \E k \in 1..3 : SavesAt(handler'[g].todo, k)
        BY <1>1 DEF PolicyOrSave, rowsOf, activeRows, replaces
      <3>2. rowsOf(0) = {}
        BY <1>3 DEF Rows, rowsOf
      <3>3. userIds'[v] = userIds[v]
        BY <2>3, <3>1, <3>2
      <3>4. PICK g \in serving(v) : replaces(g, userIds[v])
        BY <1>3, <3>1, <3>3 DEF PolicyOrSave
      <3>5. g \in Handlers /\ g # h
        BY <1>1, <1>3, <3>4, Replacing DEF replaces, At, serving
      <3>6. handler'[g] = handler[g]
        BY <1>3, <1>5, <3>5 DEF Proceed, GoOn, Skip, Requests
      <3> QED BY <3>3, <3>4, <3>5, <3>6 DEF serving, replaces
    <2> QED BY <2>5, <2>7, <2>8 DEF TablesInv
  <1> QED BY <1>1, <1>4, <1>5

-----------------------------------------------------------------------------
(* Faults and new requests                                                 *)

LEMMA FailTables ==
    ASSUME TablesInv, NEW h \in Handlers, Fail(h) PROVE TablesInv'
  <1>1. /\ userIds' = userIds /\ policyRows' = policyRows /\ intents' = intents
        /\ agentRows' = agentRows /\ nextId' = nextId /\ Finish(h)
        /\ cutOff' = cutOff \cup {handler[h].user}
    BY DEF Fail, tables
  <1>2. Requests /\ Rows /\ PolicyOrSave /\ Rows' /\ RowsGrow
    BY <1>1, SameRows DEF TablesInv
  <1>3. Requests'
    BY <1>1, <1>2, FinishRequests
  <1>4. PolicyOrSave'
    <2>1. SUFFICES ASSUME NEW v \in Users \ cutOff', rowsOf(userIds[v]) # {},
                          activeRows(userIds[v]) = {}
                   PROVE  \E g \in serving(v)' : replaces(g, userIds[v])'
      BY <1>1 DEF PolicyOrSave, rowsOf, activeRows
    <2>2. v \in Users \ cutOff /\ v # handler[h].user
      BY <1>1, <2>1
    <2>3. PICK g \in serving(v) : replaces(g, userIds[v])
      BY <1>2, <2>1, <2>2 DEF PolicyOrSave
    <2>4. g \in Handlers /\ g # h
      BY <2>2, <2>3 DEF serving
    <2>5. handler'[g] = handler[g]
      BY <1>1, <1>2, <2>4 DEF Finish, Requests
    <2> QED BY <1>1, <2>3, <2>4, <2>5 DEF serving, replaces
  <1> QED BY <1>2, <1>3, <1>4 DEF TablesInv

LEMMA IdleRequests ==
    ASSUME NEW next, next \in Nat \ {0}, NEW ids, NEW all, all = [h \in Handlers |-> Idle]
    PROVE  all = [h \in Handlers |-> all[h]] /\ \A h \in Handlers : Fits(all[h], ids, next)
  BY IdleFits

LEMMA RestartTables ==
    ASSUME TablesInv, Restart PROVE TablesInv'
  <1>1. /\ userIds' = userIds /\ policyRows' = policyRows /\ intents' = intents
        /\ agentRows' = agentRows /\ nextId' = nextId
        /\ handler' = [h \in Handlers |-> Idle]
        /\ cutOff' = cutOff \cup {u \in Users : serving(u) # {}}
    BY DEF Restart, tables
  <1>2. Rows /\ PolicyOrSave /\ Rows' /\ RowsGrow
    BY <1>1, SameRows DEF TablesInv
  <1>3. Requests'
    <2>1. nextId' \in Nat \ {0}
      BY <1>2 DEF RowsGrow
    <2>2. PICK all, ids, next : all = handler' /\ ids = userIds' /\ next = nextId'
      OBVIOUS
    <2>3. all = [h \in Handlers |-> all[h]] /\ \A h \in Handlers : Fits(all[h], ids, next)
      BY <1>1, <2>1, <2>2, IdleRequests
    <2> QED BY <2>2, <2>3 DEF Requests
  <1>4. PolicyOrSave'
    <2>1. SUFFICES ASSUME NEW v \in Users \ cutOff', rowsOf(userIds[v]) # {}
                   PROVE  activeRows(userIds[v]) # {}
      BY <1>1 DEF PolicyOrSave, rowsOf, activeRows
    <2>2. v \in Users \ cutOff /\ serving(v) = {}
      BY <1>1, <2>1
    <2> QED BY <1>2, <2>1, <2>2 DEF PolicyOrSave
  <1> QED BY <1>2, <1>3, <1>4 DEF TablesInv

\* The first calls of every kind of request.
LEMMA FirstCalls ==
    ASSUME NEW s \in Seq(Calls), NEW t \in Seq(Calls), s # <<>>
    PROVE  /\ s \o t \in Seq(Calls) /\ s \o t # <<>> /\ Len(s \o t) >= Len(s)
           /\ Head(s \o t) = Head(s)
           /\ \A j \in 1..Len(s) : (s \o t)[j] = s[j]
  <1>1. PICK r : r = s \o t
    OBVIOUS
  <1>2. /\ r \in Seq(Calls) /\ Len(r) = Len(s) + Len(t) /\ 1 \in 1..Len(s)
        /\ \A j \in 1..Len(s) : r[j] = s[j]
    BY <1>1
  <1>3. r # <<>> /\ Head(r) = r[1] /\ Head(s) = s[1]
    BY <1>2
  <1> QED BY <1>1, <1>2, <1>3

LEMMA FirstTwo ==
    ASSUME NEW s \in Seq(Calls), NEW t \in Seq(Calls), Len(s) >= 2, NEW x, x = s \o t
    PROVE  /\ x \in Seq(Calls) /\ Len(x) >= 2 /\ Head(x) = Head(s) /\ x[2] = s[2]
  <1>1. s # <<>> /\ 2 \in 1..Len(s)
    OBVIOUS
  <1>2. /\ s \o t \in Seq(Calls) /\ Len(s \o t) >= Len(s) /\ Head(s \o t) = Head(s)
        /\ \A j \in 1..Len(s) : (s \o t)[j] = s[j]
    BY <1>1, FirstCalls
  <1> QED BY <1>1, <1>2

LEMMA StepsTakeRow ==
    ASSUME NEW kind \in Kinds
    PROVE  TakesRow(Steps[kind])
  <1>1. /\ SavePolicy \in Seq(Calls) /\ Pay \in Seq(Calls) /\ Allocate \in Seq(Calls)
    <2>1. SavePolicy \in Seq(Calls)
      BY DEF SavePolicy, Calls, SaveCalls, EarlyCalls
    <2> QED BY <2>1, PaySavesNothing, AllocateSavesNothing
  <1>2. ASSUME NEW t \in Seq(Calls), kind \in Kinds,
               Steps[kind] = <<"getRequiredUser">> \o t
        PROVE  TakesRow(Steps[kind])
    <2>1. PICK s : s = <<"getRequiredUser">>
      OBVIOUS
    <2>2. s \in Seq(Calls) /\ s # <<>> /\ Head(s) = "getRequiredUser"
      BY <2>1, GetUserSavesNothing
    <2>3. Head(Steps[kind]) = "getRequiredUser"
      BY <1>2, <2>1, <2>2, FirstCalls
    <2> QED BY <2>3 DEF TakesRow, RowTakers
  <1>3. CASE kind = "policy"
    BY <1>1, <1>2, <1>3 DEF Steps
  <1>4. CASE kind = "confirm"
    BY <1>1, <1>2, <1>4 DEF Steps
  <1>5. CASE kind = "allocate"
    BY <1>1, <1>2, <1>5 DEF Steps
  <1>6. CASE kind = "payroll"
    <2>1. PICK s : s = <<"getRequiredUser", "ensureDemoParties", "createNotice", "record">>
      OBVIOUS
    <2>2. s \in Seq(Calls) /\ s # <<>> /\ Head(s) = "getRequiredUser"
      BY <2>1 DEF Calls, EarlyCalls
    <2>3. Steps[kind] = s \o Pay
      BY <1>6, <2>1 DEF Steps
    <2>4. Head(Steps[kind]) = "getRequiredUser"
      BY <1>1, <2>2, <2>3, FirstCalls
    <2> QED BY <2>4 DEF TakesRow, RowTakers
  <1>7. CASE kind \in {"approve", "reject", "execute", "bootstrap", "reset"}
    <2>1. CASE kind = "approve"
      BY <2>1 DEF Steps, TakesRow, RowTakers
    <2>2. CASE kind = "reject"
      BY <2>2 DEF Steps, TakesRow, RowTakers
    <2>3. CASE kind = "execute"
      BY <2>3 DEF Steps, TakesRow, RowTakers
    <2>4. CASE kind = "bootstrap"
      BY <2>4 DEF Steps, Login, TakesRow, RowTakers
    <2>5. CASE kind = "reset"
      BY <2>5 DEF Steps, TakesRow, RowCalls
    <2> QED BY <1>7, <2>1, <2>2, <2>3, <2>4, <2>5
  <1>8. CASE kind = "fullFlow"
    <2>1. PICK s, a, b : /\ s = <<"ensureDemoParties", "upsertUser", "queryProfile",
                                  "createProfile", "record">>
                         /\ a = <<"createNotice", "record">>
                         /\ b = <<"collectActions", "approve", "record", "openAgentRow",
                                  "executeAction">>
      OBVIOUS
    <2>2. /\ s \in Seq(Calls) /\ s # <<>> /\ Len(s) >= 2 /\ Head(s) = "ensureDemoParties"
          /\ s[2] = "upsertUser" /\ a \in Seq(Calls) /\ b \in Seq(Calls)
      BY <2>1 DEF Calls, SaveCalls, EarlyCalls
    <2>3. Steps[kind] = s \o SavePolicy \o a \o Pay \o Allocate \o b
      BY <1>8, <2>1 DEF Steps
    <2>4. PICK x, y, z, v, q : /\ x = s \o SavePolicy /\ y = x \o a /\ z = y \o Pay
                               /\ v = z \o Allocate /\ q = v \o b
      OBVIOUS
    <2>5. x \in Seq(Calls) /\ Len(x) >= 2 /\ Head(x) = Head(s) /\ x[2] = s[2]
      BY <1>1, <2>2, <2>4, FirstTwo, Zenon
    <2>6. y \in Seq(Calls) /\ Len(y) >= 2 /\ Head(y) = Head(s) /\ y[2] = s[2]
      BY <2>2, <2>4, <2>5, FirstTwo
    <2>7. z \in Seq(Calls) /\ Len(z) >= 2 /\ Head(z) = Head(s) /\ z[2] = s[2]
      BY <1>1, <2>4, <2>6, FirstTwo
    <2>8. v \in Seq(Calls) /\ Len(v) >= 2 /\ Head(v) = Head(s) /\ v[2] = s[2]
      <3>1. PICK t \in Seq(Calls) : v = z \o t
        BY <1>1, <2>4
      <3> QED BY <2>7, <3>1, FirstTwo
    <2>9. q \in Seq(Calls) /\ Len(q) >= 2 /\ Head(q) = Head(s) /\ q[2] = s[2]
      BY <2>2, <2>4, <2>8, FirstTwo
    <2>10. Steps[kind] = q
      BY <2>3, <2>4
    <2> QED BY <2>2, <2>9, <2>10 DEF TakesRow
  <1> QED BY <1>3, <1>4, <1>5, <1>6, <1>7, <1>8 DEF Kinds

LEMMA SubmittedPayroll == ASSUME NEW p \in PayrollForm PROVE IsPayroll(p)
  BY DEF PayrollForm, Engine!Asset, IsPayroll, IsAsset

LEMMA EmptyPayroll == IsPayroll(NoPayroll)
  BY DEF NoPayroll, Usdc, IsPayroll, IsAsset

LEMMA IdleIsNobodys == \A u \in Users : Idle.user # u
  <1>1. Idle.user = NoUser
    BY DEF Idle
  <1>2. NoUser \notin Users
    BY DemoUsersAssumption
  <1> QED BY <1>1, <1>2

\* The demo policy has the form of a submitted one.
LEMMA SubmittedPolicy == ASSUME NEW p \in PolicyForm PROVE IsPolicy(p)
  <1>1. PICK form : form = Engine(<<>>, NoPayroll, 0, {})!Category
    OBVIOUS
  <1>2. p.categories \in Seq(form)
    BY <1>1 DEF PolicyForm
  <1>3. ASSUME NEW c \in form PROVE IsCategory(c)
    <2>1. PICK types : types = Engine(<<>>, NoPayroll, 0, {})!CategoryTypes
      OBVIOUS
    <2>2. form = [id : STRING, bps : Int, type : types, recipient : Parties \cup {""},
                  address : {"none", "valid", "bad"}, target : BOOLEAN, approval : BOOLEAN]
      BY <1>1, <2>1 DEF Engine!Category
    <2>3. /\ c = [id |-> c.id, bps |-> c.bps, type |-> c.type, recipient |-> c.recipient,
                  address |-> c.address, target |-> c.target, approval |-> c.approval]
          /\ c.bps \in Int /\ c.type \in types
      BY <2>2
    <2> QED BY <2>1, <2>3 DEF IsCategory
  <1> QED BY <1>2, <1>3 DEF IsPolicy, IsSeq

LEMMA DemoPolicy == IsPolicy(demoPolicy)
  <1>1. demoPolicy.categories = demoCategories
    BY DEF demoPolicy
  <1>2. /\ "ExternalPayment" \in Engine(<<>>, NoPayroll, 0, {})!CategoryTypes
        /\ "InternalReserve" \in Engine(<<>>, NoPayroll, 0, {})!CategoryTypes
        /\ "PortfolioAllocation" \in Engine(<<>>, NoPayroll, 0, {})!CategoryTypes
        /\ "ManualHold" \in Engine(<<>>, NoPayroll, 0, {})!CategoryTypes
    BY DEF Engine!CategoryTypes
  <1>3. IsSeq(demoCategories) /\ Len(demoCategories) = 4
    BY DEF demoCategories, IsSeq
  <1>4. \A i \in 1..4 : IsCategory(demoCategories[i])
    BY <1>2 DEF demoCategories, IsCategory
  <1> QED BY <1>1, <1>3, <1>4 DEF IsPolicy

\* A request starts with no row, no version and the arguments of its kind.
LEMMA StartTables ==
    ASSUME TablesInv, NEW h \in Handlers, NEW u \in Users, NEW r, NEW kind \in Kinds,
           mayStart(h, kind), Start(h, u, r), IsRequest(r), r.id = 0, r.version = 0,
           r.credit = NoContract \/ r.credit[1] = "PayrollCredit",
           kind \in {"policy", "fullFlow"} => IsPolicy(r.policy)
    PROVE  TablesInv'
  <1>1. PICK todo : todo = Steps[kind]
    OBVIOUS
  <1>2. /\ todo \in Seq(Calls) /\ todo # <<>> /\ TakesRow(todo)
        /\ \/ SavesNothing(todo)
           \/ kind \in {"policy", "fullFlow"} /\ \E k \in Nat : k > 5 /\ SavesAt(todo, k)
    BY <1>1, StepsSave, StepsTakeRow
  <1>3. PICK w : w = [r EXCEPT !.user = u, !.todo = todo]
    OBVIOUS
  <1>4. /\ IsRequest(w) /\ w.user = u /\ w.todo = todo /\ w.id = 0 /\ w.version = 0
        /\ w.policy = r.policy /\ w.credit = r.credit
    BY <1>3 DEF IsRequest
  <1>5. /\ handler' = [handler EXCEPT ![h] = w] /\ handler[h] = Idle
        /\ userIds' = userIds /\ policyRows' = policyRows /\ intents' = intents
        /\ agentRows' = agentRows /\ nextId' = nextId /\ cutOff' = cutOff
    BY <1>1, <1>3 DEF Start, mayStart, tables
  <1>6. Requests /\ Rows /\ PolicyOrSave /\ Rows' /\ RowsGrow
    BY <1>5, SameRows DEF TablesInv
  <1>7. \A k : SavesAt(todo, k) => k > 5 /\ kind \in {"policy", "fullFlow"}
    <2>1. SUFFICES ASSUME NEW k, SavesAt(todo, k)
                   PROVE  k > 5 /\ kind \in {"policy", "fullFlow"}
      OBVIOUS
    <2>2. ~SavesNothing(todo)
      BY <2>1 DEF SavesAt, SavesNothing, SaveCalls
    <2>3. PICK i \in Nat : i > 5 /\ SavesAt(todo, i) /\ kind \in {"policy", "fullFlow"}
      BY <1>2, <2>2
    <2>4. k = i
      BY <2>1, <2>3, SavesOnce
    <2> QED BY <2>3, <2>4
  <1>8. SavesNothing(todo) \/ \E k \in 1..Len(todo) : SavesAt(todo, k)
    BY <1>2 DEF SavesAt
  <1>9. PICK ids, next : ids = userIds' /\ next = nextId'
    OBVIOUS
  <1>10. next \in Nat \ {0}
    BY <1>6, <1>9 DEF Rows
  <1>11. Fits(w, ids, next)
    <2>1. 0 \in 0..(next - 1) /\ 0 \in 0..next
      BY <1>10
    <2>2. \A k \in 1..4 : ~SavesAt(todo, k)
      BY <1>7
    <2>3. \A k \in 3..Len(todo) : SavesAt(todo, k) => IsPolicy(w.policy)
      BY <1>4, <1>7
    <2> QED BY <1>2, <1>4, <1>8, <2>1, <2>2, <2>3 DEF Fits
  <1>12. Requests'
    BY <1>5, <1>6, <1>9, <1>11, MoveRequests
  <1>13. PolicyOrSave'
    <2>1. SUFFICES ASSUME NEW v \in Users \ cutOff, rowsOf(userIds[v]) # {},
                          activeRows(userIds[v]) = {}
                   PROVE  \E g \in serving(v)' : replaces(g, userIds[v])'
      BY <1>5 DEF PolicyOrSave, rowsOf, activeRows
    <2>2. PICK g \in serving(v) : replaces(g, userIds[v])
      BY <1>6, <2>1 DEF PolicyOrSave
    <2>3. g \in Handlers /\ g # h
      BY <1>5, <2>2 DEF serving, replaces, SavesAt, Idle
    <2>4. handler'[g] = handler[g]
      BY <1>5, <1>6, <2>3 DEF Requests
    <2> QED BY <1>5, <2>2, <2>3, <2>4 DEF serving, replaces
  <1> QED BY <1>6, <1>12, <1>13 DEF TablesInv

LEMMA IdleRequest ==
    ASSUME NEW a, NEW b, NEW r,
           \/ r = Idle
           \/ r = [Idle EXCEPT !.payroll = b]
           \/ r = [Idle EXCEPT !.policy = a]
           \/ r = [Idle EXCEPT !.policy = a, !.payroll = b]
           \/ r = [Idle EXCEPT !.action = a]
    PROVE  IsRequest(r) /\ r.id = 0 /\ r.version = 0 /\ r.credit = NoContract
  <1>1. PICK none : none = NoContract
    OBVIOUS
  <1>2. PICK x, y, z : r = [user |-> NoUser, todo |-> <<>>, id |-> 0, policy |-> x, version |-> 0,
                            intent |-> 0, policyId |-> none, credit |-> none, run |-> none,
                            runId |-> 0, action |-> y, payroll |-> z, due |-> {}]
    <2>1. CASE r = Idle
      BY <1>1, <2>1 DEF Idle
    <2>2. CASE r = [Idle EXCEPT !.payroll = b]
      BY <1>1, <2>2 DEF Idle
    <2>3. CASE r = [Idle EXCEPT !.policy = a]
      BY <1>1, <2>3 DEF Idle
    <2>4. CASE r = [Idle EXCEPT !.policy = a, !.payroll = b]
      BY <1>1, <2>4 DEF Idle
    <2>5. CASE r = [Idle EXCEPT !.action = a]
      BY <1>1, <2>5 DEF Idle
    <2> QED BY <2>1, <2>2, <2>3, <2>4, <2>5
  <1> QED BY <1>1, <1>2 DEF IsRequest

LEMMA SimpleRequestTables ==
    ASSUME TablesInv, NEW h \in Handlers, NEW u \in Users, SimpleRequest(h, u) PROVE TablesInv'
  <1>1. PICK kind \in {"bootstrap", "reset"} : mayStart(h, kind)
    BY DEF SimpleRequest
  <1>2. PICK r : r = Idle
    OBVIOUS
  <1>3. IsRequest(r) /\ r.id = 0 /\ r.version = 0 /\ r.credit = NoContract
    BY <1>2, IdleRequest
  <1>4. Start(h, u, r) /\ kind \in Kinds
    BY <1>2 DEF SimpleRequest, Kinds
  <1> QED BY <1>1, <1>3, <1>4, StartTables

LEMMA PayrollRequestTables ==
    ASSUME TablesInv, NEW h \in Handlers, NEW u \in Users, PayrollRequest(h, u)
    PROVE  TablesInv'
  <1>1. PICK kind \in {"payroll", "confirm"} : mayStart(h, kind)
    BY DEF PayrollRequest
  <1>2. PICK p : Start(h, u, [Idle EXCEPT !.payroll = p])
    BY DEF PayrollRequest
  <1>3. PICK r : r = [Idle EXCEPT !.payroll = p]
    OBVIOUS
  <1>4. IsRequest(r) /\ r.id = 0 /\ r.version = 0 /\ r.credit = NoContract
    BY <1>3, IdleRequest
  <1>5. Start(h, u, r) /\ kind \in Kinds
    BY <1>2, <1>3 DEF Kinds
  <1> QED BY <1>1, <1>4, <1>5, StartTables

LEMMA PolicyRequestTables ==
    ASSUME TablesInv, NEW h \in Handlers, NEW u \in Users,
           FullFlowRequest(h, u) \/ PolicyRequest(h, u)
    PROVE  TablesInv'
  <1>1. PICK kind, p, pay :
            /\ kind \in {"fullFlow", "policy"} /\ mayStart(h, kind) /\ IsPolicy(p)
            /\ \/ Start(h, u, [Idle EXCEPT !.policy = p])
               \/ Start(h, u, [Idle EXCEPT !.policy = p, !.payroll = pay])
    <2>1. \A p \in Policies : IsPolicy(p)
      BY DemoPoliciesAssumption, SubmittedPolicy
    <2> QED BY <2>1, DemoPolicy DEF FullFlowRequest, PolicyRequest
  <1>2. PICK r : /\ Start(h, u, r)
                 /\ r = [Idle EXCEPT !.policy = p] \/ r = [Idle EXCEPT !.policy = p, !.payroll = pay]
    BY <1>1
  <1>3. IsRequest(r) /\ r.id = 0 /\ r.version = 0 /\ r.credit = NoContract
    <2>1. CASE r = [Idle EXCEPT !.policy = p]
      BY <2>1, IdleRequest
    <2>2. CASE r = [Idle EXCEPT !.policy = p, !.payroll = pay]
      BY <2>2, IdleRequest
    <2> QED BY <1>2, <2>1, <2>2
  <1>4. r.policy = p
    BY <1>2 DEF Idle
  <1>5. kind \in Kinds
    BY <1>1 DEF Kinds
  <1> QED BY <1>1, <1>2, <1>3, <1>4, <1>5, StartTables

LEMMA AllocationRequestTables ==
    ASSUME TablesInv, NEW h \in Handlers, NEW u \in Users, AllocationRequest(h, u)
    PROVE  TablesInv'
  <1>1. PICK c, p :
            c \in idsOf("PayrollCredit") /\ Start(h, u, [Idle EXCEPT !.credit = c, !.policyId = p])
    BY DEF AllocationRequest
  <1>2. PICK r, credit : r = [Idle EXCEPT !.credit = c, !.policyId = p] /\ credit = c
    OBVIOUS
  <1>3. IsRequest(r) /\ r.id = 0 /\ r.version = 0 /\ r.credit = credit
    BY <1>2 DEF IsRequest, Idle
  <1>4. credit[1] = "PayrollCredit"
    BY <1>1, <1>2 DEF idsOf
  <1>5. Start(h, u, r) /\ "allocate" \in Kinds /\ mayStart(h, "allocate")
    BY <1>1, <1>2 DEF Kinds, AllocationRequest
  <1> QED BY <1>3, <1>4, <1>5, StartTables

LEMMA ActionRequestTables ==
    ASSUME TablesInv, NEW h \in Handlers, NEW u \in Users, ActionRequest(h, u)
    PROVE  TablesInv'
  <1>1. PICK kind \in {"approve", "reject", "execute"} : mayStart(h, kind)
    BY DEF ActionRequest
  <1>2. PICK a : Start(h, u, [Idle EXCEPT !.action = a])
    BY DEF ActionRequest
  <1>3. PICK r : r = [Idle EXCEPT !.action = a]
    OBVIOUS
  <1>4. IsRequest(r) /\ r.id = 0 /\ r.version = 0 /\ r.credit = NoContract
    BY <1>3, IdleRequest
  <1>5. Start(h, u, r) /\ kind \in Kinds
    BY <1>2, <1>3 DEF Kinds
  <1> QED BY <1>1, <1>4, <1>5, StartTables

LEMMA InitTables == Init => TablesInv
  <1> SUFFICES ASSUME Init PROVE TablesInv
    OBVIOUS
  <1>1. Rows
    BY DEF Init, Rows
  <1>2. Requests
    <2>1. PICK all, ids, next : all = handler /\ ids = userIds /\ next = nextId
      OBVIOUS
    <2>2. next \in Nat \ {0} /\ all = [h \in Handlers |-> Idle]
      BY <2>1 DEF Init
    <2> QED BY <2>1, <2>2, IdleRequests DEF Requests
  <1>3. PolicyOrSave
    BY DEF Init, PolicyOrSave, rowsOf
  <1> QED BY <1>1, <1>2, <1>3 DEF TablesInv

LEMMA StepTables ==
    ASSUME TablesInv, IsSeq(ledger), NEW h \in Handlers, Step(h) PROVE TablesInv'
  <1>1. CASE getRequiredUser(h) \/ UpsertUser(h) \/ RecordCantonContract(h) \/ QueryProfile(h)
             \/ FindUser(h)
    BY <1>1, getRequiredUserTables, UpsertUserTables, RecordCantonContractTables,
       QueryProfileTables, FindUserTables
  <1>2. CASE LatestPolicy(h) \/ Deactivate(h) \/ CreatePolicy(h) \/ CachePolicy(h)
    BY <1>2, LatestPolicyTables, DeactivateTables, CreatePolicyTables, CachePolicyTables
  <1>3. CASE CreateIntent(h) \/ FindCredit(h) \/ CreateCredit(h) \/ NameCredit(h)
    BY <1>3, CreateIntentTables, FindCreditTables, CreateCreditTables, NameCreditTables
  <1>4. CASE LoadPolicyAndCredit(h) \/ CreateRun(h) \/ ExecuteRun(h) \/ CollectActions(h)
             \/ ApprovePendingAction(h) \/ RejectPendingAction(h) \/ ExecuteApprovedAction(h)
             \/ OpenAgentRow(h)
    BY <1>4, LoadPolicyAndCreditTables, CreateRunTables, ExecuteRunTables, CollectActionsTables,
       ExerciseTables, OpenAgentRowTables
  <1>5. CASE DeleteRows(h) \/ DeleteUser(h)
    BY <1>5, DeleteRowsTables, DeleteUserTables
  <1>6. CASE \/ ensureDemoParties(h) \/ CreateProfile(h) \/ CreateNotice(h) \/ CreateAudit(h)
             \/ GetPendingAction(h) \/ DeleteDemoParties(h) \/ ResetLedger(h)
    BY <1>6, LedgerOnlyTables
  <1> QED BY <1>1, <1>2, <1>3, <1>4, <1>5, <1>6 DEF Step

LEMMA NextTables == ASSUME TablesInv, IsSeq(ledger), [Next]_vars PROVE TablesInv'
  <1>1. CASE UNCHANGED vars
    <2>1. /\ handler' = handler /\ userIds' = userIds /\ nextId' = nextId /\ intents' = intents
          /\ policyRows' = policyRows /\ agentRows' = agentRows /\ cutOff' = cutOff
      BY <1>1 DEF vars, tables
    <2> QED BY <2>1 DEF TablesInv, Requests, Rows, PolicyOrSave, rowsOf, activeRows, serving,
                        replaces
  <1>2. ASSUME NEW h \in Handlers, NEW u \in Users, Request(h, u) PROVE TablesInv'
    BY <1>2, SimpleRequestTables, PayrollRequestTables, PolicyRequestTables,
       AllocationRequestTables, ActionRequestTables DEF Request
  <1> QED BY <1>1, <1>2, StepTables, FailTables, RestartTables DEF Next

\* A user without active policies whose request replaces them.
LEMMA TablesKeepPolicy == ASSUME TablesInv PROVE UserKeepsPolicy
  <1>1. SUFFICES ASSUME NEW u \in Users \ cutOff, rowsOf(userIds[u]) # {},
                        activeRows(userIds[u]) = {}
                 PROVE  saving(u)
    BY DEF UserKeepsPolicy
  <1>2. PICK h \in serving(u) : replaces(h, userIds[u])
    BY <1>1 DEF TablesInv, PolicyOrSave
  <1>3. PICK todo : todo = handler[h].todo
    OBVIOUS
  <1>4. PICK k \in 1..3 : SavesAt(todo, k)
    BY <1>2, <1>3 DEF replaces
  <1>5. h \in Handlers /\ todo \in Seq(Calls)
    BY <1>2, <1>3 DEF serving, TablesInv, Requests, Fits
  <1>6. k \in 1..Len(todo) /\ DOMAIN todo = 1..Len(todo) /\ todo[k] = "cachePolicy"
    BY <1>4, <1>5 DEF SavesAt
  <1>7. \A j \in 1..Len(todo) : todo[j] # "deactivate"
    <2>1. SUFFICES ASSUME NEW j \in 1..Len(todo) PROVE todo[j] # "deactivate"
      OBVIOUS
    <2>2. j = k - 2 \/ j = k - 1 \/ j = k \/ j > k
      BY <1>5
    <2> QED BY <1>4, <2>2 DEF SavesAt, SaveCalls
  <1> QED BY <1>2, <1>3, <1>6, <1>7 DEF saving, ahead

-----------------------------------------------------------------------------
(* Ledgers that grow by the calls of a user                                *)

mine(c, u) == c.template # "OperatorAuditEvent" /\ c.payload.user = u

\* What the contracts of a user hold, and the sum of it.
held(c, v) == IF counts(c, v) THEN worth(c) ELSE 0
HeldBy(l, v) == SumOver([i \in DOMAIN l |-> held(l[i], v)])

\* Receipts are never archived: those they are paid to go on seeing them.
mayArchive(c, u) == mine(c, u) /\ c.template # "PaymentReceipt"

\* Ledger l became m by calls of u: the contracts of others stay, those of u
\* stay or are archived, the new ones are of u or the operator's, and what the
\* contracts of u hold is x more.
Grown(l, m, u, x) ==
    /\ Ledger(l) /\ Ledger(m) /\ Len(l) <= Len(m)
    /\ \A i \in 1..Len(l) :
           m[i] = l[i] \/ (mayArchive(l[i], u) /\ m[i] = [l[i] EXCEPT !.live = FALSE])
    /\ \A i \in 1..Len(m) :
           i > Len(l) => mine(m[i], u) \/ m[i].template = "OperatorAuditEvent"
    /\ x \in Int
    /\ \A v \in Users : HeldBy(m, v) = HeldBy(l, v) + (IF v = u THEN x ELSE 0)

LEMMA SeqOf ==
    ASSUME NEW n \in Nat, NEW S, NEW f, f = [i \in 1..n |-> f[i]], \A i \in 1..n : f[i] \in S
    PROVE  f \in Seq(S) /\ Len(f) = n
  OBVIOUS

LEMMA LenOf ==
    ASSUME NEW n \in Nat, NEW f, f = [i \in 1..n |-> f[i]] PROVE Len(f) = n /\ DOMAIN f = 1..n
  <1>1. PICK S : S = {f[i] : i \in 1..n}
    OBVIOUS
  <1>2. \A i \in 1..n : f[i] \in S
    BY <1>1
  <1> QED BY <1>2, SeqOf

LEMMA SeqIs == ASSUME NEW S, NEW m \in Seq(S) PROVE IsSeq(m)
  BY DEF IsSeq

LEMMA HeldSum ==
    ASSUME NEW l, Ledger(l), NEW v
    PROVE  \E f \in Seq(Int) : /\ Len(f) = Len(l) /\ HeldBy(l, v) = SumOver(f)
                              /\ \A i \in 1..Len(l) : f[i] = held(l[i], v)
  <1>1. PICK f : f = [i \in DOMAIN l |-> held(l[i], v)]
    OBVIOUS
  <1>2. Len(l) \in Nat /\ DOMAIN l = 1..Len(l)
    BY DEF Ledger, IsSeq
  <1>3. \A i \in 1..Len(l) : f[i] = held(l[i], v) /\ f[i] \in Int
    BY <1>1, <1>2 DEF Ledger, Contract, held
  <1>4. f = [i \in 1..Len(l) |-> f[i]]
    BY <1>1, <1>2
  <1>5. f \in Seq(Int) /\ Len(f) = Len(l)
    BY <1>2, <1>3, <1>4, SeqOf
  <1> QED BY <1>1, <1>3, <1>5 DEF HeldBy

LEMMA HeldType == ASSUME NEW l, Ledger(l), NEW v PROVE HeldBy(l, v) \in Int
  BY HeldSum, SumInt

\* Grown is reflexive and transitive.
LEMMA GrownSame == ASSUME NEW l, Ledger(l), NEW u PROVE Grown(l, l, u, 0)
  <1>1. Len(l) \in Nat
    BY DEF Ledger, IsSeq
  <1>2. ASSUME NEW v \in Users PROVE HeldBy(l, v) = HeldBy(l, v) + (IF v = u THEN 0 ELSE 0)
    BY HeldType
  <1> QED BY <1>1, <1>2 DEF Grown

LEMMA ArchivedTwice ==
    ASSUME NEW c, IsContract(c), NEW d, d = [c EXCEPT !.live = FALSE]
    PROVE  /\ IsContract(d) /\ d.template = c.template /\ d.payload = c.payload /\ d.live = FALSE
           /\ [d EXCEPT !.live = FALSE] = d
  BY DEF IsContract

LEMMA GrownMore ==
    ASSUME NEW l, NEW m, NEW q, NEW u, NEW x, NEW y, Grown(l, m, u, x), Grown(m, q, u, y)
    PROVE  Grown(l, q, u, x + y)
  <1>1. /\ Ledger(l) /\ Ledger(m) /\ Ledger(q) /\ Len(l) <= Len(q) /\ Len(l) \in Nat
        /\ Len(m) \in Nat /\ Len(q) \in Nat /\ Len(l) <= Len(m) /\ Len(m) <= Len(q)
        /\ x \in Int /\ y \in Int
    BY DEF Grown, Ledger, IsSeq
  <1>2. ASSUME NEW i \in 1..Len(l)
        PROVE  q[i] = l[i] \/ (mayArchive(l[i], u) /\ q[i] = [l[i] EXCEPT !.live = FALSE])
    <2>1. i \in 1..Len(m)
      BY <1>1
    <2>2. PICK c, d, e : c = l[i] /\ d = m[i] /\ e = q[i]
      OBVIOUS
    <2>3. /\ d = c \/ (mayArchive(c, u) /\ d = [c EXCEPT !.live = FALSE])
          /\ e = d \/ (mayArchive(d, u) /\ e = [d EXCEPT !.live = FALSE])
      BY <1>2, <2>1, <2>2 DEF Grown
    <2>4. IsContract(c)
      BY <1>1, <1>2, <2>2 DEF Ledger, Contract
    <2>5. e = c \/ (mayArchive(c, u) /\ e = [c EXCEPT !.live = FALSE])
      <3>1. CASE d = c
        BY <2>3, <3>1
      <3>2. CASE mayArchive(c, u) /\ d = [c EXCEPT !.live = FALSE]
        <4>1. [d EXCEPT !.live = FALSE] = d
          BY <2>4, <3>2, ArchivedTwice
        <4> QED BY <2>3, <3>2, <4>1
      <3> QED BY <2>3, <3>1, <3>2
    <2> QED BY <2>2, <2>5
  <1>3. ASSUME NEW i \in 1..Len(q), i > Len(l)
        PROVE  mine(q[i], u) \/ q[i].template = "OperatorAuditEvent"
    <2>1. CASE i > Len(m)
      BY <1>3, <2>1 DEF Grown
    <2>2. CASE i \in 1..Len(m)
      <3>1. PICK d, e : d = m[i] /\ e = q[i]
        OBVIOUS
      <3>2. mine(d, u) \/ d.template = "OperatorAuditEvent"
        BY <1>3, <2>2, <3>1 DEF Grown
      <3>3. e = d \/ e = [d EXCEPT !.live = FALSE]
        BY <2>2, <3>1 DEF Grown
      <3>4. IsContract(d)
        BY <1>1, <2>2, <3>1 DEF Ledger, Contract
      <3>5. e.template = d.template /\ e.payload = d.payload
        BY <3>3, <3>4, ArchivedTwice
      <3> QED BY <3>1, <3>2, <3>5 DEF mine
    <2> QED BY <1>1, <1>3, <2>1, <2>2
  <1>4. ASSUME NEW v \in Users
        PROVE  HeldBy(q, v) = HeldBy(l, v) + (IF v = u THEN x + y ELSE 0)
    <2>1. /\ HeldBy(m, v) = HeldBy(l, v) + (IF v = u THEN x ELSE 0)
          /\ HeldBy(q, v) = HeldBy(m, v) + (IF v = u THEN y ELSE 0)
      BY <1>4 DEF Grown
    <2>2. HeldBy(l, v) \in Int
      BY <1>1, HeldType
    <2> QED BY <1>1, <2>1, <2>2
  <1> QED BY <1>1, <1>2, <1>3, <1>4 DEF Grown

\* A contract is created.
LEMMA CreateGrows ==
    ASSUME NEW l, Ledger(l), NEW u, NEW c, Contract(c), NEW m, m = Append(l, c), NEW x \in Int,
           \/ mine(c, u) /\ x = held(c, u)
           \/ c.template = "OperatorAuditEvent" /\ x = 0
    PROVE  /\ Grown(l, m, u, x)
           /\ Len(m) = Len(l) + 1 /\ m[Len(m)] = c /\ \A i \in 1..Len(l) : m[i] = l[i]
  <1>1. /\ Len(l) \in Nat /\ Len(m) = Len(l) + 1 /\ m[Len(l) + 1] = c
        /\ \A i \in 1..Len(l) : m[i] = l[i]
    BY DEF Ledger, IsSeq
  <1>2. IsSeq(m)
    <2>1. PICK S : S = {l[i] : i \in 1..Len(l)} \cup {c}
      OBVIOUS
    <2>2. l = [i \in 1..Len(l) |-> l[i]] /\ \A i \in 1..Len(l) : l[i] \in S
      BY <2>1 DEF Ledger, IsSeq
    <2>3. l \in Seq(S) /\ c \in S
      BY <1>1, <2>1, <2>2, SeqOf
    <2>4. m \in Seq(S)
      BY <2>3
    <2> QED BY <2>4, SeqIs
  <1>3. \A i \in 1..Len(m) : i \in 1..Len(l) \/ i = Len(l) + 1
    BY <1>1
  <1>4. Ledger(m)
    BY <1>1, <1>2, <1>3 DEF Ledger
  <1>5. ASSUME NEW v \in Users PROVE HeldBy(m, v) = HeldBy(l, v) + (IF v = u THEN x ELSE 0)
    <2>2. PICK f \in Seq(Int) : /\ Len(f) = Len(l) /\ HeldBy(l, v) = SumOver(f)
                               /\ \A i \in 1..Len(l) : f[i] = held(l[i], v)
      BY HeldSum
    <2>3. PICK g \in Seq(Int) : /\ Len(g) = Len(m) /\ HeldBy(m, v) = SumOver(g)
                               /\ \A i \in 1..Len(m) : g[i] = held(m[i], v)
      BY <1>4, HeldSum
    <2>4. PICK y : y = held(c, v)
      OBVIOUS
    <2>5. y \in Int /\ g[Len(f) + 1] = y /\ Len(g) = Len(f) + 1
      BY <1>1, <2>2, <2>3, <2>4
    <2>6. \A k \in 1..Len(f) : g[k] = f[k]
      BY <1>1, <2>2, <2>3
    <2>7. SumOver(g) = SumOver(f) + y
      BY <2>2, <2>5, <2>6, SumLonger
    <2>8. y = IF v = u THEN x ELSE 0
      BY <2>4 DEF held, counts, mine
    <2> QED BY <2>2, <2>3, <2>7, <2>8
  <1>6. ASSUME NEW i \in 1..Len(m), i > Len(l)
        PROVE  mine(m[i], u) \/ m[i].template = "OperatorAuditEvent"
    <2>1. m[i] = c
      BY <1>1, <1>3, <1>6
    <2> QED BY <2>1
  <1> QED BY <1>1, <1>4, <1>5, <1>6 DEF Grown

\* A contract of the user is archived.
LEMMA ArchiveGrows ==
    ASSUME NEW l, Ledger(l), NEW u, NEW j \in 1..Len(l), mayArchive(l[j], u), NEW x \in Int,
           \/ l[j].template = "AllocationRun" /\ x = 0
           \/ worth(l[j]) = 0 /\ x = 0
           \/ l[j].template # "AllocationRun" /\ l[j].live /\ x = -worth(l[j]),
           NEW m, m = [l EXCEPT ![j].live = FALSE]
    PROVE  Grown(l, m, u, x) /\ Len(m) = Len(l)
  <1>1. Len(l) \in Nat /\ DOMAIN l = 1..Len(l) /\ l = [i \in 1..Len(l) |-> l[i]]
    BY DEF Ledger, IsSeq
  <1>2. PICK c, d : c = l[j] /\ d = [c EXCEPT !.live = FALSE]
    OBVIOUS
  <1>3. m = [i \in 1..Len(l) |-> IF i = j THEN d ELSE l[i]]
    BY <1>1, <1>2
  <1>4. /\ Len(m) = Len(l) /\ DOMAIN m = 1..Len(l)
        /\ \A i \in 1..Len(l) : m[i] = IF i = j THEN d ELSE l[i]
    <2>1. m = [i \in 1..Len(l) |-> m[i]]
      BY <1>3
    <2> QED BY <1>1, <1>3, <2>1, LenOf
  <1>5. IsSeq(m)
    BY <1>1, <1>3, <1>4 DEF IsSeq
  <1>6. Contract(c)
    BY <1>2 DEF Ledger
  <1>7. d.template = c.template /\ d.payload = c.payload /\ d.live = FALSE /\ IsContract(d)
    <2>1. IsContract(c)
      BY <1>6 DEF Contract
    <2> QED BY <1>2, <2>1 DEF IsContract
  <1>8. worth(d) = worth(c)
    BY <1>7 DEF worth
  <1>9. Contract(d)
    BY <1>6, <1>7, <1>8 DEF Contract
  <1>10. Ledger(m)
    BY <1>4, <1>5, <1>9 DEF Ledger
  <1>11. ASSUME NEW v \in Users PROVE HeldBy(m, v) = HeldBy(l, v) + (IF v = u THEN x ELSE 0)
    <2>2. PICK f \in Seq(Int) : /\ Len(f) = Len(l) /\ HeldBy(l, v) = SumOver(f)
                               /\ \A i \in 1..Len(l) : f[i] = held(l[i], v)
      BY HeldSum
    <2>3. PICK g \in Seq(Int) : /\ Len(g) = Len(m) /\ HeldBy(m, v) = SumOver(g)
                               /\ \A i \in 1..Len(m) : g[i] = held(m[i], v)
      BY <1>10, HeldSum
    <2>4. PICK y, z : y = held(d, v) /\ z = held(c, v)
      OBVIOUS
    <2>5. y \in Int /\ g[j] = y /\ Len(g) = Len(f) /\ f[j] = z /\ j \in 1..Len(f) /\ z \in Int
      <3>1. Len(g) = Len(f) /\ j \in 1..Len(f) /\ j \in 1..Len(g)
        BY <1>4, <2>2, <2>3
      <3>2. g[j] \in Int /\ f[j] \in Int
        BY <3>1
      <3>3. g[j] = y
        <4>1. g[j] = held(m[j], v) /\ m[j] = d
          BY <1>4, <2>3, <3>1
        <4> QED BY <2>4, <4>1
      <3>4. f[j] = z
        BY <1>2, <2>2, <2>4
      <3> QED BY <3>1, <3>2, <3>3, <3>4
    <2>6. \A k \in 1..Len(f) : k # j => g[k] = f[k]
      BY <1>4, <2>2, <2>3
    <2>7. SumOver(g) = SumOver(f) + (y - z)
      BY <2>2, <2>5, <2>6, SumReplaced
    <2>8. y - z = IF v = u THEN x ELSE 0
      <3>1. CASE v # u
        BY <1>2, <1>7, <2>4, <3>1 DEF held, counts, mine, mayArchive
      <3>2. CASE v = u /\ c.template = "AllocationRun"
        <4>1. y = worth(d) /\ z = worth(c) /\ x = 0
          BY <1>2, <1>7, <2>4, <3>2 DEF held, counts, mine, mayArchive
        <4> QED BY <1>8, <2>5, <3>2, <4>1
      <3>3. CASE v = u /\ c.template # "AllocationRun" /\ worth(c) = 0 /\ x = 0
        <4>1. y = 0 /\ z = 0
          BY <1>2, <1>7, <1>8, <2>4, <3>3 DEF held
        <4> QED BY <3>3, <4>1
      <3>4. CASE v = u /\ c.template # "AllocationRun" /\ c.live /\ x = -worth(c)
        <4>1. y = 0 /\ z = worth(c) /\ x = -worth(c)
          BY <1>2, <1>7, <2>4, <3>4 DEF held, counts, mine, mayArchive
        <4> QED BY <2>5, <3>4, <4>1
      <3> QED BY <1>2, <3>1, <3>2, <3>3, <3>4
    <2>9. HeldBy(l, v) \in Int
      BY HeldType
    <2> QED BY <2>2, <2>3, <2>7, <2>8, <2>9
  <1>12. \A i \in 1..Len(l) : m[i] = l[i] \/ (mayArchive(l[i], u) /\ m[i] = [l[i] EXCEPT !.live = FALSE])
    BY <1>2, <1>4
  <1>13. \A i \in 1..Len(m) : ~(i > Len(l))
    BY <1>1, <1>4
  <1>14. Len(l) <= Len(m)
    BY <1>1, <1>4
  <1> QED BY <1>4, <1>10, <1>11, <1>12, <1>13, <1>14 DEF Grown

-----------------------------------------------------------------------------
(* What a call creates                                                     *)

LEMMA CreatedContract ==
    ASSUME NEW template, NEW p, NEW c, c = [template |-> template, payload |-> p, live |-> TRUE]
    PROVE  IsContract(c) /\ c.template = template /\ c.payload = p /\ c.live = TRUE
  BY DEF IsContract

\* Contracts that hold nothing of a credit.
LEMMA EmptyContract ==
    ASSUME NEW u \in Users, NEW p, p.user = u,
           NEW template \in {"UserProfile", "PayrollPolicy", "EmployerPayrollNotice"},
           template = "EmployerPayrollNotice" => p.employer = Employer,
           template = "PayrollPolicy" => IsPolicy(p.policy),
           NEW c, c = [template |-> template, payload |-> p, live |-> TRUE]
    PROVE  Contract(c) /\ mine(c, u) /\ held(c, u) = 0
  <1>1. IsContract(c) /\ c.template = template /\ c.payload = p /\ c.live = TRUE
    BY CreatedContract
  <1>2. worth(c) = 0
    BY <1>1 DEF worth
  <1>3. Contract(c) /\ mine(c, u)
    BY <1>1, <1>2 DEF Contract, ViewTemplates, mine
  <1> QED BY <1>1, <1>2, <1>3 DEF held

LEMMA AuditContract ==
    ASSUME NEW p, NEW c, c = [template |-> "OperatorAuditEvent", payload |-> p, live |-> TRUE]
    PROVE  Contract(c) /\ c.template = "OperatorAuditEvent"
  <1>1. IsContract(c) /\ c.template = "OperatorAuditEvent" /\ c.payload = p /\ c.live = TRUE
    BY CreatedContract
  <1>2. worth(c) = 0
    BY <1>1 DEF worth
  <1> QED BY <1>1, <1>2 DEF Contract, ViewTemplates

LEMMA CreditContract ==
    ASSUME NEW u \in Users, NEW p, IsCredit(p), p.user = u, p.amount \in Nat,
           IsAsset(p.asset), p.allocated \in BOOLEAN,
           NEW c, c = [template |-> "PayrollCredit", payload |-> p, live |-> TRUE]
    PROVE  /\ Contract(c) /\ mine(c, u) /\ held(c, u) \in Int
           /\ held(c, u) = IF p.allocated THEN -p.amount ELSE 0
  <1>1. IsContract(c) /\ c.template = "PayrollCredit" /\ c.payload = p /\ c.live = TRUE
    BY CreatedContract
  <1>2. worth(c) = IF p.allocated THEN -p.amount ELSE 0
    BY <1>1 DEF worth
  <1>3. worth(c) \in Int
    BY <1>2
  <1>4. Contract(c) /\ mine(c, u)
    BY <1>1, <1>3 DEF Contract, ViewTemplates, mine
  <1> QED BY <1>1, <1>2, <1>3, <1>4 DEF held, counts, mine

LEMMA RunContract ==
    ASSUME NEW u \in Users, NEW p, p.user = u, untraced(p.lines) + lost(p) \in Int,
           lostLittle(p),
           NEW c, c = [template |-> "AllocationRun", payload |-> p, live |-> TRUE]
    PROVE  Contract(c) /\ mine(c, u) /\ held(c, u) = untraced(p.lines) + lost(p)
  <1>1. IsContract(c) /\ c.template = "AllocationRun" /\ c.payload = p /\ c.live = TRUE
    BY CreatedContract
  <1>2. worth(c) = untraced(p.lines) + lost(p)
    BY <1>1 DEF worth
  <1>3. Contract(c) /\ mine(c, u)
    BY <1>1, <1>2 DEF Contract, ViewTemplates, mine
  <1> QED BY <1>1, <1>2, <1>3 DEF held, counts, mine

\* Money kept, paid or invested.
LEMMA HeldContract ==
    ASSUME NEW u \in Users, NEW p, p.user = u, p.amount \in Int,
           NEW template \in {"CategoryBalance", "PaymentReceipt", "PortfolioAllocation"},
           NEW c, c = [template |-> template, payload |-> p, live |-> TRUE]
    PROVE  Contract(c) /\ mine(c, u) /\ held(c, u) = p.amount
  <1>1. IsContract(c) /\ c.template = template /\ c.payload = p /\ c.live = TRUE
    BY CreatedContract
  <1>2. worth(c) = p.amount
    BY <1>1 DEF worth
  <1>3. Contract(c) /\ mine(c, u)
    BY <1>1, <1>2 DEF Contract, ViewTemplates, mine
  <1> QED BY <1>1, <1>2, <1>3 DEF held, counts, mine

LEMMA ActionContract ==
    ASSUME NEW u \in Users, NEW p, IsAction(p), p.user = u, p.amount \in Int,
           IsCategory(p.category),
           NEW c, c = [template |-> "PendingAction", payload |-> p, live |-> TRUE]
    PROVE  /\ Contract(c) /\ mine(c, u) /\ held(c, u) \in Int
           /\ held(c, u) = IF p.status = "Executed" /\ ~leavesNothing(p) THEN 0 ELSE p.amount
  <1>1. IsContract(c) /\ c.template = "PendingAction" /\ c.payload = p /\ c.live = TRUE
    BY CreatedContract
  <1>2. worth(c) = IF p.status = "Executed" /\ ~leavesNothing(p) THEN 0 ELSE p.amount
    BY <1>1 DEF worth
  <1>3. worth(c) \in Int
    BY <1>2
  <1>4. Contract(c) /\ mine(c, u)
    BY <1>1, <1>3 DEF Contract, ViewTemplates, mine
  <1> QED BY <1>1, <1>2, <1>3, <1>4 DEF held, counts, mine

-----------------------------------------------------------------------------
(* The lines of a plan                                                     *)

Buckets == {"immediateInternalBalances", "manualHolds", "pendingActions", "immediatePayments",
            "immediatePortfolioAllocations"}

IsLine(line) ==
    line.amount \in Int /\ IsCategory(line.category) /\ line.bucket \in Buckets

\* What the contract of a line holds.
kept(line) ==
    IF line.bucket = "immediatePayments" /\ line.category.recipient = NoParty THEN 0 ELSE line.amount

LEMMA ReceiptGrows ==
    ASSUME NEW l, Ledger(l), NEW u \in Users, NEW runId, NEW category, NEW amount \in Int,
           NEW m, m = createReceipt(l, u, runId, category, amount)
    PROVE  Grown(l, m, u, amount) /\ \A i \in 1..Len(l) : m[i] = l[i]
  <1>1. PICK p : p = [user |-> u, runId |-> runId, category |-> category.id, amount |-> amount,
                      recipient |-> category.recipient]
    OBVIOUS
  <1>2. p.user = u /\ p.amount = amount
    BY <1>1
  <1>3. PICK c : c = [template |-> "PaymentReceipt", payload |-> p, live |-> TRUE]
    OBVIOUS
  <1>4. Contract(c) /\ mine(c, u) /\ held(c, u) = amount
    BY <1>2, <1>3, HeldContract
  <1>5. m = Append(l, c)
    BY <1>1, <1>3 DEF createReceipt, demoCreate
  <1>6. mine(c, u) /\ amount = held(c, u)
    BY <1>4
  <1>7. Grown(l, m, u, amount)
    BY <1>4, <1>5, <1>6, CreateGrows
  <1>8. \A i \in 1..Len(l) : m[i] = l[i]
    BY <1>4, <1>5, <1>6, CreateGrows
  <1> QED BY <1>7, <1>8

LEMMA ReleasedGrows ==
    ASSUME NEW l, Ledger(l), NEW u \in Users, NEW runId, NEW category, NEW amount \in Int,
           NEW template \in {"CategoryBalance", "PortfolioAllocation"},
           NEW m, m = demoCreate(l, template, released(u, runId, category, amount))
    PROVE  Grown(l, m, u, amount) /\ \A i \in 1..Len(l) : m[i] = l[i]
  <1>1. PICK p : p = released(u, runId, category, amount)
    OBVIOUS
  <1>2. p.user = u /\ p.amount = amount
    BY <1>1 DEF released
  <1>3. PICK c : c = [template |-> template, payload |-> p, live |-> TRUE]
    OBVIOUS
  <1>4. Contract(c) /\ mine(c, u) /\ held(c, u) = amount
    BY <1>2, <1>3, HeldContract
  <1>5. m = Append(l, c)
    BY <1>1, <1>3 DEF demoCreate
  <1>6. mine(c, u) /\ amount = held(c, u)
    BY <1>4
  <1>7. Grown(l, m, u, amount)
    BY <1>4, <1>5, <1>6, CreateGrows
  <1>8. \A i \in 1..Len(l) : m[i] = l[i]
    BY <1>4, <1>5, <1>6, CreateGrows
  <1> QED BY <1>7, <1>8

LEMMA ActionGrows ==
    ASSUME NEW l, Ledger(l), NEW u \in Users, NEW p, IsAction(p), p.user = u, p.amount \in Int,
           IsCategory(p.category), NEW x,
           x = IF p.status = "Executed" /\ ~leavesNothing(p) THEN 0 ELSE p.amount
    PROVE  Grown(l, demoCreate(l, "PendingAction", p), u, x)
  <1>1. PICK c : c = [template |-> "PendingAction", payload |-> p, live |-> TRUE]
    OBVIOUS
  <1>2. Contract(c) /\ mine(c, u) /\ held(c, u) = x /\ x \in Int
    BY <1>1, ActionContract
  <1>3. PICK m : m = Append(l, c)
    OBVIOUS
  <1>4. Grown(l, m, u, x)
    BY <1>2, <1>3, CreateGrows
  <1> QED BY <1>1, <1>3, <1>4 DEF demoCreate

LEMMA LineGrows ==
    ASSUME NEW l, Ledger(l), NEW u \in Users, NEW runId, NEW line, IsLine(line)
    PROVE  Grown(l, createLine(l, u, runId, line), u, kept(line))
  <1>1. PICK amount \in Int : amount = line.amount
    BY DEF IsLine
  <1>2. CASE line.bucket \in {"immediateInternalBalances", "manualHolds"}
    <2>1. createLine(l, u, runId, line) =
              demoCreate(l, "CategoryBalance", released(u, runId, line.category, amount))
      BY <1>1, <1>2 DEF createLine
    <2>2. kept(line) = amount
      BY <1>1, <1>2 DEF kept
    <2> QED BY <2>1, <2>2, ReleasedGrows
  <1>3. CASE line.bucket = "pendingActions"
    <2>1. PICK p : p = [user |-> u, runId |-> runId, category |-> line.category,
                        amount |-> line.amount, status |-> "Pending"]
      OBVIOUS
    <2>2. /\ IsAction(p) /\ p.user = u /\ p.amount = amount /\ p.category = line.category
          /\ p.status = "Pending"
      BY <1>1, <2>1 DEF IsAction
    <2>3. createLine(l, u, runId, line) = demoCreate(l, "PendingAction", p)
      BY <1>3, <2>1 DEF createLine
    <2>4. kept(line) = amount
      BY <1>1, <1>3 DEF kept
    <2>5. amount = IF p.status = "Executed" /\ ~leavesNothing(p) THEN 0 ELSE p.amount
      BY <2>2
    <2> QED BY <2>2, <2>3, <2>4, <2>5, ActionGrows DEF IsLine
  <1>4. CASE line.bucket = "immediatePayments"
    <2>1. CASE line.category.recipient # NoParty
      <3>1. createLine(l, u, runId, line) = createReceipt(l, u, runId, line.category, amount)
        BY <1>1, <1>4, <2>1 DEF createLine
      <3>2. kept(line) = amount
        BY <1>1, <1>4, <2>1 DEF kept
      <3> QED BY <3>1, <3>2, ReceiptGrows
    <2>2. CASE line.category.recipient = NoParty
      <3>1. createLine(l, u, runId, line) = l /\ kept(line) = 0
        BY <1>4, <2>2 DEF createLine, kept
      <3> QED BY <3>1, GrownSame
    <2> QED BY <2>1, <2>2
  <1>5. CASE line.bucket = "immediatePortfolioAllocations"
    <2>1. createLine(l, u, runId, line) =
              demoCreate(l, "PortfolioAllocation", released(u, runId, line.category, amount))
      BY <1>1, <1>5 DEF createLine, createPortfolio
    <2>2. kept(line) = amount
      BY <1>1, <1>5 DEF kept
    <2> QED BY <2>1, <2>2, ReleasedGrows
  <1> QED BY <1>2, <1>3, <1>4, <1>5 DEF IsLine, Buckets

\* The ledgers a loop makes, line by line.
isLoop(g, l, user, runId, plan, bucket, n) ==
    g = [k \in 0..n |-> IF k = 0 THEN l
                       ELSE IF plan[k].bucket = bucket
                            THEN createLine(g[k - 1], user, runId, plan[k]) ELSE g[k - 1]]

\* The recursive definition has a solution.
LEMMA LoopExists ==
    ASSUME NEW l, NEW user, NEW runId, NEW plan, NEW bucket, NEW n \in Nat
    PROVE  \E g : isLoop(g, l, user, runId, plan, bucket, n)
  <1> DEFINE next(k, before) == IF plan[k].bucket = bucket
                                THEN createLine(before, user, runId, plan[k]) ELSE before
             S == {m \in Nat : \E g : g = [k \in 0..m |->
                                              IF k = 0 THEN l ELSE next(k, g[k - 1])]}
  <1> HIDE DEF next
  <1>1. 0 \in S
    <2> DEFINE g == [k \in 0..0 |-> l]
    <2>1. g = [k \in 0..0 |-> IF k = 0 THEN l ELSE next(k, g[k - 1])]
      OBVIOUS
    <2> HIDE DEF g
    <2> QED BY <2>1
  <1>2. ASSUME NEW m \in Nat, m \in S PROVE m + 1 \in S
    <2>1. PICK g : g = [k \in 0..m |-> IF k = 0 THEN l ELSE next(k, g[k - 1])]
      BY <1>2
    <2> DEFINE h == [k \in 0..(m + 1) |-> IF k = m + 1 THEN next(m + 1, g[m]) ELSE g[k]]
    <2>2. \A k \in 0..(m + 1) : h[k] = IF k = 0 THEN l ELSE next(k, h[k - 1])
      <3> TAKE k \in 0..(m + 1)
      <3>1. CASE k = m + 1
        <4>1. h[m + 1] = next(m + 1, g[m]) /\ h[m] = g[m] /\ m + 1 # 0 /\ (m + 1) - 1 = m
          OBVIOUS
        <4> HIDE DEF h
        <4> QED BY <3>1, <4>1
      <3>2. CASE k # m + 1
        <4>1. k \in 0..m /\ h[k] = g[k]
          BY <3>2
        <4>2. g[k] = IF k = 0 THEN l ELSE next(k, g[k - 1])
          BY <2>1, <4>1
        <4>3. k # 0 => k - 1 \in 0..(m + 1) /\ k - 1 # m + 1 /\ h[k - 1] = g[k - 1]
          BY <4>1
        <4> HIDE DEF h
        <4> QED BY <4>1, <4>2, <4>3
      <3> QED BY <3>1, <3>2
    <2>3. h = [k \in 0..(m + 1) |-> h[k]]
      OBVIOUS
    <2> HIDE DEF h
    <2>4. h = [k \in 0..(m + 1) |-> IF k = 0 THEN l ELSE next(k, h[k - 1])]
      BY <2>2, <2>3
    <2> QED BY <2>4
  <1>3. Nat \subseteq S
    <2> HIDE DEF S
    <2> QED BY <1>1, <1>2, NatInductionSet
  <1>4. QED BY <1>3 DEF next, isLoop

IsPlan(plan) == IsSeq(plan) /\ \A k \in 1..Len(plan) : IsLine(plan[k])

\* What the lines of one bucket hold.
keptIn(line, bucket) == IF line.bucket = bucket THEN kept(line) ELSE 0

LEMMA LoopGrows ==
    ASSUME NEW l, Ledger(l), NEW u \in Users, NEW runId, NEW plan, IsPlan(plan), NEW bucket,
           NEW f \in Seq(Int), Len(f) = Len(plan),
           \A k \in 1..Len(plan) : f[k] = keptIn(plan[k], bucket)
    PROVE  Grown(l, loop(l, u, runId, plan, bucket), u, SumOver(f))
  <1>1. PICK n \in Nat : n = Len(plan)
    BY DEF IsPlan, IsSeq
  <1>0. \E g : isLoop(g, l, u, runId, plan, bucket, n)
    BY LoopExists
  <1>2. PICK made : /\ made[n] = loop(l, u, runId, plan, bucket)
                    /\ made = [k \in 0..n |->
                           IF k = 0 THEN l
                           ELSE IF plan[k].bucket = bucket
                                THEN createLine(made[k - 1], u, runId, plan[k]) ELSE made[k - 1]]
    <2> DEFINE all == CHOOSE g : g = [k \in 0..Len(plan) |->
                           IF k = 0 THEN l
                           ELSE IF plan[k].bucket = bucket
                                THEN createLine(g[k - 1], u, runId, plan[k]) ELSE g[k - 1]]
    <2>1. all = [k \in 0..Len(plan) |->
                    IF k = 0 THEN l
                    ELSE IF plan[k].bucket = bucket
                         THEN createLine(all[k - 1], u, runId, plan[k]) ELSE all[k - 1]]
      BY <1>0, <1>1 DEF isLoop
    <2>2. loop(l, u, runId, plan, bucket) = all[Len(plan)]
      BY DEF loop
    <2> HIDE DEF all
    <2> QED BY <1>1, <2>1, <2>2
  <1>3. /\ made[0] = l
        /\ \A k \in 1..n : made[k] = IF plan[k].bucket = bucket
                                     THEN createLine(made[k - 1], u, runId, plan[k])
                                     ELSE made[k - 1]
    <2>1. \A k \in 1..n : k \in 0..n /\ k # 0
      BY <1>1
    <2> QED BY <1>2, <2>1
  <1>4. PICK s : s = partialSums(f)
    OBVIOUS
  <1>5. /\ s[0] = 0 /\ \A k \in 1..n : s[k] = f[k] + s[k - 1]
        /\ \A k \in 0..n : s[k] \in Int
        /\ SumOver(f) = s[n]
    BY <1>1, <1>4, PartialSums, SumType DEF SumOver
  <1>6. PICK S : S = {k \in Nat : k <= n => Grown(l, made[k], u, s[k])}
    OBVIOUS
  <1>7. 0 \in S
    BY <1>3, <1>5, <1>6, GrownSame
  <1>8. ASSUME NEW k \in Nat, k \in S PROVE k + 1 \in S
    <2>1. SUFFICES ASSUME k + 1 <= n PROVE Grown(l, made[k + 1], u, s[k + 1])
      BY <1>6
    <2>2. k \in 0..n /\ k + 1 \in 1..n /\ (k + 1) - 1 = k
      BY <2>1
    <2>3. Grown(l, made[k], u, s[k])
      BY <1>6, <1>8, <2>2
    <2>4. PICK before, line, x : before = made[k] /\ line = plan[k + 1] /\ x = f[k + 1]
      OBVIOUS
    <2>5. Ledger(before) /\ IsLine(line) /\ x = keptIn(line, bucket)
      BY <1>1, <2>2, <2>3, <2>4 DEF Grown, IsPlan
    <2>6. s[k + 1] = s[k] + x
      <3>1. s[k] \in Int /\ x \in Int
        BY <1>1, <1>5, <2>2, <2>4
      <3>2. s[k + 1] = x + s[k]
        BY <1>5, <2>2, <2>4
      <3> QED BY <3>1, <3>2
    <2>7. CASE line.bucket = bucket
      <3>1. made[k + 1] = createLine(before, u, runId, line)
        BY <1>3, <2>2, <2>4, <2>7
      <3>2. x = kept(line)
        BY <2>5, <2>7 DEF keptIn
      <3>3. Grown(before, made[k + 1], u, x)
        BY <2>5, <3>1, <3>2, LineGrows
      <3> QED BY <2>3, <2>4, <2>6, <3>3, GrownMore
    <2>8. CASE line.bucket # bucket
      <3>1. made[k + 1] = before
        BY <1>3, <2>2, <2>4, <2>8
      <3>2. x = 0
        BY <2>5, <2>8 DEF keptIn
      <3>3. Grown(before, made[k + 1], u, x)
        BY <2>5, <3>1, <3>2, GrownSame
      <3> QED BY <2>3, <2>4, <2>6, <3>3, GrownMore
    <2> QED BY <2>7, <2>8
  <1>9. Nat \subseteq S
    BY <1>7, <1>8, NatInductionSet
  <1>10. Grown(l, made[n], u, s[n])
    BY <1>6, <1>9
  <1> QED BY <1>2, <1>5, <1>10

\* The amount that leaves no contract.
leaks(line) ==
    IF line.bucket = "immediatePayments" /\ line.category.recipient = NoParty THEN line.amount ELSE 0

LEMMA IntSeq ==
    ASSUME NEW n \in Nat, NEW f, f = [k \in 1..n |-> f[k]], \A k \in 1..n : f[k] \in Int
    PROVE  f \in Seq(Int) /\ Len(f) = n
  BY SeqOf

\* The five loops create all lines: what their contracts hold, and what is paid
\* without one, is the sum of the amounts.
LEMMA LinesGrow ==
    ASSUME NEW l, Ledger(l), NEW u \in Users, NEW runId, NEW plan, IsPlan(plan),
           NEW f \in Seq(Int), Len(f) = Len(plan), \A k \in 1..Len(plan) : f[k] = kept(plan[k])
    PROVE  Grown(l, createLines(l, u, runId, plan), u, SumOver(f))
  <1>1. PICK n \in Nat : n = Len(plan)
    BY DEF IsPlan, IsSeq
  <1>2. \A k \in 1..n : kept(plan[k]) \in Int /\ plan[k].bucket \in Buckets
    <2>1. \A k \in 1..n : plan[k].amount \in Int /\ plan[k].bucket \in Buckets
      BY <1>1 DEF IsPlan, IsLine
    <2> QED BY <2>1 DEF kept
  <1>3. ASSUME NEW bucket
        PROVE  \E g \in Seq(Int) : Len(g) = n /\ \A k \in 1..n : g[k] = keptIn(plan[k], bucket)
    <2>1. PICK g : g = [k \in 1..n |-> keptIn(plan[k], bucket)]
      OBVIOUS
    <2>2. \A k \in 1..n : g[k] = keptIn(plan[k], bucket) /\ g[k] \in Int
      BY <1>2, <2>1 DEF keptIn
    <2>3. g = [k \in 1..n |-> g[k]]
      BY <2>1
    <2> QED BY <2>2, <2>3, IntSeq
  <1>4. PICK a \in Seq(Int) : /\ Len(a) = n
                              /\ \A k \in 1..n : a[k] = keptIn(plan[k], "immediateInternalBalances")
    BY <1>3
  <1>5. PICK b \in Seq(Int) : /\ Len(b) = n
                              /\ \A k \in 1..n : b[k] = keptIn(plan[k], "manualHolds")
    BY <1>3
  <1>6. PICK c \in Seq(Int) : /\ Len(c) = n
                              /\ \A k \in 1..n : c[k] = keptIn(plan[k], "pendingActions")
    BY <1>3
  <1>7. PICK d \in Seq(Int) : /\ Len(d) = n
                              /\ \A k \in 1..n : d[k] = keptIn(plan[k], "immediatePayments")
    BY <1>3
  <1>8. PICK e \in Seq(Int) :
            /\ Len(e) = n
            /\ \A k \in 1..n : e[k] = keptIn(plan[k], "immediatePortfolioAllocations")
    BY <1>3
  <1>9. PICK l1, l2, l3, l4, l5 :
            /\ l1 = loop(l, u, runId, plan, "immediateInternalBalances")
            /\ l2 = loop(l1, u, runId, plan, "manualHolds")
            /\ l3 = loop(l2, u, runId, plan, "pendingActions")
            /\ l4 = loop(l3, u, runId, plan, "immediatePayments")
            /\ l5 = loop(l4, u, runId, plan, "immediatePortfolioAllocations")
    OBVIOUS
  <1>10. Grown(l, l1, u, SumOver(a))
    BY <1>1, <1>4, <1>9, LoopGrows
  <1>11. Grown(l1, l2, u, SumOver(b))
    <2>1. Ledger(l1)
      BY <1>10 DEF Grown
    <2> QED BY <1>1, <1>5, <1>9, <2>1, LoopGrows
  <1>12. Grown(l2, l3, u, SumOver(c))
    <2>1. Ledger(l2)
      BY <1>11 DEF Grown
    <2> QED BY <1>1, <1>6, <1>9, <2>1, LoopGrows
  <1>13. Grown(l3, l4, u, SumOver(d))
    <2>1. Ledger(l3)
      BY <1>12 DEF Grown
    <2> QED BY <1>1, <1>7, <1>9, <2>1, LoopGrows
  <1>14. Grown(l4, l5, u, SumOver(e))
    <2>1. Ledger(l4)
      BY <1>13 DEF Grown
    <2> QED BY <1>1, <1>8, <1>9, <2>1, LoopGrows
  <1>15. Grown(l, l5, u, (((SumOver(a) + SumOver(b)) + SumOver(c)) + SumOver(d)) + SumOver(e))
    <2>1. Grown(l, l2, u, SumOver(a) + SumOver(b))
      BY <1>10, <1>11, GrownMore
    <2>2. Grown(l, l3, u, (SumOver(a) + SumOver(b)) + SumOver(c))
      BY <1>12, <2>1, GrownMore
    <2>3. Grown(l, l4, u, ((SumOver(a) + SumOver(b)) + SumOver(c)) + SumOver(d))
      BY <1>13, <2>2, GrownMore
    <2> QED BY <1>14, <2>3, GrownMore
  <1>16. SumOver(f) = (((SumOver(a) + SumOver(b)) + SumOver(c)) + SumOver(d)) + SumOver(e)
    <2>1. ASSUME NEW g \in Seq(Int), Len(g) = n, NEW h \in Seq(Int), Len(h) = n
          PROVE  \E s \in Seq(Int) : /\ Len(s) = n /\ \A k \in 1..n : s[k] = g[k] + h[k]
                                     /\ SumOver(s) = SumOver(g) + SumOver(h)
      <3>1. PICK s : s = [k \in 1..n |-> g[k] + h[k]]
        OBVIOUS
      <3>2. \A k \in 1..n : s[k] = g[k] + h[k] /\ s[k] \in Int
        BY <2>1, <3>1
      <3>3. s = [k \in 1..n |-> s[k]]
        BY <3>1
      <3>4. s \in Seq(Int) /\ Len(s) = n
        BY <3>2, <3>3, IntSeq
      <3>5. Len(h) = Len(g) /\ Len(s) = Len(g) /\ \A i \in 1..Len(g) : s[i] = g[i] + h[i]
        BY <2>1, <3>2, <3>4
      <3>6. SumOver(s) = SumOver(g) + SumOver(h)
        BY <3>5, SumsAdd
      <3> QED BY <3>2, <3>4, <3>6
    <2>2. PICK s2 \in Seq(Int) : /\ Len(s2) = n /\ \A k \in 1..n : s2[k] = a[k] + b[k]
                                 /\ SumOver(s2) = SumOver(a) + SumOver(b)
      BY <1>4, <1>5, <2>1
    <2>3. PICK s3 \in Seq(Int) : /\ Len(s3) = n /\ \A k \in 1..n : s3[k] = s2[k] + c[k]
                                 /\ SumOver(s3) = SumOver(s2) + SumOver(c)
      BY <1>6, <2>2, <2>1
    <2>4. PICK s4 \in Seq(Int) : /\ Len(s4) = n /\ \A k \in 1..n : s4[k] = s3[k] + d[k]
                                 /\ SumOver(s4) = SumOver(s3) + SumOver(d)
      BY <1>7, <2>3, <2>1
    <2>5. PICK s5 \in Seq(Int) : /\ Len(s5) = n /\ \A k \in 1..n : s5[k] = s4[k] + e[k]
                                 /\ SumOver(s5) = SumOver(s4) + SumOver(e)
      BY <1>8, <2>4, <2>1
    <2>6. ASSUME NEW k \in 1..n PROVE s5[k] = f[k]
      <3>1. PICK line, x : line = plan[k] /\ x = kept(line)
        OBVIOUS
      <3>2. s5[k] = (((keptIn(line, "immediateInternalBalances") + keptIn(line, "manualHolds"))
                      + keptIn(line, "pendingActions")) + keptIn(line, "immediatePayments"))
                    + keptIn(line, "immediatePortfolioAllocations")
        BY <1>4, <1>5, <1>6, <1>7, <1>8, <2>2, <2>3, <2>4, <2>5, <3>1
      <3>3. line.bucket \in Buckets /\ x \in Int
        BY <1>2, <3>1
      <3>4. f[k] = x
        BY <1>1, <3>1
      <3> QED BY <3>1, <3>2, <3>3, <3>4 DEF keptIn, Buckets
    <2>7. s5 = f
      <3>1. IsSeq(s5) /\ IsSeq(f)
        BY SeqIs
      <3> QED BY <1>1, <2>5, <2>6, <3>1 DEF IsSeq
    <2> QED BY <2>2, <2>3, <2>4, <2>5, <2>7
  <1>17. createLines(l, u, runId, plan) = l5
    BY <1>9 DEF createLines
  <1> QED BY <1>15, <1>16, <1>17

-----------------------------------------------------------------------------
(* The plan of an allocation                                               *)

\* The units of an asset a credit has.
unitsOf(credit) == (credit.amount * credit.asset.finer) \div credit.asset.dust

\* Units become an amount of six digits: exactly if the asset has no more, and
\* else but for a half.
LEMMA FormatRounds ==
    ASSUME NEW units \in Int, NEW asset, IsAsset(asset), NEW x, x = formatAmount(units, asset)
    PROVE  /\ x \in Int
           /\ asset.finer = 1 => x = asset.dust * units
           /\ asset.dust = 1 =>
                  /\ -asset.finer <= (2 * asset.finer) * x - 2 * units
                  /\ (2 * asset.finer) * x - 2 * units <= asset.finer
  <1>1. PICK d, F : d = asset.dust /\ F = asset.finer
    OBVIOUS
  <1>2. d \in Nat \ {0} /\ F \in Nat \ {0} /\ (d = 1 \/ F = 1)
    BY <1>1 DEF IsAsset
  <1>3. PICK s, q, r : s = units * d /\ q = s \div F /\ r = s % F
    OBVIOUS
  <1>4. s \in Int /\ (d = 1 => s = units) /\ s = d * units
    <2>1. \A a \in Int, b \in Nat : a * b \in Int /\ a * 1 = a /\ a * b = b * a
      OBVIOUS
    <2> QED BY <1>2, <1>3, <2>1
  <1>5. q \in Int /\ r \in Int /\ 0 <= r /\ r < F /\ s = F * q + r
    <2>1. \A a \in Int, b \in Nat \ {0} :
              /\ a \div b \in Int /\ a % b \in 0..(b - 1) /\ a = b * (a \div b) + (a % b)
      OBVIOUS
    <2> QED BY <1>2, <1>3, <1>4, <2>1
  <1>6. PICK up \in BOOLEAN : up = (2 * r > F \/ (2 * r = F /\ q \in RoundedUp))
    OBVIOUS
  <1>7. x = IF up THEN q + 1 ELSE q
    BY <1>1, <1>3, <1>6 DEF formatAmount
  <1>8. (up => 2 * r >= F) /\ (~up => 2 * r <= F)
    <2>1. PICK m \in Int : m = 2 * r
      BY <1>5
    <2>2. F \in Int
      BY <1>2
    <2>3. CASE up
      <3>1. 2 * r > F \/ 2 * r = F
        BY <1>6, <2>3
      <3> QED BY <2>1, <2>2, <2>3, <3>1
    <2>4. CASE ~up
      <3>1. ~(2 * r > F)
        BY <1>6, <2>4
      <3> QED BY <2>1, <2>2, <2>4, <3>1
    <2> QED BY <2>3, <2>4
  <1>9. x \in Int
    BY <1>5, <1>7
  <1>10. CASE F = 1
    <2>1. r = 0 /\ s = q /\ ~up
      BY <1>5, <1>8, <1>10
    <2>2. x = s
      BY <1>7, <2>1
    <2>3. d = 1 => -1 <= (2 * 1) * x - 2 * units /\ (2 * 1) * x - 2 * units <= 1
      BY <1>4, <2>2
    <2> QED BY <1>1, <1>4, <1>9, <1>10, <2>2, <2>3
  <1>11. CASE F # 1
    <2>1. s = units
      BY <1>2, <1>4, <1>11
    <2>2. PICK y \in Int : y = F * q
      BY <1>2, <1>5
    <2>3. (2 * F) * q = 2 * y /\ (2 * F) * (q + 1) = 2 * y + 2 * F
      <3>1. \A a \in Nat, b \in Int : /\ (2 * a) * b = 2 * (a * b)
                                     /\ (2 * a) * (b + 1) = 2 * (a * b) + 2 * a
        OBVIOUS
      <3> QED BY <1>2, <1>5, <2>2, <3>1
    <2>4. units = y + r
      BY <1>5, <2>1, <2>2
    <2>5. -F <= (2 * F) * x - 2 * units /\ (2 * F) * x - 2 * units <= F
      <3>1. CASE up
        BY <1>2, <1>5, <1>7, <1>8, <2>3, <2>4, <3>1
      <3>2. CASE ~up
        BY <1>2, <1>5, <1>7, <1>8, <2>3, <2>4, <3>2
      <3> QED BY <3>1, <3>2
    <2> QED BY <1>1, <1>9, <1>11, <2>5
  <1> QED BY <1>10, <1>11

LEMMA PlanIsSplit ==
    ASSUME NEW p, IsPolicy(p), p.categories # <<>>,
           NEW credit, credit.amount \in Nat, IsAsset(credit.asset),
           NEW plan, plan = buildAllocationPlan(p, credit)
    PROVE  /\ IsPlan(plan) /\ Len(plan) # 0
           /\ \E f \in Seq(Int) : /\ Len(f) = Len(plan) /\ SumOver(f) = unitsOf(credit)
                                  /\ \A k \in 1..Len(plan) :
                                        plan[k].amount = formatAmount(f[k], credit.asset)
  <1>1. PICK n \in Nat : n = Len(p.categories)
    BY DEF IsPolicy, IsSeq
  <1>2. /\ p.categories = [i \in 1..n |-> p.categories[i]]
        /\ \A i \in 1..n : IsCategory(p.categories[i])
    BY <1>1 DEF IsPolicy, IsSeq
  <1>3. n # 0
    BY <1>1, <1>2
  <1>0. PICK a : a = unitsOf(credit)
    OBVIOUS
  <1>0a. a \in Nat
    <2>1. PICK x, d, e : x = credit.amount /\ d = credit.asset.dust /\ e = credit.asset.finer
      OBVIOUS
    <2>2. x \in Nat /\ d \in Nat \ {0} /\ e \in Nat
      BY <2>1 DEF IsAsset
    <2>3. \A b, c \in Nat : b * c \in Nat
      OBVIOUS
    <2>4. \A b \in Nat, c \in Nat \ {0} : b \div c \in Nat
      OBVIOUS
    <2> QED BY <1>0, <2>1, <2>2, <2>3, <2>4 DEF unitsOf
  <1>4. PICK share : share = [i \in 1..n |-> Engine(p, credit, 0, {})!share(i)]
    OBVIOUS
  <1>5. \A i \in 1..n : share[i] \in Int
    <2> SUFFICES ASSUME NEW i \in 1..n PROVE share[i] \in Int
      OBVIOUS
    <2>1. PICK b : b = p.categories[i].bps
      OBVIOUS
    <2>2. b \in Int
      BY <1>2, <2>1 DEF IsCategory
    <2>3. share[i] = (a * b) \div 10000
      BY <1>0, <1>4, <2>1 DEF Engine!share, Engine!totalUnits, Engine!categories, unitsOf
    <2>4. a * b \in Int
      BY <1>0a, <2>2
    <2> QED BY <2>3, <2>4
  <1>6. PICK before : before = [i \in 1..(n - 1) |-> share[i]]
    OBVIOUS
  <1>7. before \in Seq(Int) /\ Len(before) = n - 1 /\ \A i \in 1..(n - 1) : before[i] = share[i]
    <2>1. n - 1 \in Nat /\ \A i \in 1..(n - 1) : i \in 1..n
      BY <1>3
    <2>2. \A i \in 1..(n - 1) : before[i] = share[i] /\ before[i] \in Int
      BY <1>5, <1>6, <2>1
    <2>3. before = [i \in 1..(n - 1) |-> before[i]]
      BY <1>6
    <2> QED BY <2>1, <2>2, <2>3, IntSeq
  <1>8. PICK out : out = SumOver(before)
    OBVIOUS
  <1>9. out \in Int /\ a - out \in Int
    BY <1>0a, <1>7, <1>8, SumInt
  <1>10. PICK units : units = [i \in 1..n |-> IF i = n THEN a - out ELSE share[i]]
    OBVIOUS
  <1>11. units \in Seq(Int) /\ Len(units) = n
    <2>1. \A i \in 1..n : units[i] \in Int
      BY <1>5, <1>9, <1>10
    <2>2. units = [i \in 1..n |-> units[i]]
      BY <1>10
    <2> QED BY <2>1, <2>2, IntSeq
  <1>12. SumOver(units) = a
    <2>1. PICK x \in Int : x = a - out
      BY <1>9
    <2>2. units[n] = x /\ \A k \in 1..(n - 1) : units[k] = share[k]
      BY <1>3, <1>10, <2>1
    <2>3. Len(units) = Len(before) + 1 /\ units[Len(before) + 1] = x
      BY <1>3, <1>7, <1>11, <2>2
    <2>4. \A k \in 1..Len(before) : units[k] = before[k]
      BY <1>7, <2>2
    <2>5. SumOver(units) = SumOver(before) + x
      BY <1>7, <2>3, <2>4, SumLonger
    <2> QED BY <1>0a, <1>8, <1>9, <2>1, <2>5
  <1>13. before = [i \in 1..(Len(p.categories) - 1) |-> Engine(p, credit, 0, {})!share(i)]
    <2>1. \A i \in 1..(n - 1) : i \in 1..n
      BY <1>3
    <2> QED BY <1>1, <1>4, <1>6, <2>1
  <1>14. PICK gated :
             gated = [i \in 1..n |->
                         Engine(p, credit, out, {})!requiresApproval(p.categories[i], units[i])]
    OBVIOUS
  <1>15. plan = [i \in 1..n |->
                    [category |-> p.categories[i],
                     amount |-> formatAmount(units[i], credit.asset),
                     bucket |-> IF gated[i] THEN "pendingActions"
                                ELSE Engine(p, credit, out, {})!bucketOf(p.categories[i].type)]]
    <2>1. \A i \in 1..n : units[i] = Engine(p, credit, out, {})!allocateAtomic(i)
      <3> SUFFICES ASSUME NEW i \in 1..n
                   PROVE  units[i] = Engine(p, credit, out, {})!allocateAtomic(i)
        OBVIOUS
      <3>1. Engine(p, credit, out, {})!totalUnits = a
        BY <1>0 DEF Engine!totalUnits, unitsOf
      <3>2. Engine(p, credit, out, {})!share(i) = Engine(p, credit, 0, {})!share(i)
        BY DEF Engine!share, Engine!totalUnits, Engine!categories
      <3>3. Engine(p, credit, out, {})!allocateAtomic(i) =
                IF i = n THEN a - out ELSE Engine(p, credit, out, {})!share(i)
        BY <1>1, <3>1 DEF Engine!allocateAtomic, Engine!categories, Engine!n
      <3> QED BY <1>4, <1>10, <3>2, <3>3
    <2>2. plan = [i \in 1..n |->
                    [category |-> p.categories[i],
                     amount |-> formatAmount(Engine(p, credit, out, {})!allocateAtomic(i),
                                             credit.asset),
                     bucket |-> IF Engine(p, credit, out, {})!requiresApproval(p.categories[i],
                                       Engine(p, credit, out, {})!allocateAtomic(i))
                                THEN "pendingActions"
                                ELSE Engine(p, credit, out, {})!bucketOf(p.categories[i].type)]]
      BY <1>1, <1>8, <1>13 DEF buildAllocationPlan
    <2> QED BY <1>14, <2>1, <2>2
  <1>16. ASSUME NEW i \in 1..n
         PROVE  IsLine(plan[i]) /\ plan[i].amount = formatAmount(units[i], credit.asset)
    <2>1. PICK c, b, x : /\ c = p.categories[i] /\ x = formatAmount(units[i], credit.asset)
                         /\ b = IF gated[i] THEN "pendingActions"
                                ELSE Engine(p, credit, out, {})!bucketOf(c.type)
      OBVIOUS
    <2>2. plan[i] = [category |-> c, amount |-> x, bucket |-> b]
      BY <1>15, <2>1
    <2>3. IsCategory(c) /\ x \in Int
      <3>1. units[i] \in Int
        BY <1>11
      <3> QED BY <1>2, <2>1, <3>1, FormatRounds
    <2>4. b \in Buckets
      <3>1. c.type \in Engine(<<>>, NoPayroll, 0, {})!CategoryTypes
        BY <2>3 DEF IsCategory
      <3> QED BY <2>1, <3>1 DEF Engine!CategoryTypes, Engine!bucketOf, Buckets
    <2> QED BY <2>1, <2>2, <2>3, <2>4 DEF IsLine
  <1>17. Len(plan) = n /\ IsSeq(plan)
    <2>1. plan = [i \in 1..n |-> plan[i]]
      BY <1>15
    <2>2. Len(plan) = n
      BY <2>1, LenOf
    <2> QED BY <2>1, <2>2 DEF IsSeq
  <1> QED BY <1>0, <1>3, <1>11, <1>12, <1>16, <1>17 DEF IsPlan

\* What the amounts of n lines may be short of a credit.
mayLose(credit, n, x) ==
    IF credit.asset.finer = 1 THEN x \in 0..(credit.asset.dust - 1) ELSE 2 * x \in (-n)..n

LEMMA NoMore == ASSUME NEW F \in Nat \ {0}, NEW x \in Int, NEW n \in Int, F * x <= F * n
                PROVE  x <= n
  <1>1. SUFFICES ASSUME n + 1 <= x PROVE FALSE
    OBVIOUS
  <1>2. PICK y \in Nat : x = (n + 1) + y
    <2>1. x - (n + 1) \in Nat /\ x = (n + 1) + (x - (n + 1))
      BY <1>1
    <2> QED BY <2>1
  <1>3. \A b \in Nat, c \in Int, d \in Nat : b * ((c + 1) + d) = (b * c + b) + b * d
    OBVIOUS
  <1>4. F * x = (F * n + F) + F * y
    BY <1>2, <1>3
  <1>5. F * y \in Nat /\ F * n \in Int
    OBVIOUS
  <1> QED BY <1>4, <1>5

\* What the lines of a plan are short of the credit, of an asset of no more
\* digits than amounts have.
LEMMA CoarseLoses ==
    ASSUME NEW credit, credit.amount \in Nat, IsAsset(credit.asset), credit.asset.finer = 1,
           NEW f \in Seq(Int), NEW g \in Seq(Int), Len(g) = Len(f),
           SumOver(f) = unitsOf(credit),
           \A k \in 1..Len(f) : g[k] = formatAmount(f[k], credit.asset)
    PROVE  credit.amount - SumOver(g) \in 0..(credit.asset.dust - 1)
  <1>1. PICK a, d : a = credit.amount /\ d = credit.asset.dust
    OBVIOUS
  <1>2. a \in Nat /\ d \in Nat \ {0}
    BY <1>1 DEF IsAsset
  <1>3. \A k \in 1..Len(f) : g[k] = d * f[k]
    <2> SUFFICES ASSUME NEW k \in 1..Len(f) PROVE g[k] = d * f[k]
      OBVIOUS
    <2>1. f[k] \in Int
      OBVIOUS
    <2> QED BY <1>1, <2>1, FormatRounds
  <1>4. SumOver(g) = d * SumOver(f)
    <2>1. d \in Int
      BY <1>2
    <2> QED BY <1>3, <2>1, SumScaled, Zenon
  <1>5. SumOver(f) = a \div d
    <2>1. SumOver(f) = (a * 1) \div d /\ a * 1 = a
      BY <1>1, <1>2 DEF unitsOf
    <2> QED BY <2>1
  <1>6. \A b \in Nat, c \in Nat \ {0} : b - c < c * (b \div c) /\ c * (b \div c) <= b
    OBVIOUS
  <1>7. a - d < SumOver(g) /\ SumOver(g) <= a
    BY <1>2, <1>4, <1>5, <1>6
  <1>8. SumOver(g) \in Int
    BY SumInt
  <1> QED BY <1>1, <1>2, <1>7, <1>8

\* And of an asset of more: each line is rounded by a half.
LEMMA FineLoses ==
    ASSUME NEW credit, credit.amount \in Nat, IsAsset(credit.asset), credit.asset.finer # 1,
           NEW f \in Seq(Int), NEW g \in Seq(Int), Len(g) = Len(f),
           SumOver(f) = unitsOf(credit),
           \A k \in 1..Len(f) : g[k] = formatAmount(f[k], credit.asset)
    PROVE  2 * (credit.amount - SumOver(g)) \in (-Len(f))..Len(f)
  <1>1. PICK a, F, n : a = credit.amount /\ F = credit.asset.finer /\ n = Len(f)
    OBVIOUS
  <1>2. a \in Nat /\ F \in Nat \ {0} /\ n \in Nat /\ credit.asset.dust = 1
    BY <1>1 DEF IsAsset
  <1>3. PICK b, c, d : /\ b = [k \in 1..n |-> (2 * F) * g[k]] /\ c = [k \in 1..n |-> (-2) * f[k]]
                       /\ d = [k \in 1..n |-> b[k] + c[k]]
    OBVIOUS
  <1>4. \A k \in 1..n : /\ f[k] \in Int /\ g[k] \in Int /\ b[k] = (2 * F) * g[k]
                        /\ c[k] = (-2) * f[k] /\ d[k] = b[k] + c[k]
    BY <1>1, <1>3
  <1>5. \A k \in 1..n : b[k] \in Int /\ c[k] \in Int /\ d[k] \in Int
    <2>1. \A x \in Nat, y \in Int : (2 * x) * y \in Int /\ (-2) * y \in Int
      OBVIOUS
    <2>2. \A x, y \in Int : x + y \in Int
      OBVIOUS
    <2>3. F \in Nat
      BY <1>2
    <2>4. \A k \in 1..n : b[k] \in Int /\ c[k] \in Int
      <3> SUFFICES ASSUME NEW k \in 1..n PROVE b[k] \in Int /\ c[k] \in Int
        OBVIOUS
      <3>1. PICK v \in Int, w \in Int : v = f[k] /\ w = g[k]
        BY <1>4
      <3>2. b[k] = (2 * F) * w /\ c[k] = (-2) * v
        BY <1>4, <3>1
      <3>3. (2 * F) * w \in Int /\ (-2) * v \in Int
        BY <2>1, <2>3, Zenon
      <3> QED BY <3>2, <3>3, Zenon
    <2> QED BY <1>4, <2>2, <2>4, Zenon
  <1>6. /\ b \in Seq(Int) /\ Len(b) = n /\ c \in Seq(Int) /\ Len(c) = n
        /\ d \in Seq(Int) /\ Len(d) = n
    <2>1. b = [k \in 1..n |-> b[k]] /\ c = [k \in 1..n |-> c[k]] /\ d = [k \in 1..n |-> d[k]]
      BY <1>3
    <2> QED BY <1>2, <1>5, <2>1, IntSeq
  <1>7. SumOver(d) = SumOver(b) + SumOver(c)
    <2>1. Len(c) = Len(b) /\ Len(d) = Len(b) /\ \A k \in 1..Len(b) : d[k] = b[k] + c[k]
      BY <1>4, <1>6, Zenon
    <2> QED BY <1>6, <2>1, SumsAdd, Zenon
  <1>8. SumOver(b) = (2 * F) * SumOver(g)
    <2>1. 2 * F \in Int
      BY <1>2
    <2>2. Len(b) = Len(g) /\ \A k \in 1..Len(g) : b[k] = (2 * F) * g[k]
      BY <1>1, <1>4, <1>6, Zenon
    <2> QED BY <2>1, <2>2, SumScaled, Zenon
  <1>9. SumOver(c) = (-2) * SumOver(f)
    <2>1. -2 \in Int
      OBVIOUS
    <2>2. Len(c) = Len(f) /\ \A k \in 1..Len(f) : c[k] = (-2) * f[k]
      BY <1>1, <1>4, <1>6, Zenon
    <2> QED BY <2>1, <2>2, SumScaled, Zenon
  <1>10. SumOver(f) = a * F
    <2>1. SumOver(f) = (a * F) \div 1
      BY <1>1, <1>2 DEF unitsOf
    <2>2. a * F \in Int
      BY <1>2
    <2> QED BY <2>1, <2>2
  <1>11. \A k \in 1..Len(d) : -F <= d[k] /\ d[k] <= F
    <2> SUFFICES ASSUME NEW k \in 1..n PROVE -F <= d[k] /\ d[k] <= F
      BY <1>6
    <2>1. g[k] = formatAmount(f[k], credit.asset) /\ f[k] \in Int
      BY <1>1, <1>4
    <2>2. -F <= (2 * F) * g[k] - 2 * f[k] /\ (2 * F) * g[k] - 2 * f[k] <= F
      BY <1>1, <1>2, <2>1, FormatRounds
    <2>3. d[k] = (2 * F) * g[k] + (-2) * f[k]
      BY <1>4
    <2>4. PICK x \in Int : x = (2 * F) * g[k]
      BY <1>4, <1>5
    <2> QED BY <1>4, <2>2, <2>3, <2>4
  <1>12. -(F * n) <= SumOver(d) /\ SumOver(d) <= F * n
    BY <1>2, <1>6, <1>11, SumBounded
  <1>13. PICK S \in Int : S = SumOver(g)
    BY SumInt
  <1>14. SumOver(d) = F * (2 * (S - a))
    <2>1. SumOver(d) = (2 * F) * S + (-2) * (a * F)
      BY <1>7, <1>8, <1>9, <1>10, <1>13
    <2>2. \A x, y \in Nat, z \in Int : (2 * x) * z + (-2) * (y * x) = x * (2 * (z - y))
      OBVIOUS
    <2> QED BY <1>2, <1>13, <2>1, <2>2
  <1>15. 2 * (S - a) <= n
    BY <1>2, <1>12, <1>13, <1>14, NoMore
  <1>16. F * (-(2 * (S - a))) <= F * n
    <2>1. \A x \in Nat, y \in Int : x * (-y) = -(x * y) /\ x * y \in Int
      OBVIOUS
    <2>2. F * (-(2 * (S - a))) = -SumOver(d) /\ SumOver(d) \in Int /\ F * n \in Int
      BY <1>2, <1>13, <1>14, <2>1
    <2> QED BY <1>12, <2>2
  <1>17. -(2 * (S - a)) <= n
    BY <1>2, <1>13, <1>16, NoMore
  <1> QED BY <1>1, <1>2, <1>13, <1>15, <1>17

\* The amounts f are what the contracts of a plan hold; with what is paid
\* without one they are those of its lines.
Keeps(f, plan, credit) ==
    /\ IsPlan(plan) /\ Len(f) = Len(plan) /\ \A k \in 1..Len(plan) : f[k] = kept(plan[k])
    /\ plan # <<>> /\ untraced(plan) \in Int
    /\ LET given == SumOver([k \in DOMAIN plan |-> plan[k].amount]) IN
       /\ given \in Int /\ SumOver(f) + untraced(plan) = given
       /\ mayLose(credit, Len(plan), credit.amount - given)

LEMMA PlanKept ==
    ASSUME NEW p, IsPolicy(p), p.categories # <<>>,
           NEW credit, credit.amount \in Nat, IsAsset(credit.asset),
           NEW plan, plan = buildAllocationPlan(p, credit)
    PROVE  \E f \in Seq(Int) : Keeps(f, plan, credit)
  <1>0a. IsPlan(plan) /\ Len(plan) # 0 /\ plan # <<>>
    <2>1. IsPlan(plan) /\ Len(plan) # 0
      BY PlanIsSplit
    <2>2. Len(<<>>) = 0
      OBVIOUS
    <2> QED BY <2>1, <2>2
  <1>0c. PICK units \in Seq(Int) : /\ Len(units) = Len(plan) /\ SumOver(units) = unitsOf(credit)
                                  /\ \A k \in 1..Len(plan) :
                                        plan[k].amount = formatAmount(units[k], credit.asset)
    BY PlanIsSplit
  <1>0d. PICK g : g = [k \in DOMAIN plan |-> plan[k].amount]
    OBVIOUS
  <1>0b. /\ g \in Seq(Int) /\ Len(g) = Len(plan)
         /\ \A k \in 1..Len(plan) : g[k] = plan[k].amount
    <2>1. DOMAIN plan = 1..Len(plan) /\ Len(plan) \in Nat
      BY <1>0a DEF IsPlan, IsSeq
    <2>2. \A k \in 1..Len(plan) : g[k] = plan[k].amount /\ g[k] \in Int
      BY <1>0a, <1>0d, <2>1 DEF IsPlan, IsLine
    <2>3. g = [k \in 1..Len(plan) |-> g[k]]
      BY <1>0d, <2>1
    <2> QED BY <2>1, <2>2, <2>3, IntSeq
  <1>1. PICK n \in Nat : n = Len(plan)
    BY <1>0a DEF IsPlan, IsSeq
  <1>2. ASSUME NEW k \in 1..n
        PROVE  /\ kept(plan[k]) \in Int /\ leaks(plan[k]) \in Int
               /\ kept(plan[k]) + leaks(plan[k]) = plan[k].amount
    <2>1. plan[k].amount \in Int
      BY <1>0a, <1>1 DEF IsPlan, IsLine
    <2> QED BY <2>1 DEF kept, leaks
  <1>3. PICK f : f = [k \in 1..n |-> kept(plan[k])]
    OBVIOUS
  <1>4. PICK e : e = [k \in 1..n |-> leaks(plan[k])]
    OBVIOUS
  <1>5. /\ f \in Seq(Int) /\ Len(f) = n /\ \A k \in 1..n : f[k] = kept(plan[k])
    <2>1. f = [k \in 1..n |-> f[k]] /\ \A k \in 1..n : f[k] \in Int
      BY <1>2, <1>3
    <2> QED BY <1>3, <2>1, IntSeq
  <1>6. /\ e \in Seq(Int) /\ Len(e) = n /\ \A k \in 1..n : e[k] = leaks(plan[k])
    <2>1. e = [k \in 1..n |-> e[k]] /\ \A k \in 1..n : e[k] \in Int
      BY <1>2, <1>4
    <2> QED BY <1>4, <2>1, IntSeq
  <1>7. untraced(plan) = SumOver(e)
    <2>1. DOMAIN plan = 1..n
      BY <1>0a, <1>1 DEF IsPlan, IsSeq
    <2>2. e = [k \in DOMAIN plan |->
                 IF plan[k].bucket = "immediatePayments" /\ plan[k].category.recipient = NoParty
                 THEN plan[k].amount ELSE 0]
      BY <1>4, <2>1 DEF leaks
    <2> QED BY <2>2 DEF untraced
  <1>8. \A k \in 1..Len(f) : g[k] = f[k] + e[k]
    BY <1>0b, <1>1, <1>2, <1>5, <1>6
  <1>9. Len(e) = Len(f) /\ Len(g) = Len(f)
    BY <1>0b, <1>1, <1>5, <1>6
  <1>10. SumOver(g) = SumOver(f) + SumOver(e)
    BY <1>0b, <1>5, <1>6, <1>8, <1>9, SumsAdd
  <1>11. SumOver(e) \in Int
    BY <1>6, SumInt
  <1>12. mayLose(credit, Len(plan), credit.amount - SumOver(g))
    <2>1. \A k \in 1..Len(units) : g[k] = formatAmount(units[k], credit.asset)
      BY <1>0b, <1>0c
    <2>2. CASE credit.asset.finer = 1
      BY <1>0b, <1>0c, <2>1, <2>2, CoarseLoses DEF mayLose
    <2>3. CASE credit.asset.finer # 1
      <3>1. 2 * (credit.amount - SumOver(g)) \in (-Len(units))..Len(units)
        BY <1>0b, <1>0c, <2>1, <2>3, FineLoses
      <3> QED BY <1>0c, <2>3, <3>1 DEF mayLose
    <2> QED BY <2>2, <2>3
  <1>13. SumOver(g) \in Int
    BY <1>0b, SumInt
  <1> QED BY <1>0a, <1>0d, <1>1, <1>5, <1>7, <1>10, <1>11, <1>12, <1>13 DEF Keeps

\* What the contracts of others have grown from still has its template and payload.
LEMMA GrownKeeps ==
    ASSUME NEW l, NEW m, NEW u, NEW x, Grown(l, m, u, x), NEW i \in 1..Len(l)
    PROVE  /\ i \in 1..Len(m) /\ IsContract(m[i])
           /\ m[i].template = l[i].template /\ m[i].payload = l[i].payload
  <1>1. i \in 1..Len(m) /\ Contract(l[i]) /\ Contract(m[i])
    BY DEF Grown, Ledger, IsSeq
  <1>2. PICK c, d : c = l[i] /\ d = m[i]
    OBVIOUS
  <1>3. IsContract(c) /\ IsContract(d) /\ (d = c \/ d = [c EXCEPT !.live = FALSE])
    BY <1>1, <1>2 DEF Grown, Contract
  <1>4. d.template = c.template /\ d.payload = c.payload
    BY <1>3, ArchivedTwice
  <1> QED BY <1>1, <1>2, <1>3, <1>4

LEMMA ExecuteAllocationGrows ==
    ASSUME NEW l, Ledger(l), NEW u \in Users, NEW run, NEW policyId, NEW creditId,
           policyId = NoContract \/ policyId[1] = "PayrollPolicy",
           creditId = NoContract \/ creditId[1] = "PayrollCredit",
           mayExecuteAllocation(l, run, policyId, creditId, u)
    PROVE  Grown(l, demoExecuteAllocation(l, run, policyId, creditId, u), u, 0)
  <1>1. Len(l) \in Nat /\ DOMAIN l = 1..Len(l)
    BY DEF Ledger, IsSeq
  <1>2. PICK i, j, k : i = run[2] /\ j = policyId[2] /\ k = creditId[2]
    OBVIOUS
  <1>3. i \in 1..Len(l) /\ l[i].template = "AllocationRun" /\ l[i].payload.user = u
    BY <1>1, <1>2 DEF mayExecuteAllocation, found, visibleTo
  <1>4. j \in 1..Len(l) /\ l[j].template = "PayrollPolicy"
    <2>1. j \in 1..Len(l) /\ l[j].template = policyId[1]
      BY <1>1, <1>2 DEF mayExecuteAllocation
    <2>2. policyId # NoContract
      BY <1>2, <2>1 DEF NoContract
    <2> QED BY <2>1, <2>2
  <1>5. k \in 1..Len(l) /\ l[k].template = "PayrollCredit" /\ l[k].payload.user = u
        /\ ~l[k].payload.allocated
    <2>1. /\ k \in 1..Len(l) /\ l[k].template = creditId[1] /\ l[k].payload.user = u
          /\ ~l[k].payload.allocated
      BY <1>1, <1>2 DEF mayExecuteAllocation, payload
    <2>2. creditId # NoContract
      BY <1>2, <2>1 DEF NoContract
    <2> QED BY <2>1, <2>2
  <1>6. PICK credit, p, runId : /\ credit = l[k].payload /\ p = l[j].payload.policy
                                /\ runId = l[i].payload.runId
    OBVIOUS
  <1>7. IsPolicy(p) /\ p.categories # <<>>
    BY <1>2, <1>4, <1>6 DEF Ledger, Contract, mayExecuteAllocation, validPolicy, payload
  <1>8. /\ IsCredit(credit) /\ credit.amount \in Nat /\ credit.user = u /\ ~credit.allocated
        /\ IsAsset(credit.asset)
    BY <1>5, <1>6 DEF Ledger, Contract
  <1>9. PICK a \in Nat : a = credit.amount
    BY <1>8
  <1>10. PICK plan : plan = buildAllocationPlan(p, credit)
    OBVIOUS
  <1>10b. PICK f \in Seq(Int) : Keeps(f, plan, credit)
    BY <1>7, <1>8, <1>10, PlanKept
  <1>10c. PICK given : given = SumOver([q \in DOMAIN plan |-> plan[q].amount])
    OBVIOUS
  <1>11. /\ IsPlan(plan) /\ Len(f) = Len(plan) /\ \A q \in 1..Len(plan) : f[q] = kept(plan[q])
         /\ plan # <<>> /\ untraced(plan) \in Int
         /\ given \in Int /\ SumOver(f) + untraced(plan) = given
         /\ mayLose(credit, Len(plan), a - given)
    BY <1>9, <1>10b, <1>10c DEF Keeps
  <1>12. PICK l1, x : l1 = createLines(l, u, runId, plan) /\ x = SumOver(f)
    OBVIOUS
  <1>13. Grown(l, l1, u, x)
    BY <1>11, <1>12, LinesGrow
  <1>14. PICK l2 : l2 = [l1 EXCEPT ![k].live = FALSE]
    OBVIOUS
  <1>15. Grown(l1, l2, u, 0)
    <2>1. k \in 1..Len(l1) /\ l1[k].template = "PayrollCredit" /\ l1[k].payload = credit
      BY <1>5, <1>6, <1>13, GrownKeeps
    <2>2. worth(l1[k]) = 0 /\ mayArchive(l1[k], u)
      BY <1>8, <2>1 DEF worth, mine, mayArchive
    <2>3. Ledger(l1)
      BY <1>13 DEF Grown
    <2>4. PICK z \in Int : z = 0
      OBVIOUS
    <2>5. worth(l1[k]) = 0 /\ z = 0
      BY <2>2, <2>4
    <2>6. Grown(l1, l2, u, z)
      BY <1>14, <2>1, <2>2, <2>3, <2>5, ArchiveGrows
    <2> QED BY <2>4, <2>6
  <1>16. PICK spent, c3, l3 :
             /\ spent = [credit EXCEPT !.allocated = TRUE]
             /\ c3 = [template |-> "PayrollCredit", payload |-> spent, live |-> TRUE]
             /\ l3 = Append(l2, c3)
    OBVIOUS
  <1>17. Grown(l2, l3, u, -a)
    <2>1. /\ IsCredit(spent) /\ spent.user = u /\ spent.amount = a /\ spent.allocated = TRUE
          /\ IsAsset(spent.asset)
      <3>1. /\ IsCredit(spent) /\ spent.user = u /\ spent.amount = a /\ spent.allocated = TRUE
            /\ spent.asset = credit.asset
        BY <1>8, <1>9, <1>16 DEF IsCredit
      <3> QED BY <1>8, <3>1
    <2>2. Contract(c3) /\ mine(c3, u) /\ held(c3, u) = -a
      BY <1>16, <2>1, CreditContract
    <2>3. Ledger(l2)
      BY <1>15 DEF Grown
    <2>4. PICK z \in Int : z = -a
      OBVIOUS
    <2>5. mine(c3, u) /\ z = held(c3, u)
      BY <2>2, <2>4
    <2>6. l3 = Append(l2, c3) /\ Contract(c3)
      BY <1>16, <2>2
    <2>7. Grown(l2, l3, u, z)
      BY <2>3, <2>5, <2>6, CreateGrows
    <2> QED BY <2>4, <2>7
  <1>18. PICK l4 : l4 = [l3 EXCEPT ![i].live = FALSE]
    OBVIOUS
  <1>19. Grown(l, l3, u, (x + 0) + (-a))
    BY <1>13, <1>15, <1>17, GrownMore
  <1>20. Grown(l3, l4, u, 0)
    <2>1. i \in 1..Len(l3) /\ l3[i].template = "AllocationRun" /\ l3[i].payload.user = u
      BY <1>3, <1>19, GrownKeeps
    <2>2. mayArchive(l3[i], u)
      BY <2>1 DEF mine, mayArchive
    <2>3. Ledger(l3)
      BY <1>17 DEF Grown
    <2>4. PICK z \in Int : z = 0
      OBVIOUS
    <2>5. l3[i].template = "AllocationRun" /\ z = 0
      BY <2>1, <2>4
    <2>6. Grown(l3, l4, u, z)
      BY <1>18, <2>1, <2>2, <2>3, <2>5, ArchiveGrows
    <2> QED BY <2>4, <2>6
  <1>21. PICK status, p5, c5, l5 :
            /\ status = IF \E q \in DOMAIN plan : plan[q].bucket = "pendingActions"
                        THEN "AllocationPartiallyPendingApproval" ELSE "AllocationExecuted"
            /\ p5 = [user |-> u, runId |-> runId, amount |-> a, asset |-> credit.asset,
                     lines |-> plan, status |-> status]
            /\ c5 = [template |-> "AllocationRun", payload |-> p5, live |-> TRUE]
            /\ l5 = Append(l4, c5)
    OBVIOUS
  <1>22. PICK y \in Int : y = untraced(plan) + (a - given)
    BY <1>11
  <1>23. Grown(l4, l5, u, y)
    <2>1. p5.user = u /\ p5.lines = plan /\ p5.amount = a /\ p5.asset = credit.asset
      BY <1>21
    <2>1a. lost(p5) = a - given
      BY <1>10c, <1>11, <2>1 DEF lost
    <2>1b. lostLittle(p5)
      BY <1>11, <2>1, <2>1a DEF lostLittle, mayLose
    <2>1c. untraced(p5.lines) + lost(p5) = y
      BY <1>22, <2>1, <2>1a
    <2>2. Contract(c5) /\ mine(c5, u) /\ held(c5, u) = y
      BY <1>21, <1>22, <2>1, <2>1b, <2>1c, RunContract
    <2>3. Ledger(l4)
      BY <1>20 DEF Grown
    <2>4. mine(c5, u) /\ y = held(c5, u)
      BY <2>2
    <2>5. l5 = Append(l4, c5) /\ Contract(c5)
      BY <1>21, <2>2
    <2> QED BY <2>3, <2>4, <2>5, CreateGrows
  <1>24. Grown(l, l5, u, (((x + 0) + (-a)) + 0) + y)
    <2>1. Grown(l, l4, u, ((x + 0) + (-a)) + 0)
      BY <1>19, <1>20, GrownMore
    <2> QED BY <1>23, <2>1, GrownMore
  <1>25. (((x + 0) + (-a)) + 0) + y = 0
    <2>1. x \in Int /\ x + untraced(plan) = given
      BY <1>11, <1>12, SumInt
    <2>2. PICK z \in Int : z = untraced(plan)
      BY <1>11
    <2> QED BY <1>11, <1>22, <2>1, <2>2
  <1>26. demoExecuteAllocation(l, run, policyId, creditId, u) = l5
    <2>1. /\ payload(l, creditId) = credit /\ payload(l, run).runId = runId
          /\ buildAllocationPlan(payload(l, policyId).policy, credit) = plan
      BY <1>2, <1>6, <1>10 DEF payload
    <2>2. demoCreate(archive(l1, creditId), "PayrollCredit", spent) = l3
      BY <1>2, <1>14, <1>16 DEF demoCreate, archive
    <2>3. demoCreate(archive(l3, run), "AllocationRun", p5) = l5
      BY <1>2, <1>18, <1>21 DEF demoCreate, archive
    <2>4. PICK gated : gated = (\E q \in DOMAIN plan : plan[q].bucket = "pendingActions")
      OBVIOUS
    <2>5. p5 = [user |-> u, runId |-> runId, amount |-> credit.amount,
                asset |-> credit.asset, lines |-> plan,
                status |-> IF \E q \in DOMAIN plan : plan[q].bucket = "pendingActions"
                           THEN "AllocationPartiallyPendingApproval" ELSE "AllocationExecuted"]
      BY <1>9, <1>21
    <2> QED BY <1>12, <1>16, <2>1, <2>2, <2>3, <2>5 DEF demoExecuteAllocation
  <1> QED BY <1>24, <1>25, <1>26

LEMMA ExerciseGrows ==
    ASSUME NEW l, Ledger(l), NEW u \in Users, NEW id,
           NEW choice \in {"Approve", "Reject", "ExecuteApprovedAction"},
           mayExercise(l, id, choice, u)
    PROVE  Grown(l, demoExercisePendingAction(l, id, choice), u, 0)
  <1>1. Len(l) \in Nat /\ DOMAIN l = 1..Len(l)
    BY DEF Ledger, IsSeq
  <1>2. PICK i : i = id[2]
    OBVIOUS
  <1>3. /\ i \in 1..Len(l) /\ l[i].template = "PendingAction" /\ l[i].live
        /\ l[i].payload.user = u /\ l[i].payload.status = statusFor[choice]
    BY <1>1, <1>2 DEF mayExercise, found, visibleTo, payload
  <1>4. PICK action : action = l[i].payload
    OBVIOUS
  <1>5. /\ IsAction(action) /\ IsCategory(action.category) /\ action.user = u
        /\ worth(l[i]) = action.amount /\ action.amount \in Int
    <2>1. Contract(l[i])
      BY <1>3 DEF Ledger
    <2>2. l[i].payload.status # "Executed"
      BY <1>3 DEF statusFor
    <2>3. worth(l[i]) = action.amount
      BY <1>3, <1>4, <2>2 DEF worth
    <2> QED BY <1>3, <1>4, <2>1, <2>3 DEF Contract
  <1>6. PICK a \in Int : a = action.amount
    BY <1>5
  <1>7. PICK after :
            after = IF choice = "ExecuteApprovedAction" THEN releaseAction(l, action) ELSE l
    OBVIOUS
  <1>8. PICK x : x = IF choice = "ExecuteApprovedAction" /\ ~leavesNothing(action) THEN a ELSE 0
    OBVIOUS
  <1>9. Grown(l, after, u, x) /\ \A q \in 1..Len(l) : after[q] = l[q]
    <2>1. CASE choice # "ExecuteApprovedAction" \/ leavesNothing(action)
      <3>1. after = l
        BY <1>7, <2>1 DEF releaseAction, leavesNothing
      <3>2. x = 0
        BY <1>8, <2>1
      <3> QED BY <3>1, <3>2, GrownSame
    <2>2. CASE /\ choice = "ExecuteApprovedAction"
               /\ action.category.type = "ExternalPayment" /\ action.category.recipient # NoParty
      <3>1. after = createReceipt(l, u, action.runId, action.category, a) /\ x = a
        BY <1>5, <1>6, <1>7, <1>8, <2>2 DEF releaseAction, leavesNothing
      <3> QED BY <3>1, ReceiptGrows
    <2>3. CASE /\ choice = "ExecuteApprovedAction"
               /\ action.category.type = "PortfolioAllocation" /\ action.category.target
      <3>1. /\ x = a
            /\ after = demoCreate(l, "PortfolioAllocation",
                                  released(u, action.runId, action.category, a))
        BY <1>5, <1>6, <1>7, <1>8, <2>3 DEF releaseAction, leavesNothing, createPortfolio
      <3> QED BY <3>1, ReleasedGrows
    <2> QED BY <2>1, <2>2, <2>3 DEF leavesNothing
  <1>10. PICK l2 : l2 = [after EXCEPT ![i].live = FALSE]
    OBVIOUS
  <1>11. Grown(after, l2, u, -a)
    <2>1. i \in 1..Len(after) /\ after[i] = l[i]
      BY <1>3, <1>9, GrownKeeps
    <2>2. /\ after[i].template = "PendingAction" /\ after[i].live /\ -a = -worth(after[i])
          /\ mayArchive(after[i], u)
      BY <1>3, <1>5, <1>6, <2>1 DEF mine, mayArchive
    <2>3. Ledger(after) /\ -a \in Int
      BY <1>9 DEF Grown
    <2>4. after[i].template # "AllocationRun"
      BY <2>2
    <2> QED BY <1>10, <2>1, <2>2, <2>3, <2>4, ArchiveGrows
  <1>12. PICK p : p = [action EXCEPT !.status = statusAfter[choice]]
    OBVIOUS
  <1>13. /\ IsAction(p) /\ p.user = u /\ p.amount = a /\ p.category = action.category
         /\ p.status = statusAfter[choice]
    BY <1>5, <1>6, <1>12 DEF IsAction
  <1>14. PICK y : y = IF p.status = "Executed" /\ ~leavesNothing(p) THEN 0 ELSE p.amount
    OBVIOUS
  <1>15. y = IF choice = "ExecuteApprovedAction" /\ ~leavesNothing(action) THEN 0 ELSE a
    <2>1. p.status = "Executed" <=> choice = "ExecuteApprovedAction"
      BY <1>13 DEF statusAfter
    <2>2. leavesNothing(p) <=> leavesNothing(action)
      BY <1>13 DEF leavesNothing
    <2> QED BY <1>13, <1>14, <2>1, <2>2
  <1>16. PICK l3 : l3 = demoCreate(l2, "PendingAction", p)
    OBVIOUS
  <1>17. Grown(l2, l3, u, y)
    <2>1. Ledger(l2)
      BY <1>11 DEF Grown
    <2> QED BY <1>5, <1>13, <1>14, <1>16, <2>1, ActionGrows
  <1>18. Grown(l, l3, u, (x + (-a)) + y)
    BY <1>9, <1>11, <1>17, GrownMore
  <1>19. (x + (-a)) + y = 0
    BY <1>8, <1>15
  <1>20. demoExercisePendingAction(l, id, choice) = l3
    BY <1>2, <1>4, <1>7, <1>10, <1>12, <1>16 DEF demoExercisePendingAction, payload, archive
  <1> QED BY <1>18, <1>19, <1>20

-----------------------------------------------------------------------------
(* What the others see                                                     *)

LEMMA SeesOwn ==
    ASSUME NEW c, Contract(c), NEW v \in Users
    PROVE  visibleTo(c, v) =>
               mine(c, v) \/ (c.template = "PaymentReceipt" /\ c.payload.recipient = v)
  <1>1. Employer # v /\ Recipient # v /\ Operator # v
    BY DemoUsersAssumption
  <1> QED BY <1>1 DEF visibleTo, mine, Contract

\* A ledger that grew by the calls of another user shows the same contracts,
\* all but the receipts.
LEMMA SameFound ==
    ASSUME NEW l, NEW m, NEW u, NEW x, Grown(l, m, u, x), NEW v \in Users, v # u,
           NEW template, template # "PaymentReceipt", NEW id
    PROVE  /\ found(m, template, id, v) <=> found(l, template, id, v)
           /\ found(l, template, id, v) => m[id[2]] = l[id[2]]
  <1>1. /\ DOMAIN l = 1..Len(l) /\ DOMAIN m = 1..Len(m) /\ Len(l) \in Nat /\ Len(m) \in Nat
        /\ Len(l) <= Len(m)
    BY DEF Grown, Ledger, IsSeq
  <1>2. PICK i : i = id[2]
    OBVIOUS
  <1>3. CASE i \in 1..Len(l)
    <2>1. i \in 1..Len(m) /\ Contract(l[i]) /\ Contract(m[i])
      BY <1>1, <1>3 DEF Grown, Ledger
    <2>2. CASE m[i] = l[i]
      BY <1>1, <1>2, <1>3, <2>1, <2>2 DEF found
    <2>3. CASE mayArchive(l[i], u) /\ m[i] = [l[i] EXCEPT !.live = FALSE]
      <3>1. PICK c, d : c = l[i] /\ d = m[i]
        OBVIOUS
      <3>2. IsContract(c)
        BY <2>1, <3>1 DEF Contract
      <3>3. d.live = FALSE /\ ~mine(c, v)
        BY <2>3, <3>1, <3>2, ArchivedTwice DEF mine, mayArchive
      <3>4. ~visibleTo(c, v)
        BY <2>1, <2>3, <3>1, <3>3, SeesOwn DEF mayArchive
      <3> QED BY <1>2, <3>1, <3>3, <3>4 DEF found
    <2> QED BY <1>3, <2>2, <2>3 DEF Grown
  <1>4. CASE i \in 1..Len(m) /\ i \notin 1..Len(l)
    <2>1. i > Len(l)
      BY <1>1, <1>4
    <2>2. mine(m[i], u) \/ m[i].template = "OperatorAuditEvent"
      BY <1>4, <2>1 DEF Grown
    <2>3. ~mine(m[i], v)
      BY <2>2 DEF mine
    <2>4. visibleTo(m[i], v) => m[i].template = "PaymentReceipt"
      BY <1>4, <2>3, SeesOwn DEF Grown, Ledger
    <2> QED BY <1>1, <1>2, <1>4, <2>4 DEF found
  <1>5. CASE i \notin 1..Len(m)
    <2>1. i \notin 1..Len(l)
      BY <1>1, <1>5
    <2> QED BY <1>1, <1>2, <1>5, <2>1 DEF found
  <1> QED BY <1>3, <1>4, <1>5

LEMMA InQuery ==
    ASSUME NEW l, NEW template, NEW v, NEW id
    PROVE  id \in query(l, template, v) <=>
               found(l, template, id, v) /\ \E i : id = <<template, i>>
  <1>1. found(l, template, id, v) => id[2] \in DOMAIN l
    BY DEF found
  <1>2. \A i : id = <<template, i>> => id[2] = i
    OBVIOUS
  <1> QED BY <1>1, <1>2 DEF query

LEMMA SameQuery ==
    ASSUME NEW l, NEW m, NEW u, NEW x, Grown(l, m, u, x), NEW v \in Users, v # u,
           NEW template, template # "PaymentReceipt"
    PROVE  /\ query(m, template, v) = query(l, template, v)
           /\ \A id \in query(l, template, v) : payload(m, id) = payload(l, id)
  <1>1. \A id : /\ found(m, template, id, v) <=> found(l, template, id, v)
                /\ found(l, template, id, v) => m[id[2]] = l[id[2]]
    BY SameFound
  <1>2. \A id : /\ id \in query(m, template, v) <=> id \in query(l, template, v)
                /\ id \in query(l, template, v) => found(l, template, id, v)
    BY <1>1, InQuery
  <1>3. query(m, template, v) = query(l, template, v)
    BY <1>2
  <1>4. \A id \in query(l, template, v) : payload(m, id) = payload(l, id)
    BY <1>1, <1>2 DEF payload
  <1> QED BY <1>3, <1>4

LEMMA SameSeen ==
    ASSUME NEW l, NEW m, NEW u, NEW x, Grown(l, m, u, x), NEW v \in Users, v # u,
           NEW template, template # "PaymentReceipt"
    PROVE  contractsSeen(m, template, v) = contractsSeen(l, template, v)
  <1>1. PICK ids : ids = query(l, template, v)
    OBVIOUS
  <1>2. query(m, template, v) = ids /\ \A id \in ids : payload(m, id) = payload(l, id)
    BY <1>1, SameQuery
  <1>3. {<<id, payload(m, id)>> : id \in ids} = {<<id, payload(l, id)>> : id \in ids}
    BY <1>2
  <1> QED BY <1>1, <1>2, <1>3 DEF contractsSeen

\* Of receipts it shows the ones it did, and new ones that pay the one who looks.
LEMMA ReceiptsFound ==
    ASSUME NEW l, NEW m, NEW u, NEW x, Grown(l, m, u, x), NEW v \in Users, v # u, NEW id
    PROVE  /\ found(l, "PaymentReceipt", id, v) =>
                  found(m, "PaymentReceipt", id, v) /\ payload(m, id) = payload(l, id)
           /\ found(m, "PaymentReceipt", id, v) =>
                  \/ found(l, "PaymentReceipt", id, v)
                  \/ payload(m, id).user = u /\ payload(m, id).recipient = v
  <1>1. /\ DOMAIN l = 1..Len(l) /\ DOMAIN m = 1..Len(m) /\ Len(l) \in Nat /\ Len(m) \in Nat
        /\ Len(l) <= Len(m)
    BY DEF Grown, Ledger, IsSeq
  <1>2. PICK i, c, d : i = id[2] /\ c = l[i] /\ d = m[i]
    OBVIOUS
  <1>3. CASE i \in 1..Len(l)
    <2>1. i \in 1..Len(m) /\ Contract(c)
      BY <1>1, <1>2, <1>3 DEF Grown, Ledger
    <2>2. CASE d = c
      BY <1>1, <1>2, <1>3, <2>1, <2>2 DEF found, payload
    <2>3. CASE mayArchive(c, u) /\ d = [c EXCEPT !.live = FALSE]
      <3>1. IsContract(c)
        BY <2>1 DEF Contract
      <3>2. d.live = FALSE /\ c.template # "PaymentReceipt"
        BY <2>3, <3>1, ArchivedTwice DEF mayArchive
      <3> QED BY <1>2, <3>2 DEF found
    <2> QED BY <1>2, <1>3, <2>2, <2>3 DEF Grown
  <1>4. CASE i \in 1..Len(m) /\ i \notin 1..Len(l)
    <2>1. i > Len(l)
      BY <1>1, <1>4
    <2>2. mine(d, u) \/ d.template = "OperatorAuditEvent"
      BY <1>2, <1>4, <2>1 DEF Grown
    <2>3. d.template = "PaymentReceipt" /\ visibleTo(d, v) =>
              d.payload.user = u /\ d.payload.recipient = v
      BY <2>2 DEF mine, visibleTo
    <2> QED BY <1>1, <1>2, <1>4, <2>3 DEF found, payload
  <1>5. CASE i \notin 1..Len(m)
    <2>1. i \notin 1..Len(l)
      BY <1>1, <1>5
    <2> QED BY <1>1, <1>2, <1>5, <2>1 DEF found
  <1> QED BY <1>3, <1>4, <1>5

LEMMA ReceiptsSeen ==
    ASSUME NEW l, NEW m, NEW u, NEW x, Grown(l, m, u, x), NEW v \in Users, v # u,
           NEW before, before = contractsSeen(l, "PaymentReceipt", v),
           NEW after, after = contractsSeen(m, "PaymentReceipt", v)
    PROVE  /\ before \subseteq after
           /\ \A c \in after \ before : c[2].user = u /\ c[2].recipient = v
           /\ {c \in after : c[2].user = v} = {c \in before : c[2].user = v}
  <1>1. PICK old, new : /\ old = query(l, "PaymentReceipt", v)
                        /\ new = query(m, "PaymentReceipt", v)
    OBVIOUS
  <1>2. /\ before = {<<id, payload(l, id)>> : id \in old}
        /\ after = {<<id, payload(m, id)>> : id \in new}
    BY <1>1 DEF contractsSeen
  <1>3. \A id \in old : id \in new /\ payload(m, id) = payload(l, id)
    BY <1>1, ReceiptsFound, InQuery
  <1>4. \A id \in new : \/ id \in old
                        \/ payload(m, id).user = u /\ payload(m, id).recipient = v
    BY <1>1, ReceiptsFound, InQuery
  <1>5. before \subseteq after
    BY <1>2, <1>3
  <1>6. \A c \in after \ before : c[2].user = u /\ c[2].recipient = v
    <2> SUFFICES ASSUME NEW c \in after, c \notin before
                 PROVE  c[2].user = u /\ c[2].recipient = v
      OBVIOUS
    <2>1. PICK id \in new : c = <<id, payload(m, id)>>
      BY <1>2
    <2>2. id \notin old
      BY <1>2, <1>3, <2>1
    <2>3. payload(m, id).user = u /\ payload(m, id).recipient = v
      BY <1>4, <2>2
    <2> QED BY <2>1, <2>3
  <1>7. \A c : c \in {d \in after : d[2].user = v} <=> c \in {d \in before : d[2].user = v}
    BY <1>5, <1>6
  <1>8. {c \in after : c[2].user = v} = {c \in before : c[2].user = v}
    BY <1>7
  <1> QED BY <1>5, <1>6, <1>8

\* What v sees of m is what it sees of l, but for receipts of payments of u.
Undisturbs(l, m, u, v) ==
    /\ dashboard(m, v) = dashboard(l, v)
    /\ \A t \in ViewTemplates :
           /\ contractsSeen(l, t, v) \subseteq contractsSeen(m, t, v)
           /\ \A c \in contractsSeen(m, t, v) \ contractsSeen(l, t, v) :
                  t = "PaymentReceipt" /\ c[2].user = u /\ c[2].recipient = v

LEMMA OthersSee ==
    ASSUME NEW l, NEW m, NEW u, NEW x, Grown(l, m, u, x), NEW v \in Users, v # u
    PROVE  Undisturbs(l, m, u, v)
  <1>1. \A t : t # "PaymentReceipt" => contractsSeen(m, t, v) = contractsSeen(l, t, v)
    BY SameSeen
  <1>2. getActivePayrollPolicy(m, v) = getActivePayrollPolicy(l, v)
    <2>1. PICK ids : ids = query(l, "PayrollPolicy", v)
      OBVIOUS
    <2>2. query(m, "PayrollPolicy", v) = ids /\ \A id \in ids : payload(m, id) = payload(l, id)
      BY <2>1, SameQuery
    <2>3. {p \in ids : \A q \in ids : payload(m, p).version >= payload(m, q).version}
              = {p \in ids : \A q \in ids : payload(l, p).version >= payload(l, q).version}
      BY <2>2
    <2> QED BY <2>1, <2>2, <2>3 DEF getActivePayrollPolicy
  <1>3. PICK before, after : /\ before = contractsSeen(l, "PaymentReceipt", v)
                             /\ after = contractsSeen(m, "PaymentReceipt", v)
    OBVIOUS
  <1>4. /\ before \subseteq after
        /\ \A c \in after \ before : c[2].user = u /\ c[2].recipient = v
        /\ {c \in after : c[2].user = v} = {c \in before : c[2].user = v}
    BY <1>3, ReceiptsSeen
  <1>5. dashboard(m, v) = dashboard(l, v)
    BY <1>1, <1>2, <1>3, <1>4 DEF dashboard
  <1>6. ASSUME NEW t \in ViewTemplates
        PROVE  /\ contractsSeen(l, t, v) \subseteq contractsSeen(m, t, v)
               /\ \A c \in contractsSeen(m, t, v) \ contractsSeen(l, t, v) :
                      t = "PaymentReceipt" /\ c[2].user = u /\ c[2].recipient = v
    <2>1. CASE t = "PaymentReceipt"
      BY <1>3, <1>4, <2>1
    <2>2. CASE t # "PaymentReceipt"
      BY <1>1, <2>2
    <2> QED BY <2>1, <2>2
  <1> QED BY <1>5, <1>6 DEF Undisturbs

-----------------------------------------------------------------------------
(* Each call makes the ledger grow by its user, and moves one request      *)

\* An id of a policy, or none.
NamesPolicy(id) == id = NoContract \/ id[1] = "PayrollPolicy"

Sound(r) == NamesPolicy(r.policyId) /\ IsPayroll(r.payroll)

RequestsSound == \A h \in Handlers : Sound(handler[h])

LEMMA NothingSound == NamesPolicy(NoContract) /\ IsPayroll(NoPayroll)
  BY EmptyPayroll DEF NamesPolicy

LEMMA IdleSound == Sound(Idle)
  BY NothingSound DEF Sound, Idle

Moves(h) == \E r : handler' = [handler EXCEPT ![h] = r] /\ Sound(r)

\* The request ends, or goes on with the calls after those made.
MovesOn(h) ==
    \E r : /\ handler' = [handler EXCEPT ![h] = r] /\ Sound(r)
          /\ \/ r = Idle
             \/ /\ r.user = handler[h].user
                /\ \E n \in {1, 2, 5} : r.todo = restOf(handler[h], n) /\ r.todo # <<>>

LEMMA SkipMoves ==
    ASSUME NEW h, NEW n \in {1, 2, 5}, NEW r, IsRequest(r), r.user = handler[h].user,
           Sound(r), Finish(h) \/ Skip(h, n, r)
    PROVE  MovesOn(h)
  <1>1. Sound(Idle)
    BY IdleSound
  <1>2. CASE Finish(h)
    BY <1>1, <1>2 DEF Finish, MovesOn
  <1>3. CASE Skip(h, n, r)
    <2>1. PICK todo, new : /\ todo = SubSeq(handler[h].todo, n + 1, Len(handler[h].todo))
                           /\ new = [r EXCEPT !.todo = todo]
      OBVIOUS
    <2>2. Sound(new) /\ new.user = r.user /\ new.todo = todo
      <3>1. /\ new.policyId = r.policyId /\ new.payroll = r.payroll
            /\ new.user = r.user /\ new.todo = todo
        BY <2>1 DEF IsRequest
      <3> QED BY <3>1 DEF Sound
    <2>3. handler' = [handler EXCEPT ![h] = IF todo = <<>> THEN Idle ELSE new]
      BY <1>3, <2>1 DEF Skip
    <2>4. PICK x : x = IF todo = <<>> THEN Idle ELSE new
      OBVIOUS
    <2>5. Sound(x)
      BY <1>1, <2>2, <2>4
    <2>6. \/ x = Idle
          \/ x.user = handler[h].user /\ x.todo = restOf(handler[h], n) /\ x.todo # <<>>
      BY <2>1, <2>2, <2>4 DEF restOf
    <2> QED BY <2>3, <2>4, <2>5, <2>6 DEF MovesOn
  <1> QED BY <1>2, <1>3

\* What requests go on with.
LEMMA GoOnMoves ==
    ASSUME TablesInv, RequestsSound, NEW h \in Handlers, NEW call, At(h, call), NEW v, NEW id,
           NamesPolicy(id), NEW pay, IsPayroll(pay),
           \/ Finish(h) \/ Proceed(h) \/ \E n \in {1, 2, 5} : Skip(h, n, handler[h])
           \/ GoOn(h, [handler[h] EXCEPT !.id = v])
           \/ GoOn(h, [handler[h] EXCEPT !.version = v])
           \/ GoOn(h, [handler[h] EXCEPT !.intent = v])
           \/ \E n \in {1, 2, 5} : Skip(h, n, [handler[h] EXCEPT !.credit = v])
           \/ GoOn(h, [handler[h] EXCEPT !.action = v])
           \/ \E due : GoOn(h, [handler[h] EXCEPT !.action = v, !.due = due])
           \/ \E runId : GoOn(h, [handler[h] EXCEPT !.run = v, !.runId = runId])
           \/ GoOn(h, [handler[h] EXCEPT !.policyId = id, !.payroll = pay])
           \/ GoOn(h, [handler[h] EXCEPT !.policyId = id, !.policy = v])
           \/ GoOn(h, [handler[h] EXCEPT !.run = v, !.credit = v, !.policyId = id])
    PROVE  MovesOn(h)
  <1>1. PICK w : w = handler[h]
    OBVIOUS
  <1>2. IsRequest(w) /\ NamesPolicy(w.policyId) /\ IsPayroll(w.payroll)
    BY <1>1, AtCall DEF TablesInv, RequestsSound, Sound
  <1>3. ASSUME NEW r,
               \/ r = w
               \/ r = [w EXCEPT !.id = v]
               \/ r = [w EXCEPT !.version = v]
               \/ r = [w EXCEPT !.intent = v]
               \/ r = [w EXCEPT !.credit = v]
               \/ r = [w EXCEPT !.action = v]
               \/ \E due : r = [w EXCEPT !.action = v, !.due = due]
               \/ \E runId : r = [w EXCEPT !.run = v, !.runId = runId]
        PROVE  IsRequest(r) /\ r.user = w.user /\ Sound(r)
    <2>1. /\ IsRequest(r) /\ r.user = w.user
          /\ r.policyId = w.policyId /\ r.payroll = w.payroll
      BY <1>2, <1>3 DEF IsRequest
    <2> QED BY <1>2, <2>1 DEF Sound
  <1>4. ASSUME NEW r,
               \/ r = [w EXCEPT !.policyId = id, !.payroll = pay]
               \/ r = [w EXCEPT !.policyId = id, !.policy = v]
               \/ r = [w EXCEPT !.run = v, !.credit = v, !.policyId = id]
        PROVE  IsRequest(r) /\ r.user = w.user /\ Sound(r)
    <2>1. /\ IsRequest(r) /\ r.user = w.user
          /\ r.policyId = id /\ r.payroll \in {w.payroll, pay}
      BY <1>2, <1>4 DEF IsRequest
    <2> QED BY <1>2, <2>1 DEF Sound
  <1>5. \E n \in {1, 2, 5} : \E r :
            /\ Finish(h) \/ Skip(h, n, r)
            /\ IsRequest(r) /\ r.user = w.user /\ Sound(r)
    BY <1>1, <1>3, <1>4 DEF GoOn, Proceed
  <1> QED BY <1>1, <1>5, SkipMoves

LEMMA PlainCallMoves ==
    ASSUME TablesInv, RequestsSound, NEW h \in Handlers,
           \/ RecordCantonContract(h) \/ ensureDemoParties(h) \/ QueryProfile(h)
           \/ CreateProfile(h) \/ Deactivate(h) \/ CachePolicy(h) \/ CreateNotice(h)
           \/ CreateAudit(h) \/ NameCredit(h) \/ GetPendingAction(h) \/ OpenAgentRow(h)
           \/ DeleteRows(h) \/ DeleteUser(h) \/ DeleteDemoParties(h) \/ ResetLedger(h)
    PROVE  MovesOn(h)
  <1>1. \E call : At(h, call)
    BY DEF RecordCantonContract, ensureDemoParties, QueryProfile, CreateProfile, Deactivate,
           CachePolicy, CreateNotice, CreateAudit, NameCredit, GetPendingAction, OpenAgentRow,
           DeleteRows, DeleteUser, DeleteDemoParties, ResetLedger
  <1>2. Finish(h) \/ Proceed(h) \/ \E n \in {1, 2, 5} : Skip(h, n, handler[h])
    BY DEF RecordCantonContract, ensureDemoParties, QueryProfile, CreateProfile, Deactivate,
           CachePolicy, CreateNotice, CreateAudit, NameCredit, GetPendingAction, OpenAgentRow,
           DeleteRows, DeleteUser, DeleteDemoParties, ResetLedger
  <1> QED BY Zenon, <1>1, <1>2, NothingSound, GoOnMoves

LEMMA UserCallMoves ==
    ASSUME TablesInv, RequestsSound, NEW h \in Handlers,
           getRequiredUser(h) \/ UpsertUser(h) \/ FindUser(h)
    PROVE  MovesOn(h)
  <1>1. \E call : At(h, call)
    BY DEF getRequiredUser, UpsertUser, FindUser
  <1>2. \E v : \/ Finish(h) \/ \E n \in {1, 2, 5} : Skip(h, n, handler[h])
               \/ GoOn(h, [handler[h] EXCEPT !.id = v])
    BY DEF getRequiredUser, UpsertUser, FindUser
  <1> QED BY Zenon, <1>1, <1>2, NothingSound, GoOnMoves

LEMMA LatestPolicyMoves ==
    ASSUME TablesInv, RequestsSound, NEW h \in Handlers, LatestPolicy(h) PROVE MovesOn(h)
  <1>1. At(h, "latestPolicy") /\ \E v : GoOn(h, [handler[h] EXCEPT !.version = v])
    BY DEF LatestPolicy
  <1> QED BY Zenon, <1>1, NothingSound, GoOnMoves

LEMMA CreateIntentMoves ==
    ASSUME TablesInv, RequestsSound, NEW h \in Handlers, CreateIntent(h) PROVE MovesOn(h)
  <1>1. /\ At(h, "createIntent")
        /\ Finish(h) \/ \E v : GoOn(h, [handler[h] EXCEPT !.intent = v])
    BY DEF CreateIntent
  <1> QED BY Zenon, <1>1, NothingSound, GoOnMoves

LEMMA CreditCallMoves ==
    ASSUME TablesInv, RequestsSound, NEW h \in Handlers, FindCredit(h) \/ CreateCredit(h)
    PROVE  MovesOn(h)
  <1>1. \E call : At(h, call)
    BY DEF FindCredit, CreateCredit
  <1>2. \/ Finish(h) \/ Proceed(h)
        \/ \E n \in {1, 2, 5} : \E v : Skip(h, n, [handler[h] EXCEPT !.credit = v])
    BY DEF FindCredit, CreateCredit, GoOn
  <1> QED BY Zenon, <1>1, <1>2, NothingSound, GoOnMoves

LEMMA ActionCallMoves ==
    ASSUME TablesInv, RequestsSound, NEW h \in Handlers,
           \/ CollectActions(h) \/ ApprovePendingAction(h) \/ RejectPendingAction(h)
           \/ ExecuteApprovedAction(h)
    PROVE  MovesOn(h)
  <1>1. \E call : At(h, call)
    BY DEF CollectActions, ApprovePendingAction, RejectPendingAction, ExecuteApprovedAction
  <1>2. \E v : \/ Finish(h) \/ GoOn(h, [handler[h] EXCEPT !.action = v])
               \/ \E due : GoOn(h, [handler[h] EXCEPT !.action = v, !.due = due])
    BY DEF CollectActions, ApprovePendingAction, RejectPendingAction, ExecuteApprovedAction,
           Exercise
  <1> QED BY Zenon, <1>1, <1>2, NothingSound, GoOnMoves

LEMMA CreateRunMoves ==
    ASSUME TablesInv, RequestsSound, NEW h \in Handlers, CreateRun(h) PROVE MovesOn(h)
  <1>1. /\ At(h, "createRun")
        /\ \E v, runId : GoOn(h, [handler[h] EXCEPT !.run = v, !.runId = runId])
    BY DEF CreateRun
  <1> QED BY Zenon, <1>1, NothingSound, GoOnMoves

LEMMA ExecuteRunMoves ==
    ASSUME TablesInv, RequestsSound, NEW h \in Handlers, ExecuteRun(h) PROVE MovesOn(h)
  <1>1. PICK id : id = NoContract
    OBVIOUS
  <1>2. /\ At(h, "executeRun") /\ NamesPolicy(id)
        /\ Finish(h) \/ GoOn(h, [handler[h] EXCEPT !.run = id, !.credit = id, !.policyId = id])
    BY <1>1, NothingSound DEF ExecuteRun
  <1> QED BY Zenon, <1>2, NothingSound, GoOnMoves

LEMMA LoadPolicyAndCreditMoves ==
    ASSUME TablesInv, RequestsSound, Ledger(ledger), NEW h \in Handlers, LoadPolicyAndCredit(h)
    PROVE  MovesOn(h)
  <1>1. PICK id, credit, pay :
            /\ id = IF handler[h].policyId = NoContract
                    THEN getActivePayrollPolicy(ledger, handler[h].user)
                    ELSE handler[h].policyId
            /\ credit = payload(ledger, handler[h].credit)
            /\ pay = [amount |-> credit.amount, asset |-> credit.asset]
    OBVIOUS
  <1>2. /\ At(h, "loadPolicyAndCredit")
        /\ \/ Finish(h)
           \/ /\ GoOn(h, [handler[h] EXCEPT !.policyId = id, !.payroll = pay])
              /\ NamesPolicy(id) /\ found(ledger, "PayrollCredit", handler[h].credit, handler[h].user)
    BY <1>1 DEF LoadPolicyAndCredit, found, NamesPolicy
  <1>3. ASSUME found(ledger, "PayrollCredit", handler[h].credit, handler[h].user)
        PROVE  IsPayroll(pay)
    <2>1. PICK i : i = handler[h].credit[2]
      OBVIOUS
    <2>2. i \in 1..Len(ledger) /\ ledger[i].template = "PayrollCredit" /\ credit = ledger[i].payload
      BY <1>1, <1>3, <2>1 DEF found, payload, Ledger, IsSeq
    <2>3. credit.amount \in Nat /\ IsAsset(credit.asset)
      BY <2>2 DEF Ledger, Contract
    <2> QED BY <1>1, <2>3 DEF IsPayroll
  <1> QED BY Zenon, <1>2, <1>3, NothingSound, GoOnMoves

LEMMA CreatePolicyMoves ==
    ASSUME TablesInv, RequestsSound, Ledger(ledger), NEW h \in Handlers, CreatePolicy(h)
    PROVE  MovesOn(h)
  <1>1. PICK id, v : id = newest(ledger') /\ v = {}
    OBVIOUS
  <1>2. At(h, "createPolicy") /\ GoOn(h, [handler[h] EXCEPT !.policyId = id, !.policy = v])
    BY <1>1 DEF CreatePolicy
  <1>3. NamesPolicy(id)
    <2>1. PICK l, m, w : l = ledger /\ m = ledger' /\ w = handler[h]
      OBVIOUS
    <2>2. PICK p, c : /\ p = [user |-> w.user, policy |-> w.policy, version |-> w.version]
                      /\ c = [template |-> "PayrollPolicy", payload |-> p, live |-> TRUE]
      OBVIOUS
    <2>3. m = Append(l, c) /\ c.template = "PayrollPolicy" /\ Len(l) \in Nat
      BY <2>1, <2>2 DEF CreatePolicy, createPayrollPolicy, demoCreate, Ledger, IsSeq
    <2>4. m[Len(m)] = c
      BY <2>1, <2>3 DEF Ledger, IsSeq
    <2> QED BY <1>1, <2>1, <2>3, <2>4 DEF newest, NamesPolicy
  <1> QED BY Zenon, <1>2, <1>3, NothingSound, GoOnMoves

LEMMA StepMovesOn ==
    ASSUME TablesInv, RequestsSound, Ledger(ledger), NEW h \in Handlers, Step(h)
    PROVE  MovesOn(h)
  BY PlainCallMoves, UserCallMoves, LatestPolicyMoves, CreateIntentMoves, CreditCallMoves,
     ActionCallMoves, CreateRunMoves, ExecuteRunMoves, LoadPolicyAndCreditMoves,
     CreatePolicyMoves DEF Step

LEMMA StepMoves ==
    ASSUME TablesInv, RequestsSound, Ledger(ledger), NEW h \in Handlers, Step(h) PROVE Moves(h)
  <1>1. MovesOn(h)
    BY StepMovesOn
  <1> QED BY <1>1 DEF MovesOn, Moves

\* Only the request that moves changes.
LEMMA OnlyMoved ==
    ASSUME TablesInv, RequestsSound, NEW h \in Handlers, Moves(h)
    PROVE  RequestsSound' /\ \A g \in Handlers \ {h} : handler'[g] = handler[g]
  <1>1. PICK r : handler' = [handler EXCEPT ![h] = r] /\ Sound(r)
    BY DEF Moves
  <1>2. handler'[h] = r /\ \A g \in Handlers \ {h} : handler'[g] = handler[g]
    BY <1>1, OthersMove DEF TablesInv
  <1>3. RequestsSound'
    BY <1>1, <1>2 DEF RequestsSound
  <1> QED BY <1>2, <1>3

\* When the policy is created, the request has one.
LEMMA PolicyAtCreate ==
    ASSUME Requests, NEW h \in Handlers, At(h, "createPolicy") PROVE IsPolicy(handler[h].policy)
  <1>1. PICK w, todo, ids, next : w = handler[h] /\ todo = w.todo /\ ids = userIds /\ next = nextId
    OBVIOUS
  <1>2. Fits(w, ids, next) /\ todo # <<>> /\ Head(todo) = "createPolicy"
    BY <1>1 DEF Requests, At
  <1>3. todo \in Seq(Calls)
    BY <1>1, <1>2 DEF Fits
  <1>4. 1 \in 1..Len(todo) /\ todo[1] = "createPolicy"
    BY <1>2, <1>3
  <1>5. ~SavesNothing(todo)
    BY <1>4 DEF SavesNothing, SaveCalls
  <1>6. PICK k \in 1..Len(todo) : SavesAt(todo, k)
    BY <1>1, <1>2, <1>5 DEF Fits
  <1>7. k = 3
    <2>1. 1 < k - 4 \/ 1 = k - 4 \/ 1 = k - 3 \/ 1 = k - 2 \/ 1 = k - 1 \/ 1 = k \/ 1 > k
      BY <1>6
    <2> QED BY <1>4, <1>6, <2>1 DEF SavesAt, EarlyCalls, SaveCalls
  <1> QED BY <1>1, <1>2, <1>6, <1>7 DEF Fits

\* A contract is created that holds nothing.
LEMMA EmptyGrows ==
    ASSUME NEW l, Ledger(l), NEW u, NEW c, Contract(c), NEW m, m = Append(l, c),
           c.template = "OperatorAuditEvent" \/ (mine(c, u) /\ held(c, u) = 0)
    PROVE  Grown(l, m, u, 0)
  <1>1. PICK x \in Int : x = 0
    OBVIOUS
  <1>2. \/ mine(c, u) /\ x = held(c, u)
        \/ c.template = "OperatorAuditEvent" /\ x = 0
    BY <1>1
  <1>3. Grown(l, m, u, x)
    BY <1>2, CreateGrows
  <1> QED BY <1>1, <1>3

LEMMA CreateProfileGrows ==
    ASSUME NEW l, Ledger(l), NEW u \in Users PROVE Grown(l, createUserProfile(l, u), u, 0)
  <1>1. PICK p, c, m : /\ p = [user |-> u] /\ m = Append(l, c)
                       /\ c = [template |-> "UserProfile", payload |-> p, live |-> TRUE]
    OBVIOUS
  <1>2. p.user = u
    BY <1>1
  <1>3. Contract(c) /\ mine(c, u) /\ held(c, u) = 0
    BY <1>1, <1>2, EmptyContract
  <1>4. m = Append(l, c) /\ createUserProfile(l, u) = m
    BY <1>1 DEF createUserProfile, demoCreate
  <1> QED BY <1>3, <1>4, EmptyGrows

LEMMA CreatePolicyGrows ==
    ASSUME NEW l, Ledger(l), NEW u \in Users, NEW policy, IsPolicy(policy), NEW version
    PROVE  Grown(l, createPayrollPolicy(l, u, policy, version), u, 0)
  <1>1. PICK p, c, m : /\ p = [user |-> u, policy |-> policy, version |-> version]
                       /\ c = [template |-> "PayrollPolicy", payload |-> p, live |-> TRUE]
                       /\ m = Append(l, c)
    OBVIOUS
  <1>2. p.user = u /\ IsPolicy(p.policy)
    BY <1>1
  <1>3. Contract(c) /\ mine(c, u) /\ held(c, u) = 0
    BY <1>1, <1>2, EmptyContract
  <1>4. m = Append(l, c) /\ createPayrollPolicy(l, u, policy, version) = m
    BY <1>1 DEF createPayrollPolicy, demoCreate
  <1> QED BY <1>3, <1>4, EmptyGrows

LEMMA CreateNoticeGrows ==
    ASSUME NEW l, Ledger(l), NEW u \in Users, NEW payroll
    PROVE  Grown(l, createEmployerPayrollNotice(l, u, payroll), u, 0)
  <1>1. PICK p, c, m : /\ p = [employer |-> Employer, user |-> u, amount |-> payroll.amount,
                               asset |-> payroll.asset]
                       /\ c = [template |-> "EmployerPayrollNotice", payload |-> p, live |-> TRUE]
                       /\ m = Append(l, c)
    OBVIOUS
  <1>2. p.user = u /\ p.employer = Employer
    BY <1>1
  <1>3. Contract(c) /\ mine(c, u) /\ held(c, u) = 0
    BY <1>1, <1>2, EmptyContract
  <1>4. m = Append(l, c) /\ createEmployerPayrollNotice(l, u, payroll) = m
    BY <1>1 DEF createEmployerPayrollNotice, demoCreate
  <1> QED BY <1>3, <1>4, EmptyGrows

LEMMA CreateCreditGrows ==
    ASSUME NEW l, Ledger(l), NEW u \in Users, NEW payroll, IsPayroll(payroll)
    PROVE  Grown(l, createPayrollCredit(l, u, payroll), u, 0)
  <1>1. PICK p, c, m : /\ p = [user |-> u, amount |-> payroll.amount, asset |-> payroll.asset,
                               allocated |-> FALSE]
                       /\ c = [template |-> "PayrollCredit", payload |-> p, live |-> TRUE]
                       /\ m = Append(l, c)
    OBVIOUS
  <1>2. /\ IsCredit(p) /\ p.user = u /\ p.amount \in Nat /\ IsAsset(p.asset)
        /\ p.allocated = FALSE
    BY <1>1 DEF IsCredit, IsPayroll
  <1>3. Contract(c) /\ mine(c, u) /\ held(c, u) = 0
    BY <1>1, <1>2, CreditContract
  <1>4. m = Append(l, c) /\ createPayrollCredit(l, u, payroll) = m
    BY <1>1 DEF createPayrollCredit, demoCreate
  <1> QED BY <1>3, <1>4, EmptyGrows

LEMMA CreateAuditGrows ==
    ASSUME NEW l, Ledger(l), NEW u PROVE Grown(l, createOperatorAuditEvent(l), u, 0)
  <1>1. PICK p, c, m : /\ p = [operator |-> Operator] /\ m = Append(l, c)
                       /\ c = [template |-> "OperatorAuditEvent", payload |-> p, live |-> TRUE]
    OBVIOUS
  <1>2. Contract(c) /\ c.template = "OperatorAuditEvent"
    BY <1>1, AuditContract
  <1>3. m = Append(l, c) /\ createOperatorAuditEvent(l) = m
    BY <1>1 DEF createOperatorAuditEvent, demoCreate
  <1> QED BY <1>2, <1>3, EmptyGrows

LEMMA NoLines == untraced(<<>>) = 0
  <1>1. PICK lines : lines = <<>>
    OBVIOUS
  <1>2. PICK f : f = [k \in DOMAIN lines |->
                        IF lines[k].bucket = "immediatePayments" /\ lines[k].category.recipient = NoParty
                        THEN lines[k].amount ELSE 0]
    OBVIOUS
  <1>3. DOMAIN lines = 1..0
    BY <1>1
  <1>4. 0 \in Nat /\ f = [k \in 1..0 |-> f[k]]
    BY <1>2, <1>3
  <1>5. Len(f) = 0
    BY <1>4, LenOf
  <1>6. SumOver(f) = 0
    BY <1>5, SumEmpty
  <1> QED BY <1>1, <1>2, <1>6 DEF untraced

LEMMA CreateRunGrows ==
    ASSUME NEW l, Ledger(l), NEW u \in Users, NEW runId, NEW payroll, IsPayroll(payroll)
    PROVE  Grown(l, createAllocationRun(l, u, runId, payroll), u, 0)
  <1>1. PICK p, c, m : /\ p = [user |-> u, runId |-> runId, amount |-> payroll.amount,
                               asset |-> payroll.asset, status |-> "AllocationPending",
                               lines |-> <<>>]
                       /\ c = [template |-> "AllocationRun", payload |-> p, live |-> TRUE]
                       /\ m = Append(l, c)
    OBVIOUS
  <1>2. p.user = u /\ p.lines = <<>> /\ p.asset = payroll.asset
    BY <1>1
  <1>3. untraced(p.lines) = 0 /\ lost(p) = 0
    BY <1>2, NoLines DEF lost
  <1>3a. lostLittle(p)
    <2>1. payroll.asset.dust \in Nat \ {0}
      BY DEF IsPayroll, IsAsset
    <2>2. 0 \in 0..(payroll.asset.dust - 1)
      BY <2>1
    <2>3. Len(p.lines) = 0 /\ 2 * lost(p) \in (-Len(p.lines))..Len(p.lines)
      BY <1>2, <1>3
    <2> QED BY <1>2, <1>3, <2>2, <2>3 DEF lostLittle
  <1>3b. untraced(p.lines) + lost(p) = 0
    BY <1>3
  <1>4. Contract(c) /\ mine(c, u) /\ held(c, u) = 0
    BY <1>1, <1>2, <1>3a, <1>3b, RunContract
  <1>5. m = Append(l, c) /\ createAllocationRun(l, u, runId, payroll) = m
    BY <1>1 DEF createAllocationRun, demoCreate
  <1> QED BY <1>4, <1>5, EmptyGrows

LEMMA StepGrows ==
    ASSUME TablesInv, RequestsSound, Ledger(ledger), NEW h \in Handlers, Step(h)
    PROVE  ResetLedger(h) \/ Grown(ledger, ledger', handler[h].user, 0)
  <1>1. PICK l, m, w : l = ledger /\ m = ledger' /\ w = handler[h]
    OBVIOUS
  <1>2. Ledger(l) /\ Requests
    BY <1>1 DEF TablesInv
  <1>3. SUFFICES ASSUME ~ResetLedger(h) PROVE Grown(l, m, w.user, 0)
    BY <1>1
  <1>4. CASE ledger' = ledger
    BY <1>1, <1>2, <1>4, GrownSame
  <1>5. CASE CreateProfile(h)
    <2>1. w.user \in Users
      BY <1>1, <1>2, <1>5, AtCall DEF CreateProfile
    <2>2. m = createUserProfile(l, w.user)
      BY <1>1, <1>5 DEF CreateProfile
    <2> QED BY <1>2, <2>1, <2>2, CreateProfileGrows
  <1>6. CASE CreatePolicy(h)
    <2>1. w.user \in Users /\ IsPolicy(w.policy)
      BY <1>1, <1>2, <1>6, PolicyAtCreate, AtCall DEF CreatePolicy
    <2>2. m = createPayrollPolicy(l, w.user, w.policy, w.version)
      BY <1>1, <1>6 DEF CreatePolicy
    <2> QED BY <1>2, <2>1, <2>2, CreatePolicyGrows
  <1>7. CASE CreateNotice(h)
    <2>1. w.user \in Users
      BY <1>1, <1>2, <1>7, AtCall DEF CreateNotice
    <2>2. m = createEmployerPayrollNotice(l, w.user, w.payroll)
      BY <1>1, <1>7 DEF CreateNotice
    <2> QED BY <1>2, <2>1, <2>2, CreateNoticeGrows
  <1>8. CASE CreateCredit(h)
    <2>1. w.user \in Users /\ IsPayroll(w.payroll)
      BY <1>1, <1>2, <1>8, AtCall DEF CreateCredit, RequestsSound, Sound
    <2>2. m = createPayrollCredit(l, w.user, w.payroll)
      BY <1>1, <1>8 DEF CreateCredit
    <2> QED BY <1>2, <2>1, <2>2, CreateCreditGrows
  <1>9. CASE CreateAudit(h)
    <2>1. m = createOperatorAuditEvent(l)
      BY <1>1, <1>9 DEF CreateAudit
    <2> QED BY <1>2, <2>1, CreateAuditGrows
  <1>10. CASE CreateRun(h)
    <2>1. w.user \in Users /\ IsPayroll(w.payroll)
      BY <1>1, <1>2, <1>10, AtCall DEF CreateRun, RequestsSound, Sound
    <2>2. \E runId : m = createAllocationRun(l, w.user, runId, w.payroll)
      BY <1>1, <1>10 DEF CreateRun
    <2> QED BY <1>2, <2>1, <2>2, CreateRunGrows
  <1>11. CASE ExecuteRun(h) /\ ledger' # ledger
    <2>1. /\ w.user \in Users /\ NamesPolicy(w.policyId)
          /\ w.credit = NoContract \/ w.credit[1] = "PayrollCredit"
      BY <1>1, <1>2, <1>11, AtCall DEF ExecuteRun, RequestsSound, Sound
    <2>2. /\ mayExecuteAllocation(l, w.run, w.policyId, w.credit, w.user)
          /\ m = demoExecuteAllocation(l, w.run, w.policyId, w.credit, w.user)
      BY <1>1, <1>11 DEF ExecuteRun
    <2> QED BY <1>2, <2>1, <2>2, ExecuteAllocationGrows DEF NamesPolicy
  <1>12. ASSUME NEW call, At(h, call), ledger' # ledger,
                NEW choice \in {"Approve", "Reject", "ExecuteApprovedAction"},
                Exercise(h, choice)
         PROVE  Grown(l, m, w.user, 0)
    <2>1. w.user \in Users
      BY <1>1, <1>2, <1>12, AtCall
    <2>2. /\ mayExercise(l, w.action, choice, w.user)
          /\ m = demoExercisePendingAction(l, w.action, choice)
      BY <1>1, <1>12 DEF Exercise
    <2> QED BY <1>2, <2>1, <2>2, ExerciseGrows
  <1>13. CASE ApprovePendingAction(h) \/ RejectPendingAction(h) \/ ExecuteApprovedAction(h)
    BY <1>4, <1>12, <1>13 DEF ApprovePendingAction, RejectPendingAction, ExecuteApprovedAction
  <1>14. CASE \/ getRequiredUser(h) \/ UpsertUser(h) \/ ensureDemoParties(h)
              \/ RecordCantonContract(h) \/ QueryProfile(h) \/ LatestPolicy(h)
    BY <1>4, <1>14 DEF getRequiredUser, UpsertUser, ensureDemoParties, RecordCantonContract,
                       QueryProfile, LatestPolicy, Unchanged, OnlyTables
  <1>15. CASE \/ Deactivate(h) \/ CachePolicy(h) \/ CreateIntent(h) \/ FindCredit(h)
              \/ NameCredit(h) \/ LoadPolicyAndCredit(h) \/ CollectActions(h)
    BY <1>4, <1>15 DEF Deactivate, CachePolicy, CreateIntent, FindCredit, NameCredit,
                       LoadPolicyAndCredit, CollectActions, Unchanged, OnlyTables
  <1>16. CASE \/ GetPendingAction(h) \/ OpenAgentRow(h) \/ FindUser(h) \/ DeleteRows(h)
              \/ DeleteUser(h) \/ DeleteDemoParties(h)
    BY <1>4, <1>16 DEF GetPendingAction, OpenAgentRow, FindUser, DeleteRows, DeleteUser,
                       DeleteDemoParties, Unchanged, OnlyTables
  <1> QED BY <1>3, <1>4, <1>5, <1>6, <1>7, <1>8, <1>9, <1>10, <1>11, <1>13, <1>14, <1>15, <1>16
          DEF Step

-----------------------------------------------------------------------------
(* Rows are of users that have a row                                       *)

Owned ==
    /\ \A row \in policyRows : row.user \in keys
    /\ \A i \in intents : i.user \in keys
    /\ agentRows \subseteq keys

\* The users stay, and the rows are of those of the rows before, or of a user.
LEMMA RowsOwned ==
    ASSUME Owned, userIds' = userIds,
           \A row \in policyRows' :
               row.user \in keys \/ \E old \in policyRows : row.user = old.user,
           \A i \in intents' : i.user \in keys \/ \E old \in intents : i.user = old.user,
           agentRows' \subseteq agentRows \cup keys
    PROVE  Owned'
  <1>1. keys' = keys
    BY DEF keys
  <1>2. \A row \in policyRows' : row.user \in keys
    BY DEF Owned
  <1>3. \A i \in intents' : i.user \in keys
    BY DEF Owned
  <1>4. agentRows' \subseteq keys
    BY DEF Owned
  <1> QED BY <1>1, <1>2, <1>3, <1>4 DEF Owned

LEMMA OwnedStays ==
    ASSUME Owned, UNCHANGED <<userIds, policyRows, intents, agentRows>>
    PROVE  Owned'
  BY RowsOwned DEF Owned

\* A call that adds a row for its user checks that the user is still there.
LEMMA KeyOf ==
    ASSUME TablesInv, NEW h \in Handlers, NEW call \in RowCalls, At(h, call), hasUser(h)
    PROVE  handler[h].id \in keys
  <1>1. PICK w : w = handler[h]
    OBVIOUS
  <1>2. w.user \in Users /\ w.id # 0
    BY <1>1, AtCall DEF TablesInv
  <1>3. w.id = userIds[w.user]
    BY <1>1 DEF hasUser
  <1> QED BY <1>1, <1>2, <1>3 DEF keys

LEMMA UpsertUserOwned ==
    ASSUME TablesInv, Owned, NEW h \in Handlers, UpsertUser(h) PROVE Owned'
  <1>1. PICK u, id : /\ u = handler[h].user
                     /\ id = IF userIds[u] = 0 THEN nextId ELSE userIds[u]
    OBVIOUS
  <1>2. /\ userIds' = [userIds EXCEPT ![u] = id]
        /\ UNCHANGED <<policyRows, intents, agentRows>>
    BY <1>1 DEF UpsertUser
  <1>3. userIds \in [Users -> 0..(nextId - 1)]
    BY DEF TablesInv, Rows
  <1>4. \A v \in Users : userIds[v] # 0 => userIds'[v] = userIds[v]
    BY <1>1, <1>2, <1>3
  <1>5. keys \subseteq keys'
    BY <1>4 DEF keys
  <1> QED BY <1>2, <1>5 DEF Owned

LEMMA PolicyRowsOwned ==
    ASSUME TablesInv, Owned, NEW h \in Handlers, Deactivate(h) \/ CachePolicy(h) PROVE Owned'
  <1>1. userIds' = userIds /\ intents' = intents /\ agentRows' = agentRows
    BY DEF Deactivate, CachePolicy
  <1>2. ASSUME NEW row \in policyRows'
        PROVE  row.user \in keys \/ \E old \in policyRows : row.user = old.user
    <2>1. CASE Deactivate(h)
      <3>1. row \in policyRows \/ \E old \in policyRows : row = [old EXCEPT !.active = FALSE]
        BY <2>1 DEF Deactivate, activeRows, rowsOf
      <3>2. \A old \in policyRows : [old EXCEPT !.active = FALSE].user = old.user
        BY DEF TablesInv, Rows, IsPolicyRow
      <3> QED BY <3>1, <3>2
    <2>2. CASE CachePolicy(h)
      <3>1. \/ row \in policyRows
            \/ /\ hasUser(h) /\ At(h, "cachePolicy")
               /\ row = [nr |-> nextId, user |-> handler[h].id, contract |-> handler[h].policyId,
                         version |-> handler[h].version, active |-> TRUE]
        BY <2>2 DEF CachePolicy
      <3>2. hasUser(h) /\ At(h, "cachePolicy") => handler[h].id \in keys
        BY KeyOf DEF RowCalls
      <3> QED BY <3>1, <3>2
    <2> QED BY <2>1, <2>2
  <1> QED BY <1>1, <1>2, RowsOwned DEF Owned

LEMMA IntentsOwned ==
    ASSUME TablesInv, Owned, NEW h \in Handlers,
           CreateIntent(h) \/ FindCredit(h) \/ NameCredit(h)
    PROVE  Owned'
  <1>1. userIds' = userIds /\ policyRows' = policyRows /\ agentRows' = agentRows
    BY DEF CreateIntent, FindCredit, NameCredit
  <1>2. ASSUME NEW i \in intents'
        PROVE  i.user \in keys \/ \E old \in intents : i.user = old.user
    <2>1. CASE CreateIntent(h)
      <3>1. \/ i \in intents
            \/ /\ hasUser(h) /\ At(h, "createIntent")
               /\ i = [nr |-> nextId, user |-> handler[h].id, credit |-> NoContract]
        BY <2>1 DEF CreateIntent
      <3>2. hasUser(h) /\ At(h, "createIntent") => handler[h].id \in keys
        BY KeyOf DEF RowCalls
      <3> QED BY <3>1, <3>2
    <2>2. CASE intents' = intents
      BY <2>2
    <2>3. ASSUME NEW credit, named(h, credit)
          PROVE  \E old \in intents : i.user = old.user
      <3>1. i \in intents \/ \E old \in intents : i = [old EXCEPT !.credit = credit]
        BY <2>3 DEF named, ownIntent
      <3>2. \A old \in intents : [old EXCEPT !.credit = credit].user = old.user
        BY DEF TablesInv, Rows, IsIntent
      <3> QED BY <3>1, <3>2
    <2>4. CreateIntent(h) \/ intents' = intents \/ \E credit : named(h, credit)
      BY DEF FindCredit, NameCredit
    <2> QED BY <2>1, <2>2, <2>3, <2>4
  <1> QED BY <1>1, <1>2, RowsOwned DEF Owned

LEMMA OpenAgentRowOwned ==
    ASSUME TablesInv, Owned, NEW h \in Handlers, OpenAgentRow(h) PROVE Owned'
  <1>1. userIds' = userIds /\ policyRows' = policyRows /\ intents' = intents
    BY DEF OpenAgentRow
  <1>2. \/ agentRows' = agentRows
        \/ /\ hasUser(h) /\ At(h, "openAgentRow")
           /\ agentRows' = agentRows \cup {handler[h].id}
    BY DEF OpenAgentRow
  <1>3. agentRows' \subseteq agentRows \cup keys
    BY <1>2, KeyOf DEF RowCalls
  <1> QED BY <1>1, <1>3, RowsOwned DEF Owned

LEMMA DeleteOwned ==
    ASSUME TablesInv, Owned, NEW h \in Handlers, DeleteRows(h) \/ DeleteUser(h) PROVE Owned'
  <1>1. CASE DeleteRows(h)
    <2>1. /\ userIds' = userIds /\ policyRows' \subseteq policyRows /\ intents' \subseteq intents
          /\ agentRows' \subseteq agentRows
      BY <1>1 DEF DeleteRows
    <2> QED BY <2>1, RowsOwned DEF Owned
  <1>2. CASE DeleteUser(h)
    <2>1. UNCHANGED <<policyRows, intents, agentRows>>
      BY <1>2 DEF DeleteUser
    <2>2. CASE userIds' = userIds
      BY <2>1, <2>2, OwnedStays
    <2>3. CASE userIds' # userIds
      <3>1. PICK u, id : u = handler[h].user /\ id = handler[h].id
        OBVIOUS
      <3>2. /\ id = userIds[u] /\ userIds' = [userIds EXCEPT ![u] = 0]
            /\ id \notin agentRows /\ rowsOf(id) = {} /\ \A i \in intents : i.user # id
        BY <1>2, <2>3, <3>1 DEF DeleteUser, hasUser
      <3>3. userIds \in [Users -> 0..(nextId - 1)]
        BY DEF TablesInv, Rows
      <3>4. \A v \in Users : userIds[v] # id => userIds'[v] = userIds[v]
        BY <3>2, <3>3
      <3>5. keys \ {id} \subseteq keys'
        BY <3>4 DEF keys
      <3>6. \A row \in policyRows : row.user # id
        BY <3>2 DEF rowsOf
      <3> QED BY <2>1, <3>2, <3>5, <3>6 DEF Owned
    <2> QED BY <2>2, <2>3
  <1> QED BY <1>1, <1>2

LEMMA StepOwned ==
    ASSUME TablesInv, Owned, NEW h \in Handlers, Step(h) PROVE Owned'
  <1>1. CASE \/ getRequiredUser(h) \/ RecordCantonContract(h) \/ QueryProfile(h)
             \/ LatestPolicy(h) \/ LoadPolicyAndCredit(h) \/ CollectActions(h)
             \/ GetPendingAction(h) \/ FindUser(h) \/ CreateRun(h)
    BY <1>1, OwnedStays DEF getRequiredUser, RecordCantonContract, QueryProfile, LatestPolicy,
       LoadPolicyAndCredit, CollectActions, GetPendingAction, FindUser, CreateRun, Unchanged, tables
  <1>2. CASE \/ CreateProfile(h) \/ CreatePolicy(h) \/ CreateNotice(h) \/ CreateCredit(h)
             \/ ExecuteRun(h) \/ ResetLedger(h) \/ ApprovePendingAction(h)
             \/ RejectPendingAction(h) \/ ExecuteApprovedAction(h)
    BY <1>2, OwnedStays DEF CreateProfile, CreatePolicy, CreateNotice, CreateCredit, ExecuteRun,
       ResetLedger, ApprovePendingAction, RejectPendingAction, ExecuteApprovedAction, Exercise,
       OnlyLedger, tables
  <1>3. CASE ensureDemoParties(h) \/ CreateAudit(h) \/ DeleteDemoParties(h)
    BY <1>3, OwnedStays DEF ensureDemoParties, CreateAudit, DeleteDemoParties
  <1> QED BY <1>1, <1>2, <1>3, UpsertUserOwned, PolicyRowsOwned, IntentsOwned,
             OpenAgentRowOwned, DeleteOwned DEF Step

-----------------------------------------------------------------------------
(* The theorems                                                            *)

Inv ==
    /\ TablesInv /\ Owned /\ RequestsSound /\ LedgerOK /\ LedgerConserves
    /\ demoParties \in BOOLEAN /\ faults \in Nat

Conserves(l) == \A u \in Users : HeldBy(l, u) = 0

LEMMA RunsLoseLittle ==
    ASSUME NEW l, Ledger(l)
    PROVE  \A i \in DOMAIN l : l[i].template = "AllocationRun" => lostLittle(l[i].payload)
  BY DEF Ledger, IsSeq, Contract

LEMMA ConservesIs == ASSUME Ledger(ledger) PROVE LedgerConserves <=> Conserves(ledger)
  BY RunsLoseLittle DEF LedgerConserves, Conserves, HeldBy, held

LEMMA ConservesNext == ASSUME Ledger(ledger') PROVE LedgerConserves' <=> Conserves(ledger')
  BY RunsLoseLittle DEF LedgerConserves, Conserves, HeldBy, held

LEMMA EmptyIs == ASSUME NEW l, l = EmptyLedger PROVE Ledger(l) /\ Conserves(l)
  <1>1. l \in Seq(Nat) /\ Len(l) = 0
    BY DEF EmptyLedger
  <1>2. Ledger(l)
    <2>1. IsSeq(l)
      BY <1>1, SeqIs
    <2>2. \A i \in 1..Len(l) : FALSE
      BY <1>1
    <2> QED BY <2>1, <2>2 DEF Ledger
  <1>3. ASSUME NEW u \in Users PROVE HeldBy(l, u) = 0
    <2>1. PICK f \in Seq(Int) : Len(f) = Len(l) /\ HeldBy(l, u) = SumOver(f)
      BY <1>2, HeldSum
    <2> QED BY <1>1, <2>1, SumEmpty
  <1> QED BY <1>2, <1>3 DEF Conserves

LEMMA GrownConserves ==
    ASSUME NEW l, NEW m, NEW u, Grown(l, m, u, 0), Conserves(l) PROVE Ledger(m) /\ Conserves(m)
  BY DEF Grown, Conserves

LEMMA InitInv == Init => Inv
  <1> SUFFICES ASSUME Init PROVE Inv
    OBVIOUS
  <1>1. TablesInv
    BY InitTables
  <1>2. RequestsSound /\ Owned
    BY IdleSound DEF Init, RequestsSound, Owned
  <1>3. LedgerOK /\ LedgerConserves
    BY EmptyIs, ConservesIs DEF Init, LedgerOK
  <1> QED BY <1>1, <1>2, <1>3 DEF Init, Inv

\* What the calls do not change, and what they do to the clock.
LEMMA StepCounters ==
    ASSUME NEW h, Step(h), clock \in Nat, demoParties \in BOOLEAN
    PROVE  /\ clock' \in Nat /\ demoParties' \in BOOLEAN
           /\ faults' = faults /\ overlapped' = overlapped /\ cutOff' = cutOff
  <1>1. CASE \/ getRequiredUser(h) \/ UpsertUser(h) \/ ensureDemoParties(h)
             \/ RecordCantonContract(h) \/ QueryProfile(h) \/ LatestPolicy(h)
    BY <1>1 DEF getRequiredUser, UpsertUser, ensureDemoParties, RecordCantonContract,
                QueryProfile, LatestPolicy, Unchanged, OnlyTables, Counters, tables
  <1>2. CASE \/ Deactivate(h) \/ CachePolicy(h) \/ CreateIntent(h) \/ FindCredit(h)
             \/ NameCredit(h) \/ LoadPolicyAndCredit(h) \/ CollectActions(h)
    BY <1>2 DEF Deactivate, CachePolicy, CreateIntent, FindCredit, NameCredit,
                LoadPolicyAndCredit, CollectActions, Unchanged, OnlyTables, Counters, tables
  <1>3. CASE \/ GetPendingAction(h) \/ OpenAgentRow(h) \/ FindUser(h) \/ DeleteRows(h)
             \/ DeleteUser(h) \/ DeleteDemoParties(h)
    BY <1>3 DEF GetPendingAction, OpenAgentRow, FindUser, DeleteRows, DeleteUser,
                DeleteDemoParties, Unchanged, OnlyTables, Counters, tables
  <1>4. CASE \/ CreateProfile(h) \/ CreatePolicy(h) \/ CreateNotice(h) \/ CreateCredit(h)
             \/ ExecuteRun(h) \/ ResetLedger(h)
    BY <1>4 DEF CreateProfile, CreatePolicy, CreateNotice, CreateCredit, ExecuteRun, ResetLedger,
                OnlyLedger, Counters, tables
  <1>5. CASE ApprovePendingAction(h) \/ RejectPendingAction(h) \/ ExecuteApprovedAction(h)
    BY <1>5 DEF ApprovePendingAction, RejectPendingAction, ExecuteApprovedAction, Exercise,
                OnlyLedger, Counters, tables
  <1>6. CASE CreateAudit(h)
    BY <1>6 DEF CreateAudit, Counters
  <1>7. CASE CreateRun(h)
    <2>1. clock' \in {clock, clock + 1} /\ UNCHANGED <<tables, Counters>>
      BY <1>7 DEF CreateRun
    <2>2. clock' \in Nat
      BY <2>1
    <2> QED BY <2>1, <2>2 DEF Counters, tables
  <1> QED BY <1>1, <1>2, <1>3, <1>4, <1>5, <1>6, <1>7 DEF Step

LEMMA StepInv == ASSUME Inv, NEW h \in Handlers, Step(h) PROVE Inv'
  <1>1. TablesInv /\ Owned /\ RequestsSound /\ Ledger(ledger) /\ Conserves(ledger)
    BY ConservesIs DEF Inv, LedgerOK
  <1>2. TablesInv' /\ Owned'
    BY <1>1, StepTables, StepOwned DEF Ledger
  <1>3. RequestsSound'
    BY <1>1, StepMoves, OnlyMoved
  <1>4. Ledger(ledger') /\ Conserves(ledger')
    <2>1. PICK l, m, u : l = ledger /\ m = ledger' /\ u = handler[h].user
      OBVIOUS
    <2>2. CASE ResetLedger(h)
      <3>1. m = EmptyLedger
        BY <2>1, <2>2 DEF ResetLedger
      <3> QED BY <2>1, <3>1, EmptyIs
    <2>3. CASE Grown(l, m, u, 0)
      BY <1>1, <2>1, <2>3, GrownConserves
    <2> QED BY <1>1, <2>1, <2>2, <2>3, StepGrows
  <1>5. clock' \in Nat /\ demoParties' \in BOOLEAN /\ faults' = faults
    BY StepCounters DEF Inv, LedgerOK
  <1> QED BY <1>2, <1>3, <1>4, <1>5, ConservesNext DEF Inv, LedgerOK

\* A request that starts names a policy, or none, and pays what somebody may.
LEMMA RequestMoves ==
    ASSUME NEW h \in Handlers, NEW u \in Users, Request(h, u)
    PROVE  Moves(h) /\ UNCHANGED <<ledger, clock, tables, faults>>
  <1>1. PICK r : Start(h, u, r) /\ Sound(r) /\ IsRequest(r)
    <2>1. ASSUME NEW a, NEW r, \/ r = Idle
                               \/ r = [Idle EXCEPT !.policy = a]
                               \/ r = [Idle EXCEPT !.action = a]
          PROVE  Sound(r) /\ IsRequest(r)
      <3>1. r.policyId = NoContract /\ r.payroll = NoPayroll /\ IsRequest(r)
        BY <2>1 DEF Idle, IsRequest
      <3> QED BY <3>1, NothingSound DEF Sound
    <2>2. ASSUME NEW a, NEW p \in Payrolls,
                 NEW r, \/ r = [Idle EXCEPT !.payroll = p]
                        \/ r = [Idle EXCEPT !.policy = a, !.payroll = p]
          PROVE  Sound(r) /\ IsRequest(r)
      <3>1. IsPayroll(p)
        BY DemoPayrollsAssumption, SubmittedPayroll
      <3>2. r.policyId = NoContract /\ r.payroll = p /\ IsRequest(r)
        BY <2>2 DEF Idle, IsRequest
      <3> QED BY <3>1, <3>2, NothingSound DEF Sound
    <2>3. ASSUME NEW c, NEW p, p \in idsOf("PayrollPolicy") \cup {NoContract},
                 NEW r, r = [Idle EXCEPT !.credit = c, !.policyId = p]
          PROVE  Sound(r) /\ IsRequest(r)
      <3>1. NamesPolicy(p)
        BY <2>3 DEF idsOf, NamesPolicy
      <3>2. r.policyId = p /\ r.payroll = NoPayroll /\ IsRequest(r)
        BY <2>3 DEF Idle, IsRequest
      <3> QED BY <3>1, <3>2, NothingSound DEF Sound
    <2>4. CASE SimpleRequest(h, u) \/ PolicyRequest(h, u) \/ ActionRequest(h, u)
      BY <2>1, <2>4 DEF SimpleRequest, PolicyRequest, ActionRequest
    <2>5. CASE PayrollRequest(h, u) \/ FullFlowRequest(h, u)
      BY <2>2, <2>5 DEF PayrollRequest, FullFlowRequest
    <2>6. CASE AllocationRequest(h, u)
      BY <2>3, <2>6 DEF AllocationRequest
    <2> QED BY <2>4, <2>5, <2>6 DEF Request
  <1>2. PICK w : w = [r EXCEPT !.user = u, !.todo = Steps[Head(workload)]]
    OBVIOUS
  <1>3. Sound(w)
    <2>1. w.policyId = r.policyId /\ w.payroll = r.payroll
      BY <1>1, <1>2 DEF IsRequest
    <2> QED BY <1>1, <2>1 DEF Sound
  <1>4. handler' = [handler EXCEPT ![h] = w]
    BY <1>1, <1>2 DEF Start
  <1>5. Moves(h)
    BY <1>1, <1>3, <1>4 DEF Moves
  <1>6. UNCHANGED <<ledger, clock, tables, faults>>
    BY <1>1 DEF Start
  <1> QED BY <1>5, <1>6

LEMMA FailMoves ==
    ASSUME NEW h, Fail(h)
    PROVE  Moves(h) /\ UNCHANGED <<ledger, clock, tables>> /\ faults' = faults + 1
  <1>1. Sound(Idle)
    BY IdleSound
  <1>2. handler' = [handler EXCEPT ![h] = Idle]
    BY DEF Fail, Finish
  <1>3. Moves(h)
    BY <1>1, <1>2 DEF Moves
  <1>4. UNCHANGED <<ledger, clock, tables>> /\ faults' = faults + 1
    BY DEF Fail, Fault
  <1> QED BY <1>3, <1>4

LEMMA NextInv == ASSUME Inv, [Next]_vars PROVE Inv'
  <1>1. TablesInv'
    BY NextTables DEF Inv, LedgerOK, Ledger
  <1>1a. Ledger(ledger) /\ Conserves(ledger)
    BY ConservesIs DEF Inv, LedgerOK
  <1>2. CASE UNCHANGED vars
    <2>1. /\ handler' = handler /\ ledger' = ledger /\ clock' = clock /\ faults' = faults
          /\ UNCHANGED tables
      BY <1>2 DEF vars
    <2>2. Owned' /\ demoParties' = demoParties
      BY <2>1, OwnedStays DEF Inv, tables
    <2>3. LedgerConserves'
      BY <1>1a, <2>1, ConservesNext
    <2> QED BY <1>1, <2>1, <2>2, <2>3 DEF Inv, RequestsSound, LedgerOK
  <1>3. ASSUME NEW h \in Handlers, Step(h) PROVE Inv'
    BY <1>3, StepInv
  <1>4. ASSUME NEW h \in Handlers, NEW u \in Users, Request(h, u) PROVE Inv'
    <2>1. Moves(h) /\ UNCHANGED <<ledger, clock, tables, faults>>
      BY <1>4, RequestMoves
    <2>2. RequestsSound'
      BY <2>1, OnlyMoved DEF Inv
    <2>3. Owned' /\ demoParties' = demoParties
      BY <2>1, OwnedStays DEF Inv, tables
    <2>4. LedgerConserves'
      BY <1>1a, <2>1, ConservesNext
    <2> QED BY <1>1, <2>1, <2>2, <2>3, <2>4 DEF Inv, LedgerOK
  <1>5. ASSUME NEW h \in Handlers, Fail(h) PROVE Inv'
    <2>1. Moves(h) /\ UNCHANGED <<ledger, clock, tables>> /\ faults' = faults + 1
      BY <1>5, FailMoves
    <2>2. RequestsSound'
      BY <2>1, OnlyMoved DEF Inv
    <2>3. faults' \in Nat
      BY <2>1 DEF Inv
    <2>4. Owned' /\ demoParties' = demoParties
      BY <2>1, OwnedStays DEF Inv, tables
    <2>5. LedgerConserves'
      BY <1>1a, <2>1, ConservesNext
    <2> QED BY <1>1, <2>1, <2>2, <2>3, <2>4, <2>5 DEF Inv, LedgerOK
  <1>6. CASE Restart
    <2>1. /\ ledger' = EmptyLedger /\ clock' = clock /\ UNCHANGED tables
          /\ faults' \in Nat /\ handler' = [h \in Handlers |-> Idle]
      BY <1>6 DEF Restart, Fault, Inv
    <2>2. RequestsSound'
      BY <2>1, IdleSound DEF RequestsSound
    <2>3. Ledger(ledger') /\ Conserves(ledger')
      BY <2>1, EmptyIs
    <2>4. Owned' /\ demoParties' = demoParties
      BY <2>1, OwnedStays DEF Inv, tables
    <2> QED BY <1>1, <2>1, <2>2, <2>3, <2>4, ConservesNext DEF Inv, LedgerOK
  <1> QED BY <1>2, <1>3, <1>4, <1>5, <1>6 DEF Next

LEMMA InvAlways == Spec => []Inv
  <1>1. Inv /\ [Next]_vars => Inv'
    BY NextInv
  <1> QED BY InitInv, <1>1, PTL DEF Spec

LEMMA InvTypeOK == Inv => TypeOK
  <1> SUFFICES ASSUME Inv PROVE TypeOK
    OBVIOUS
  <1>1. Requests /\ Rows /\ Ledger(ledger) /\ clock \in Nat /\ demoParties \in BOOLEAN
    BY DEF Inv, TablesInv, LedgerOK
  <1>2. \A i \in DOMAIN ledger :
            /\ ledger[i].template \in ViewTemplates \cup {"UserProfile"}
            /\ ledger[i].live \in BOOLEAN
            /\ ledger[i].template # "OperatorAuditEvent" => ledger[i].payload.user \in Users
    <2>1. DOMAIN ledger = 1..Len(ledger)
      BY <1>1 DEF Ledger, IsSeq
    <2> QED BY <1>1, <2>1 DEF Ledger, Contract
  <1>3. /\ \A row \in policyRows : row.user \in keys /\ row.version \in Nat \ {0}
        /\ \A i \in intents : i.user \in keys
        /\ agentRows \subseteq keys /\ nextId \in Nat
    BY <1>1 DEF Rows, Inv, Owned
  <1>4. \A h \in Handlers : (handler[h].user = NoUser) <=> (handler[h] = Idle)
    <2>1. Idle.user = NoUser
      BY DEF Idle
    <2> QED BY <1>1, <2>1, DemoUsersAssumption DEF Requests, Fits
  <1> QED BY <1>1, <1>2, <1>3, <1>4 DEF Rows, TypeOK

\* The rows of policies, intents and agent actions are of users that have a row
\* themselves, each its own; contracts are of users, and a handler without a
\* user is idle.
THEOREM TypeOKHolds == Spec => []TypeOK
  BY InvAlways, InvTypeOK, PTL

\* The allocated credits of a user are in one place each, whatever allocations,
\* decisions and executions overlap, repeat or name ids of other contracts: but
\* for what each run lost to the precision of its asset and of amounts.
THEOREM LedgerConservesHolds == Spec => []LedgerConserves
  <1>1. Inv => LedgerConserves
    BY DEF Inv
  <1> QED BY InvAlways, <1>1, PTL

\* A user who has saved policies keeps an active one, but while one is saved:
\* for any number of saves, resets and logins at once.
THEOREM UserKeepsPolicyHolds == Spec => []UserKeepsPolicy
  <1>1. Inv => UserKeepsPolicy
    BY TablesKeepPolicy DEF Inv
  <1> QED BY InvAlways, <1>1, PTL

Undisturbed ==
    \A h \in Handlers :
        /\ handler'[h] # handler[h] /\ ledger' # ledger
        /\ ~At(h, "resetLedger") /\ faults' = faults
        => \A v \in Users \ {handler[h].user} : undisturbed(handler[h].user, v)

LEMMA NextUndisturbed == ASSUME Inv, Next PROVE Undisturbed
  <1>1. SUFFICES ASSUME NEW h \in Handlers, handler'[h] # handler[h], ledger' # ledger,
                        ~At(h, "resetLedger"), faults' = faults,
                        NEW v \in Users \ {handler[h].user}
                 PROVE  undisturbed(handler[h].user, v)
    BY DEF Undisturbed
  <1>2. TablesInv /\ RequestsSound /\ Ledger(ledger) /\ faults \in Nat
    BY DEF Inv, LedgerOK
  <1>3. PICK g \in Handlers : Step(g)
    <2>1. ~Restart
      BY <1>1, <1>2 DEF Restart, Fault
    <2>2. \A g \in Handlers : ~Fail(g)
      BY <1>1, <1>2, FailMoves
    <2>3. \A g \in Handlers : \A u \in Users : ~Request(g, u)
      BY <1>1, RequestMoves
    <2> QED BY <2>1, <2>2, <2>3 DEF Next
  <1>4. g = h
    <2>1. Moves(g)
      BY <1>2, <1>3, StepMoves
    <2>2. \A k \in Handlers \ {g} : handler'[k] = handler[k]
      BY <1>2, <2>1, OnlyMoved
    <2> QED BY <1>1, <2>2
  <1>5. ~ResetLedger(h)
    BY <1>1 DEF ResetLedger
  <1>6. PICK l, m, u : l = ledger /\ m = ledger' /\ u = handler[h].user
    OBVIOUS
  <1>7. Grown(l, m, u, 0) /\ v \in Users /\ v # u
    BY <1>1, <1>2, <1>3, <1>4, <1>5, <1>6, StepGrows
  <1>8. Undisturbs(l, m, u, v)
    BY <1>7, OthersSee
  <1> QED BY <1>6, <1>8 DEF Undisturbs, undisturbed, partyView

\* A call changes nothing that another user sees, whichever ids it names, and
\* adds only payments to that user: but for a reset, what a user sees changes
\* by the user's own requests and by payments of others.
THEOREM OthersUndisturbedHolds == Spec => OthersUndisturbed
  <1>1. Inv /\ [Next]_vars => [Undisturbed]_vars
    BY NextUndisturbed
  <1> QED BY InvAlways, <1>1, PTL DEF Spec, OthersUndisturbed, Undisturbed

-----------------------------------------------------------------------------
(* Users whose requests come one after the other                           *)

\* A reset is at one of its steps, and other requests reset nothing; profiles
\* are created right after they were asked for, by requests that log in.
ResetCalls == {"findUser", "deleteAgentActions", "deleteIntents", "deletePolicies", "deleteUser",
               "deleteDemoParties", "resetLedger"}
ProfileCalls == {"queryProfile", "createProfile"}

ResetsLeft(todo) ==
    Len(todo) \in 1..7 /\ \A j \in 1..Len(todo) : todo[j] = Steps.reset[7 - Len(todo) + j]

Shape(todo) ==
    /\ ResetsLeft(todo) \/ \A j \in 1..Len(todo) : todo[j] \notin ResetCalls
    /\ \A i, j \in 1..Len(todo) :
           /\ j = i + 1 => (todo[i] = "queryProfile" <=> todo[j] = "createProfile")
           /\ i < j /\ todo[j] \in ProfileCalls => todo[i] \in EarlyCalls

Shapes == \A h \in Handlers : Shape(handler[h].todo)

policiesOf(l, u) == query(l, "PayrollPolicy", u)
profilesOf(l, u) == query(l, "UserProfile", u)

\* Of the rows R of user u, and the policies of u on ledger l.
InOrder(R) ==
    \A a \in R : a.active => \A r \in R : r.version <= a.version /\ (r.active => r = a)
NoneActive(R) == \A r \in R : ~r.active
Above(v, R) == \A r \in R : r.version < v
Older(l, u, v) == \A p \in policiesOf(l, u) : payload(l, p).version \in 0..(v - 1)
Newest(l, u, p, v) ==
    /\ p \in policiesOf(l, u) /\ payload(l, p).version = v
    /\ \A q \in policiesOf(l, u) : q # p => payload(l, q).version \in 0..(v - 1)
Settled(l, u, R) ==
    policiesOf(l, u) = {} \/ \E a \in R : a.active /\ Newest(l, u, a.contract, a.version)
OneProfile(l, u) == \A p, q \in profilesOf(l, u) : p = q

\* The policy is saved by one of the next k calls.
SavesSoon(todo, k) == \E i \in 1..k : SavesAt(todo, i)

\* What saving a policy has done to rows and policies at each of its calls, and
\* that before and after it the active row is that of the newest policy.
SaveFine(w, l, u, R) ==
    /\ SavesSoon(w.todo, 4) => Above(w.version, R)
    /\ SavesSoon(w.todo, 3) => NoneActive(R)
    /\ SavesAt(w.todo, 3) => Older(l, u, w.version)
    /\ SavesSoon(w.todo, 2) =>
           policiesOf(l, u) = {} \/ Newest(l, u, w.policyId, w.version)
    /\ ResetsLeft(w.todo) \/ SavesSoon(w.todo, 3) \/ Settled(l, u, R)

\* A reset deletes what is of row id before the row itself.
ResetFine(w, id, R, ints, agents) ==
    w.todo # <<>> => LET call == Head(w.todo) IN
        /\ call \in {"deleteAgentActions", "deleteIntents", "deletePolicies", "deleteUser"} =>
               w.id = id
        /\ call \in {"deleteIntents", "deletePolicies", "deleteUser"} => id \notin agents
        /\ call \in {"deletePolicies", "deleteUser"} => \A i \in ints : i.user # id
        /\ call = "deleteUser" => R = {}

\* The one request w of user u, whose row is id, or an idle one.
Fine(w, l, u, id, R, ints, agents) ==
    /\ InOrder(R) /\ OneProfile(l, u)
    /\ SaveFine(w, l, u, R) /\ ResetFine(w, id, R, ints, agents)
    /\ ResetsLeft(w.todo) \/ w.id \in {0, id}
    /\ w.todo # <<>> /\ Head(w.todo) = "createProfile" => profilesOf(l, u) = {}

FineNow(u, w) == Fine(w, ledger, u, userIds[u], rowsOf(userIds[u]), intents, agentRows)

Serial(u) ==
    /\ \A g, h \in serving(u) : g = h
    /\ \A h \in serving(u) : FineNow(u, handler[h])
    /\ serving(u) = {} => FineNow(u, Idle)

SerialInv == Shapes /\ \A u \in Users \ (overlapped \cup cutOff) : Serial(u)

\* The calls of a reset, and where its steps are.
IsReset(s) ==
    /\ s \in Seq(ResetCalls) /\ Len(s) = 7
    /\ s[1] = "findUser" /\ s[2] = "deleteAgentActions" /\ s[3] = "deleteIntents"
    /\ s[4] = "deletePolicies" /\ s[5] = "deleteUser" /\ s[6] = "deleteDemoParties"
    /\ s[7] = "resetLedger"

LEMMA ResetSteps == \E s : s = Steps.reset /\ IsReset(s)
  <1>1. PICK s : s = <<"findUser", "deleteAgentActions", "deleteIntents", "deletePolicies",
                       "deleteUser", "deleteDemoParties", "resetLedger">>
    OBVIOUS
  <1>2. Steps.reset = s
    BY <1>1 DEF Steps
  <1>3. IsReset(s)
    BY <1>1 DEF IsReset, ResetCalls
  <1> QED BY <1>2, <1>3

\* What is left of a reset, without the record of all requests.
LeftOf(s, todo, n) ==
    n = Len(todo) /\ \A j \in 1..n : todo[j] = s[7 - n + j]

LEMMA ResetsLeftWith ==
    ASSUME NEW todo, NEW rest
    PROVE  \E s : /\ IsReset(s)
                  /\ ResetsLeft(todo) <=> \E n \in 1..7 : LeftOf(s, todo, n)
                  /\ ResetsLeft(rest) <=> \E n \in 1..7 : LeftOf(s, rest, n)
  <1>1. PICK s : s = Steps.reset /\ IsReset(s)
    BY ResetSteps
  <1> QED BY <1>1 DEF ResetsLeft, LeftOf

LEMMA ResetCall == ASSUME NEW s, IsReset(s), NEW k \in 1..7 PROVE s[k] \in ResetCalls
  <1>1. s \in Seq(ResetCalls) /\ Len(s) = 7
    BY DEF IsReset
  <1>2. k \in 1..Len(s)
    BY <1>1
  <1>3. PICK S : S = ResetCalls
    OBVIOUS
  <1>4. s \in Seq(S)
    BY <1>1, <1>3
  <1> QED BY <1>2, <1>3, <1>4

LEMMA ResetsLeftIs ==
    ASSUME NEW todo \in Seq(Calls), ResetsLeft(todo)
    PROVE  /\ todo # <<>> /\ \A j \in 1..Len(todo) : todo[j] \in ResetCalls
           /\ \A k : ~SavesAt(todo, k)
  <1>0. PICK s : IsReset(s) /\ \E n \in 1..7 : LeftOf(s, todo, n)
    BY ResetsLeftWith
  <1>1. PICK n \in 1..7 : LeftOf(s, todo, n)
    BY <1>0
  <1>2. n = Len(todo) /\ \A j \in 1..n : todo[j] = s[7 - n + j]
    BY <1>1 DEF LeftOf
  <1>3. ASSUME NEW j \in 1..n PROVE todo[j] \in ResetCalls
    <2>1. PICK k \in 1..7 : k = 7 - n + j
      OBVIOUS
    <2>2. todo[j] = s[k]
      BY <1>2, <2>1
    <2> QED BY <1>0, <2>2, ResetCall
  <1>4. \A j \in 1..Len(todo) : todo[j] \in ResetCalls
    BY <1>2, <1>3
  <1>5. \A k : ~SavesAt(todo, k)
    BY <1>4 DEF SavesAt, ResetCalls
  <1>6. todo # <<>>
    BY <1>2
  <1> QED BY <1>4, <1>5, <1>6

LEMMA ShapeRest ==
    ASSUME NEW todo \in Seq(Calls), Shape(todo), NEW n \in {1, 2, 5}, NEW rest,
           rest = SubSeq(todo, n + 1, Len(todo)), rest # <<>>
    PROVE  Shape(rest) /\ (ResetsLeft(rest) <=> ResetsLeft(todo))
  <1>1. /\ rest \in Seq(Calls) /\ Len(rest) = Len(todo) - n /\ Len(todo) > n
        /\ \A j \in 1..Len(rest) : rest[j] = todo[j + n] /\ j + n \in 1..Len(todo)
    BY Rest
  <1>0. PICK s : /\ IsReset(s)
                 /\ ResetsLeft(todo) <=> \E m \in 1..7 : LeftOf(s, todo, m)
                 /\ ResetsLeft(rest) <=> \E m \in 1..7 : LeftOf(s, rest, m)
    BY ResetsLeftWith
  <1>2. ASSUME ResetsLeft(todo) PROVE ResetsLeft(rest)
    <2>1. PICK m \in 1..7 : LeftOf(s, todo, m)
      BY <1>0, <1>2
    <2>2. m = Len(todo) /\ \A j \in 1..m : todo[j] = s[7 - m + j]
      BY <2>1 DEF LeftOf
    <2>3. PICK i \in 1..7 : i = m - n /\ i = Len(rest)
      <3>1. m = Len(todo)
        BY <2>2
      <3>2. m > n /\ m - n = Len(rest)
        BY <1>1, <3>1
      <3>3. m - n \in 1..7
        BY <3>2
      <3> QED BY <3>2, <3>3
    <2>4. ASSUME NEW j \in 1..i PROVE rest[j] = s[7 - i + j]
      <3>1. PICK q \in 1..m : q = j + n /\ 7 - i + j = 7 - m + q
        BY <1>1, <2>2, <2>3
      <3>2. rest[j] = todo[q]
        BY <1>1, <2>3, <3>1
      <3>3. todo[q] = s[7 - m + q]
        BY <2>2
      <3> QED BY <3>1, <3>2, <3>3
    <2>5. LeftOf(s, rest, i)
      BY <2>3, <2>4 DEF LeftOf
    <2> QED BY <1>0, <1>2, <2>5
  <1>3. ASSUME ~ResetsLeft(todo)
        PROVE  ~ResetsLeft(rest) /\ \A j \in 1..Len(rest) : rest[j] \notin ResetCalls
    <2>1. \A j \in 1..Len(rest) : rest[j] \notin ResetCalls
      BY <1>1, <1>3 DEF Shape
    <2>2. 1 \in 1..Len(rest)
      BY <1>1
    <2> QED BY <1>1, <1>3, <2>1, <2>2, ResetsLeftIs
  <1>4. ResetsLeft(rest) \/ \A j \in 1..Len(rest) : rest[j] \notin ResetCalls
    BY <1>1, <1>2, <1>3 DEF Shape
  <1>5. ASSUME NEW i \in 1..Len(rest), NEW j \in 1..Len(rest)
        PROVE  /\ j = i + 1 => (rest[i] = "queryProfile" <=> rest[j] = "createProfile")
               /\ i < j /\ rest[j] \in ProfileCalls => rest[i] \in EarlyCalls
    <2>1. j = i + 1 => j + n = (i + n) + 1
      OBVIOUS
    <2>2. i < j => i + n < j + n
      BY <1>1
    <2> QED BY <1>1, <2>1, <2>2 DEF Shape
  <1> QED BY <1>2, <1>3, <1>4, <1>5 DEF Shape

\* How far a reset is, by its next call.
LEMMA ResetAt ==
    ASSUME NEW todo \in Seq(Calls), ResetsLeft(todo)
    PROVE  \E s, n : /\ IsReset(s) /\ n \in 1..7 /\ LeftOf(s, todo, n)
                     /\ Head(todo) = "findUser" <=> n = 7
                     /\ Head(todo) = "deleteAgentActions" <=> n = 6
                     /\ Head(todo) = "deleteIntents" <=> n = 5
                     /\ Head(todo) = "deletePolicies" <=> n = 4
                     /\ Head(todo) = "deleteUser" <=> n = 3
                     /\ Head(todo) = "deleteDemoParties" <=> n = 2
                     /\ Head(todo) = "resetLedger" <=> n = 1
  <1>0. PICK s : IsReset(s) /\ \E n \in 1..7 : LeftOf(s, todo, n)
    BY ResetsLeftWith
  <1>1. PICK n \in 1..7 : LeftOf(s, todo, n)
    BY <1>0
  <1>2. n = Len(todo) /\ todo[1] = s[7 - n + 1]
    BY <1>1 DEF LeftOf
  <1>3. Head(todo) = todo[1]
    BY <1>2
  <1>4. \/ n = 1 /\ 7 - n + 1 = 7
        \/ n = 2 /\ 7 - n + 1 = 6
        \/ n = 3 /\ 7 - n + 1 = 5
        \/ n = 4 /\ 7 - n + 1 = 4
        \/ n = 5 /\ 7 - n + 1 = 3
        \/ n = 6 /\ 7 - n + 1 = 2
        \/ n = 7 /\ 7 - n + 1 = 1
    OBVIOUS
  <1>5. IsReset(s)
    BY <1>0
  <1>6. \/ n = 1 /\ Head(todo) = "resetLedger"
        \/ n = 2 /\ Head(todo) = "deleteDemoParties"
        \/ n = 3 /\ Head(todo) = "deleteUser"
        \/ n = 4 /\ Head(todo) = "deletePolicies"
        \/ n = 5 /\ Head(todo) = "deleteIntents"
        \/ n = 6 /\ Head(todo) = "deleteAgentActions"
        \/ n = 7 /\ Head(todo) = "findUser"
    BY <1>2, <1>3, <1>4, <1>5 DEF IsReset
  <1>7. /\ Head(todo) = "findUser" <=> n = 7
        /\ Head(todo) = "deleteAgentActions" <=> n = 6
        /\ Head(todo) = "deleteIntents" <=> n = 5
        /\ Head(todo) = "deletePolicies" <=> n = 4
        /\ Head(todo) = "deleteUser" <=> n = 3
        /\ Head(todo) = "deleteDemoParties" <=> n = 2
        /\ Head(todo) = "resetLedger" <=> n = 1
    BY <1>6
  <1> QED BY <1>1, <1>5, <1>7

\* The next call of a reset.
LEMMA ResetNext ==
    ASSUME NEW todo \in Seq(Calls), ResetsLeft(todo), NEW rest, rest = SubSeq(todo, 2, Len(todo))
    PROVE  /\ rest = <<>> <=> Head(todo) = "resetLedger"
           /\ Head(todo) = "findUser" => Head(rest) = "deleteAgentActions"
           /\ Head(todo) = "deleteAgentActions" => Head(rest) = "deleteIntents"
           /\ Head(todo) = "deleteIntents" => Head(rest) = "deletePolicies"
           /\ Head(todo) = "deletePolicies" => Head(rest) = "deleteUser"
           /\ Head(todo) = "deleteUser" => Head(rest) = "deleteDemoParties"
           /\ Head(todo) = "deleteDemoParties" => Head(rest) = "resetLedger"
  <1>1. PICK s, n : /\ IsReset(s) /\ n \in 1..7 /\ LeftOf(s, todo, n)
                    /\ Head(todo) = "findUser" <=> n = 7
                    /\ Head(todo) = "deleteAgentActions" <=> n = 6
                    /\ Head(todo) = "deleteIntents" <=> n = 5
                    /\ Head(todo) = "deletePolicies" <=> n = 4
                    /\ Head(todo) = "deleteUser" <=> n = 3
                    /\ Head(todo) = "deleteDemoParties" <=> n = 2
                    /\ Head(todo) = "resetLedger" <=> n = 1
    BY ResetAt
  <1>2. n = Len(todo) /\ \A j \in 1..n : todo[j] = s[7 - n + j]
    BY <1>1 DEF LeftOf
  <1>3. n = 1 <=> rest = <<>>
    BY <1>1, <1>2
  <1>4. n # 1 => Head(rest) = todo[2] /\ 2 \in 1..n
    BY <1>1, <1>2
  <1>5. n # 1 => Head(rest) = s[7 - n + 2]
    BY <1>2, <1>4
  <1>6. /\ n = 7 => 7 - n + 2 = 2
        /\ n = 6 => 7 - n + 2 = 3
        /\ n = 5 => 7 - n + 2 = 4
        /\ n = 4 => 7 - n + 2 = 5
        /\ n = 3 => 7 - n + 2 = 6
        /\ n = 2 => 7 - n + 2 = 7
    OBVIOUS
  <1>7. /\ s[2] = "deleteAgentActions" /\ s[3] = "deleteIntents" /\ s[4] = "deletePolicies"
        /\ s[5] = "deleteUser" /\ s[6] = "deleteDemoParties" /\ s[7] = "resetLedger"
    BY <1>1 DEF IsReset
  <1> QED BY <1>1, <1>3, <1>5, <1>6, <1>7

LEMMA ResetSkipped ==
    ASSUME NEW todo \in Seq(Calls), ResetsLeft(todo), Head(todo) = "findUser",
           NEW rest, rest = SubSeq(todo, 6, Len(todo))
    PROVE  rest # <<>> /\ Head(rest) = "deleteDemoParties"
  <1>1. PICK s, n : /\ IsReset(s) /\ n \in 1..7 /\ LeftOf(s, todo, n)
                    /\ Head(todo) = "findUser" <=> n = 7
    BY ResetAt
  <1>2. n = 7
    BY <1>1
  <1>3. Len(todo) = 7 /\ \A j \in 1..7 : todo[j] = s[7 - 7 + j]
    BY <1>1, <1>2 DEF LeftOf
  <1>4. todo[6] = s[6]
    <2>1. 7 - 7 + 6 = 6 /\ 6 \in 1..7
      OBVIOUS
    <2> QED BY <1>3, <2>1
  <1>5. Len(todo) = 7
    BY <1>3
  <1>6. rest # <<>> /\ Head(rest) = todo[6]
    <2>1. PICK m \in Nat : m = 5 /\ rest = SubSeq(todo, m + 1, Len(todo)) /\ Len(todo) = m + 2
      BY <1>5
    <2>2. Len(rest) = 2 /\ rest # <<>> /\ rest[1] = todo[1 + m] /\ Head(rest) = rest[1]
      BY <2>1
    <2> QED BY <2>1, <2>2
  <1> QED BY <1>1, <1>4, <1>6 DEF IsReset

\* Where the policy is saved, and the next call.
LEMMA SavesHead ==
    ASSUME NEW todo \in Seq(Calls), todo # <<>>
    PROVE  /\ SavesAt(todo, 1) => Head(todo) = "cachePolicy"
           /\ SavesAt(todo, 2) => Head(todo) = "record"
           /\ SavesAt(todo, 3) => Head(todo) = "createPolicy"
           /\ SavesAt(todo, 4) => Head(todo) = "deactivate"
           /\ SavesAt(todo, 5) => Head(todo) = "latestPolicy"
           /\ \A k \in Nat : k > 5 /\ SavesAt(todo, k) => Head(todo) \in EarlyCalls
  <1>1. 1 \in 1..Len(todo) /\ Head(todo) = todo[1]
    OBVIOUS
  <1> QED BY <1>1 DEF SavesAt

LEMMA SaveCallAt ==
    ASSUME NEW todo \in Seq(Calls), todo # <<>>,
           SavesNothing(todo) \/ \E k \in 1..Len(todo) : SavesAt(todo, k)
    PROVE  /\ Head(todo) = "latestPolicy" => SavesAt(todo, 5)
           /\ Head(todo) = "deactivate" => SavesAt(todo, 4)
           /\ Head(todo) = "createPolicy" => SavesAt(todo, 3)
           /\ Head(todo) = "cachePolicy" => SavesAt(todo, 1)
  <1>1. 1 \in 1..Len(todo) /\ Head(todo) = todo[1]
    OBVIOUS
  <1>2. SUFFICES ASSUME Head(todo) \in SaveCalls
                 PROVE  /\ Head(todo) = "latestPolicy" => SavesAt(todo, 5)
                        /\ Head(todo) = "deactivate" => SavesAt(todo, 4)
                        /\ Head(todo) = "createPolicy" => SavesAt(todo, 3)
                        /\ Head(todo) = "cachePolicy" => SavesAt(todo, 1)
    BY DEF SaveCalls
  <1>3. PICK k \in 1..Len(todo) : SavesAt(todo, k)
    BY <1>1, <1>2 DEF SavesNothing
  <1>4. k = 1 \/ k = 2 \/ k = 3 \/ k = 4 \/ k = 5 \/ k > 5
    OBVIOUS
  <1> QED BY <1>2, <1>3, <1>4, SavesHead DEF EarlyCalls, SaveCalls

LEMMA SoonIs ==
    ASSUME NEW todo
    PROVE  /\ SavesSoon(todo, 2) <=> SavesAt(todo, 1) \/ SavesAt(todo, 2)
           /\ SavesSoon(todo, 3) <=> SavesSoon(todo, 2) \/ SavesAt(todo, 3)
           /\ SavesSoon(todo, 4) <=> SavesSoon(todo, 3) \/ SavesAt(todo, 4)
  <1>1. 1..2 = {1, 2} /\ 1..3 = {1, 2, 3} /\ 1..4 = {1, 2, 3, 4}
    OBVIOUS
  <1> QED BY <1>1 DEF SavesSoon

\* Calls that have nothing to do with policies, resets, and the profile.
QuietCall(todo) ==
    /\ Head(todo) \notin SaveCalls \cup ResetCalls /\ ~SavesAt(todo, 2)

\* Nothing was done yet that the rest of the calls makes good.
Fresh(todo) ==
    /\ ~ResetsLeft(todo) /\ ~SavesSoon(todo, 4)
    /\ todo # <<>> => Head(todo) \notin ResetCalls

AtProfile(todo) == todo # <<>> /\ Head(todo) = "createProfile"

LEMMA NothingFresh == ASSUME NEW todo, todo = <<>> PROVE Fresh(todo)
  <1>1. Len(todo) = 0
    OBVIOUS
  <1>2. ~ResetsLeft(todo) /\ \A k : ~SavesAt(todo, k)
    BY <1>1 DEF ResetsLeft, SavesAt
  <1> QED BY <1>2 DEF Fresh, SavesSoon

LEMMA QuietRest ==
    ASSUME NEW w, w.todo \in Seq(Calls), Shape(w.todo), NEW n, MaySkip(w, n),
           SavesNothing(w.todo) \/ \E k \in 1..Len(w.todo) : SavesAt(w.todo, k),
           QuietCall(w.todo)
    PROVE  /\ ~ResetsLeft(w.todo) /\ ~SavesSoon(w.todo, 4) /\ Fresh(restOf(w, n))
           /\ AtProfile(restOf(w, n)) => n = 1 /\ Head(w.todo) = "queryProfile"
  <1>1. PICK todo, call : todo = w.todo /\ call = Head(todo)
    OBVIOUS
  <1>2. /\ todo \in Seq(Calls) /\ todo # <<>> /\ n \in {1, 2, 5} /\ Shape(todo)
        /\ n = 2 => call = "queryProfile"
        /\ n = 5 => call = "findCredit"
        /\ call \notin SaveCalls \cup ResetCalls /\ ~SavesAt(todo, 2)
        /\ call = todo[1] /\ 1 \in 1..Len(todo)
    BY <1>1 DEF MaySkip, QuietCall, ResetCalls
  <1>3. ~ResetsLeft(todo) /\ \A j \in 1..Len(todo) : todo[j] \notin ResetCalls
    BY <1>2, ResetsLeftIs DEF Shape
  <1>4. ~SavesAt(todo, 1) /\ ~SavesAt(todo, 3) /\ ~SavesAt(todo, 4) /\ ~SavesAt(todo, 5)
    BY <1>1, <1>2, SavesHead DEF SaveCalls
  <1>5. ~SavesSoon(todo, 4)
    BY <1>2, <1>4, SoonIs
  <1>6. PICK rest : rest = SubSeq(todo, n + 1, Len(todo))
    OBVIOUS
  <1>7. CASE rest = <<>>
    BY <1>1, <1>3, <1>5, <1>6, <1>7, NothingFresh DEF restOf, AtProfile
  <1>8. CASE rest # <<>>
    <2>1. /\ rest \in Seq(Calls) /\ Len(rest) = Len(todo) - n /\ Len(todo) > n
          /\ rest[1] = todo[1 + n] /\ 1 + n \in 1..Len(todo) /\ Head(rest) = rest[1]
      <3>1. /\ rest \in Seq(Calls) /\ Len(rest) = Len(todo) - n /\ Len(todo) > n
            /\ \A j \in 1..Len(rest) : rest[j] = todo[j + n]
        BY <1>2, <1>6, <1>8, Rest
      <3> QED BY <3>1, <1>8, <1>2
    <2>2. \A i \in 1..Len(rest) : SavesAt(rest, i) => SavesAt(todo, i + n)
      BY <1>1, <1>2, <1>6, <1>8, RestSaves
    <2>3. ASSUME NEW i \in 1..4, SavesAt(rest, i) PROVE FALSE
      <3>1. i \in 1..Len(rest) /\ SavesAt(todo, i + n)
        BY <2>2, <2>3 DEF SavesAt
      <3>2. CASE n = 1
        <4>1. i + n = 2 \/ i + n = 3 \/ i + n = 4 \/ i + n = 5
          BY <3>2
        <4> QED BY <1>2, <1>4, <3>1, <4>1
      <3>3. CASE n = 2
        <4>1. i + n = 3 \/ i + n = 4 \/ i + n = 5 \/ i + n = 6
          BY <3>3
        <4>2. SavesAt(todo, 6)
          BY <1>4, <3>1, <4>1
        <4>3. 2 \in 1..Len(todo) /\ todo[1] = "queryProfile"
          BY <1>2, <2>1, <3>3
        <4>4. todo[2] = "latestPolicy" /\ todo[1 + 1] = "createProfile"
          BY <1>2, <4>2, <4>3 DEF SavesAt
        <4> QED BY <4>4
      <3>4. CASE n = 5
        <4>1. i + n > 5 /\ i + n \in Nat
          BY <3>4
        <4>2. call \in EarlyCalls
          BY <1>1, <1>2, <3>1, <4>1, SavesHead
        <4> QED BY <1>2, <3>4, <4>2 DEF EarlyCalls
      <3> QED BY <1>2, <3>2, <3>3, <3>4
    <2>4. ~SavesSoon(rest, 4)
      BY <2>3 DEF SavesSoon
    <2>5. ~ResetsLeft(rest)
      BY <1>2, <1>3, <1>6, <1>8, ShapeRest
    <2>6. Head(rest) \notin ResetCalls
      BY <1>3, <2>1
    <2>7. Head(rest) = "createProfile" => n = 1 /\ call = "queryProfile"
      <3>1. SUFFICES ASSUME todo[1 + n] = "createProfile" PROVE n = 1 /\ call = "queryProfile"
        BY <2>1
      <3>2. n \in 1..Len(todo) /\ 1 + n = n + 1
        BY <1>2, <2>1
      <3>3. todo[n] = "queryProfile"
        BY <1>2, <2>1, <3>1, <3>2 DEF Shape
      <3>4. CASE n = 1
        BY <1>2, <3>3, <3>4
      <3>5. CASE n = 2
        <4>1. todo[1] = "queryProfile" /\ 2 \in 1..Len(todo) /\ 2 = 1 + 1
          BY <1>2, <3>5, <2>1
        <4>2. todo[2] = "createProfile"
          BY <1>2, <4>1 DEF Shape
        <4> QED BY <3>3, <3>5, <4>2
      <3>6. CASE n = 5
        <4>1. todo[1] \in EarlyCalls
          BY <1>2, <2>1, <3>1, <3>6 DEF Shape, ProfileCalls
        <4> QED BY <1>2, <3>6, <4>1 DEF EarlyCalls
      <3> QED BY <1>2, <3>4, <3>5, <3>6
    <2>8. Fresh(rest)
      BY <2>4, <2>5, <2>6 DEF Fresh
    <2> QED BY <1>1, <1>3, <1>5, <1>6, <2>7, <2>8 DEF restOf, AtProfile
  <1> QED BY <1>7, <1>8

\* Of the policies of u, ledger m shows what l does, or none.
Follows(l, m, u) ==
    \/ policiesOf(m, u) = {}
    \/ /\ policiesOf(m, u) = policiesOf(l, u)
       /\ \A p \in policiesOf(l, u) : payload(m, p) = payload(l, p)

LEMMA FollowsKeeps ==
    ASSUME NEW l, NEW m, NEW u, Follows(l, m, u)
    PROVE  /\ \A R : Settled(l, u, R) => Settled(m, u, R)
           /\ \A v : Older(l, u, v) => Older(m, u, v)
           /\ \A p, v : (policiesOf(l, u) = {} \/ Newest(l, u, p, v)) =>
                  (policiesOf(m, u) = {} \/ Newest(m, u, p, v))
  <1>1. CASE policiesOf(m, u) = {}
    BY <1>1 DEF Settled, Older
  <1>2. CASE /\ policiesOf(m, u) = policiesOf(l, u)
             /\ \A p \in policiesOf(l, u) : payload(m, p) = payload(l, p)
    <2>1. PICK P : P = policiesOf(l, u) /\ P = policiesOf(m, u)
      BY <1>2
    <2>2. \A p \in P : payload(m, p) = payload(l, p)
      BY <1>2, <2>1
    <2>3. \A p, v : Newest(l, u, p, v) => Newest(m, u, p, v)
      BY <2>1, <2>2 DEF Newest
    <2>4. \A v : Older(l, u, v) => Older(m, u, v)
      BY <2>1, <2>2 DEF Older
    <2> QED BY <1>2, <2>3, <2>4 DEF Settled
  <1> QED BY <1>1, <1>2 DEF Follows

\* What the calls of others do to a request of u.
LEMMA OthersFine ==
    ASSUME NEW w, NEW l, NEW m, NEW u, NEW id, NEW R, NEW ints, NEW ints2, NEW agents,
           NEW agents2, Fine(w, l, u, id, R, ints, agents),
           Follows(l, m, u), profilesOf(m, u) \in {profilesOf(l, u), {}},
           id \notin agents => id \notin agents2,
           (\A i \in ints : i.user # id) => \A i \in ints2 : i.user # id
    PROVE  Fine(w, m, u, id, R, ints2, agents2)
  <1>1. SaveFine(w, m, u, R)
    <2>1. SaveFine(w, l, u, R)
      BY DEF Fine
    <2> QED BY <2>1, FollowsKeeps DEF SaveFine
  <1>2. ResetFine(w, id, R, ints2, agents2)
    <2>1. ResetFine(w, id, R, ints, agents)
      BY DEF Fine
    <2> QED BY <2>1 DEF ResetFine
  <1>3. OneProfile(m, u) /\ (profilesOf(l, u) = {} => profilesOf(m, u) = {})
    BY DEF Fine, OneProfile
  <1> QED BY <1>1, <1>2, <1>3 DEF Fine

LEMMA FreshFine ==
    ASSUME NEW w, Fresh(w.todo), NEW l, NEW u, NEW id, NEW R, NEW ints, NEW agents,
           w.id \in {0, id}, InOrder(R), OneProfile(l, u), Settled(l, u, R),
           AtProfile(w.todo) => profilesOf(l, u) = {}
    PROVE  Fine(w, l, u, id, R, ints, agents)
  <1>1. /\ ~ResetsLeft(w.todo) /\ ~SavesSoon(w.todo, 4) /\ ~SavesSoon(w.todo, 3)
        /\ ~SavesSoon(w.todo, 2) /\ ~SavesAt(w.todo, 3)
    BY SoonIs DEF Fresh
  <1>2. SaveFine(w, l, u, R)
    BY <1>1 DEF SaveFine
  <1>3. ResetFine(w, id, R, ints, agents)
    BY DEF Fresh, ResetFine, ResetCalls
  <1> QED BY <1>2, <1>3 DEF Fine, Fresh, AtProfile

\* Between two requests all is settled.
LEMMA IdleFine ==
    ASSUME NEW l, NEW u, NEW id, NEW R, NEW ints, NEW agents
    PROVE  Fine(Idle, l, u, id, R, ints, agents) <=>
               InOrder(R) /\ OneProfile(l, u) /\ Settled(l, u, R)
  <1>1. PICK w : w = Idle
    OBVIOUS
  <1>2. w.todo = <<>> /\ w.id = 0
    BY <1>1 DEF Idle
  <1>3. Fresh(w.todo)
    BY <1>2, NothingFresh
  <1>4. ~ResetsLeft(w.todo) /\ ~SavesSoon(w.todo, 3)
    BY <1>3, SoonIs DEF Fresh
  <1>5. ASSUME Fine(w, l, u, id, R, ints, agents)
        PROVE  InOrder(R) /\ OneProfile(l, u) /\ Settled(l, u, R)
    BY <1>4, <1>5 DEF Fine, SaveFine
  <1>6. ASSUME InOrder(R), OneProfile(l, u), Settled(l, u, R)
        PROVE  Fine(w, l, u, id, R, ints, agents)
    BY <1>2, <1>3, <1>6, FreshFine DEF AtProfile
  <1> QED BY <1>1, <1>5, <1>6

\* What a request that goes on is like.
LEMMA GoneOnIs ==
    ASSUME NEW w, NEW n, NEW r, IsRequest(r), NEW x, x = goneOn(w, n, r)
    PROVE  /\ x.todo = restOf(w, n) /\ x.id \in {0, r.id}
           /\ restOf(w, n) = <<>> => x = Idle
           /\ restOf(w, n) # <<>> => /\ x.user = r.user /\ x.id = r.id /\ x.version = r.version
                                     /\ x.policyId = r.policyId
  <1>1. CASE restOf(w, n) = <<>>
    BY <1>1 DEF goneOn, Idle
  <1>2. CASE restOf(w, n) # <<>>
    <2>1. PICK rest : rest = restOf(w, n)
      OBVIOUS
    <2>2. x = [r EXCEPT !.todo = rest]
      BY <1>2, <2>1 DEF goneOn
    <2>3. x.todo = rest /\ x.user = r.user /\ x.id = r.id /\ x.version = r.version
          /\ x.policyId = r.policyId
      BY <2>2 DEF IsRequest
    <2> QED BY <1>2, <2>1, <2>3
  <1> QED BY <1>1, <1>2

\* A call that has nothing to do with policies, resets and the profile.
LEMMA QuietFine ==
    ASSUME NEW w, w.todo \in Seq(Calls), Shape(w.todo), NEW n, MaySkip(w, n),
           SavesNothing(w.todo) \/ \E k \in 1..Len(w.todo) : SavesAt(w.todo, k),
           QuietCall(w.todo),
           NEW l, NEW u, NEW id, NEW R, NEW ints, NEW agents, Fine(w, l, u, id, R, ints, agents),
           NEW m, Follows(l, m, u), OneProfile(m, u), NEW id2, NEW ints2, NEW agents2,
           NEW r, IsRequest(r), r.id \in {0, id2},
           Head(w.todo) = "queryProfile" /\ n = 1 => profilesOf(m, u) = {}
    PROVE  /\ Fine(goneOn(w, n, r), m, u, id2, R, ints2, agents2)
           /\ Fine(Idle, m, u, id2, R, ints2, agents2)
  <1>1. /\ ~ResetsLeft(w.todo) /\ ~SavesSoon(w.todo, 4) /\ Fresh(restOf(w, n))
        /\ AtProfile(restOf(w, n)) => n = 1 /\ Head(w.todo) = "queryProfile"
    BY QuietRest
  <1>2. InOrder(R) /\ Settled(m, u, R)
    <2>1. ~SavesSoon(w.todo, 3)
      BY <1>1, SoonIs
    <2>2. InOrder(R) /\ Settled(l, u, R)
      BY <1>1, <2>1 DEF Fine, SaveFine
    <2> QED BY <2>2, FollowsKeeps
  <1>3. PICK x : x = goneOn(w, n, r)
    OBVIOUS
  <1>4. x.todo = restOf(w, n) /\ x.id \in {0, id2}
    BY <1>3, GoneOnIs
  <1>5. Fresh(x.todo) /\ (AtProfile(x.todo) => profilesOf(m, u) = {})
    BY <1>1, <1>4
  <1>6. Fine(x, m, u, id2, R, ints2, agents2)
    BY <1>2, <1>4, <1>5, FreshFine
  <1>7. Fine(Idle, m, u, id2, R, ints2, agents2)
    BY <1>2, IdleFine
  <1> QED BY <1>3, <1>6, <1>7

\* The calls after one of those that save a policy.
LEMMA SaveRest ==
    ASSUME NEW w, w.todo \in Seq(Calls), Shape(w.todo), NEW k \in 1..5, SavesAt(w.todo, k)
    PROVE  LET rest == restOf(w, 1) IN
           /\ ~ResetsLeft(w.todo) /\ ~AtProfile(rest) /\ ~ResetsLeft(rest)
           /\ rest # <<>> => Head(rest) \notin ResetCalls
           /\ \A i \in 1..4 : SavesAt(rest, i) => i = k - 1
           /\ k # 1 => rest # <<>> /\ SavesAt(rest, k - 1)
  <1>1. PICK todo, rest : todo = w.todo /\ rest = SubSeq(todo, 1 + 1, Len(todo))
    OBVIOUS
  <1>2. todo \in Seq(Calls) /\ SavesAt(todo, k) /\ Shape(todo) /\ k \in 1..Len(todo)
        /\ restOf(w, 1) = rest /\ todo # <<>> /\ Head(todo) = todo[1]
    BY <1>1 DEF restOf, SavesAt
  <1>3. ~ResetsLeft(todo) /\ \A j \in 1..Len(todo) : todo[j] \notin ResetCalls
    BY <1>2, ResetsLeftIs DEF Shape
  <1>4. k # 1 => rest # <<>> /\ SavesAt(rest, k - 1)
    <2>1. k # 1 => k \in 2..5 /\ 1 + 1 = 2
      OBVIOUS
    <2> QED BY <1>1, <1>2, <2>1, SavesSooner
  <1>5. CASE rest = <<>>
    <2>1. Fresh(rest) /\ \A i : ~SavesAt(rest, i)
      BY <1>5, NothingFresh DEF SavesAt
    <2> QED BY <1>1, <1>2, <1>3, <1>4, <1>5, <2>1 DEF Fresh, AtProfile
  <1>6. CASE rest # <<>>
    <2>1. /\ rest \in Seq(Calls) /\ rest[1] = todo[2] /\ 2 \in 1..Len(todo)
          /\ Head(rest) = rest[1]
      <3>1. /\ rest \in Seq(Calls) /\ Len(rest) = Len(todo) - 1 /\ Len(todo) > 1
            /\ \A j \in 1..Len(rest) : rest[j] = todo[j + 1]
        BY <1>1, <1>2, <1>6, Rest
      <3> QED BY <1>6, <3>1
    <2>2. ~ResetsLeft(rest)
      BY <1>1, <1>2, <1>3, <1>6, ShapeRest
    <2>3. Head(rest) # "createProfile"
      <3>1. 1 \in 1..Len(todo) /\ 2 = 1 + 1
        BY <1>2
      <3>2. todo[1] # "queryProfile"
        <4>1. k = 1 \/ k = 2 \/ k = 3 \/ k = 4 \/ k = 5
          OBVIOUS
        <4> QED BY <1>2, <4>1, SavesHead
      <3> QED BY <1>2, <2>1, <3>1, <3>2 DEF Shape
    <2>4. ASSUME NEW i \in 1..4, SavesAt(rest, i) PROVE i = k - 1
      <3>1. i \in 1..Len(rest)
        BY <2>4 DEF SavesAt
      <3>2. SavesAt(todo, i + 1)
        BY <1>1, <1>2, <1>6, <2>4, <3>1, RestSaves
      <3>3. i + 1 = k
        BY <1>2, <3>2, SavesOnce
      <3> QED BY <3>3
    <2> QED BY <1>1, <1>2, <1>3, <1>4, <2>1, <2>2, <2>3, <2>4 DEF AtProfile
  <1> QED BY <1>5, <1>6

\* What is there at each of these calls.
LEMMA SavingIs ==
    ASSUME NEW w, w.todo \in Seq(Calls), NEW k \in 1..5, SavesAt(w.todo, k),
           NEW l, NEW u, NEW id, NEW R, NEW ints, NEW agents, Fine(w, l, u, id, R, ints, agents)
    PROVE  /\ InOrder(R) /\ OneProfile(l, u) /\ w.id \in {0, id}
           /\ k <= 4 => Above(w.version, R)
           /\ k <= 3 => NoneActive(R)
           /\ k = 3 => Older(l, u, w.version)
           /\ k <= 2 => policiesOf(l, u) = {} \/ Newest(l, u, w.policyId, w.version)
           /\ k >= 4 => Settled(l, u, R)
  <1>1. ~ResetsLeft(w.todo)
    BY ResetsLeftIs
  <1>2. /\ k <= 4 => SavesSoon(w.todo, 4)
        /\ k <= 3 => SavesSoon(w.todo, 3)
        /\ k <= 2 => SavesSoon(w.todo, 2)
    BY DEF SavesSoon
  <1>3. k >= 4 => ~SavesSoon(w.todo, 3)
    <2>1. ASSUME NEW i \in 1..3, SavesAt(w.todo, i) PROVE k = i
      BY <2>1, SavesOnce
    <2> QED BY <2>1 DEF SavesSoon
  <1>4. SaveFine(w, l, u, R)
    BY DEF Fine
  <1>5. /\ k <= 4 => Above(w.version, R)
        /\ k <= 3 => NoneActive(R)
        /\ k = 3 => Older(l, u, w.version)
    BY <1>2, <1>4 DEF SaveFine
  <1>6. /\ k <= 2 => policiesOf(l, u) = {} \/ Newest(l, u, w.policyId, w.version)
        /\ k >= 4 => Settled(l, u, R)
    BY <1>1, <1>2, <1>3, <1>4 DEF SaveFine
  <1> QED BY <1>1, <1>5, <1>6 DEF Fine

\* What the calls that save a policy have to leave behind.
LEMMA SavingFine ==
    ASSUME NEW w, w.todo \in Seq(Calls), Shape(w.todo), NEW k \in 2..5, SavesAt(w.todo, k),
           NEW r, IsRequest(r), NEW m, NEW u, NEW id, NEW R, NEW ints, NEW agents, r.id = id,
           InOrder(R), OneProfile(m, u), Above(r.version, R),
           k <= 4 => NoneActive(R),
           k = 4 => Older(m, u, r.version),
           k <= 3 => policiesOf(m, u) = {} \/ Newest(m, u, r.policyId, r.version),
           k = 5 => Settled(m, u, R)
    PROVE  Fine(goneOn(w, 1, r), m, u, id, R, ints, agents)
  <1>1. PICK x, rest : x = goneOn(w, 1, r) /\ rest = restOf(w, 1)
    OBVIOUS
  <1>2. /\ ~AtProfile(rest) /\ ~ResetsLeft(rest) /\ rest # <<>> /\ Head(rest) \notin ResetCalls
        /\ \A i \in 1..4 : SavesAt(rest, i) => i = k - 1
        /\ SavesAt(rest, k - 1)
    <2>1. k # 1 /\ k \in 1..5
      OBVIOUS
    <2> QED BY <1>1, <2>1, SaveRest
  <1>3. x.todo = rest /\ x.id = id /\ x.version = r.version /\ x.policyId = r.policyId
    BY <1>1, <1>2, GoneOnIs
  <1>4. /\ SavesSoon(rest, 3) => k <= 4
        /\ SavesSoon(rest, 2) => k <= 3
        /\ SavesAt(rest, 3) => k = 4
        /\ SavesSoon(rest, 3) \/ k = 5
    <2>1. 1..2 \subseteq 1..4 /\ 1..3 \subseteq 1..4 /\ 3 \in 1..4
      OBVIOUS
    <2>2. k = 5 \/ k - 1 \in 1..3
      OBVIOUS
    <2>3. SavesSoon(rest, 3) \/ k = 5
      BY <1>2, <2>2 DEF SavesSoon
    <2>4. SavesSoon(rest, 3) => k <= 4
      BY <1>2, <2>1 DEF SavesSoon
    <2>5. SavesSoon(rest, 2) => k <= 3
      BY <1>2, <2>1 DEF SavesSoon
    <2>6. SavesAt(rest, 3) => k = 4
      BY <1>2, <2>1
    <2> QED BY <2>3, <2>4, <2>5, <2>6
  <1>5. SaveFine(x, m, u, R)
    BY <1>3, <1>4 DEF SaveFine
  <1>6. ResetFine(x, id, R, ints, agents)
    BY <1>2, <1>3 DEF ResetFine, ResetCalls
  <1>7. Fine(x, m, u, id, R, ints, agents)
    BY <1>2, <1>3, <1>5, <1>6 DEF Fine, AtProfile
  <1> QED BY <1>1, <1>7

\* What a call of a reset has to leave behind, if more follow.
LEMMA ResettingFine ==
    ASSUME NEW w, w.todo \in Seq(Calls), Shape(w.todo), ResetsLeft(w.todo), NEW n \in {1, 2, 5},
           NEW r, IsRequest(r), NEW m, NEW u, NEW id, NEW R, NEW ints, NEW agents,
           restOf(w, n) # <<>>, InOrder(R), OneProfile(m, u),
           ResetFine(goneOn(w, n, r), id, R, ints, agents)
    PROVE  Fine(goneOn(w, n, r), m, u, id, R, ints, agents)
  <1>1. PICK x, todo, rest : x = goneOn(w, n, r) /\ todo = w.todo
                             /\ rest = SubSeq(todo, n + 1, Len(todo))
    OBVIOUS
  <1>2. restOf(w, n) = rest /\ rest # <<>> /\ todo \in Seq(Calls)
    BY <1>1 DEF restOf
  <1>3. ResetsLeft(rest) /\ rest \in Seq(Calls)
    BY <1>1, <1>2, ShapeRest, Rest
  <1>4. (\A k : ~SavesAt(rest, k)) /\ Head(rest) \in ResetCalls
    <2>1. rest # <<>> /\ (\A j \in 1..Len(rest) : rest[j] \in ResetCalls)
          /\ \A k : ~SavesAt(rest, k)
      BY <1>3, ResetsLeftIs
    <2>2. 1 \in 1..Len(rest) /\ Head(rest) = rest[1]
      BY <1>3, <2>1
    <2> QED BY <2>1, <2>2
  <1>5. x.todo = rest
    BY <1>1, <1>2, GoneOnIs
  <1>6. SaveFine(x, m, u, R)
    BY <1>3, <1>4, <1>5 DEF SaveFine, SavesSoon
  <1>7. x.todo # <<>> => Head(x.todo) # "createProfile"
    BY <1>4, <1>5 DEF ResetCalls
  <1>8. Fine(x, m, u, id, R, ints, agents)
    BY <1>1, <1>3, <1>5, <1>6, <1>7 DEF Fine
  <1> QED BY <1>1, <1>8

-----------------------------------------------------------------------------
(* The requests of such a user                                             *)

LEMMA OwnIs ==
    ASSUME TablesInv, NEW h \in Handlers, NEW call, At(h, call), NEW w, w = handler[h]
    PROVE  /\ IsRequest(w) /\ w.todo \in Seq(Calls) /\ w.todo # <<>> /\ Head(w.todo) = call
           /\ w.user \in Users /\ w.id \in 0..(nextId - 1) /\ MaySkip(w, 1)
           /\ SavesNothing(w.todo) \/ \E k \in 1..Len(w.todo) : SavesAt(w.todo, k)
           /\ w.id # 0 \/ TakesRow(w.todo)
  <1>1. Requests
    BY DEF TablesInv
  <1>2. Fits(w, userIds, nextId)
    BY <1>1 DEF Requests
  <1> QED BY <1>1, <1>2, AtCall DEF Fits

\* What the handler holds after the calls made.
LEMMA SkipIs ==
    ASSUME Requests, NEW h \in Handlers
    PROVE  /\ Finish(h) => handler'[h] = Idle
           /\ \A n, r : Skip(h, n, r) => handler'[h] = goneOn(handler[h], n, r)
  <1>1. handler = [g \in Handlers |-> handler[g]]
    BY DEF Requests
  <1>2. Finish(h) => handler'[h] = Idle
    BY <1>1 DEF Finish
  <1>3. ASSUME NEW n, NEW r, Skip(h, n, r) PROVE handler'[h] = goneOn(handler[h], n, r)
    <2>1. PICK rest : rest = SubSeq(handler[h].todo, n + 1, Len(handler[h].todo))
      OBVIOUS
    <2>2. handler' = [handler EXCEPT ![h] = IF rest = <<>> THEN Idle ELSE [r EXCEPT !.todo = rest]]
      BY <1>3, <2>1 DEF Skip
    <2> QED BY <1>1, <2>1, <2>2 DEF goneOn, restOf
  <1> QED BY <1>2, <1>3

\* The request at h is that of user u.
OwnFine(u, h) == FineNow(u, handler[h])

LEMMA OwnFineNext ==
    ASSUME NEW u, NEW h, NEW w, w = handler'[h], NEW id, id = userIds'[u],
           NEW R, R = rowsOf(userIds[u])', Fine(w, ledger', u, id, R, intents', agentRows')
    PROVE  OwnFine(u, h)'
  BY DEF OwnFine, FineNow

LEMMA QuietStep ==
    ASSUME TablesInv, NEW h \in Handlers, NEW call, At(h, call), Shape(handler[h].todo),
           call \notin SaveCalls \cup ResetCalls, ~SavesAt(handler[h].todo, 2),
           NEW u, OwnFine(u, h), rowsOf(userIds[u])' = rowsOf(userIds[u]),
           Follows(ledger, ledger', u), OneProfile(ledger', u),
           NEW n, MaySkip(handler[h], n), NEW r, IsRequest(r), r.id \in {0, userIds'[u]},
           Finish(h) \/ Skip(h, n, r),
           call = "queryProfile" /\ n = 1 => profilesOf(ledger', u) = {}
    PROVE  OwnFine(u, h)'
  <1>1. PICK w, id, id2, R : /\ w = handler[h] /\ id = userIds[u] /\ id2 = userIds'[u]
                             /\ R = rowsOf(userIds[u])
    OBVIOUS
  <1>2. /\ w.todo \in Seq(Calls) /\ Head(w.todo) = call
        /\ SavesNothing(w.todo) \/ \E k \in 1..Len(w.todo) : SavesAt(w.todo, k)
    BY <1>1, OwnIs
  <1>3. QuietCall(w.todo) /\ Shape(w.todo) /\ MaySkip(w, n)
    BY <1>1, <1>2 DEF QuietCall
  <1>4. Fine(w, ledger, u, id, R, intents, agentRows)
    BY <1>1 DEF OwnFine, FineNow
  <1>5. r.id \in {0, id2} /\ (Head(w.todo) = "queryProfile" /\ n = 1 => profilesOf(ledger', u) = {})
    BY <1>1, <1>2
  <1>6. PICK m, ints2, agents2 : m = ledger' /\ ints2 = intents' /\ agents2 = agentRows'
    OBVIOUS
  <1>7. Follows(ledger, m, u) /\ OneProfile(m, u)
        /\ (Head(w.todo) = "queryProfile" /\ n = 1 => profilesOf(m, u) = {})
    BY <1>5, <1>6
  <1>8. /\ Fine(goneOn(w, n, r), m, u, id2, R, ints2, agents2)
        /\ Fine(Idle, m, u, id2, R, ints2, agents2)
    BY <1>2, <1>3, <1>4, <1>5, <1>7, QuietFine
  <1>9. handler'[h] = Idle \/ handler'[h] = goneOn(w, n, r)
    BY <1>1, SkipIs DEF TablesInv
  <1>10. PICK x : x = handler'[h]
    OBVIOUS
  <1>11. Fine(x, ledger', u, id2, R, intents', agentRows')
    BY <1>6, <1>8, <1>9, <1>10
  <1>12. R = rowsOf(userIds[u])'
    BY <1>1
  <1> QED BY <1>1, <1>10, <1>11, <1>12, OwnFineNext

LEMMA MaySkipFive ==
    ASSUME NEW w, w.todo # <<>>, Head(w.todo) = "findCredit" PROVE MaySkip(w, 5)
  BY DEF MaySkip

\* It ends, or remembers the same row, or that of the user.
LEMMA QuietOn ==
    ASSUME TablesInv, NEW h \in Handlers, NEW call, At(h, call), Shape(handler[h].todo),
           call \notin SaveCalls \cup ResetCalls \cup {"queryProfile"},
           call # "record" \/ ~SavesAt(handler[h].todo, 2),
           NEW u, OwnFine(u, h), userIds' = userIds, policyRows' = policyRows,
           Follows(ledger, ledger', u), OneProfile(ledger', u), NEW v, NEW c,
           \/ Finish(h) \/ Proceed(h)
           \/ GoOn(h, [handler[h] EXCEPT !.id = userIds[u]])
           \/ GoOn(h, [handler[h] EXCEPT !.intent = v])
           \/ GoOn(h, [handler[h] EXCEPT !.credit = v])
           \/ call = "findCredit" /\ Skip(h, 5, [handler[h] EXCEPT !.credit = v])
           \/ GoOn(h, [handler[h] EXCEPT !.action = v])
           \/ \E due : GoOn(h, [handler[h] EXCEPT !.action = v, !.due = due])
           \/ \E runId : GoOn(h, [handler[h] EXCEPT !.run = v, !.runId = runId])
           \/ GoOn(h, [handler[h] EXCEPT !.policyId = v, !.payroll = c])
           \/ GoOn(h, [handler[h] EXCEPT !.run = c, !.credit = c, !.policyId = v])
    PROVE  OwnFine(u, h)'
  <1>1. PICK w, id : w = handler[h] /\ id = userIds[u]
    OBVIOUS
  <1>2. /\ IsRequest(w) /\ MaySkip(w, 1) /\ Head(w.todo) = call /\ w.todo \in Seq(Calls)
        /\ w.todo # <<>>
        /\ SavesNothing(w.todo) \/ \E k \in 1..Len(w.todo) : SavesAt(w.todo, k)
    BY <1>1, OwnIs
  <1>3. ~SavesAt(w.todo, 2)
    BY <1>1, <1>2, SavesHead
  <1>4. w.id \in {0, id}
    <2>1. Fine(w, ledger, u, id, rowsOf(userIds[u]), intents, agentRows)
      BY <1>1 DEF OwnFine, FineNow
    <2>2. QuietCall(w.todo) /\ Shape(w.todo)
      BY <1>1, <1>2, <1>3 DEF QuietCall
    <2>3. ~ResetsLeft(w.todo)
      BY <1>2, <2>2, QuietRest
    <2> QED BY <2>1, <2>3 DEF Fine
  <1>5. \E n, r : /\ MaySkip(w, n) /\ IsRequest(r) /\ r.id \in {0, id}
                  /\ Finish(h) \/ Skip(h, n, r)
    <2>1. CASE Finish(h) \/ Proceed(h)
      BY <1>1, <1>2, <1>4, <2>1 DEF Proceed, GoOn
    <2>2. CASE GoOn(h, [handler[h] EXCEPT !.id = userIds[u]])
      <3>1. PICK r : r = [w EXCEPT !.id = id]
        OBVIOUS
      <3>2. IsRequest(r) /\ r.id = id
        BY <1>2, <3>1 DEF IsRequest
      <3>3. Skip(h, 1, r)
        BY <1>1, <2>2, <3>1 DEF GoOn
      <3> QED BY <1>2, <3>2, <3>3
    <2>3. CASE GoOn(h, [handler[h] EXCEPT !.intent = v])
      <3>1. PICK r : r = [w EXCEPT !.intent = v]
        OBVIOUS
      <3>2. IsRequest(r) /\ r.id = w.id
        BY <1>2, <3>1 DEF IsRequest
      <3>3. Skip(h, 1, r)
        BY <1>1, <2>3, <3>1 DEF GoOn
      <3> QED BY <1>2, <1>4, <3>2, <3>3
    <2>4. CASE \/ GoOn(h, [handler[h] EXCEPT !.credit = v])
               \/ call = "findCredit" /\ Skip(h, 5, [handler[h] EXCEPT !.credit = v])
      <3>1. PICK r : r = [w EXCEPT !.credit = v]
        OBVIOUS
      <3>2. IsRequest(r) /\ r.id = w.id
        BY <1>2, <3>1 DEF IsRequest
      <3>3. Skip(h, 1, r) \/ (call = "findCredit" /\ Skip(h, 5, r))
        BY <1>1, <2>4, <3>1 DEF GoOn
      <3>3a. call = "findCredit" => MaySkip(w, 5)
        <4>1. w.todo # <<>> /\ Head(w.todo) = call
          BY <1>2
        <4> QED BY <4>1, MaySkipFive
      <3>4. IsRequest(r) /\ r.id \in {0, id}
        BY <1>4, <3>2
      <3>5. CASE Skip(h, 1, r)
        BY <1>2, <3>4, <3>5
      <3>6. CASE MaySkip(w, 5) /\ Skip(h, 5, r)
        BY <3>4, <3>6
      <3> QED BY <3>3, <3>3a, <3>5, <3>6
    <2>5. CASE GoOn(h, [handler[h] EXCEPT !.action = v])
      <3>1. PICK r : r = [w EXCEPT !.action = v]
        OBVIOUS
      <3>2. IsRequest(r) /\ r.id = w.id
        BY <1>2, <3>1 DEF IsRequest
      <3>3. Skip(h, 1, r)
        BY <1>1, <2>5, <3>1 DEF GoOn
      <3> QED BY <1>2, <1>4, <3>2, <3>3
    <2>5a. CASE \E due : GoOn(h, [handler[h] EXCEPT !.action = v, !.due = due])
      <3>1. PICK due : GoOn(h, [handler[h] EXCEPT !.action = v, !.due = due])
        BY <2>5a
      <3>2. PICK r : r = [w EXCEPT !.action = v, !.due = due]
        OBVIOUS
      <3>3. IsRequest(r) /\ r.id = w.id
        BY <1>2, <3>2 DEF IsRequest
      <3>4. Skip(h, 1, r)
        BY <1>1, <3>1, <3>2 DEF GoOn
      <3> QED BY <1>2, <1>4, <3>3, <3>4
    <2>6. CASE \E runId : GoOn(h, [handler[h] EXCEPT !.run = v, !.runId = runId])
      <3>1. PICK runId : GoOn(h, [handler[h] EXCEPT !.run = v, !.runId = runId])
        BY <2>6
      <3>2. PICK r : r = [w EXCEPT !.run = v, !.runId = runId]
        OBVIOUS
      <3>3. IsRequest(r) /\ r.id = w.id
        BY <1>2, <3>2 DEF IsRequest
      <3>4. Skip(h, 1, r)
        BY <1>1, <3>1, <3>2 DEF GoOn
      <3> QED BY <1>2, <1>4, <3>3, <3>4
    <2>7. CASE GoOn(h, [handler[h] EXCEPT !.policyId = v, !.payroll = c])
      <3>1. PICK r : r = [w EXCEPT !.policyId = v, !.payroll = c]
        OBVIOUS
      <3>2. IsRequest(r) /\ r.id = w.id
        BY <1>2, <3>1 DEF IsRequest
      <3>3. Skip(h, 1, r)
        BY <1>1, <2>7, <3>1 DEF GoOn
      <3> QED BY <1>2, <1>4, <3>2, <3>3
    <2>8. CASE GoOn(h, [handler[h] EXCEPT !.run = c, !.credit = c, !.policyId = v])
      <3>1. PICK r : r = [w EXCEPT !.run = c, !.credit = c, !.policyId = v]
        OBVIOUS
      <3>2. IsRequest(r) /\ r.id = w.id
        BY <1>2, <3>1 DEF IsRequest
      <3>3. Skip(h, 1, r)
        BY <1>1, <2>8, <3>1 DEF GoOn
      <3> QED BY <1>2, <1>4, <3>2, <3>3
    <2> QED BY <2>1, <2>2, <2>3, <2>4, <2>5, <2>5a, <2>6, <2>7, <2>8
  <1>6. PICK n, r : /\ MaySkip(w, n) /\ IsRequest(r) /\ r.id \in {0, id}
                    /\ Finish(h) \/ Skip(h, n, r)
    BY <1>5
  <1>7. MaySkip(handler[h], n)
    BY <1>1, <1>6
  <1>7c. ~SavesAt(handler[h].todo, 2)
    BY <1>1, <1>3
  <1>7a. r.id \in {0, userIds'[u]}
    <2>1. userIds'[u] = id
      BY <1>1
    <2> QED BY <1>6, <2>1
  <1>7b. rowsOf(userIds[u])' = rowsOf(userIds[u])
    BY DEF rowsOf
  <1>8. call \notin SaveCalls \cup ResetCalls /\ call # "queryProfile"
    OBVIOUS
  <1> QED BY <1>6, <1>7, <1>7c, <1>7a, <1>7b, <1>8, QuietStep

-----------------------------------------------------------------------------
(* What calls do to policies and profiles                                  *)

\* The contracts of these templates are neither archived nor exercised.
Lasting == {"UserProfile", "PayrollPolicy"}

\* Ledger l became m without a new profile or policy.
Kept(l, m) ==
    /\ IsSeq(l) /\ IsSeq(m) /\ Len(l) <= Len(m)
    /\ \A i \in 1..Len(l) :
           /\ m[i].template = l[i].template
           /\ IsContract(l[i]) => IsContract(m[i])
           /\ l[i].template \in Lasting => m[i] = l[i]
    /\ \A i \in 1..Len(m) : i > Len(l) => m[i].template \notin Lasting

LEMMA SeqLen == ASSUME NEW l, IsSeq(l) PROVE Len(l) \in Nat /\ DOMAIN l = 1..Len(l)
  BY DEF IsSeq

LEMMA KeptSame == ASSUME NEW l, IsSeq(l) PROVE Kept(l, l)
  <1>1. Len(l) \in Nat
    BY SeqLen
  <1> QED BY <1>1 DEF Kept

LEMMA KeptMore ==
    ASSUME NEW l, NEW m, NEW q, Kept(l, m), Kept(m, q)
    PROVE  Kept(l, q)
  <1>1. /\ IsSeq(l) /\ IsSeq(m) /\ IsSeq(q) /\ Len(l) <= Len(m) /\ Len(m) <= Len(q)
        /\ Len(l) \in Nat /\ Len(m) \in Nat /\ Len(q) \in Nat
    BY SeqLen DEF Kept
  <1>2. ASSUME NEW i \in 1..Len(l)
        PROVE  /\ q[i].template = l[i].template
               /\ IsContract(l[i]) => IsContract(q[i])
               /\ l[i].template \in Lasting => q[i] = l[i]
    <2>1. i \in 1..Len(m)
      BY <1>1
    <2>2. /\ m[i].template = l[i].template
          /\ IsContract(l[i]) => IsContract(m[i])
          /\ l[i].template \in Lasting => m[i] = l[i]
      BY DEF Kept
    <2>3. /\ q[i].template = m[i].template
          /\ IsContract(m[i]) => IsContract(q[i])
          /\ m[i].template \in Lasting => q[i] = m[i]
      BY <2>1 DEF Kept
    <2> QED BY <2>2, <2>3
  <1>3. ASSUME NEW i \in 1..Len(q), i > Len(l) PROVE q[i].template \notin Lasting
    <2>1. CASE i > Len(m)
      BY <2>1 DEF Kept
    <2>2. CASE ~(i > Len(m))
      <3>1. i \in 1..Len(m)
        BY <1>1, <2>2
      <3>2. m[i].template \notin Lasting /\ q[i].template = m[i].template
        BY <1>3, <3>1 DEF Kept
      <3> QED BY <3>2
    <2> QED BY <2>1, <2>2
  <1> QED BY <1>1, <1>2, <1>3 DEF Kept

IsLonger(l, c, m) ==
    /\ IsSeq(l) /\ IsSeq(m) /\ Len(l) \in Nat /\ Len(m) = Len(l) + 1 /\ m[Len(l) + 1] = c
    /\ \A i \in 1..Len(l) : m[i] = l[i]

LEMMA AppendIs ==
    ASSUME NEW l, IsSeq(l), NEW c PROVE IsLonger(l, c, Append(l, c))
  <1>0. PICK m : m = Append(l, c)
    OBVIOUS
  <1>1. /\ Len(l) \in Nat /\ Len(m) = Len(l) + 1 /\ m[Len(l) + 1] = c
        /\ \A i \in 1..Len(l) : m[i] = l[i]
    BY <1>0 DEF IsSeq
  <1>2. PICK S : S = {l[i] : i \in 1..Len(l)} \cup {c}
    OBVIOUS
  <1>3. l = [i \in 1..Len(l) |-> l[i]] /\ \A i \in 1..Len(l) : l[i] \in S
    BY <1>2 DEF IsSeq
  <1>4. l \in Seq(S) /\ c \in S
    BY <1>1, <1>2, <1>3, SeqOf
  <1>5. m \in Seq(S)
    BY <1>0, <1>4
  <1>6. IsSeq(m)
    BY <1>5, SeqIs
  <1> QED BY <1>0, <1>1, <1>6 DEF IsLonger

LEMMA KeptCreate ==
    ASSUME NEW l, IsSeq(l), NEW template, template \notin Lasting, NEW p
    PROVE  Kept(l, demoCreate(l, template, p))
  <1>1. PICK c, m : c = [template |-> template, payload |-> p, live |-> TRUE] /\ m = Append(l, c)
    OBVIOUS
  <1>2. c.template = template
    BY <1>1
  <1>2a. m = Append(l, c)
    BY <1>1
  <1>3. /\ IsSeq(m) /\ Len(l) \in Nat /\ Len(m) = Len(l) + 1 /\ m[Len(l) + 1] = c
        /\ \A i \in 1..Len(l) : m[i] = l[i]
    BY <1>2a, AppendIs DEF IsLonger
  <1>4. \A i \in 1..Len(m) : i > Len(l) => m[i] = c
    <2>1. \A i \in 1..Len(m) : i > Len(l) => i = Len(l) + 1
      BY <1>3
    <2> QED BY <1>3, <2>1
  <1>4a. Len(l) <= Len(m) /\ \A i \in 1..Len(m) : i > Len(l) => m[i].template \notin Lasting
    BY <1>2, <1>3, <1>4
  <1>5. Kept(l, m)
    BY <1>3, <1>4a DEF Kept
  <1> QED BY <1>1, <1>5 DEF demoCreate

LEMMA KeptArchive ==
    ASSUME NEW l, IsSeq(l), NEW j \in 1..Len(l), IsContract(l[j]), l[j].template \notin Lasting,
           NEW m, m = [l EXCEPT ![j].live = FALSE]
    PROVE  Kept(l, m)
  <1>1. PICK n \in Nat : n = Len(l) /\ l = [i \in 1..n |-> l[i]]
    BY DEF IsSeq
  <1>2. PICK c, d : c = l[j] /\ d = [c EXCEPT !.live = FALSE]
    OBVIOUS
  <1>3. d.template = c.template /\ IsContract(d)
    BY <1>2, ArchivedTwice
  <1>4. m = [i \in 1..n |-> IF i = j THEN d ELSE l[i]]
    BY <1>1, <1>2
  <1>5. IsSeq(m) /\ Len(m) = n
    <2>1. m = [i \in 1..n |-> m[i]]
      BY <1>4
    <2>2. Len(m) = n
      BY <2>1, LenOf
    <2> QED BY <2>1, <2>2 DEF IsSeq
  <1>6. \A i \in 1..n : m[i] = IF i = j THEN d ELSE l[i]
    BY <1>4
  <1>7. n <= n /\ \A i \in 1..n : ~(i > n)
    OBVIOUS
  <1> QED BY <1>1, <1>2, <1>3, <1>5, <1>6, <1>7 DEF Kept

LEMMA LineKept ==
    ASSUME NEW l, IsSeq(l), NEW u, NEW runId, NEW line, line.bucket \in Buckets
    PROVE  Kept(l, createLine(l, u, runId, line))
  <1>1. PICK m : m = createLine(l, u, runId, line)
    OBVIOUS
  <1>2. m = l \/ \E template, p : template \notin Lasting /\ m = demoCreate(l, template, p)
    <2>1. CASE line.bucket \in {"immediateInternalBalances", "manualHolds"}
      <3>1. \E p : m = demoCreate(l, "CategoryBalance", p)
        BY <1>1, <2>1 DEF createLine
      <3> QED BY <3>1 DEF Lasting
    <2>2. CASE line.bucket = "pendingActions"
      <3>1. \E p : m = demoCreate(l, "PendingAction", p)
        BY <1>1, <2>2 DEF createLine
      <3> QED BY <3>1 DEF Lasting
    <2>3. CASE line.bucket = "immediatePayments"
      <3>1. m = l \/ \E p : m = demoCreate(l, "PaymentReceipt", p)
        BY <1>1, <2>3 DEF createLine, createReceipt
      <3> QED BY <3>1 DEF Lasting
    <2>4. CASE line.bucket = "immediatePortfolioAllocations"
      <3>1. \E p : m = demoCreate(l, "PortfolioAllocation", p)
        BY <1>1, <2>4 DEF createLine, createPortfolio
      <3> QED BY <3>1 DEF Lasting
    <2> QED BY <2>1, <2>2, <2>3, <2>4 DEF Buckets
  <1>3. CASE m = l
    BY <1>1, <1>3, KeptSame
  <1>4. CASE \E template, p : template \notin Lasting /\ m = demoCreate(l, template, p)
    BY <1>1, <1>4, KeptCreate
  <1> QED BY <1>2, <1>3, <1>4

LEMMA LoopKept ==
    ASSUME NEW l, IsSeq(l), NEW u, NEW runId, NEW plan, IsPlan(plan), NEW bucket
    PROVE  Kept(l, loop(l, u, runId, plan, bucket))
  <1>1. PICK n \in Nat : n = Len(plan)
    BY DEF IsPlan, IsSeq
  <1>0. \E g : isLoop(g, l, u, runId, plan, bucket, n)
    BY LoopExists
  <1>2. PICK made : /\ made[n] = loop(l, u, runId, plan, bucket)
                    /\ made = [k \in 0..n |->
                           IF k = 0 THEN l
                           ELSE IF plan[k].bucket = bucket
                                THEN createLine(made[k - 1], u, runId, plan[k]) ELSE made[k - 1]]
    <2> DEFINE all == CHOOSE g : g = [k \in 0..Len(plan) |->
                           IF k = 0 THEN l
                           ELSE IF plan[k].bucket = bucket
                                THEN createLine(g[k - 1], u, runId, plan[k]) ELSE g[k - 1]]
    <2>1. all = [k \in 0..Len(plan) |->
                    IF k = 0 THEN l
                    ELSE IF plan[k].bucket = bucket
                         THEN createLine(all[k - 1], u, runId, plan[k]) ELSE all[k - 1]]
      BY <1>0, <1>1 DEF isLoop
    <2>2. loop(l, u, runId, plan, bucket) = all[Len(plan)]
      BY DEF loop
    <2> HIDE DEF all
    <2> QED BY <1>1, <2>1, <2>2
  <1>3. /\ made[0] = l
        /\ \A k \in 1..n : made[k] = IF plan[k].bucket = bucket
                                     THEN createLine(made[k - 1], u, runId, plan[k])
                                     ELSE made[k - 1]
    <2>1. \A k \in 1..n : k \in 0..n /\ k # 0
      BY <1>1
    <2> QED BY <1>2, <2>1
  <1>4. PICK S : S = {k \in Nat : k <= n => Kept(l, made[k])}
    OBVIOUS
  <1>5. 0 \in S
    BY <1>3, <1>4, KeptSame
  <1>6. ASSUME NEW k \in Nat, k \in S PROVE k + 1 \in S
    <2>1. SUFFICES ASSUME k + 1 <= n PROVE Kept(l, made[k + 1])
      BY <1>4
    <2>2. k \in 0..n /\ k + 1 \in 1..n /\ (k + 1) - 1 = k
      BY <2>1
    <2>3. Kept(l, made[k])
      BY <1>4, <1>6, <2>2
    <2>4. PICK before, line : before = made[k] /\ line = plan[k + 1]
      OBVIOUS
    <2>5. IsSeq(before) /\ line.bucket \in Buckets
      BY <1>1, <2>2, <2>3, <2>4 DEF Kept, IsPlan, IsLine
    <2>6. made[k + 1] = before \/ made[k + 1] = createLine(before, u, runId, line)
      BY <1>3, <2>2, <2>4
    <2>7. Kept(before, made[k + 1])
      BY <2>5, <2>6, KeptSame, LineKept
    <2> QED BY <2>3, <2>4, <2>7, KeptMore
  <1>7. Nat \subseteq S
    BY <1>5, <1>6, NatInductionSet
  <1>8. Kept(l, made[n])
    BY <1>4, <1>7
  <1> QED BY <1>2, <1>8

LEMMA LinesKept ==
    ASSUME NEW l, IsSeq(l), NEW u, NEW runId, NEW plan, IsPlan(plan)
    PROVE  Kept(l, createLines(l, u, runId, plan))
  <1>1. PICK l1, l2, l3, l4, l5 :
            /\ l1 = loop(l, u, runId, plan, "immediateInternalBalances")
            /\ l2 = loop(l1, u, runId, plan, "manualHolds")
            /\ l3 = loop(l2, u, runId, plan, "pendingActions")
            /\ l4 = loop(l3, u, runId, plan, "immediatePayments")
            /\ l5 = loop(l4, u, runId, plan, "immediatePortfolioAllocations")
    OBVIOUS
  <1>2. Kept(l, l1)
    BY <1>1, LoopKept
  <1>2a. \A m : Kept(l, m) => IsSeq(m)
    BY DEF Kept
  <1>3. Kept(l, l2)
    BY <1>1, <1>2, <1>2a, LoopKept, KeptMore
  <1>4. Kept(l, l3)
    BY <1>1, <1>2a, <1>3, LoopKept, KeptMore
  <1>5. Kept(l, l4)
    BY <1>1, <1>2a, <1>4, LoopKept, KeptMore
  <1>6. Kept(l, l5)
    BY <1>1, <1>2a, <1>5, LoopKept, KeptMore
  <1> QED BY <1>1, <1>6 DEF createLines

LEMMA AllocationKept ==
    ASSUME NEW l, Ledger(l), NEW u \in Users, NEW run, NEW policyId, NEW creditId,
           policyId = NoContract \/ policyId[1] = "PayrollPolicy",
           creditId = NoContract \/ creditId[1] = "PayrollCredit",
           mayExecuteAllocation(l, run, policyId, creditId, u)
    PROVE  Kept(l, demoExecuteAllocation(l, run, policyId, creditId, u))
  <1>1. IsSeq(l) /\ Len(l) \in Nat /\ DOMAIN l = 1..Len(l)
    BY SeqLen DEF Ledger
  <1>2. PICK i, j, k : i = run[2] /\ j = policyId[2] /\ k = creditId[2]
    OBVIOUS
  <1>3. i \in 1..Len(l) /\ l[i].template = "AllocationRun"
    BY <1>1, <1>2 DEF mayExecuteAllocation, found
  <1>4. j \in 1..Len(l) /\ l[j].template = "PayrollPolicy"
    <2>1. j \in 1..Len(l) /\ l[j].template = policyId[1]
      BY <1>1, <1>2 DEF mayExecuteAllocation
    <2>2. policyId # NoContract
      BY <1>2, <2>1 DEF NoContract
    <2> QED BY <2>1, <2>2
  <1>5. k \in 1..Len(l) /\ l[k].template = "PayrollCredit"
    <2>1. k \in 1..Len(l) /\ l[k].template = creditId[1]
      BY <1>1, <1>2 DEF mayExecuteAllocation
    <2>2. creditId # NoContract
      BY <1>2, <2>1 DEF NoContract
    <2> QED BY <2>1, <2>2
  <1>6. PICK credit, p, runId : /\ credit = l[k].payload /\ p = l[j].payload.policy
                                /\ runId = l[i].payload.runId
    OBVIOUS
  <1>7. IsPolicy(p) /\ p.categories # <<>>
    BY <1>2, <1>4, <1>6 DEF Ledger, Contract, mayExecuteAllocation, validPolicy, payload
  <1>8. credit.amount \in Nat /\ IsAsset(credit.asset)
    BY <1>5, <1>6 DEF Ledger, Contract
  <1>10. PICK plan : plan = buildAllocationPlan(p, credit)
    OBVIOUS
  <1>11. IsPlan(plan)
    BY <1>7, <1>8, <1>10, PlanIsSplit
  <1>12. PICK l1, l2, spent, l3, l4, last, l5 :
            /\ l1 = createLines(l, u, runId, plan)
            /\ l2 = [l1 EXCEPT ![k].live = FALSE]
            /\ spent = [credit EXCEPT !.allocated = TRUE]
            /\ l3 = demoCreate(l2, "PayrollCredit", spent)
            /\ l4 = [l3 EXCEPT ![i].live = FALSE]
            /\ last = [user |-> u, runId |-> runId, amount |-> credit.amount,
                       asset |-> credit.asset, lines |-> plan,
                       status |-> IF \E q \in DOMAIN plan : plan[q].bucket = "pendingActions"
                                  THEN "AllocationPartiallyPendingApproval"
                                  ELSE "AllocationExecuted"]
            /\ l5 = demoCreate(l4, "AllocationRun", last)
    OBVIOUS
  <1>13. \A m : Kept(l, m) =>
             /\ IsSeq(m) /\ i \in 1..Len(m) /\ k \in 1..Len(m)
             /\ IsContract(m[i]) /\ m[i].template = "AllocationRun"
             /\ IsContract(m[k]) /\ m[k].template = "PayrollCredit"
    <2>1. IsContract(l[i]) /\ IsContract(l[k])
      BY <1>3, <1>5 DEF Ledger, Contract
    <2>2. SUFFICES ASSUME NEW m, Kept(l, m)
                   PROVE  /\ IsSeq(m) /\ i \in 1..Len(m) /\ k \in 1..Len(m)
                          /\ IsContract(m[i]) /\ m[i].template = "AllocationRun"
                          /\ IsContract(m[k]) /\ m[k].template = "PayrollCredit"
      OBVIOUS
    <2>3. IsSeq(m) /\ Len(m) \in Nat /\ Len(l) <= Len(m)
      BY <2>2, SeqLen DEF Kept
    <2>4. i \in 1..Len(m) /\ k \in 1..Len(m)
      BY <1>1, <1>3, <1>5, <2>3
    <2> QED BY <1>3, <1>5, <2>1, <2>2, <2>3, <2>4 DEF Kept
  <1>14. "PayrollCredit" \notin Lasting /\ "AllocationRun" \notin Lasting
    BY DEF Lasting
  <1>15. Kept(l, l1)
    BY <1>1, <1>11, <1>12, LinesKept
  <1>16. Kept(l, l2)
    <2>1. Kept(l1, l2)
      BY <1>12, <1>13, <1>14, <1>15, KeptArchive
    <2> QED BY <1>15, <2>1, KeptMore
  <1>17. Kept(l, l3)
    <2>1. Kept(l2, l3)
      BY <1>12, <1>13, <1>14, <1>16, KeptCreate
    <2> QED BY <1>16, <2>1, KeptMore
  <1>18. Kept(l, l4)
    <2>0. /\ IsSeq(l3) /\ i \in 1..Len(l3) /\ IsContract(l3[i]) /\ l3[i].template \notin Lasting
          /\ l4 = [l3 EXCEPT ![i].live = FALSE]
      BY <1>12, <1>13, <1>14, <1>17
    <2>1. Kept(l3, l4)
      BY <2>0, KeptArchive
    <2> QED BY <1>17, <2>1, KeptMore
  <1>19. Kept(l, l5)
    <2>1. Kept(l4, l5)
      BY <1>12, <1>13, <1>14, <1>18, KeptCreate
    <2> QED BY <1>18, <2>1, KeptMore
  <1>20. demoExecuteAllocation(l, run, policyId, creditId, u) = l5
    <2>1. /\ payload(l, creditId) = credit /\ payload(l, run).runId = runId
          /\ buildAllocationPlan(payload(l, policyId).policy, credit) = plan
      BY <1>2, <1>6, <1>10 DEF payload
    <2>2. archive(l1, creditId) = l2 /\ archive(l3, run) = l4
      BY <1>2, <1>12 DEF archive
    <2> QED BY <1>12, <2>1, <2>2 DEF demoExecuteAllocation
  <1> QED BY <1>19, <1>20

LEMMA ExerciseKept ==
    ASSUME NEW l, Ledger(l), NEW u \in Users, NEW id, NEW choice, mayExercise(l, id, choice, u)
    PROVE  Kept(l, demoExercisePendingAction(l, id, choice))
  <1>1. IsSeq(l) /\ Len(l) \in Nat /\ DOMAIN l = 1..Len(l)
    BY SeqLen DEF Ledger
  <1>2. PICK i : i = id[2]
    OBVIOUS
  <1>3. i \in 1..Len(l) /\ l[i].template = "PendingAction" /\ IsContract(l[i])
    BY <1>1, <1>2 DEF mayExercise, found, Ledger, Contract
  <1>4. PICK action, after, l2, p, l3 :
            /\ action = l[i].payload
            /\ after = IF choice = "ExecuteApprovedAction" THEN releaseAction(l, action) ELSE l
            /\ l2 = [after EXCEPT ![i].live = FALSE]
            /\ p = [action EXCEPT !.status = statusAfter[choice]]
            /\ l3 = demoCreate(l2, "PendingAction", p)
    OBVIOUS
  <1>5. Kept(l, after)
    <2>1. \/ after = l \/ \E q : after = demoCreate(l, "PaymentReceipt", q)
          \/ \E q : after = demoCreate(l, "PortfolioAllocation", q)
      <3>1. \/ releaseAction(l, action) = l
            \/ \E q : releaseAction(l, action) = demoCreate(l, "PaymentReceipt", q)
            \/ \E q : releaseAction(l, action) = demoCreate(l, "PortfolioAllocation", q)
        BY DEF releaseAction, createReceipt, createPortfolio
      <3> QED BY <1>4, <3>1
    <2>2. "PaymentReceipt" \notin Lasting /\ "PortfolioAllocation" \notin Lasting
      BY DEF Lasting
    <2> QED BY <1>1, <2>1, <2>2, KeptSame, KeptCreate
  <1>6. Kept(l, l2)
    <2>1. /\ IsSeq(after) /\ i \in 1..Len(after) /\ IsContract(after[i])
          /\ after[i].template = "PendingAction"
      <3>1. IsSeq(after) /\ Len(after) \in Nat /\ Len(l) <= Len(after)
        BY <1>5, SeqLen DEF Kept
      <3>2. i \in 1..Len(after)
        BY <1>1, <1>3, <3>1
      <3> QED BY <1>3, <1>5, <3>1, <3>2 DEF Kept
    <2>2. after[i].template \notin Lasting /\ l2 = [after EXCEPT ![i].live = FALSE]
      BY <1>4, <2>1 DEF Lasting
    <2>3. Kept(after, l2)
      BY <2>1, <2>2, KeptArchive
    <2> QED BY <1>5, <2>3, KeptMore
  <1>7. Kept(l, l3)
    <2>1. IsSeq(l2) /\ "PendingAction" \notin Lasting /\ l3 = demoCreate(l2, "PendingAction", p)
      BY <1>4, <1>6 DEF Kept, Lasting
    <2>2. Kept(l2, l3)
      BY <2>1, KeptCreate
    <2> QED BY <1>6, <2>2, KeptMore
  <1>8. demoExercisePendingAction(l, id, choice) = l3
    BY <1>2, <1>4 DEF demoExercisePendingAction, payload, archive
  <1> QED BY <1>7, <1>8

\* Then the policies and profiles of all users are the same.
LEMMA KeptQuery ==
    ASSUME NEW l, NEW m, Kept(l, m), NEW v, NEW template \in Lasting
    PROVE  /\ query(m, template, v) = query(l, template, v)
           /\ \A id \in query(l, template, v) : payload(m, id) = payload(l, id)
  <1>1. /\ Len(l) \in Nat /\ Len(m) \in Nat /\ Len(l) <= Len(m)
        /\ DOMAIN l = 1..Len(l) /\ DOMAIN m = 1..Len(m)
    BY SeqLen DEF Kept
  <1>2. ASSUME NEW id
        PROVE  /\ found(m, template, id, v) <=> found(l, template, id, v)
               /\ found(l, template, id, v) => m[id[2]] = l[id[2]]
    <2>1. PICK i : i = id[2]
      OBVIOUS
    <2>2. CASE i \in 1..Len(l)
      <3>1. i \in 1..Len(m) /\ m[i].template = l[i].template
            /\ (l[i].template \in Lasting => m[i] = l[i])
        BY <1>1, <2>2 DEF Kept
      <3> QED BY <1>1, <2>1, <2>2, <3>1 DEF found
    <2>3. CASE i \notin 1..Len(l)
      <3>1. i \in 1..Len(m) => m[i].template \notin Lasting
        <4>1. i \in 1..Len(m) => i > Len(l)
          BY <1>1, <2>3
        <4> QED BY <4>1 DEF Kept
      <3> QED BY <1>1, <2>1, <2>3, <3>1 DEF found
    <2> QED BY <2>2, <2>3
  <1>3. ASSUME NEW q \in {l, m}, NEW id
        PROVE  id \in query(q, template, v) <=>
                   found(q, template, id, v) /\ \E i : id = <<template, i>>
    <2>1. found(q, template, id, v) => id[2] \in DOMAIN q
      BY DEF found
    <2>2. \A i : id = <<template, i>> => id[2] = i
      OBVIOUS
    <2> QED BY <2>1, <2>2 DEF query
  <1>4. query(m, template, v) = query(l, template, v)
    BY <1>2, <1>3
  <1>5. \A id \in query(l, template, v) : payload(m, id) = payload(l, id)
    BY <1>2, <1>3 DEF payload
  <1> QED BY <1>4, <1>5

LEMMA KeptFollows ==
    ASSUME NEW l, NEW m, Kept(l, m), NEW v
    PROVE  Follows(l, m, v) /\ profilesOf(m, v) = profilesOf(l, v)
  <1>1. "PayrollPolicy" \in Lasting /\ "UserProfile" \in Lasting
    BY DEF Lasting
  <1> QED BY <1>1, KeptQuery DEF Follows, policiesOf, profilesOf

-----------------------------------------------------------------------------
(* The calls of such a user: those that save no policy                     *)

\* Handler h has the one request of user u.
Own(u, h) ==
    /\ TablesInv /\ RequestsSound /\ Ledger(ledger)
    /\ h \in Handlers /\ u = handler[h].user /\ Shape(handler[h].todo) /\ OwnFine(u, h)

LEMMA KeptOwn ==
    ASSUME NEW u, NEW h, Own(u, h), Kept(ledger, ledger')
    PROVE  Follows(ledger, ledger', u) /\ OneProfile(ledger', u)
  <1>1. Follows(ledger, ledger', u) /\ profilesOf(ledger', u) = profilesOf(ledger, u)
    BY KeptFollows
  <1>2. OneProfile(ledger, u)
    BY DEF Own, OwnFine, FineNow, Fine
  <1> QED BY <1>1, <1>2 DEF OneProfile

LEMMA SameLedger ==
    ASSUME NEW u, NEW h, Own(u, h), ledger' = ledger
    PROVE  Kept(ledger, ledger')
  BY KeptSame DEF Own, Ledger

LEMMA NewKept ==
    ASSUME NEW u, NEW h, Own(u, h), NEW template, template \notin Lasting, NEW p,
           ledger' = demoCreate(ledger, template, p)
    PROVE  Kept(ledger, ledger')
  BY KeptCreate DEF Own, Ledger

\* Those that leave contracts and rows of policies alone.
LEMMA KeepingOn ==
    ASSUME NEW u, NEW h, Own(u, h), NEW call, At(h, call),
           call \notin SaveCalls \cup ResetCalls \cup {"queryProfile"},
           call # "record" \/ ~SavesAt(handler[h].todo, 2),
           userIds' = userIds, policyRows' = policyRows, Kept(ledger, ledger'), NEW v, NEW c,
           \/ Finish(h) \/ Proceed(h)
           \/ GoOn(h, [handler[h] EXCEPT !.id = userIds[u]])
           \/ GoOn(h, [handler[h] EXCEPT !.intent = v])
           \/ GoOn(h, [handler[h] EXCEPT !.credit = v])
           \/ call = "findCredit" /\ Skip(h, 5, [handler[h] EXCEPT !.credit = v])
           \/ GoOn(h, [handler[h] EXCEPT !.action = v])
           \/ \E due : GoOn(h, [handler[h] EXCEPT !.action = v, !.due = due])
           \/ \E runId : GoOn(h, [handler[h] EXCEPT !.run = v, !.runId = runId])
           \/ GoOn(h, [handler[h] EXCEPT !.policyId = v, !.payroll = c])
           \/ GoOn(h, [handler[h] EXCEPT !.run = c, !.credit = c, !.policyId = v])
    PROVE  OwnFine(u, h)'
  <1>1. TablesInv /\ h \in Handlers /\ Shape(handler[h].todo) /\ OwnFine(u, h)
    BY DEF Own
  <1>2. Follows(ledger, ledger', u) /\ OneProfile(ledger', u)
    BY KeptOwn
  <1> QED BY Zenon, <1>1, <1>2, QuietOn

LEMMA OwnPlainCall ==
    ASSUME NEW u, NEW h, Own(u, h),
           \/ getRequiredUser(h) \/ ensureDemoParties(h) \/ GetPendingAction(h) \/ OpenAgentRow(h)
           \/ NameCredit(h)
    PROVE  OwnFine(u, h)'
  <1>1. /\ userIds' = userIds /\ policyRows' = policyRows /\ ledger' = ledger
        /\ Finish(h) \/ Proceed(h) \/ GoOn(h, [handler[h] EXCEPT !.id = userIds[u]])
    BY DEF Own, getRequiredUser, ensureDemoParties, GetPendingAction, OpenAgentRow, NameCredit,
           Unchanged, OnlyTables, tables
  <1>2. \E call \in {"getRequiredUser", "ensureDemoParties", "getPendingAction", "openAgentRow",
                     "nameCredit"} : At(h, call)
    BY DEF getRequiredUser, ensureDemoParties, GetPendingAction, OpenAgentRow, NameCredit
  <1>3. PICK call : /\ At(h, call) /\ call \notin SaveCalls \cup ResetCalls \cup {"queryProfile"}
                    /\ call # "record"
    BY <1>2 DEF SaveCalls, ResetCalls
  <1>4. Kept(ledger, ledger')
    BY <1>1, SameLedger
  <1> QED BY Zenon, <1>1, <1>3, <1>4, KeepingOn

LEMMA OwnLedgerCall ==
    ASSUME NEW u, NEW h, Own(u, h), CreateNotice(h) \/ CreateCredit(h) \/ CreateAudit(h)
    PROVE  OwnFine(u, h)'
  <1>1. /\ userIds' = userIds /\ policyRows' = policyRows
        /\ Proceed(h) \/ \E v : GoOn(h, [handler[h] EXCEPT !.credit = v])
    BY DEF CreateNotice, CreateCredit, CreateAudit, OnlyLedger, tables
  <1>2. \E template \in {"EmployerPayrollNotice", "PayrollCredit", "OperatorAuditEvent"} :
            \E p : ledger' = demoCreate(ledger, template, p)
    BY DEF CreateNotice, CreateCredit, CreateAudit, createEmployerPayrollNotice,
           createPayrollCredit, createOperatorAuditEvent
  <1>3. Kept(ledger, ledger')
    BY <1>2, NewKept DEF Lasting
  <1>4. \E call \in {"createNotice", "createCredit", "createAudit"} : At(h, call)
    BY DEF CreateNotice, CreateCredit, CreateAudit
  <1>5. PICK call : /\ At(h, call) /\ call \notin SaveCalls \cup ResetCalls \cup {"queryProfile"}
                    /\ call # "record"
    BY <1>4 DEF SaveCalls, ResetCalls
  <1> QED BY Zenon, <1>1, <1>3, <1>5, KeepingOn

LEMMA OwnIntentCall ==
    ASSUME NEW u, NEW h, Own(u, h), CreateIntent(h) \/ FindCredit(h)
    PROVE  OwnFine(u, h)'
  <1>1. userIds' = userIds /\ policyRows' = policyRows /\ ledger' = ledger
    BY DEF CreateIntent, FindCredit, OnlyTables
  <1>2. Kept(ledger, ledger')
    BY <1>1, SameLedger
  <1>3. \E v : \/ Finish(h) \/ Proceed(h)
               \/ GoOn(h, [handler[h] EXCEPT !.intent = v])
               \/ At(h, "findCredit") /\ Skip(h, 5, [handler[h] EXCEPT !.credit = v])
    BY DEF CreateIntent, FindCredit
  <1>4. \E call \in {"createIntent", "findCredit"} :
            At(h, call) /\ (At(h, "findCredit") => call = "findCredit")
    BY DEF CreateIntent, FindCredit
  <1>5. PICK call : /\ At(h, call) /\ call \notin SaveCalls \cup ResetCalls \cup {"queryProfile"}
                    /\ call # "record" /\ (At(h, "findCredit") => call = "findCredit")
    BY <1>4 DEF SaveCalls, ResetCalls
  <1> QED BY <1>1, <1>2, <1>3, <1>5, KeepingOn

LEMMA OwnActionCall ==
    ASSUME NEW u, NEW h, Own(u, h),
           \/ CollectActions(h) \/ ApprovePendingAction(h) \/ RejectPendingAction(h)
           \/ ExecuteApprovedAction(h)
    PROVE  OwnFine(u, h)'
  <1>1. userIds' = userIds /\ policyRows' = policyRows
    BY DEF CollectActions, ApprovePendingAction, RejectPendingAction, ExecuteApprovedAction,
           Exercise, Unchanged, OnlyLedger, tables
  <1>2. \E v : \/ Finish(h) \/ GoOn(h, [handler[h] EXCEPT !.action = v])
               \/ \E due : GoOn(h, [handler[h] EXCEPT !.action = v, !.due = due])
    BY DEF CollectActions, ApprovePendingAction, RejectPendingAction, ExecuteApprovedAction,
           Exercise
  <1>3. Kept(ledger, ledger')
    <2>1. CASE ledger' = ledger
      BY <2>1, SameLedger
    <2>2. ASSUME NEW choice, Exercise(h, choice) PROVE Kept(ledger, ledger')
      <3>1. PICK w : w = handler[h]
        OBVIOUS
      <3>2. \/ ledger' = ledger
            \/ /\ mayExercise(ledger, w.action, choice, w.user)
               /\ ledger' = demoExercisePendingAction(ledger, w.action, choice)
        BY <2>2, <3>1 DEF Exercise
      <3>3. CASE ledger' = ledger
        BY <3>3, SameLedger
      <3>4. CASE /\ mayExercise(ledger, w.action, choice, w.user)
                 /\ ledger' = demoExercisePendingAction(ledger, w.action, choice)
        <4>1. w.user \in Users /\ Ledger(ledger)
          <5>1. \E call : At(h, call)
            BY DEF CollectActions, ApprovePendingAction, RejectPendingAction,
                   ExecuteApprovedAction
          <5>2. TablesInv /\ h \in Handlers /\ Ledger(ledger)
            BY DEF Own
          <5> QED BY <3>1, <5>1, <5>2, OwnIs
        <4> QED BY <3>4, <4>1, ExerciseKept
      <3> QED BY <3>2, <3>3, <3>4
    <2>3. ledger' = ledger \/ \E choice : Exercise(h, choice)
      BY DEF CollectActions, ApprovePendingAction, RejectPendingAction, ExecuteApprovedAction,
             Unchanged
    <2> QED BY <2>1, <2>2, <2>3
  <1>4. \E call \in {"collectActions", "approve", "reject", "executeAction"} : At(h, call)
    BY DEF CollectActions, ApprovePendingAction, RejectPendingAction, ExecuteApprovedAction
  <1>5. PICK call : /\ At(h, call) /\ call \notin SaveCalls \cup ResetCalls \cup {"queryProfile"}
                    /\ call # "record"
    BY <1>4 DEF SaveCalls, ResetCalls
  <1> QED BY Zenon, <1>1, <1>2, <1>3, <1>5, KeepingOn

LEMMA OwnRunCall ==
    ASSUME NEW u, NEW h, Own(u, h), LoadPolicyAndCredit(h) \/ CreateRun(h) \/ ExecuteRun(h)
    PROVE  OwnFine(u, h)'
  <1>1. userIds' = userIds /\ policyRows' = policyRows
    BY DEF LoadPolicyAndCredit, CreateRun, ExecuteRun, Unchanged, OnlyLedger, tables
  <1>2. \E v, c : \/ Finish(h)
                  \/ \E runId : GoOn(h, [handler[h] EXCEPT !.run = v, !.runId = runId])
                  \/ GoOn(h, [handler[h] EXCEPT !.policyId = v, !.payroll = c])
                  \/ GoOn(h, [handler[h] EXCEPT !.run = c, !.credit = c, !.policyId = v])
    BY DEF LoadPolicyAndCredit, CreateRun, ExecuteRun
  <1>3. \E call \in {"loadPolicyAndCredit", "createRun", "executeRun"} : At(h, call)
    BY DEF LoadPolicyAndCredit, CreateRun, ExecuteRun
  <1>4. PICK call : /\ At(h, call) /\ call \notin SaveCalls \cup ResetCalls \cup {"queryProfile"}
                    /\ call # "record"
    BY <1>3 DEF SaveCalls, ResetCalls
  <1>5. Kept(ledger, ledger')
    <2>1. PICK w : w = handler[h]
      OBVIOUS
    <2>2. \/ ledger' = ledger
          \/ \E p : ledger' = demoCreate(ledger, "AllocationRun", p)
          \/ /\ mayExecuteAllocation(ledger, w.run, w.policyId, w.credit, w.user)
             /\ ledger' = demoExecuteAllocation(ledger, w.run, w.policyId, w.credit, w.user)
      BY <2>1 DEF LoadPolicyAndCredit, CreateRun, ExecuteRun, Unchanged, createAllocationRun
    <2>3. CASE ledger' = ledger
      BY <2>3, SameLedger
    <2>4. CASE \E p : ledger' = demoCreate(ledger, "AllocationRun", p)
      BY <2>4, NewKept DEF Lasting
    <2>5. CASE /\ mayExecuteAllocation(ledger, w.run, w.policyId, w.credit, w.user)
               /\ ledger' = demoExecuteAllocation(ledger, w.run, w.policyId, w.credit, w.user)
      <3>1. TablesInv /\ h \in Handlers /\ Ledger(ledger) /\ RequestsSound
        BY DEF Own
      <3>2. w.user \in Users /\ (w.credit = NoContract \/ w.credit[1] = "PayrollCredit")
        BY <1>4, <2>1, <3>1, AtCall DEF TablesInv
      <3>3. w.policyId = NoContract \/ w.policyId[1] = "PayrollPolicy"
        BY <2>1, <3>1 DEF RequestsSound, Sound, NamesPolicy
      <3> QED BY <2>5, <3>1, <3>2, <3>3, AllocationKept
    <2> QED BY <2>2, <2>3, <2>4, <2>5
  <1> QED BY Zenon, <1>1, <1>2, <1>4, <1>5, KeepingOn

\* What is shown after a profile or policy is created, as contract id.
Created(l, m, template, v, p, id) ==
    /\ query(m, template, v) = query(l, template, v) \cup {id}
    /\ \A other : other # template => query(m, other, v) = query(l, other, v)
    /\ \A other : \A q \in query(l, other, v) : payload(m, q) = payload(l, q) /\ q # id
    /\ payload(m, id) = p /\ newest(m) = id

LEMMA CreatedQuery ==
    ASSUME NEW l, IsSeq(l), NEW template \in Lasting, NEW p, NEW v, p.user = v,
           NEW m, m = demoCreate(l, template, p), NEW id, id = <<template, Len(l) + 1>>
    PROVE  Created(l, m, template, v, p, id)
  <1>1. PICK c : c = [template |-> template, payload |-> p, live |-> TRUE]
    OBVIOUS
  <1>2. m = Append(l, c)
    BY <1>1 DEF demoCreate
  <1>3. c.template = template /\ c.payload = p /\ c.live = TRUE
    BY <1>1
  <1>4. /\ IsSeq(l) /\ IsSeq(m) /\ Len(l) \in Nat /\ Len(m) = Len(l) + 1 /\ m[Len(l) + 1] = c
        /\ \A i \in 1..Len(l) : m[i] = l[i]
    BY <1>2, AppendIs DEF IsLonger
  <1>5. DOMAIN l = 1..Len(l) /\ DOMAIN m = 1..Len(m)
    BY <1>4, SeqLen
  <1>6. PICK n \in Nat : n = Len(l)
    BY <1>4
  <1>7. /\ DOMAIN l = 1..n /\ DOMAIN m = 1..(n + 1) /\ Len(m) = n + 1 /\ m[n + 1] = c
        /\ \A i \in 1..n : m[i] = l[i]
    BY <1>4, <1>5, <1>6
  <1>8. id = <<template, n + 1>> /\ id[1] = template /\ id[2] = n + 1
    BY <1>6
  <1>9. visibleTo(c, v)
    BY <1>3 DEF visibleTo, Lasting
  <1>10. ASSUME NEW q \in {l, m}, NEW x, NEW other
         PROVE  x \in query(q, other, v) <=>
                    \E i \in DOMAIN q : /\ x = <<other, i>> /\ q[i].template = other /\ q[i].live
                                        /\ visibleTo(q[i], v)
    <2>1. \A i : x = <<other, i>> => x[1] = other /\ x[2] = i
      OBVIOUS
    <2> QED BY <2>1 DEF query, found
  <1>11. ASSUME NEW x, NEW other
         PROVE  x \in query(m, other, v) <=>
                    x \in query(l, other, v) \/ (other = template /\ x = id)
    <2>1. ASSUME x \in query(m, other, v)
          PROVE  x \in query(l, other, v) \/ (other = template /\ x = id)
      <3>1. PICK i \in 1..(n + 1) : /\ x = <<other, i>> /\ m[i].template = other /\ m[i].live
                                    /\ visibleTo(m[i], v)
        BY <1>7, <1>10, <2>1
      <3>2. CASE i = n + 1
        BY <1>3, <1>7, <1>8, <3>1, <3>2
      <3>3. CASE i # n + 1
        <4>1. i \in 1..n /\ m[i] = l[i]
          BY <1>7, <3>3
        <4> QED BY <1>7, <1>10, <3>1, <4>1
      <3> QED BY <3>2, <3>3
    <2>2. ASSUME x \in query(l, other, v) PROVE x \in query(m, other, v)
      <3>1. PICK i \in 1..n : /\ x = <<other, i>> /\ l[i].template = other /\ l[i].live
                              /\ visibleTo(l[i], v)
        BY <1>7, <1>10, <2>2
      <3>2. i \in 1..(n + 1) /\ m[i] = l[i]
        BY <1>7
      <3> QED BY <1>7, <1>10, <3>1, <3>2
    <2>3. ASSUME other = template, x = id PROVE x \in query(m, other, v)
      <3>1. n + 1 \in 1..(n + 1)
        OBVIOUS
      <3> QED BY <1>3, <1>7, <1>8, <1>9, <1>10, <2>3, <3>1
    <2> QED BY <2>1, <2>2, <2>3
  <1>12. ASSUME NEW other, NEW q \in query(l, other, v)
         PROVE  payload(m, q) = payload(l, q) /\ q # id
    <2>1. PICK i \in 1..n : q = <<other, i>>
      BY <1>7, <1>10
    <2>2. q[2] = i /\ i # n + 1 /\ m[i] = l[i]
      BY <1>7, <2>1
    <2> QED BY <1>8, <2>2 DEF payload
  <1>13. payload(m, id) = p /\ newest(m) = id
    BY <1>3, <1>7, <1>8 DEF payload, newest
  <1>14. query(m, template, v) = query(l, template, v) \cup {id}
    BY <1>11
  <1>15. ASSUME NEW other, other # template PROVE query(m, other, v) = query(l, other, v)
    <2>1. PICK s, r : s = query(m, other, v) /\ r = query(l, other, v)
      OBVIOUS
    <2>2. ASSUME NEW x PROVE x \in s <=> x \in r
      BY <1>11, <1>15, <2>1
    <2>3. s = r
      BY <2>2
    <2> QED BY <2>1, <2>3
  <1> QED BY <1>12, <1>13, <1>14, <1>15 DEF Created

LEMMA OwnQueryProfile ==
    ASSUME NEW u, NEW h, Own(u, h), QueryProfile(h) PROVE OwnFine(u, h)'
  <1>1. /\ TablesInv /\ h \in Handlers /\ Shape(handler[h].todo) /\ OwnFine(u, h)
        /\ u = handler[h].user
    BY DEF Own
  <1>2. /\ userIds' = userIds /\ policyRows' = policyRows /\ ledger' = ledger
        /\ At(h, "queryProfile")
    BY DEF QueryProfile, Unchanged, tables
  <1>3. Follows(ledger, ledger', u) /\ OneProfile(ledger', u)
    BY <1>2, SameLedger, KeptOwn
  <1>4. PICK n \in {1, 2} : Skip(h, n, handler[h]) /\ (n = 1 => profilesOf(ledger', u) = {})
    BY <1>1, <1>2 DEF QueryProfile, Proceed, GoOn, profilesOf
  <1>5. PICK w, call : w = handler[h] /\ call = "queryProfile"
    OBVIOUS
  <1>6. /\ IsRequest(w) /\ MaySkip(w, 1) /\ w.todo \in Seq(Calls) /\ w.todo # <<>>
        /\ Head(w.todo) = call
        /\ SavesNothing(w.todo) \/ \E k \in 1..Len(w.todo) : SavesAt(w.todo, k)
    BY <1>1, <1>2, <1>5, OwnIs
  <1>7. MaySkip(w, n)
    BY <1>5, <1>6 DEF MaySkip
  <1>8. ~SavesAt(w.todo, 2) /\ call \notin SaveCalls \cup ResetCalls
    BY <1>5, <1>6, SavesHead DEF SaveCalls, ResetCalls
  <1>9. w.id \in {0, userIds[u]}
    <2>1. Fine(w, ledger, u, userIds[u], rowsOf(userIds[u]), intents, agentRows)
      BY <1>1, <1>5 DEF OwnFine, FineNow
    <2>2. QuietCall(w.todo) /\ Shape(w.todo)
      BY <1>1, <1>5, <1>6, <1>8 DEF QuietCall
    <2>3. ~ResetsLeft(w.todo)
      BY <1>6, <2>2, QuietRest
    <2> QED BY <2>1, <2>3 DEF Fine
  <1>10. PICK id : id = userIds[u]
    OBVIOUS
  <1>11. w.id \in {0, userIds'[u]} /\ rowsOf(userIds[u])' = rowsOf(userIds[u])
    <2>1. rowsOf(userIds[u])' = rowsOf(userIds[u])
      BY <1>2 DEF rowsOf
    <2>2. userIds'[u] = userIds[u]
      BY <1>2
    <2> QED BY <1>9, <2>1, <2>2
  <1>12. At(h, call) /\ MaySkip(handler[h], n) /\ Skip(h, n, w) /\ ~SavesAt(handler[h].todo, 2)
    BY <1>2, <1>4, <1>5, <1>7, <1>8
  <1> QED BY <1>1, <1>3, <1>4, <1>6, <1>8, <1>11, <1>12, QuietStep

\* No row has id 0, or one that is still to come.
LEMMA NoRows ==
    ASSUME Rows, NEW id, id = 0 \/ id = nextId PROVE rowsOf(id) = {}
  BY DEF Rows, rowsOf

LEMMA OwnUpsertUser ==
    ASSUME NEW u, NEW h, Own(u, h), UpsertUser(h) PROVE OwnFine(u, h)'
  <1>1. /\ TablesInv /\ h \in Handlers /\ Shape(handler[h].todo) /\ OwnFine(u, h)
        /\ u = handler[h].user /\ Rows
    BY DEF Own, TablesInv
  <1>2. PICK id : id = IF userIds[u] = 0 THEN nextId ELSE userIds[u]
    OBVIOUS
  <1>3. /\ At(h, "upsertUser") /\ userIds' = [userIds EXCEPT ![u] = id]
        /\ GoOn(h, [handler[h] EXCEPT !.id = id]) \/ GoOn(h, [handler[h] EXCEPT !.id = userIds'[u]])
        /\ ledger' = ledger /\ policyRows' = policyRows
    BY <1>1, <1>2 DEF UpsertUser, OnlyTables
  <1>4. PICK w, call : w = handler[h] /\ call = "upsertUser"
    OBVIOUS
  <1>5. /\ IsRequest(w) /\ MaySkip(w, 1) /\ w.todo \in Seq(Calls) /\ w.todo # <<>>
        /\ Head(w.todo) = call /\ u \in Users
    BY <1>1, <1>3, <1>4, OwnIs
  <1>6. userIds'[u] = id
    BY <1>1, <1>3, <1>5 DEF Rows
  <1>7. PICK r : r = [w EXCEPT !.id = id]
    OBVIOUS
  <1>8. IsRequest(r) /\ r.id = id
    BY <1>5, <1>7 DEF IsRequest
  <1>9. Skip(h, 1, r)
    BY <1>3, <1>4, <1>6, <1>7 DEF GoOn
  <1>10. Follows(ledger, ledger', u) /\ OneProfile(ledger', u)
    BY <1>3, SameLedger, KeptOwn
  <1>11. ~SavesAt(w.todo, 2) /\ call \notin SaveCalls \cup ResetCalls /\ call # "queryProfile"
    BY <1>4, <1>5, SavesHead DEF SaveCalls, ResetCalls
  <1>12. rowsOf(userIds[u])' = rowsOf(userIds[u])
    <2>1. rowsOf(userIds[u])' = rowsOf(id)
      BY <1>3, <1>6 DEF rowsOf
    <2>2. id = userIds[u] \/ (id = nextId /\ userIds[u] = 0)
      BY <1>2
    <2>3. rowsOf(id) = rowsOf(userIds[u])
      BY <1>1, <2>2, NoRows
    <2> QED BY <2>1, <2>3
  <1>13. r.id \in {0, userIds'[u]} /\ At(h, call) /\ MaySkip(handler[h], 1)
         /\ ~SavesAt(handler[h].todo, 2)
    BY <1>3, <1>4, <1>5, <1>6, <1>8, <1>11
  <1> QED BY <1>1, <1>8, <1>9, <1>10, <1>11, <1>12, <1>13, QuietStep

LEMMA OwnCreateProfile ==
    ASSUME NEW u, NEW h, Own(u, h), CreateProfile(h) PROVE OwnFine(u, h)'
  <1>1. /\ TablesInv /\ h \in Handlers /\ Shape(handler[h].todo) /\ OwnFine(u, h)
        /\ u = handler[h].user /\ IsSeq(ledger)
    BY DEF Own, Ledger
  <1>2. /\ userIds' = userIds /\ policyRows' = policyRows /\ At(h, "createProfile") /\ Proceed(h)
        /\ ledger' = createUserProfile(ledger, u)
    BY <1>1 DEF CreateProfile, OnlyLedger, tables
  <1>3. PICK w, call : w = handler[h] /\ call = "createProfile"
    OBVIOUS
  <1>4. /\ IsRequest(w) /\ MaySkip(w, 1) /\ w.todo \in Seq(Calls) /\ w.todo # <<>>
        /\ Head(w.todo) = call
        /\ SavesNothing(w.todo) \/ \E k \in 1..Len(w.todo) : SavesAt(w.todo, k)
    BY <1>1, <1>2, <1>3, OwnIs
  <1>5. ~SavesAt(w.todo, 2) /\ call \notin SaveCalls \cup ResetCalls /\ call # "queryProfile"
    BY <1>3, <1>4, SavesHead DEF SaveCalls, ResetCalls
  <1>6. w.id \in {0, userIds[u]} /\ profilesOf(ledger, u) = {}
    <2>1. Fine(w, ledger, u, userIds[u], rowsOf(userIds[u]), intents, agentRows)
      BY <1>1, <1>3 DEF OwnFine, FineNow
    <2>2. QuietCall(w.todo) /\ Shape(w.todo)
      BY <1>1, <1>3, <1>4, <1>5 DEF QuietCall
    <2>3. ~ResetsLeft(w.todo)
      BY <1>4, <2>2, QuietRest
    <2> QED BY <1>3, <1>4, <2>1, <2>3 DEF Fine
  <1>7. Follows(ledger, ledger', u) /\ OneProfile(ledger', u)
    <2>1a. PICK l, m : l = ledger /\ m = ledger'
      OBVIOUS
    <2>1b. PICK p : p = [user |-> u]
      OBVIOUS
    <2>1c. PICK id : id = <<"UserProfile", Len(l) + 1>>
      OBVIOUS
    <2>1. /\ l = ledger /\ m = ledger' /\ p = [user |-> u]
          /\ id = <<"UserProfile", Len(l) + 1>>
      BY <2>1a, <2>1b, <2>1c
    <2>2. PICK t, o : t = "UserProfile" /\ o = "PayrollPolicy"
      OBVIOUS
    <2>3. t \in Lasting /\ o \in Lasting /\ t # o
      BY <2>2 DEF Lasting
    <2>4. IsSeq(l) /\ m = demoCreate(l, t, p) /\ p.user = u /\ id = <<t, Len(l) + 1>>
      BY <1>1, <1>2, <2>1, <2>2 DEF createUserProfile
    <2>5. Created(l, m, t, u, p, id)
      BY <2>3, <2>4, CreatedQuery
    <2>6. Follows(l, m, u)
      BY <2>2, <2>3, <2>5 DEF Created, Follows, policiesOf
    <2>7. OneProfile(m, u)
      BY <1>6, <2>1, <2>2, <2>5 DEF Created, OneProfile, profilesOf
    <2> QED BY <2>1, <2>6, <2>7
  <1>8. w.id \in {0, userIds'[u]} /\ rowsOf(userIds[u])' = rowsOf(userIds[u])
    <2>1. rowsOf(userIds[u])' = rowsOf(userIds[u])
      BY <1>2 DEF rowsOf
    <2>2. userIds'[u] = userIds[u]
      BY <1>2
    <2> QED BY <1>6, <2>1, <2>2
  <1>9. At(h, call) /\ MaySkip(handler[h], 1) /\ Skip(h, 1, w) /\ ~SavesAt(handler[h].todo, 2)
    BY <1>2, <1>3, <1>4, <1>5 DEF Proceed, GoOn
  <1> QED BY <1>1, <1>4, <1>5, <1>7, <1>8, <1>9, QuietStep

-----------------------------------------------------------------------------
(* The calls of such a user: saving a policy                               *)

\* The row of the request is that of its user, from the first call on that saves.
LEMMA SaverRow ==
    ASSUME NEW u, NEW h, Own(u, h), NEW call, At(h, call), NEW k \in 1..5,
           SavesAt(handler[h].todo, k), NEW w, w = handler[h]
    PROVE  /\ w.id = userIds[u] /\ w.id # 0 /\ u \in Users /\ IsRequest(w) /\ MaySkip(w, 1)
           /\ w.todo \in Seq(Calls) /\ Shape(w.todo)
           /\ Fine(w, ledger, u, userIds[u], rowsOf(userIds[u]), intents, agentRows)
  <1>1. /\ TablesInv /\ h \in Handlers /\ Shape(w.todo) /\ OwnFine(u, h) /\ u = w.user
    BY DEF Own
  <1>2. /\ IsRequest(w) /\ MaySkip(w, 1) /\ w.todo \in Seq(Calls) /\ w.todo # <<>>
        /\ w.user \in Users
        /\ w.id # 0 \/ TakesRow(w.todo)
    BY <1>1, OwnIs
  <1>3. Fine(w, ledger, u, userIds[u], rowsOf(userIds[u]), intents, agentRows)
    BY <1>1 DEF OwnFine, FineNow
  <1>4. w.id \in {0, userIds[u]}
    <2>1. SavesAt(w.todo, k)
      OBVIOUS
    <2>2. ~ResetsLeft(w.todo)
      BY <1>2, <2>1, ResetsLeftIs
    <2> QED BY <1>3, <2>2 DEF Fine
  <1>5. ~TakesRow(w.todo)
    <2>1. SavesAt(w.todo, k) /\ k \in 1..Len(w.todo)
      BY DEF SavesAt
    <2>2. w.todo[k] \in RowCalls
      BY <2>1 DEF SavesAt, RowCalls
    <2>3. Head(w.todo) \in SaveCalls \cup {"record"}
      <3>1. k = 1 \/ k = 2 \/ k = 3 \/ k = 4 \/ k = 5
        OBVIOUS
      <3> QED BY <1>2, <2>1, <3>1, SavesHead DEF SaveCalls
    <2> QED BY <2>1, <2>2, <2>3 DEF TakesRow, SaveCalls, RowTakers
  <1> QED BY <1>1, <1>2, <1>3, <1>4, <1>5

LEMMA OwnRecord ==
    ASSUME NEW u, NEW h, Own(u, h), RecordCantonContract(h) PROVE OwnFine(u, h)'
  <1>1. /\ userIds' = userIds /\ policyRows' = policyRows /\ ledger' = ledger
        /\ intents' = intents /\ agentRows' = agentRows /\ At(h, "record")
        /\ IF hasUser(h) THEN Proceed(h) ELSE Finish(h)
    BY DEF RecordCantonContract, Unchanged, tables
  <1>2. CASE ~SavesAt(handler[h].todo, 2)
    <2>1. Kept(ledger, ledger')
      BY <1>1, SameLedger
    <2>2. Finish(h) \/ Proceed(h)
      BY <1>1
    <2>3. PICK call : At(h, call) /\ call = "record"
      BY <1>1
    <2>4. call \notin SaveCalls \cup ResetCalls \cup {"queryProfile"}
      BY <2>3 DEF SaveCalls, ResetCalls
    <2> QED BY Zenon, <1>1, <1>2, <2>1, <2>2, <2>3, <2>4, KeepingOn
  <1>3. CASE SavesAt(handler[h].todo, 2)
    <2>1. PICK w, id, R : w = handler[h] /\ id = userIds[u] /\ R = rowsOf(userIds[u])
      OBVIOUS
    <2>2. PICK k \in 1..5 : k = 2 /\ SavesAt(handler[h].todo, k)
      BY <1>3
    <2>3. /\ w.id = id /\ IsRequest(w) /\ MaySkip(w, 1) /\ w.todo \in Seq(Calls) /\ Shape(w.todo)
          /\ Fine(w, ledger, u, id, R, intents, agentRows)
      BY <1>1, <2>1, <2>2, SaverRow
    <2>4. /\ InOrder(R) /\ OneProfile(ledger, u) /\ Above(w.version, R) /\ NoneActive(R)
          /\ policiesOf(ledger, u) = {} \/ Newest(ledger, u, w.policyId, w.version)
      <3>1. k <= 4 /\ k <= 3 /\ k <= 2
        BY <2>2
      <3>2. SavesAt(w.todo, k)
        BY <2>1, <2>2
      <3> QED BY <2>3, <3>1, <3>2, SavingIs
    <2>5. PICK j \in 2..5 : j = 2 /\ SavesAt(w.todo, j)
      BY <1>3, <2>1
    <2>6. Fine(goneOn(w, 1, w), ledger, u, id, R, intents, agentRows)
      <3>1. j <= 4 /\ j # 4 /\ j # 5
        BY <2>5
      <3> QED BY <2>3, <2>4, <2>5, <3>1, SavingFine
    <2>7. handler'[h] = goneOn(w, 1, w)
      <3>1. hasUser(h)
        BY <2>1, <2>3 DEF hasUser, Own
      <3>2. Skip(h, 1, w)
        BY <1>1, <2>1, <3>1 DEF Proceed, GoOn
      <3>3. Requests /\ h \in Handlers
        BY DEF Own, TablesInv
      <3> QED BY <2>1, <3>2, <3>3, SkipIs
    <2>8. R = rowsOf(userIds[u])' /\ id = userIds'[u]
      BY <1>1, <2>1 DEF rowsOf
    <2>9. PICK x : x = handler'[h]
      OBVIOUS
    <2>10. Fine(x, ledger', u, id, R, intents', agentRows')
      BY <1>1, <2>6, <2>7, <2>9
    <2> QED BY <2>8, <2>9, <2>10, OwnFineNext
  <1> QED BY <1>2, <1>3

LEMMA OwnLatestPolicy ==
    ASSUME NEW u, NEW h, Own(u, h), LatestPolicy(h) PROVE OwnFine(u, h)'
  <1>1. PICK w, id, R : w = handler[h] /\ id = userIds[u] /\ R = rowsOf(userIds[u])
    OBVIOUS
  <1>2. PICK versions : versions = {row.version : row \in rowsOf(w.id)} \cup {0}
    OBVIOUS
  <1>3. PICK latest : latest = CHOOSE v \in versions : \A o \in versions : v >= o
    OBVIOUS
  <1>4. /\ userIds' = userIds /\ policyRows' = policyRows /\ ledger' = ledger
        /\ intents' = intents /\ agentRows' = agentRows /\ At(h, "latestPolicy")
        /\ GoOn(h, [handler[h] EXCEPT !.version = latest + 1])
    BY <1>1, <1>2, <1>3 DEF LatestPolicy, Unchanged, tables
  <1>5. TablesInv /\ h \in Handlers /\ Rows /\ Requests
    BY DEF Own, TablesInv
  <1>6. /\ w.todo \in Seq(Calls) /\ w.todo # <<>> /\ Head(w.todo) = "latestPolicy"
        /\ SavesNothing(w.todo) \/ \E k \in 1..Len(w.todo) : SavesAt(w.todo, k)
    BY <1>1, <1>4, <1>5, OwnIs
  <1>7. PICK k \in 2..5 : k = 5 /\ SavesAt(w.todo, k)
    BY <1>6, SaveCallAt
  <1>8. k \in 1..5 /\ SavesAt(handler[h].todo, k)
    BY <1>1, <1>7
  <1>9. /\ w.id = id /\ IsRequest(w) /\ Shape(w.todo)
        /\ Fine(w, ledger, u, id, R, intents, agentRows)
    BY <1>1, <1>4, <1>8, SaverRow
  <1>10. InOrder(R) /\ OneProfile(ledger, u) /\ Settled(ledger, u, R)
    <2>1. k >= 4
      BY <1>7
    <2> QED BY <1>6, <1>7, <1>8, <1>9, <2>1, SavingIs
  <1>11. Above(latest + 1, R)
    <2>1. latest \in 0..(nextId - 1) /\ \A o \in versions : latest >= o
      BY <1>2, <1>3, <1>5, HighestVersion
    <2>2. R = rowsOf(w.id)
      BY <1>1, <1>9
    <2>3. ASSUME NEW r \in R PROVE r.version < latest + 1
      <3>1. r.version \in versions
        BY <1>2, <2>2
      <3>2. r.version \in Int /\ latest \in Int
        BY <1>5, <2>1, <2>2 DEF Rows, rowsOf
      <3> QED BY <2>1, <3>1, <3>2
    <2> QED BY <2>3 DEF Above
  <1>12. PICK r : r = [w EXCEPT !.version = latest + 1]
    OBVIOUS
  <1>13. IsRequest(r) /\ r.id = id /\ r.version = latest + 1
    BY <1>9, <1>12 DEF IsRequest
  <1>14. Fine(goneOn(w, 1, r), ledger, u, id, R, intents, agentRows)
    <2>1. ~(k <= 4) /\ ~(k <= 3) /\ k # 4
      BY <1>7
    <2>2. Above(r.version, R)
      BY <1>11, <1>13
    <2> QED BY <1>6, <1>7, <1>9, <1>10, <1>13, <2>1, <2>2, SavingFine
  <1>15. handler'[h] = goneOn(w, 1, r)
    <2>1. Skip(h, 1, r)
      BY <1>1, <1>4, <1>12 DEF GoOn
    <2> QED BY <1>1, <1>5, <2>1, SkipIs
  <1>16. R = rowsOf(userIds[u])' /\ id = userIds'[u]
    BY <1>1, <1>4 DEF rowsOf
  <1>17. PICK x : x = handler'[h]
    OBVIOUS
  <1>18. Fine(x, ledger', u, id, R, intents', agentRows')
    BY <1>4, <1>14, <1>15, <1>17
  <1> QED BY <1>16, <1>17, <1>18, OwnFineNext

LEMMA OwnDeactivate ==
    ASSUME NEW u, NEW h, Own(u, h), Deactivate(h) PROVE OwnFine(u, h)'
  <1>1. PICK w, id, R : w = handler[h] /\ id = userIds[u] /\ R = rowsOf(userIds[u])
    OBVIOUS
  <1>2. PICK old : old = activeRows(w.id)
    OBVIOUS
  <1>3. PICK off : off = {[row EXCEPT !.active = FALSE] : row \in old}
    OBVIOUS
  <1>4. /\ userIds' = userIds /\ ledger' = ledger
        /\ intents' = intents /\ agentRows' = agentRows /\ At(h, "deactivate")
        /\ policyRows' = (policyRows \ old) \cup off /\ Proceed(h)
    BY <1>1, <1>2, <1>3 DEF Deactivate, OnlyTables
  <1>5. TablesInv /\ h \in Handlers /\ Rows /\ Requests
    BY DEF Own, TablesInv
  <1>6. /\ w.todo \in Seq(Calls) /\ w.todo # <<>> /\ Head(w.todo) = "deactivate"
        /\ SavesNothing(w.todo) \/ \E k \in 1..Len(w.todo) : SavesAt(w.todo, k)
    BY <1>1, <1>4, <1>5, OwnIs
  <1>7. PICK k \in 2..5 : k = 4 /\ SavesAt(w.todo, k)
    BY <1>6, SaveCallAt
  <1>8. k \in 1..5 /\ SavesAt(handler[h].todo, k)
    BY <1>1, <1>7
  <1>9. /\ w.id = id /\ IsRequest(w) /\ Shape(w.todo)
        /\ Fine(w, ledger, u, id, R, intents, agentRows)
    BY <1>1, <1>4, <1>8, SaverRow
  <1>10. InOrder(R) /\ OneProfile(ledger, u) /\ Settled(ledger, u, R) /\ Above(w.version, R)
    <2>1. k >= 4 /\ k <= 4
      BY <1>7
    <2> QED BY <1>6, <1>7, <1>8, <1>9, <2>1, SavingIs
  <1>11. \A r \in R : /\ IsPolicyRow(r) /\ r.user = id /\ r.active \in BOOLEAN
                      /\ r.version \in 1..(nextId - 1)
    BY <1>1, <1>5 DEF Rows, rowsOf
  <1>12. PICK S : S = {r \in policyRows' : r.user = id}
    OBVIOUS
  <1>13. ASSUME NEW s \in S
         PROVE  ~s.active /\ \E r \in R : s.version = r.version
    <2>1. CASE s \in policyRows /\ s \notin old
      <3>1. s \in R
        BY <1>1, <1>12, <2>1 DEF rowsOf
      <3> QED BY <1>1, <1>2, <1>9, <2>1, <3>1 DEF activeRows
    <2>2. CASE s \in off
      <3>1. PICK r \in old : s = [r EXCEPT !.active = FALSE]
        BY <1>3, <2>2
      <3>2. r \in R
        BY <1>1, <1>2, <1>9, <3>1 DEF activeRows
      <3>3. s.version = r.version /\ s.active = FALSE
        BY <1>11, <3>1, <3>2 DEF IsPolicyRow
      <3> QED BY <3>2, <3>3
    <2> QED BY <1>4, <1>12, <2>1, <2>2
  <1>14. InOrder(S) /\ NoneActive(S) /\ Above(w.version, S)
    BY <1>10, <1>13 DEF InOrder, NoneActive, Above
  <1>15. Older(ledger, u, w.version)
    <2>1. w.version \in Nat
      BY <1>1, <1>5 DEF Requests, Fits, Rows
    <2>2. PICK v \in Nat : v = w.version
      BY <2>1
    <2>3. CASE policiesOf(ledger, u) = {}
      BY <2>3 DEF Older
    <2>4. CASE policiesOf(ledger, u) # {}
      <3>1. PICK a \in R : a.active /\ Newest(ledger, u, a.contract, a.version)
        BY <1>10, <2>4 DEF Settled
      <3>2. a.version < v /\ a.version \in Nat
        BY <1>5, <1>10, <1>11, <2>2, <3>1 DEF Above, Rows
      <3>3. PICK i \in Nat : i = a.version /\ i < v
        BY <3>2
      <3>4. \A q \in policiesOf(ledger, u) : payload(ledger, q).version \in 0..(i - 1)
                                             \/ payload(ledger, q).version = i
        BY <3>1, <3>3 DEF Newest
      <3>5. \A j \in 0..(i - 1) : j \in 0..(v - 1)
        BY <3>3
      <3>6. i \in 0..(v - 1)
        BY <3>3
      <3>7. \A q \in policiesOf(ledger, u) : payload(ledger, q).version \in 0..(v - 1)
        BY <3>4, <3>5, <3>6
      <3> QED BY <2>2, <3>7 DEF Older
    <2> QED BY <2>3, <2>4
  <1>16. Fine(goneOn(w, 1, w), ledger, u, id, S, intents, agentRows)
    <2>1. ~(k <= 3) /\ k # 5
      BY <1>7
    <2> QED BY <1>6, <1>7, <1>9, <1>10, <1>14, <1>15, <2>1, SavingFine
  <1>17. handler'[h] = goneOn(w, 1, w)
    <2>1. Skip(h, 1, w)
      BY <1>1, <1>4 DEF Proceed, GoOn
    <2> QED BY <1>1, <1>5, <2>1, SkipIs
  <1>18. S = rowsOf(userIds[u])' /\ id = userIds'[u]
    BY <1>1, <1>4, <1>12 DEF rowsOf
  <1>19. PICK x : x = handler'[h]
    OBVIOUS
  <1>20. Fine(x, ledger', u, id, S, intents', agentRows')
    BY <1>4, <1>16, <1>17, <1>19
  <1> QED BY <1>18, <1>19, <1>20, OwnFineNext

\* The new policy is the newest one.
LEMMA NewestCreated ==
    ASSUME NEW l, IsSeq(l), NEW u, NEW policy, NEW v, Older(l, u, v), OneProfile(l, u),
           NEW m, m = createPayrollPolicy(l, u, policy, v)
    PROVE  Newest(m, u, newest(m), v) /\ OneProfile(m, u)
  <1>1. PICK p : p = [user |-> u, policy |-> policy, version |-> v]
    OBVIOUS
  <1>2. p.user = u /\ p.version = v
    BY <1>1
  <1>3. PICK t, o : t = "PayrollPolicy" /\ o = "UserProfile"
    OBVIOUS
  <1>4. t \in Lasting /\ o \in Lasting /\ t # o
    BY <1>3 DEF Lasting
  <1>5. PICK id : id = <<t, Len(l) + 1>>
    OBVIOUS
  <1>6. m = demoCreate(l, t, p)
    BY <1>1, <1>3 DEF createPayrollPolicy
  <1>7. Created(l, m, t, u, p, id)
    BY <1>2, <1>4, <1>5, <1>6, CreatedQuery
  <1>9. OneProfile(m, u)
    BY <1>3, <1>4, <1>7 DEF Created, OneProfile, profilesOf
  <1>10. \A q \in query(l, t, u) : payload(l, q).version \in 0..(v - 1)
    BY <1>3 DEF Older, policiesOf
  <1>11. \A q \in query(m, t, u) : q # id => payload(m, q).version \in 0..(v - 1)
    BY <1>7, <1>10 DEF Created
  <1>12. id \in query(m, t, u) /\ payload(m, id).version = v
    BY <1>2, <1>7 DEF Created
  <1>13. Newest(m, u, id, v)
    BY <1>3, <1>11, <1>12 DEF Newest, policiesOf
  <1> QED BY <1>7, <1>9, <1>13 DEF Created

LEMMA OwnCreatePolicy ==
    ASSUME NEW u, NEW h, Own(u, h), CreatePolicy(h) PROVE OwnFine(u, h)'
  <1>1. PICK w, id, R : w = handler[h] /\ id = userIds[u] /\ R = rowsOf(userIds[u])
    OBVIOUS
  <1>2. PICK m : m = ledger'
    OBVIOUS
  <1>3. /\ userIds' = userIds /\ policyRows' = policyRows
        /\ intents' = intents /\ agentRows' = agentRows /\ At(h, "createPolicy")
        /\ m = createPayrollPolicy(ledger, w.user, w.policy, w.version)
        /\ GoOn(h, [w EXCEPT !.policyId = newest(m), !.policy = {}])
    BY <1>1, <1>2 DEF CreatePolicy, OnlyLedger, tables
  <1>4. TablesInv /\ h \in Handlers /\ Requests /\ u = w.user /\ IsSeq(ledger)
    BY <1>1 DEF Own, TablesInv, Ledger
  <1>5. /\ w.todo \in Seq(Calls) /\ w.todo # <<>> /\ Head(w.todo) = "createPolicy"
        /\ SavesNothing(w.todo) \/ \E k \in 1..Len(w.todo) : SavesAt(w.todo, k)
    BY <1>1, <1>3, <1>4, OwnIs
  <1>6. PICK k \in 2..5 : k = 3 /\ SavesAt(w.todo, k)
    BY <1>5, SaveCallAt
  <1>7. k \in 1..5 /\ SavesAt(handler[h].todo, k)
    BY <1>1, <1>6
  <1>8. /\ w.id = id /\ IsRequest(w) /\ Shape(w.todo)
        /\ Fine(w, ledger, u, id, R, intents, agentRows)
    BY <1>1, <1>3, <1>7, SaverRow
  <1>9. /\ InOrder(R) /\ OneProfile(ledger, u) /\ Above(w.version, R) /\ NoneActive(R)
        /\ Older(ledger, u, w.version)
    <2>1. k <= 4 /\ k <= 3 /\ k = 3
      BY <1>6
    <2> QED BY <1>5, <1>6, <1>7, <1>8, <2>1, SavingIs
  <1>10. PICK r : r = [w EXCEPT !.policyId = newest(m), !.policy = {}]
    OBVIOUS
  <1>11. IsRequest(r) /\ r.id = id /\ r.version = w.version /\ r.policyId = newest(m)
    BY <1>8, <1>10 DEF IsRequest
  <1>12. Newest(m, u, r.policyId, r.version) /\ OneProfile(m, u)
    <2>1. m = createPayrollPolicy(ledger, u, w.policy, w.version)
      BY <1>3, <1>4
    <2> QED BY <1>4, <1>9, <1>11, <2>1, NewestCreated
  <1>13. Fine(goneOn(w, 1, r), m, u, id, R, intents, agentRows)
    <2>1. k # 4 /\ k # 5
      BY <1>6
    <2>2. Above(r.version, R)
      BY <1>9, <1>11
    <2> QED BY <1>5, <1>6, <1>8, <1>9, <1>11, <1>12, <2>1, <2>2, SavingFine
  <1>14. handler'[h] = goneOn(w, 1, r)
    <2>1. Skip(h, 1, r)
      BY <1>3, <1>10 DEF GoOn
    <2> QED BY <1>1, <1>4, <2>1, SkipIs
  <1>15. R = rowsOf(userIds[u])' /\ id = userIds'[u]
    BY <1>1, <1>3 DEF rowsOf
  <1>16. PICK x : x = handler'[h]
    OBVIOUS
  <1>17. Fine(x, ledger', u, id, R, intents', agentRows')
    BY <1>2, <1>3, <1>13, <1>14, <1>16
  <1> QED BY <1>15, <1>16, <1>17, OwnFineNext

LEMMA OwnCachePolicy ==
    ASSUME NEW u, NEW h, Own(u, h), CachePolicy(h) PROVE OwnFine(u, h)'
  <1>1. PICK w, id, R : w = handler[h] /\ id = userIds[u] /\ R = rowsOf(userIds[u])
    OBVIOUS
  <1>2. PICK new : new = [nr |-> nextId, user |-> w.id, contract |-> w.policyId,
                          version |-> w.version, active |-> TRUE]
    OBVIOUS
  <1>3. /\ userIds' = userIds /\ ledger' = ledger
        /\ intents' = intents /\ agentRows' = agentRows /\ At(h, "cachePolicy")
        /\ hasUser(h) => policyRows' = policyRows \cup {new} /\ Proceed(h)
    BY <1>1, <1>2 DEF CachePolicy, OnlyTables
  <1>4. TablesInv /\ h \in Handlers /\ Rows /\ Requests /\ u = w.user
    BY <1>1 DEF Own, TablesInv
  <1>5. /\ w.todo \in Seq(Calls) /\ w.todo # <<>> /\ Head(w.todo) = "cachePolicy"
        /\ SavesNothing(w.todo) \/ \E k \in 1..Len(w.todo) : SavesAt(w.todo, k)
    BY <1>1, <1>3, <1>4, OwnIs
  <1>6. PICK k \in 1..5 : k = 1 /\ SavesAt(w.todo, k)
    BY <1>5, SaveCallAt
  <1>7. SavesAt(handler[h].todo, k)
    BY <1>1, <1>6
  <1>8. /\ w.id = id /\ IsRequest(w) /\ Shape(w.todo)
        /\ Fine(w, ledger, u, id, R, intents, agentRows)
    BY <1>1, <1>3, <1>7, SaverRow
  <1>9. /\ InOrder(R) /\ OneProfile(ledger, u) /\ Above(w.version, R) /\ NoneActive(R)
        /\ policiesOf(ledger, u) = {} \/ Newest(ledger, u, w.policyId, w.version)
    <2>1. k <= 4 /\ k <= 3 /\ k <= 2
      BY <1>6
    <2> QED BY <1>5, <1>6, <1>8, <2>1, SavingIs
  <1>10. policyRows' = policyRows \cup {new} /\ Proceed(h)
    BY <1>1, <1>3, <1>4, <1>8 DEF hasUser
  <1>11. PICK S : S = R \cup {new}
    OBVIOUS
  <1>12. new.active = TRUE /\ new.version = w.version /\ new.contract = w.policyId
         /\ new.user = id
    BY <1>2, <1>8
  <1>13. InOrder(S)
    <2>1. ASSUME NEW a \in S, a.active, NEW r \in S
          PROVE  r.version <= a.version /\ (r.active => r = a)
      <3>1. a = new
        BY <1>9, <1>11, <2>1 DEF NoneActive
      <3>2. CASE r = new
        <4>1. w.version \in Nat
          BY <1>1, <1>4 DEF Requests, Fits, Rows
        <4> QED BY <1>12, <3>1, <3>2, <4>1
      <3>3. CASE r \in R
        <4>1. ~r.active /\ r.version < w.version
          BY <1>9, <3>3 DEF NoneActive, Above
        <4>2. r.version \in Int /\ w.version \in Int
          BY <1>1, <1>4, <3>3 DEF Rows, rowsOf, Requests, Fits
        <4> QED BY <1>12, <3>1, <4>1, <4>2
      <3> QED BY <1>11, <3>2, <3>3
    <2> QED BY <2>1 DEF InOrder
  <1>14. Settled(ledger, u, S)
    BY <1>9, <1>11, <1>12 DEF Settled
  <1>15. PICK x, rest : x = goneOn(w, 1, w) /\ rest = restOf(w, 1)
    OBVIOUS
  <1>16. Fresh(rest) /\ ~AtProfile(rest)
    <2>1. /\ ~AtProfile(rest) /\ ~ResetsLeft(rest)
          /\ rest # <<>> => Head(rest) \notin ResetCalls
          /\ \A i \in 1..4 : SavesAt(rest, i) => i = k - 1
      BY <1>5, <1>6, <1>8, <1>15, SaveRest
    <2>2. ~SavesSoon(rest, 4)
      <3>1. \A i \in 1..4 : i # k - 1
        BY <1>6
      <3> QED BY <2>1, <3>1 DEF SavesSoon
    <2> QED BY <2>1, <2>2 DEF Fresh
  <1>17. x.todo = rest /\ x.id \in {0, id}
    BY <1>8, <1>15, GoneOnIs
  <1>18. Fine(x, ledger, u, id, S, intents, agentRows)
    BY <1>9, <1>13, <1>14, <1>16, <1>17, FreshFine
  <1>19. handler'[h] = x
    <2>1. Skip(h, 1, w)
      BY <1>1, <1>10 DEF Proceed, GoOn
    <2> QED BY <1>1, <1>4, <1>15, <2>1, SkipIs
  <1>20. S = rowsOf(userIds[u])' /\ id = userIds'[u]
    <2>1. id = userIds'[u]
      BY <1>1, <1>3
    <2>2. rowsOf(userIds[u])' = {r \in policyRows \cup {new} : r.user = id}
      BY <1>10, <2>1 DEF rowsOf
    <2>3. R = {r \in policyRows : r.user = id}
      BY <1>1 DEF rowsOf
    <2> QED BY <1>11, <1>12, <2>1, <2>2, <2>3
  <1>21. Fine(x, ledger', u, id, S, intents', agentRows')
    BY <1>3, <1>18
  <1>22. PICK z : z = handler'[h]
    OBVIOUS
  <1>23. Fine(z, ledger', u, id, S, intents', agentRows')
    BY <1>19, <1>21, <1>22
  <1> QED BY <1>20, <1>22, <1>23, OwnFineNext

-----------------------------------------------------------------------------
(* The calls of such a user: a reset                                       *)

\* A call of a reset that leaves the row of the user alone.
LEMMA ResettingStep ==
    ASSUME NEW u, NEW h, Own(u, h), NEW call \in ResetCalls, At(h, call),
           NEW n, MaySkip(handler[h], n), NEW r, IsRequest(r), Skip(h, n, r),
           NEW R, R = rowsOf(userIds[u])', InOrder(R), ledger' = ledger,
           NEW x, x = goneOn(handler[h], n, r),
           ResetFine(x, userIds'[u], R, intents', agentRows'), restOf(handler[h], n) # <<>>
    PROVE  OwnFine(u, h)'
  <1>1. PICK w, id : w = handler[h] /\ id = userIds'[u]
    OBVIOUS
  <1>2. /\ TablesInv /\ h \in Handlers /\ Shape(w.todo) /\ OwnFine(u, h) /\ Requests
    BY <1>1 DEF Own, TablesInv
  <1>3. w.todo \in Seq(Calls) /\ w.todo # <<>> /\ Head(w.todo) = call
    BY <1>1, <1>2, OwnIs
  <1>4. ResetsLeft(w.todo)
    <2>1. 1 \in 1..Len(w.todo) /\ Head(w.todo) = w.todo[1]
      BY <1>3
    <2> QED BY <1>2, <1>3, <2>1 DEF Shape
  <1>5. OneProfile(ledger, u)
    BY <1>2 DEF OwnFine, FineNow, Fine
  <1>6. n \in {1, 2, 5}
    BY DEF MaySkip
  <1>7. PICK ints, agents : ints = intents' /\ agents = agentRows'
    OBVIOUS
  <1>8. ResetFine(goneOn(w, n, r), id, R, ints, agents) /\ restOf(w, n) # <<>>
    BY <1>1, <1>7
  <1>9. Fine(goneOn(w, n, r), ledger, u, id, R, ints, agents)
    BY <1>2, <1>3, <1>4, <1>5, <1>6, <1>8, ResettingFine
  <1>10. handler'[h] = goneOn(w, n, r)
    BY <1>1, <1>2, SkipIs
  <1>11. PICK y : y = handler'[h]
    OBVIOUS
  <1>12. Fine(y, ledger', u, id, R, intents', agentRows')
    BY <1>7, <1>9, <1>10, <1>11
  <1> QED BY <1>1, <1>11, <1>12, OwnFineNext

\* What is known at a call of a reset, and of the next.
LEMMA AtReset ==
    ASSUME NEW u, NEW h, Own(u, h), NEW call \in ResetCalls, At(h, call),
           NEW w, w = handler[h], NEW rest, rest = restOf(w, 1)
    PROVE  /\ u \in Users /\ u = w.user /\ IsRequest(w) /\ MaySkip(w, 1)
           /\ w.todo \in Seq(Calls) /\ w.todo # <<>> /\ Head(w.todo) = call /\ ResetsLeft(w.todo)
           /\ InOrder(rowsOf(userIds[u]))
           /\ ResetFine(w, userIds[u], rowsOf(userIds[u]), intents, agentRows)
           /\ rest = <<>> <=> call = "resetLedger"
           /\ call = "findUser" => Head(rest) = "deleteAgentActions"
           /\ call = "deleteAgentActions" => Head(rest) = "deleteIntents"
           /\ call = "deleteIntents" => Head(rest) = "deletePolicies"
           /\ call = "deletePolicies" => Head(rest) = "deleteUser"
           /\ call = "deleteUser" => Head(rest) = "deleteDemoParties"
           /\ call = "deleteDemoParties" => Head(rest) = "resetLedger"
  <1>1. /\ TablesInv /\ h \in Handlers /\ Shape(w.todo) /\ OwnFine(u, h) /\ u = w.user
    BY DEF Own
  <1>2. /\ IsRequest(w) /\ MaySkip(w, 1) /\ w.todo \in Seq(Calls) /\ w.todo # <<>>
        /\ w.user \in Users /\ Head(w.todo) = call
    BY <1>1, OwnIs
  <1>3. ResetsLeft(w.todo)
    <2>1. 1 \in 1..Len(w.todo) /\ Head(w.todo) = w.todo[1]
      BY <1>2
    <2> QED BY <1>1, <1>2, <2>1 DEF Shape
  <1>4. /\ InOrder(rowsOf(userIds[u]))
        /\ ResetFine(w, userIds[u], rowsOf(userIds[u]), intents, agentRows)
    BY <1>1 DEF OwnFine, FineNow, Fine
  <1>5. PICK todo : todo = w.todo
    OBVIOUS
  <1>6. todo \in Seq(Calls) /\ ResetsLeft(todo) /\ rest = SubSeq(todo, 2, Len(todo))
        /\ Head(todo) = call
    <2>1. 1 + 1 = 2
      OBVIOUS
    <2> QED BY <1>2, <1>3, <1>5, <2>1 DEF restOf
  <1>7. /\ rest = <<>> <=> Head(todo) = "resetLedger"
        /\ Head(todo) = "findUser" => Head(rest) = "deleteAgentActions"
        /\ Head(todo) = "deleteAgentActions" => Head(rest) = "deleteIntents"
        /\ Head(todo) = "deleteIntents" => Head(rest) = "deletePolicies"
        /\ Head(todo) = "deletePolicies" => Head(rest) = "deleteUser"
        /\ Head(todo) = "deleteUser" => Head(rest) = "deleteDemoParties"
        /\ Head(todo) = "deleteDemoParties" => Head(rest) = "resetLedger"
    BY <1>6, ResetNext
  <1> QED BY <1>1, <1>2, <1>3, <1>4, <1>6, <1>7

LEMMA OwnFindUser ==
    ASSUME NEW u, NEW h, Own(u, h), FindUser(h) PROVE OwnFine(u, h)'
  <1>1. PICK w, id, R, rest, call : /\ w = handler[h] /\ id = userIds[u] /\ R = rowsOf(userIds[u])
                                    /\ rest = restOf(w, 1) /\ call = "findUser"
    OBVIOUS
  <1>2. call \in ResetCalls
    BY <1>1 DEF ResetCalls
  <1>3. u = handler[h].user
    BY DEF Own
  <1>4. /\ userIds' = userIds /\ policyRows' = policyRows /\ ledger' = ledger
        /\ intents' = intents /\ agentRows' = agentRows /\ At(h, call)
        /\ IF id = 0 THEN Skip(h, 5, w) ELSE GoOn(h, [w EXCEPT !.id = id])
    BY <1>1, <1>3 DEF FindUser, Unchanged, tables
  <1>5. /\ IsRequest(w) /\ MaySkip(w, 1) /\ Head(w.todo) = call /\ InOrder(R) /\ ResetsLeft(w.todo)
        /\ w.todo \in Seq(Calls) /\ w.todo # <<>> /\ rest # <<>>
        /\ Head(rest) = "deleteAgentActions"
    BY <1>1, <1>2, <1>4, AtReset
  <1>6. R = rowsOf(userIds[u])' /\ id = userIds'[u]
    BY <1>1, <1>4 DEF rowsOf
  <1>7. CASE id = 0
    <2>1. PICK todo, last : todo = w.todo /\ last = SubSeq(todo, 6, Len(todo))
      OBVIOUS
    <2>2. last # <<>> /\ Head(last) = "deleteDemoParties"
      BY <1>1, <1>5, <2>1, ResetSkipped
    <2>3. restOf(w, 5) = last
      <3>1. 5 + 1 = 6
        OBVIOUS
      <3> QED BY <2>1, <3>1 DEF restOf
    <2>4. PICK x : x = goneOn(w, 5, w)
      OBVIOUS
    <2>5. x.todo = last
      BY <1>5, <2>3, <2>4, GoneOnIs
    <2>6. ResetFine(x, id, R, intents, agentRows)
      BY <2>2, <2>5 DEF ResetFine
    <2>7. MaySkip(w, 5)
      BY <1>1, <1>5 DEF MaySkip
    <2>8. /\ ResetFine(x, userIds'[u], R, intents', agentRows') /\ Skip(h, 5, w)
          /\ x = goneOn(handler[h], 5, w) /\ restOf(handler[h], 5) # <<>> /\ MaySkip(handler[h], 5)
      BY <1>1, <1>4, <1>6, <1>7, <2>2, <2>3, <2>4, <2>6, <2>7
    <2> QED BY <1>2, <1>4, <1>5, <1>6, <2>8, ResettingStep
  <1>8. CASE id # 0
    <2>1. PICK r : r = [w EXCEPT !.id = id]
      OBVIOUS
    <2>2. IsRequest(r) /\ r.id = id
      BY <1>5, <2>1 DEF IsRequest
    <2>3. PICK x : x = goneOn(w, 1, r)
      OBVIOUS
    <2>4. x.todo = rest /\ x.id = id
      BY <1>1, <1>5, <2>2, <2>3, GoneOnIs
    <2>5. ResetFine(x, id, R, intents, agentRows)
      BY <1>5, <2>4 DEF ResetFine
    <2>6. /\ ResetFine(x, userIds'[u], R, intents', agentRows') /\ Skip(h, 1, r)
          /\ x = goneOn(handler[h], 1, r) /\ restOf(handler[h], 1) # <<>> /\ MaySkip(handler[h], 1)
      BY <1>1, <1>4, <1>5, <1>6, <1>8, <2>1, <2>3, <2>5 DEF GoOn
    <2> QED BY <1>2, <1>4, <1>5, <1>6, <2>2, <2>6, ResettingStep
  <1> QED BY <1>7, <1>8

\* A call of a reset after which the next follows.
LEMMA ResetGoesOn ==
    ASSUME NEW u, NEW h, Own(u, h), NEW call \in ResetCalls, At(h, call), call # "resetLedger",
           Proceed(h), ledger' = ledger,
           NEW w, w = handler[h], NEW rest, rest = restOf(w, 1),
           NEW R, R = rowsOf(userIds[u])', InOrder(R),
           \A x : x.todo = rest /\ x.id = w.id =>
                      ResetFine(x, userIds'[u], R, intents', agentRows')
    PROVE  OwnFine(u, h)'
  <1>1. IsRequest(w) /\ MaySkip(w, 1) /\ rest # <<>>
    BY AtReset
  <1>2. PICK x : x = goneOn(w, 1, w)
    OBVIOUS
  <1>3. x.todo = rest /\ x.id = w.id
    BY <1>1, <1>2, GoneOnIs
  <1>4. ResetFine(x, userIds'[u], R, intents', agentRows')
    BY <1>3
  <1>5. /\ Skip(h, 1, w) /\ x = goneOn(handler[h], 1, w) /\ restOf(handler[h], 1) # <<>>
        /\ MaySkip(handler[h], 1)
    BY <1>1, <1>2 DEF Proceed, GoOn
  <1> QED BY <1>1, <1>4, <1>5, ResettingStep

LEMMA OwnDeleteRows ==
    ASSUME NEW u, NEW h, Own(u, h), DeleteRows(h) PROVE OwnFine(u, h)'
  <1>1. PICK w, id, R, rest : /\ w = handler[h] /\ id = userIds[u] /\ R = rowsOf(userIds[u])
                              /\ rest = restOf(w, 1)
    OBVIOUS
  <1>2. PICK call : /\ call \in {"deleteAgentActions", "deleteIntents", "deletePolicies"}
                    /\ At(h, call)
    BY DEF DeleteRows
  <1>3. call \in ResetCalls /\ call # "resetLedger"
    BY <1>2 DEF ResetCalls
  <1>4. /\ Head(w.todo) = call /\ w.todo # <<>> /\ InOrder(R)
        /\ ResetFine(w, id, R, intents, agentRows)
        /\ call = "deleteAgentActions" => Head(rest) = "deleteIntents"
        /\ call = "deleteIntents" => Head(rest) = "deletePolicies"
        /\ call = "deletePolicies" => Head(rest) = "deleteUser"
    BY <1>1, <1>2, <1>3, AtReset
  <1>5. w.id = id
    BY <1>2, <1>4 DEF ResetFine
  <1>6. /\ Proceed(h) /\ ledger' = ledger /\ userIds' = userIds
        /\ \/ /\ call = "deleteAgentActions" /\ agentRows' = agentRows \ {id}
              /\ intents' = intents /\ policyRows' = policyRows
           \/ /\ call = "deleteIntents" /\ intents' = {i \in intents : i.user # id}
              /\ agentRows' = agentRows /\ policyRows' = policyRows
           \/ /\ call = "deletePolicies" /\ policyRows' = policyRows \ R
              /\ agentRows' = agentRows /\ intents' = intents
    BY <1>1, <1>2, <1>4, <1>5 DEF DeleteRows, At, OnlyTables
  <1>7. PICK S, ints, agents : /\ S = {r \in policyRows' : r.user = id}
                               /\ ints = intents' /\ agents = agentRows'
    OBVIOUS
  <1>8. S = rowsOf(userIds[u])' /\ id = userIds'[u]
    BY <1>1, <1>6, <1>7 DEF rowsOf
  <1>9. S \subseteq R
    BY <1>1, <1>6, <1>7 DEF rowsOf
  <1>10. InOrder(S)
    BY <1>4, <1>9 DEF InOrder
  <1>11. call = "deletePolicies" => S = {}
    BY <1>1, <1>6, <1>7 DEF rowsOf
  <1>12. ASSUME NEW x, x.todo = rest, x.id = w.id
         PROVE  ResetFine(x, userIds'[u], S, intents', agentRows')
    <2>1. CASE call = "deleteAgentActions"
      <3>1. id \notin agents /\ Head(rest) = "deleteIntents"
        BY <1>4, <1>6, <1>7, <2>1
      <3>2. ResetFine(x, id, S, ints, agents)
        BY <1>5, <1>12, <3>1 DEF ResetFine
      <3> QED BY <1>7, <1>8, <3>2
    <2>2. CASE call = "deleteIntents"
      <3>1. id \notin agentRows
        BY <1>4, <2>2 DEF ResetFine
      <3>2. id \notin agents /\ (\A i \in ints : i.user # id) /\ Head(rest) = "deletePolicies"
        BY <1>4, <1>6, <1>7, <2>2, <3>1
      <3>3. ResetFine(x, id, S, ints, agents)
        BY <1>5, <1>12, <3>2 DEF ResetFine
      <3> QED BY <1>7, <1>8, <3>3
    <2>3. CASE call = "deletePolicies"
      <3>1. id \notin agentRows /\ \A i \in intents : i.user # id
        BY <1>4, <2>3 DEF ResetFine
      <3>2. id \notin agents /\ (\A i \in ints : i.user # id) /\ Head(rest) = "deleteUser"
        BY <1>4, <1>6, <1>7, <2>3, <3>1
      <3>3. ResetFine(x, id, S, ints, agents)
        BY <1>5, <1>11, <1>12, <2>3, <3>2 DEF ResetFine
      <3> QED BY <1>7, <1>8, <3>3
    <2> QED BY <1>2, <2>1, <2>2, <2>3
  <1> QED BY <1>1, <1>2, <1>3, <1>6, <1>8, <1>10, <1>12, ResetGoesOn

LEMMA OwnDeleteUser ==
    ASSUME NEW u, NEW h, Own(u, h), DeleteUser(h) PROVE OwnFine(u, h)'
  <1>1. PICK w, id, R, rest, call : /\ w = handler[h] /\ id = userIds[u] /\ R = rowsOf(userIds[u])
                                    /\ rest = restOf(w, 1) /\ call = "deleteUser"
    OBVIOUS
  <1>2. call \in ResetCalls /\ call # "resetLedger"
    BY <1>1 DEF ResetCalls
  <1>3. At(h, call)
    BY <1>1 DEF DeleteUser
  <1>4. /\ Head(w.todo) = call /\ w.todo # <<>> /\ u \in Users /\ u = w.user
        /\ ResetFine(w, id, R, intents, agentRows) /\ Head(rest) = "deleteDemoParties"
    BY <1>1, <1>2, <1>3, AtReset
  <1>5. w.id = id /\ id \notin agentRows /\ R = {} /\ \A i \in intents : i.user # id
    BY <1>1, <1>4 DEF ResetFine
  <1>6. Rows
    BY DEF Own, TablesInv
  <1>7. /\ userIds' = [userIds EXCEPT ![u] = 0] /\ Proceed(h) /\ ledger' = ledger
        /\ policyRows' = policyRows
    BY <1>1, <1>4, <1>5 DEF DeleteUser, OnlyTables, hasUser
  <1>8. userIds'[u] = 0
    BY <1>4, <1>6, <1>7 DEF Rows
  <1>9. PICK S : S = {}
    OBVIOUS
  <1>10. S = rowsOf(userIds[u])'
    <2>1. rowsOf(userIds[u])' = rowsOf(0)
      BY <1>7, <1>8 DEF rowsOf
    <2>2. rowsOf(0) = {}
      BY <1>6, NoRows
    <2> QED BY <1>9, <2>1, <2>2
  <1>11. InOrder(S)
    BY <1>9 DEF InOrder
  <1>12. ASSUME NEW x, x.todo = rest, x.id = w.id
         PROVE  ResetFine(x, userIds'[u], S, intents', agentRows')
    BY <1>4, <1>12 DEF ResetFine
  <1> QED BY <1>1, <1>2, <1>3, <1>7, <1>10, <1>11, <1>12, ResetGoesOn

LEMMA OwnDeleteDemoParties ==
    ASSUME NEW u, NEW h, Own(u, h), DeleteDemoParties(h) PROVE OwnFine(u, h)'
  <1>1. PICK w, R, rest, call : /\ w = handler[h] /\ R = rowsOf(userIds[u])
                                /\ rest = restOf(w, 1) /\ call = "deleteDemoParties"
    OBVIOUS
  <1>2. call \in ResetCalls /\ call # "resetLedger"
    BY <1>1 DEF ResetCalls
  <1>3. At(h, call) /\ Proceed(h) /\ ledger' = ledger /\ R = rowsOf(userIds[u])'
    <2>1. At(h, call) /\ Proceed(h) /\ ledger' = ledger
      BY <1>1 DEF DeleteDemoParties, OnlyTables
    <2>2. userIds' = userIds /\ policyRows' = policyRows
      BY DEF DeleteDemoParties
    <2>3. R = rowsOf(userIds[u])'
      BY <1>1, <2>2 DEF rowsOf
    <2> QED BY <2>1, <2>3
  <1>3a. At(h, call)
    BY <1>3
  <1>4. Head(rest) = "resetLedger" /\ InOrder(R)
    BY <1>1, <1>2, <1>3a, AtReset
  <1>5. ASSUME NEW x, x.todo = rest, x.id = w.id
        PROVE  ResetFine(x, userIds'[u], R, intents', agentRows')
    BY <1>4, <1>5 DEF ResetFine
  <1> QED BY <1>1, <1>2, <1>3, <1>4, <1>5, ResetGoesOn

\* A ledger without contracts shows nothing.
LEMMA NothingSeen ==
    ASSUME NEW l, l = EmptyLedger, NEW u
    PROVE  policiesOf(l, u) = {} /\ profilesOf(l, u) = {}
  <1>1. DOMAIN l = {}
    BY DEF EmptyLedger
  <1> QED BY <1>1 DEF policiesOf, profilesOf, query

LEMMA OwnResetLedger ==
    ASSUME NEW u, NEW h, Own(u, h), ResetLedger(h) PROVE OwnFine(u, h)'
  <1>1. PICK w, id, R, rest, call : /\ w = handler[h] /\ id = userIds[u] /\ R = rowsOf(userIds[u])
                                    /\ rest = restOf(w, 1) /\ call = "resetLedger"
    OBVIOUS
  <1>2. call \in ResetCalls
    BY <1>1 DEF ResetCalls
  <1>3. PICK m : m = ledger'
    OBVIOUS
  <1>4. /\ At(h, call) /\ Proceed(h) /\ m = EmptyLedger /\ R = rowsOf(userIds[u])'
        /\ id = userIds'[u]
    <2>1. At(h, call) /\ Proceed(h) /\ m = EmptyLedger
      BY <1>1, <1>3 DEF ResetLedger
    <2>2. userIds' = userIds /\ policyRows' = policyRows
      BY DEF ResetLedger, OnlyLedger, tables
    <2>3. R = rowsOf(userIds[u])' /\ id = userIds'[u]
      BY <1>1, <2>2 DEF rowsOf
    <2> QED BY <2>1, <2>3
  <1>4a. At(h, call)
    BY <1>4
  <1>5. rest = <<>> /\ InOrder(R)
    BY <1>1, <1>2, <1>4a, AtReset
  <1>6. Requests /\ h \in Handlers
    BY DEF Own, TablesInv
  <1>7. handler'[h] = Idle
    <2>1. Skip(h, 1, w)
      BY <1>1, <1>4 DEF Proceed, GoOn
    <2>2. handler'[h] = goneOn(w, 1, w)
      BY <1>1, <1>6, <2>1, SkipIs
    <2> QED BY <1>1, <1>5, <2>2 DEF goneOn
  <1>8. OneProfile(m, u) /\ Settled(m, u, R)
    BY <1>4, NothingSeen DEF OneProfile, Settled
  <1>9. PICK ints, agents : ints = intents' /\ agents = agentRows'
    OBVIOUS
  <1>10. Fine(Idle, m, u, id, R, ints, agents)
    BY <1>5, <1>8, IdleFine
  <1>11. PICK x : x = handler'[h]
    OBVIOUS
  <1>12. Fine(x, ledger', u, id, R, intents', agentRows')
    BY <1>3, <1>7, <1>9, <1>10, <1>11
  <1> QED BY <1>4, <1>11, <1>12, OwnFineNext

\* The calls of the one request of a user keep it so.
LEMMA OwnStep ==
    ASSUME NEW u, NEW h, Own(u, h), Step(h) PROVE OwnFine(u, h)'
  <1>1. CASE \/ getRequiredUser(h) \/ ensureDemoParties(h) \/ GetPendingAction(h)
             \/ OpenAgentRow(h) \/ NameCredit(h)
    BY <1>1, OwnPlainCall
  <1>2. CASE CreateNotice(h) \/ CreateCredit(h) \/ CreateAudit(h)
    BY <1>2, OwnLedgerCall
  <1>3. CASE CreateIntent(h) \/ FindCredit(h)
    BY <1>3, OwnIntentCall
  <1>4. CASE \/ CollectActions(h) \/ ApprovePendingAction(h) \/ RejectPendingAction(h)
             \/ ExecuteApprovedAction(h)
    BY <1>4, OwnActionCall
  <1>5. CASE LoadPolicyAndCredit(h) \/ CreateRun(h) \/ ExecuteRun(h)
    BY <1>5, OwnRunCall
  <1>6. CASE UpsertUser(h) \/ QueryProfile(h) \/ CreateProfile(h) \/ RecordCantonContract(h)
    BY <1>6, OwnUpsertUser, OwnQueryProfile, OwnCreateProfile, OwnRecord
  <1>7. CASE LatestPolicy(h) \/ Deactivate(h) \/ CreatePolicy(h) \/ CachePolicy(h)
    BY <1>7, OwnLatestPolicy, OwnDeactivate, OwnCreatePolicy, OwnCachePolicy
  <1>8. CASE FindUser(h) \/ DeleteRows(h) \/ DeleteUser(h) \/ DeleteDemoParties(h) \/ ResetLedger(h)
    BY <1>8, OwnFindUser, OwnDeleteRows, OwnDeleteUser, OwnDeleteDemoParties, OwnResetLedger
  <1> QED BY <1>1, <1>2, <1>3, <1>4, <1>5, <1>6, <1>7, <1>8 DEF Step

-----------------------------------------------------------------------------
(* The calls of others                                                     *)

\* Of user v: the row is the same, and so are the rows of policies; nothing was added to it.
Untouched(v) ==
    /\ userIds'[v] = userIds[v]
    /\ rowsOf(userIds[v])' = rowsOf(userIds[v])
    /\ userIds[v] \notin agentRows => userIds[v] \notin agentRows'
    /\ (\A i \in intents : i.user # userIds[v]) => \A i \in intents' : i.user # userIds[v]

LEMMA UntouchedBy ==
    ASSUME NEW v, userIds'[v] = userIds[v], NEW id, id = userIds[v],
           \A r : r.user = id => (r \in policyRows' <=> r \in policyRows),
           id \in agentRows' => id \in agentRows,
           \A i \in intents' : i.user = id => \E j \in intents : j.user = id
    PROVE  Untouched(v)
  <1>1. rowsOf(userIds[v])' = {r \in policyRows' : r.user = id}
    BY DEF rowsOf
  <1>2. rowsOf(userIds[v]) = {r \in policyRows : r.user = id}
    BY DEF rowsOf
  <1>3. {r \in policyRows' : r.user = id} = {r \in policyRows : r.user = id}
    OBVIOUS
  <1> QED BY <1>1, <1>2, <1>3 DEF Untouched

LEMMA UntouchedSame ==
    ASSUME NEW v, userIds'[v] = userIds[v], policyRows' = policyRows, intents' = intents,
           agentRows' = agentRows
    PROVE  Untouched(v)
  <1>1. PICK id : id = userIds[v]
    OBVIOUS
  <1> QED BY <1>1, UntouchedBy

\* The row another request has is not that of v.
LEMMA OtherRow ==
    ASSUME TablesInv, NEW h \in Handlers, NEW call, At(h, call), NEW v \in Users,
           v # handler[h].user, NEW id, id = userIds[v]
    PROVE  /\ handler[h].id # id \/ (id = 0 /\ call \notin RowCalls)
           /\ rowsOf(0) = {}
  <1>1. Requests /\ Rows
    BY DEF TablesInv
  <1>2. PICK w : w = handler[h]
    OBVIOUS
  <1>3. /\ w.id # 0 => \A u \in Users : userIds[u] = w.id => u = w.user
        /\ call \in RowCalls => w.id # 0
    BY <1>1, <1>2, AtCall
  <1>4. rowsOf(0) = {}
    BY <1>1, NoRows
  <1> QED BY <1>2, <1>3, <1>4

LEMMA UntouchedPlain ==
    ASSUME NEW h, NEW v,
           \/ getRequiredUser(h) \/ ensureDemoParties(h) \/ RecordCantonContract(h)
           \/ QueryProfile(h) \/ CreateProfile(h) \/ LatestPolicy(h) \/ CreatePolicy(h)
           \/ CreateNotice(h) \/ CreateCredit(h) \/ CreateAudit(h)
           \/ LoadPolicyAndCredit(h) \/ CreateRun(h) \/ ExecuteRun(h) \/ CollectActions(h)
           \/ ApprovePendingAction(h) \/ RejectPendingAction(h) \/ GetPendingAction(h)
           \/ ExecuteApprovedAction(h) \/ FindUser(h) \/ DeleteDemoParties(h) \/ ResetLedger(h)
    PROVE  Untouched(v)
  <1>1. /\ userIds' = userIds /\ policyRows' = policyRows /\ intents' = intents
        /\ agentRows' = agentRows
    BY DEF getRequiredUser, ensureDemoParties, RecordCantonContract, QueryProfile, CreateProfile,
           LatestPolicy, CreatePolicy, CreateNotice, CreateCredit, CreateAudit,
           LoadPolicyAndCredit, CreateRun, ExecuteRun, CollectActions, ApprovePendingAction,
           RejectPendingAction, GetPendingAction, ExecuteApprovedAction, Exercise, FindUser,
           DeleteDemoParties, ResetLedger, Unchanged, OnlyLedger, tables
  <1> QED BY <1>1, UntouchedSame

LEMMA UntouchedUser ==
    ASSUME TablesInv, NEW h \in Handlers, NEW v \in Users, v # handler[h].user,
           UpsertUser(h) \/ DeleteUser(h)
    PROVE  Untouched(v)
  <1>1. /\ policyRows' = policyRows /\ intents' = intents /\ agentRows' = agentRows
        /\ \E id : userIds' = [userIds EXCEPT ![handler[h].user] = id] \/ userIds' = userIds
    BY DEF UpsertUser, DeleteUser
  <1>2. userIds'[v] = userIds[v]
    BY <1>1 DEF TablesInv, Rows
  <1> QED BY <1>1, <1>2, UntouchedSame

LEMMA UntouchedPolicies ==
    ASSUME TablesInv, NEW h \in Handlers, NEW v \in Users, v # handler[h].user,
           Deactivate(h) \/ CachePolicy(h)
    PROVE  Untouched(v)
  <1>1. PICK w, id : w = handler[h] /\ id = userIds[v]
    OBVIOUS
  <1>2. userIds' = userIds /\ intents' = intents /\ agentRows' = agentRows
    BY DEF Deactivate, CachePolicy
  <1>3. Rows
    BY DEF TablesInv
  <1>4. ASSUME NEW r, r.user = id PROVE r \in policyRows' <=> r \in policyRows
    <2>1. CASE Deactivate(h)
      <3>1. PICK call : call = "deactivate" /\ At(h, call)
        BY <2>1 DEF Deactivate
      <3>2. w.id # id \/ rowsOf(w.id) = {}
        BY <1>1, <3>1, OtherRow
      <3>3. PICK old : old = activeRows(w.id)
        OBVIOUS
      <3>4. PICK off : off = {[row EXCEPT !.active = FALSE] : row \in old}
        OBVIOUS
      <3>5. policyRows' = (policyRows \ old) \cup off
        BY <1>1, <2>1, <3>3, <3>4 DEF Deactivate
      <3>6. \A row \in old : row.user = w.id /\ w.id # id /\ IsPolicyRow(row)
        BY <1>3, <3>2, <3>3 DEF activeRows, rowsOf, Rows
      <3>7. ASSUME NEW row \in old, r = [row EXCEPT !.active = FALSE] PROVE FALSE
        <4>1. row.user = w.id /\ w.id # id /\ IsPolicyRow(row)
          BY <3>6
        <4>2. r.user = row.user
          BY <3>7, <4>1 DEF IsPolicyRow
        <4> QED BY <1>4, <4>1, <4>2
      <3>8. r \notin off
        BY <3>4, <3>7
      <3>9. r \notin old
        BY <1>4, <3>6
      <3> QED BY <3>5, <3>8, <3>9
    <2>2. CASE CachePolicy(h)
      <3>1. PICK call : call = "cachePolicy" /\ At(h, call)
        BY <2>2 DEF CachePolicy
      <3>2. call \in RowCalls
        BY <3>1 DEF RowCalls
      <3>3. w.id # id
        BY <1>1, <3>1, <3>2, OtherRow
      <3>4. PICK new : new = [nr |-> nextId, user |-> w.id, contract |-> w.policyId,
                              version |-> w.version, active |-> TRUE]
        OBVIOUS
      <3>5. policyRows' = policyRows \/ policyRows' = policyRows \cup {new}
        BY <1>1, <2>2, <3>4 DEF CachePolicy
      <3>6. new.user = w.id
        BY <3>4
      <3> QED BY <1>4, <3>3, <3>5, <3>6
    <2> QED BY <2>1, <2>2
  <1> QED BY <1>1, <1>2, <1>4, UntouchedBy

LEMMA UntouchedIntents ==
    ASSUME TablesInv, NEW h \in Handlers, NEW v \in Users, v # handler[h].user,
           CreateIntent(h) \/ FindCredit(h) \/ NameCredit(h)
    PROVE  Untouched(v)
  <1>1. PICK w, id : w = handler[h] /\ id = userIds[v]
    OBVIOUS
  <1>2. userIds' = userIds /\ policyRows' = policyRows /\ agentRows' = agentRows
    BY DEF CreateIntent, FindCredit, NameCredit
  <1>3. Rows
    BY DEF TablesInv
  <1>4. ASSUME NEW credit, named(h, credit), NEW i \in intents', i.user = id
        PROVE  \E j \in intents : j.user = id
    <2>1. CASE i \in intents
      BY <1>4, <2>1
    <2>2. CASE i \notin intents
      <3>1. PICK j \in ownIntent(h) : i = [j EXCEPT !.credit = credit]
        BY <1>4, <2>2 DEF named
      <3>2. j \in intents /\ IsIntent(j)
        BY <1>3, <3>1 DEF ownIntent, Rows
      <3>3. i.user = j.user
        BY <3>1, <3>2 DEF IsIntent
      <3> QED BY <1>4, <3>2, <3>3
    <2> QED BY <2>1, <2>2
  <1>5. ASSUME CreateIntent(h), NEW i \in intents', i.user = id
        PROVE  \E j \in intents : j.user = id
    <2>1. PICK call : call = "createIntent" /\ At(h, call)
      BY <1>5 DEF CreateIntent
    <2>2. call \in RowCalls
      BY <2>1 DEF RowCalls
    <2>3. w.id # id
      BY <1>1, <2>1, <2>2, OtherRow
    <2>4. PICK new : new = [nr |-> nextId, user |-> w.id, credit |-> NoContract]
      OBVIOUS
    <2>5. intents' = intents \/ intents' = intents \cup {new}
      BY <1>1, <1>5, <2>4 DEF CreateIntent
    <2>6. new.user = w.id
      BY <2>4
    <2> QED BY <1>5, <2>3, <2>5, <2>6
  <1>6. CreateIntent(h) \/ intents' = intents \/ \E credit : named(h, credit)
    BY DEF FindCredit, NameCredit
  <1>7. \A i \in intents' : i.user = id => \E j \in intents : j.user = id
    BY <1>4, <1>5, <1>6
  <1> QED BY <1>1, <1>2, <1>7, UntouchedBy

LEMMA UntouchedAgent ==
    ASSUME TablesInv, NEW h \in Handlers, NEW v \in Users, v # handler[h].user, OpenAgentRow(h)
    PROVE  Untouched(v)
  <1>1. PICK w, id, call : w = handler[h] /\ id = userIds[v] /\ call = "openAgentRow"
    OBVIOUS
  <1>2. /\ userIds' = userIds /\ policyRows' = policyRows /\ intents' = intents /\ At(h, call)
        /\ agentRows' = agentRows \/ agentRows' = agentRows \cup {w.id}
    BY <1>1 DEF OpenAgentRow
  <1>3. call \in RowCalls
    BY <1>1 DEF RowCalls
  <1>4. At(h, call)
    BY <1>2
  <1>5. w.id # id
    BY <1>1, <1>3, <1>4, OtherRow
  <1> QED BY <1>1, <1>2, <1>5, UntouchedBy

LEMMA UntouchedReset ==
    ASSUME TablesInv, NEW h \in Handlers, NEW v \in Users, v # handler[h].user, DeleteRows(h)
    PROVE  Untouched(v)
  <1>1. PICK w, id : w = handler[h] /\ id = userIds[v]
    OBVIOUS
  <1>2. PICK call : At(h, call)
    BY DEF DeleteRows
  <1>3. w.id # id \/ rowsOf(w.id) = {}
    BY <1>1, <1>2, OtherRow
  <1>4. /\ userIds' = userIds
        /\ policyRows' = policyRows \/ policyRows' = policyRows \ rowsOf(w.id)
        /\ agentRows' \subseteq agentRows /\ intents' \subseteq intents
    BY <1>1 DEF DeleteRows
  <1>5. \A r : r.user = id => (r \in policyRows' <=> r \in policyRows)
    BY <1>3, <1>4 DEF rowsOf
  <1> QED BY <1>1, <1>4, <1>5, UntouchedBy

LEMMA StepUntouched ==
    ASSUME TablesInv, NEW h \in Handlers, Step(h), NEW v \in Users, v # handler[h].user
    PROVE  Untouched(v)
  BY UntouchedPlain, UntouchedUser, UntouchedPolicies, UntouchedIntents, UntouchedAgent,
     UntouchedReset DEF Step

LEMMA StepFollows ==
    ASSUME TablesInv, RequestsSound, Ledger(ledger), NEW h \in Handlers, Step(h), NEW v \in Users,
           v # handler[h].user
    PROVE  Follows(ledger, ledger', v) /\ profilesOf(ledger', v) \in {profilesOf(ledger, v), {}}
  <1>1. PICK l, m, u : l = ledger /\ m = ledger' /\ u = handler[h].user
    OBVIOUS
  <1>2. CASE ResetLedger(h)
    <2>1. m = EmptyLedger
      BY <1>1, <1>2 DEF ResetLedger
    <2> QED BY <1>1, <2>1, NothingSeen DEF Follows
  <1>3. CASE Grown(l, m, u, 0)
    <2>1. v # u
      BY <1>1
    <2>2. /\ query(m, "PayrollPolicy", v) = query(l, "PayrollPolicy", v)
          /\ \A id \in query(l, "PayrollPolicy", v) : payload(m, id) = payload(l, id)
      BY <1>3, <2>1, SameQuery
    <2>3. query(m, "UserProfile", v) = query(l, "UserProfile", v)
      BY <1>3, <2>1, SameQuery
    <2> QED BY <1>1, <2>2, <2>3 DEF Follows, policiesOf, profilesOf
  <1> QED BY <1>1, <1>2, <1>3, StepGrows

\* A request of v stays fine.
LEMMA StepOthersFine ==
    ASSUME TablesInv, RequestsSound, Ledger(ledger), NEW h \in Handlers, Step(h), NEW v \in Users,
           v # handler[h].user, NEW w, FineNow(v, w)
    PROVE  FineNow(v, w)'
  <1>1. PICK l, m : l = ledger /\ m = ledger'
    OBVIOUS
  <1>2. Follows(l, m, v) /\ profilesOf(m, v) \in {profilesOf(l, v), {}}
    BY <1>1, StepFollows
  <1>3. PICK id, R : id = userIds[v] /\ R = rowsOf(userIds[v])
    OBVIOUS
  <1>4. PICK ints, ints2, agents, agents2 : /\ ints = intents /\ ints2 = intents'
                                            /\ agents = agentRows /\ agents2 = agentRows'
    OBVIOUS
  <1>5. /\ userIds'[v] = id /\ rowsOf(userIds[v])' = R
        /\ id \notin agents => id \notin agents2
        /\ (\A i \in ints : i.user # id) => \A i \in ints2 : i.user # id
    BY <1>3, <1>4, StepUntouched DEF Untouched
  <1>6. Fine(w, l, v, id, R, ints, agents)
    BY <1>1, <1>3, <1>4 DEF FineNow
  <1>7. Fine(w, m, v, id, R, ints2, agents2)
    BY <1>2, <1>5, <1>6, OthersFine
  <1>8. Fine(w, ledger', v, userIds'[v], rowsOf(userIds[v])', intents', agentRows')
    BY <1>1, <1>4, <1>5, <1>7
  <1> QED BY <1>8 DEF FineNow

LEMMA IdleShape == ASSUME NEW w, w = Idle PROVE Shape(w.todo)
  <1>1. Len(w.todo) = 0
    BY DEF Idle
  <1>2. 1..Len(w.todo) = {}
    BY <1>1
  <1> QED BY <1>2 DEF Shape

LEMMA StepShapes ==
    ASSUME TablesInv, RequestsSound, Ledger(ledger), Shapes, NEW h \in Handlers, Step(h)
    PROVE  Shapes'
  <1>1. PICK r : /\ handler' = [handler EXCEPT ![h] = r]
                 /\ \/ r = Idle
                    \/ \E n \in {1, 2, 5} : r.todo = restOf(handler[h], n) /\ r.todo # <<>>
    BY StepMovesOn DEF MovesOn
  <1>2. Requests
    BY DEF TablesInv
  <1>3. handler'[h] = r /\ \A g \in Handlers \ {h} : handler'[g] = handler[g]
    BY <1>1, <1>2, OthersMove
  <1>4. Shape(r.todo)
    <2>1. CASE r = Idle
      BY <2>1, IdleShape
    <2>2. ASSUME NEW n \in {1, 2, 5}, r.todo = restOf(handler[h], n), r.todo # <<>>
          PROVE  Shape(r.todo)
      <3>1. PICK todo, rest : todo = handler[h].todo /\ rest = r.todo
        OBVIOUS
      <3>2. todo \in Seq(Calls) /\ Shape(todo) /\ rest = SubSeq(todo, n + 1, Len(todo))
            /\ rest # <<>>
        BY <1>2, <2>2, <3>1 DEF Requests, Fits, Shapes, restOf
      <3> QED BY <3>1, <3>2, ShapeRest
    <2> QED BY <1>1, <2>1, <2>2
  <1> QED BY <1>3, <1>4 DEF Shapes

\* Who is served after a step was so before, and nobody else's request changes.
LEMMA StepServing ==
    ASSUME TablesInv, RequestsSound, Ledger(ledger), NEW h \in Handlers, Step(h), NEW v \in Users
    PROVE  /\ h \in serving(handler[h].user)
           /\ serving(v)' \subseteq serving(v)
           /\ \A g \in serving(v) : g # h => handler'[g] = handler[g] /\ g \in serving(v)'
           /\ handler[h].user = v /\ h \notin serving(v)' => handler'[h] = Idle
  <1>1. PICK r : /\ handler' = [handler EXCEPT ![h] = r]
                 /\ r = Idle \/ r.user = handler[h].user
    BY StepMovesOn DEF MovesOn
  <1>2. handler'[h] = r /\ \A g \in Handlers \ {h} : handler'[g] = handler[g]
    BY <1>1, OthersMove DEF TablesInv
  <1>3. \A g : g \in serving(v) <=> g \in Handlers /\ handler[g].user = v
    BY DEF serving
  <1>4. \A g : g \in serving(v)' <=> g \in Handlers /\ handler'[g].user = v
    BY DEF serving
  <1>5. Idle.user # v
    BY DemoUsersAssumption DEF Idle
  <1>6. serving(v)' \subseteq serving(v)
    BY <1>1, <1>2, <1>3, <1>4, <1>5
  <1> QED BY <1>1, <1>2, <1>3, <1>4, <1>6 DEF serving

LEMMA StepSerial ==
    ASSUME TablesInv, RequestsSound, Ledger(ledger), Shapes, NEW h \in Handlers, Step(h),
           NEW v \in Users, Serial(v)
    PROVE  Serial(v)'
  <1>1. /\ serving(v)' \subseteq serving(v)
        /\ \A g \in serving(v) : g # h => handler'[g] = handler[g] /\ g \in serving(v)'
        /\ handler[h].user = v /\ h \notin serving(v)' => handler'[h] = Idle
        /\ handler[h].user = v => h \in serving(v)
    BY StepServing
  <1>2. CASE handler[h].user = v
    <2>1. h \in serving(v) /\ \A g \in serving(v) : g = h
      BY <1>1, <1>2 DEF Serial
    <2>2. Own(v, h)
      BY <1>2, <2>1 DEF Own, OwnFine, Serial, Shapes
    <2>3. OwnFine(v, h)'
      BY <2>2, OwnStep
    <2>4. \A g \in serving(v)' : g = h
      BY <1>1, <2>1
    <2>5. FineNow(v, handler[h])'
      BY <2>3 DEF OwnFine
    <2>6. ASSUME serving(v)' = {} PROVE FineNow(v, Idle)'
      <3>1. handler'[h] = Idle
        BY <1>1, <1>2, <2>6
      <3> QED BY <2>5, <3>1 DEF FineNow
    <2>7. \A g \in serving(v)' : FineNow(v, handler[g])'
      BY <2>4, <2>5
    <2> QED BY <2>4, <2>6, <2>7 DEF Serial
  <1>3. CASE handler[h].user # v
    <2>1. h \notin serving(v)
      BY <1>3 DEF serving
    <2>2. serving(v)' = serving(v) /\ \A g \in serving(v) : handler'[g] = handler[g]
      BY <1>1, <2>1
    <2>3. ASSUME NEW g \in serving(v) PROVE FineNow(v, handler[g])'
      <3>1. PICK w : w = handler[g] /\ w = handler'[g]
        BY <2>2
      <3>2. FineNow(v, w)
        BY <3>1 DEF Serial
      <3>3. FineNow(v, w)'
        BY <1>3, <3>2, StepOthersFine
      <3> QED BY <3>1, <3>3 DEF FineNow
    <2>4. ASSUME serving(v) = {} PROVE FineNow(v, Idle)'
      <3>1. PICK w : w = Idle
        OBVIOUS
      <3>2. FineNow(v, w)'
        BY <1>3, <2>4, <3>1, StepOthersFine DEF Serial
      <3> QED BY <3>1, <3>2
    <2> QED BY <2>2, <2>3, <2>4 DEF Serial
  <1> QED BY <1>2, <1>3

LEMMA StepSerialInv ==
    ASSUME Inv, SerialInv, NEW h \in Handlers, Step(h) PROVE SerialInv'
  <1>1. TablesInv /\ RequestsSound /\ Ledger(ledger) /\ Shapes
    BY DEF Inv, LedgerOK, SerialInv
  <1>2. overlapped' = overlapped /\ cutOff' = cutOff
    BY StepCounters DEF Inv, LedgerOK
  <1>3. \A v \in Users \ (overlapped \cup cutOff) : Serial(v)'
    BY <1>1, StepSerial DEF SerialInv
  <1>4. Shapes'
    BY <1>1, StepShapes
  <1> QED BY <1>2, <1>3, <1>4 DEF SerialInv

-----------------------------------------------------------------------------
(* A request that starts                                                   *)

\* Calls that neither log in nor reset, and those of requests that log in first.
Plain(x) ==
    x \in Seq(Calls) /\ \A j \in 1..Len(x) : x[j] \notin ResetCalls \cup ProfileCalls

LogsIn(x) ==
    /\ x \in Seq(Calls) /\ Len(x) >= 5
    /\ x[1] \in {"upsertUser", "ensureDemoParties"} /\ x[2] \in {"upsertUser", "ensureDemoParties"}
    /\ x[3] = "queryProfile" /\ x[4] = "createProfile" /\ x[5] = "record"
    /\ \A j \in 1..Len(x) : j > 5 => x[j] \notin ResetCalls \cup ProfileCalls

LEMMA PlainMore ==
    ASSUME NEW s, Plain(s) \/ LogsIn(s), NEW t, Plain(t), NEW x, x = s \o t
    PROVE  (Plain(s) => Plain(x)) /\ (LogsIn(s) => LogsIn(x))
  <1>1. s \in Seq(Calls) /\ t \in Seq(Calls)
    BY DEF Plain, LogsIn
  <1>1a. PICK n \in Nat : n = Len(s)
    BY <1>1
  <1>1b. PICK k \in Nat : k = Len(t)
    BY <1>1
  <1>2. n = Len(s) /\ k = Len(t) /\ n \in Nat /\ k \in Nat
    BY <1>1a, <1>1b
  <1>3. /\ x \in Seq(Calls) /\ Len(x) = n + k
        /\ \A j \in 1..n : x[j] = s[j]
        /\ \A j \in 1..(n + k) : j > n => x[j] = t[j - n]
    BY <1>1, <1>2
  <1>4. \A j \in 1..(n + k) : j \notin 1..n => j > n /\ j - n \in 1..k
    BY <1>2
  <1>5. \A j \in 1..(n + k) : j \notin 1..n => x[j] \notin ResetCalls \cup ProfileCalls
    BY <1>2, <1>3, <1>4 DEF Plain
  <1>6. ASSUME Plain(s) PROVE Plain(x)
    BY <1>2, <1>3, <1>5, <1>6 DEF Plain
  <1>7. ASSUME LogsIn(s) PROVE LogsIn(x)
    <2>1. 1 \in 1..n /\ 2 \in 1..n /\ 3 \in 1..n /\ 4 \in 1..n /\ 5 \in 1..n /\ n + k >= 5
      BY <1>2, <1>7 DEF LogsIn
    <2>2. \A j \in 1..(n + k) : j > 5 => x[j] \notin ResetCalls \cup ProfileCalls
      BY <1>2, <1>3, <1>5, <1>7 DEF LogsIn
    <2>3. /\ x[1] = s[1] /\ x[2] = s[2] /\ x[3] = s[3] /\ x[4] = s[4] /\ x[5] = s[5]
      BY <1>3, <2>1
    <2> QED BY <1>3, <1>7, <2>1, <2>2, <2>3 DEF LogsIn
  <1> QED BY <1>6, <1>7

LEMMA PlainShape ==
    ASSUME NEW x, Plain(x), x # <<>>
    PROVE  Shape(x) /\ ~ResetsLeft(x) /\ Head(x) \notin ResetCalls \cup ProfileCalls
  <1>1. x \in Seq(Calls) /\ \A j \in 1..Len(x) : x[j] \notin ResetCalls \cup ProfileCalls
    BY DEF Plain
  <1>2. 1 \in 1..Len(x) /\ Head(x) = x[1]
    BY <1>1
  <1>3. ~ResetsLeft(x)
    BY <1>1, <1>2, ResetsLeftIs
  <1>4. Shape(x)
    <2>1. \A j \in 1..Len(x) : x[j] \notin ResetCalls
      BY <1>1
    <2>2. \A j \in 1..Len(x) : x[j] \notin ProfileCalls
      BY <1>1
    <2>3. \A j \in 1..Len(x) : x[j] # "queryProfile" /\ x[j] # "createProfile"
      BY <2>2 DEF ProfileCalls
    <2> QED BY <2>1, <2>2, <2>3 DEF Shape
  <1> QED BY <1>1, <1>2, <1>3, <1>4

LEMMA LogsInShape ==
    ASSUME NEW x, LogsIn(x)
    PROVE  Shape(x) /\ ~ResetsLeft(x) /\ Head(x) \notin ResetCalls \cup ProfileCalls
  <1>1. PICK n \in Nat : n = Len(x) /\ n >= 5
    BY DEF LogsIn
  <1>2. /\ x \in Seq(Calls) /\ x # <<>> /\ Head(x) = x[1]
        /\ x[1] \in {"upsertUser", "ensureDemoParties"}
        /\ x[2] \in {"upsertUser", "ensureDemoParties"}
        /\ x[3] = "queryProfile" /\ x[4] = "createProfile" /\ x[5] = "record"
        /\ \A j \in 1..n : j > 5 => x[j] \notin ResetCalls \cup ProfileCalls
    BY <1>1 DEF LogsIn
  <1>3. Head(x) \notin ResetCalls \cup ProfileCalls
    BY <1>2 DEF ResetCalls, ProfileCalls
  <1>4. \A j \in 1..n : j = 1 \/ j = 2 \/ j = 3 \/ j = 4 \/ j = 5 \/ j > 5
    BY <1>1
  <1>5. ASSUME NEW j \in 1..n
        PROVE  /\ x[j] \notin ResetCalls
               /\ x[j] = "queryProfile" <=> j = 3
               /\ x[j] = "createProfile" <=> j = 4
    <2>1. CASE j > 5
      <3>1. x[j] \notin ResetCalls /\ x[j] \notin ProfileCalls
        BY <1>2, <2>1
      <3>2. j # 3 /\ j # 4
        BY <2>1
      <3> QED BY <3>1, <3>2 DEF ProfileCalls
    <2>2. CASE ~(j > 5)
      BY <1>2, <1>4, <2>2 DEF ResetCalls
    <2> QED BY <2>1, <2>2
  <1>6. ~ResetsLeft(x)
    <2>1. 1 \in 1..n
      BY <1>1
    <2>2. x[1] \notin ResetCalls
      BY <1>5, <2>1
    <2> QED BY <1>1, <1>2, <2>1, <2>2, ResetsLeftIs
  <1>7. ASSUME NEW i \in 1..n, NEW j \in 1..n
        PROVE  /\ j = i + 1 => (x[i] = "queryProfile" <=> x[j] = "createProfile")
               /\ i < j /\ x[j] \in ProfileCalls => x[i] \in EarlyCalls
    <2>1. j = i + 1 => (i = 3 <=> j = 4)
      OBVIOUS
    <2>2. ASSUME i < j, x[j] \in ProfileCalls PROVE x[i] \in EarlyCalls
      <3>1. j = 3 \/ j = 4
        BY <1>5, <2>2 DEF ProfileCalls
      <3>2. i = 1 \/ i = 2 \/ i = 3
        BY <2>2, <3>1
      <3> QED BY <1>2, <3>2 DEF EarlyCalls
    <2> QED BY <1>5, <2>1, <2>2
  <1> QED BY <1>1, <1>3, <1>5, <1>6, <1>7 DEF Shape

LEMMA PlainParts ==
    Plain(SavePolicy) /\ Plain(Pay) /\ Plain(Allocate) /\ Plain(<<"getRequiredUser">>)
  <1>1. Plain(SavePolicy)
    BY DEF Plain, SavePolicy, Calls, SaveCalls, EarlyCalls, ResetCalls, ProfileCalls
  <1>2. Plain(Pay)
    BY DEF Plain, Pay, Calls, EarlyCalls, ResetCalls, ProfileCalls
  <1>3. Plain(Allocate)
    BY DEF Plain, Allocate, Calls, EarlyCalls, ResetCalls, ProfileCalls
  <1>4. Plain(<<"getRequiredUser">>)
    BY DEF Plain, Calls, EarlyCalls, ResetCalls, ProfileCalls
  <1> QED BY <1>1, <1>2, <1>3, <1>4

LEMMA StepsPlain ==
    ASSUME NEW kind \in Kinds, kind # "reset"
    PROVE  Plain(Steps[kind]) \/ LogsIn(Steps[kind])
  <1>1. PICK g : g = <<"getRequiredUser">> /\ Plain(g)
    BY PlainParts
  <1>2. CASE kind = "policy"
    <2>1. Steps[kind] = g \o SavePolicy
      BY <1>1, <1>2 DEF Steps
    <2> QED BY <1>1, <2>1, PlainParts, PlainMore
  <1>3. CASE kind = "confirm"
    <2>1. Steps[kind] = g \o Pay
      BY <1>1, <1>3 DEF Steps
    <2> QED BY <1>1, <2>1, PlainParts, PlainMore
  <1>4. CASE kind = "allocate"
    <2>1. Steps[kind] = g \o Allocate
      BY <1>1, <1>4 DEF Steps
    <2> QED BY <1>1, <2>1, PlainParts, PlainMore
  <1>5. CASE kind = "payroll"
    <2>1. PICK s : s = <<"getRequiredUser", "ensureDemoParties", "createNotice", "record">>
      OBVIOUS
    <2>2. Plain(s)
      BY <2>1 DEF Plain, Calls, EarlyCalls, ResetCalls, ProfileCalls
    <2>3. Steps[kind] = s \o Pay
      BY <1>5, <2>1 DEF Steps
    <2> QED BY <2>2, <2>3, PlainParts, PlainMore
  <1>6. CASE kind = "approve"
    <2>1. PICK s : s = Steps[kind]
      OBVIOUS
    <2>2. Plain(s)
      BY <1>6, <2>1 DEF Steps, Plain, Calls, EarlyCalls, ResetCalls, ProfileCalls
    <2> QED BY <2>1, <2>2
  <1>7. CASE kind = "reject"
    <2>1. PICK s : s = Steps[kind]
      OBVIOUS
    <2>2. Plain(s)
      BY <1>7, <2>1 DEF Steps, Plain, Calls, EarlyCalls, ResetCalls, ProfileCalls
    <2> QED BY <2>1, <2>2
  <1>8. CASE kind = "execute"
    <2>1. PICK s : s = Steps[kind]
      OBVIOUS
    <2>2. Plain(s)
      BY <1>8, <2>1 DEF Steps, Plain, Calls, EarlyCalls, ResetCalls, ProfileCalls
    <2> QED BY <2>1, <2>2
  <1>9. CASE kind = "bootstrap"
    <2>1. PICK s : s = Steps[kind]
      OBVIOUS
    <2>2. LogsIn(s)
      BY <1>9, <2>1 DEF Steps, Login, LogsIn, Calls, EarlyCalls
    <2> QED BY <2>1, <2>2
  <1>10. CASE kind = "fullFlow"
    <2>1. PICK s : s = <<"ensureDemoParties", "upsertUser", "queryProfile", "createProfile",
                         "record">>
      OBVIOUS
    <2>2. PICK a : a = <<"createNotice", "record">>
      OBVIOUS
    <2>3. PICK b : b = <<"collectActions", "approve", "record", "openAgentRow", "executeAction">>
      OBVIOUS
    <2>4. LogsIn(s)
      BY <2>1 DEF LogsIn, Calls, EarlyCalls
    <2>5. Plain(a)
      BY <2>2 DEF Plain, Calls, EarlyCalls, ResetCalls, ProfileCalls
    <2>6. Plain(b)
      BY <2>3 DEF Plain, Calls, EarlyCalls, ResetCalls, ProfileCalls
    <2>7. Steps[kind] = s \o SavePolicy \o a \o Pay \o Allocate \o b
      BY <1>10, <2>1, <2>2, <2>3 DEF Steps
    <2>8. PICK x : x = s \o SavePolicy /\ LogsIn(x)
      BY <2>4, PlainParts, PlainMore
    <2>9. PICK y : y = x \o a /\ LogsIn(y)
      BY <2>5, <2>8, PlainMore
    <2>10. PICK z : z = y \o Pay /\ LogsIn(z)
      BY <2>9, PlainParts, PlainMore
    <2>11. PICK v : v = z \o Allocate /\ LogsIn(v)
      BY <2>10, PlainParts, PlainMore
    <2>12. PICK q : q = v \o b /\ LogsIn(q)
      BY <2>6, <2>11, PlainMore
    <2>13. Steps[kind] = q
      BY <2>7, <2>8, <2>9, <2>10, <2>11, <2>12
    <2> QED BY <2>12, <2>13
  <1> QED BY <1>2, <1>3, <1>4, <1>5, <1>6, <1>7, <1>8, <1>9, <1>10 DEF Kinds

\* What the calls of a request are like when it starts.
LEMMA StepsShape ==
    ASSUME NEW kind \in Kinds, NEW todo, todo = Steps[kind]
    PROVE  /\ Shape(todo) /\ todo # <<>> /\ todo \in Seq(Calls)
           /\ \/ Fresh(todo) /\ ~AtProfile(todo)
              \/ ResetsLeft(todo) /\ Head(todo) = "findUser"
  <1>1. /\ todo \in Seq(Calls) /\ todo # <<>>
        /\ SavesNothing(todo) \/ \E k \in Nat : k > 5 /\ SavesAt(todo, k)
    BY StepsSave
  <1>2. CASE kind = "reset"
    <2>1. PICK s : s = Steps.reset /\ IsReset(s)
      BY ResetSteps
    <2>2. todo = s
      BY <1>2, <2>1
    <2>3. /\ s \in Seq(ResetCalls) /\ Len(s) = 7 /\ s[1] = "findUser"
      BY <2>1 DEF IsReset
    <2>4. ResetsLeft(todo)
      <3>1. 7 \in 1..7 /\ Len(todo) = 7
        BY <2>2, <2>3
      <3>2. \A j \in 1..7 : 7 - 7 + j = j
        OBVIOUS
      <3>3. \A j \in 1..Len(todo) : todo[j] = s[7 - Len(todo) + j]
        BY <2>2, <3>1, <3>2
      <3> QED BY <2>1, <3>1, <3>3 DEF ResetsLeft
    <2>5. \A j \in 1..Len(todo) : todo[j] \in ResetCalls
      BY <1>1, <2>4, ResetsLeftIs
    <2>6. Shape(todo)
      <3>1. \A j \in 1..Len(todo) : /\ todo[j] \notin ProfileCalls /\ todo[j] # "queryProfile"
                                    /\ todo[j] # "createProfile"
        BY <2>5 DEF ResetCalls, ProfileCalls
      <3> QED BY <2>4, <3>1 DEF Shape
    <2> QED BY <1>1, <2>2, <2>3, <2>4, <2>6
  <1>3. CASE kind # "reset"
    <2>1. Shape(todo) /\ ~ResetsLeft(todo) /\ Head(todo) \notin ResetCalls \cup ProfileCalls
      BY <1>1, <1>3, StepsPlain, PlainShape, LogsInShape
    <2>2. ~SavesSoon(todo, 4)
      <3>1. SUFFICES ASSUME NEW i \in 1..4, SavesAt(todo, i) PROVE FALSE
        BY DEF SavesSoon
      <3>2. ~SavesNothing(todo)
        BY <3>1 DEF SavesAt, SavesNothing, SaveCalls
      <3>3. PICK k \in Nat : k > 5 /\ SavesAt(todo, k)
        BY <1>1, <3>2
      <3>4. k = i
        BY <3>1, <3>3, SavesOnce
      <3> QED BY <3>1, <3>3, <3>4
    <2> QED BY <1>1, <2>1, <2>2 DEF Fresh, AtProfile, ProfileCalls
  <1> QED BY <1>2, <1>3

\* A request that starts when its user had none.
LEMMA StartsFine ==
    ASSUME NEW kind \in Kinds, NEW w, w.todo = Steps[kind], w.id = 0, NEW u, FineNow(u, Idle)
    PROVE  FineNow(u, w)
  <1>1. PICK id, R : id = userIds[u] /\ R = rowsOf(userIds[u])
    OBVIOUS
  <1>2. Fine(Idle, ledger, u, id, R, intents, agentRows)
    BY <1>1 DEF FineNow
  <1>3. InOrder(R) /\ OneProfile(ledger, u) /\ Settled(ledger, u, R)
    BY <1>2, IdleFine
  <1>4. PICK todo : todo = w.todo
    OBVIOUS
  <1>5. /\ todo # <<>> /\ todo \in Seq(Calls)
        /\ \/ Fresh(todo) /\ ~AtProfile(todo)
           \/ ResetsLeft(todo) /\ Head(todo) = "findUser"
    BY <1>4, StepsShape
  <1>6. CASE Fresh(todo) /\ ~AtProfile(todo)
    <2>1. Fine(w, ledger, u, id, R, intents, agentRows)
      BY <1>3, <1>4, <1>6, FreshFine
    <2> QED BY <1>1, <2>1 DEF FineNow
  <1>7. CASE ResetsLeft(todo) /\ Head(todo) = "findUser"
    <2>1. \A k : ~SavesAt(todo, k)
      BY <1>5, <1>7, ResetsLeftIs
    <2>2. SaveFine(w, ledger, u, R)
      BY <1>4, <1>7, <2>1 DEF SaveFine, SavesSoon
    <2>3. ResetFine(w, id, R, intents, agentRows)
      BY <1>4, <1>7 DEF ResetFine
    <2>4. Fine(w, ledger, u, id, R, intents, agentRows)
      BY <1>3, <1>4, <1>7, <2>2, <2>3 DEF Fine
    <2> QED BY <1>1, <2>4 DEF FineNow
  <1> QED BY <1>5, <1>6, <1>7

\* Every request starts with its kind's calls, and nothing remembered of rows.
LEMMA RequestStarts ==
    ASSUME NEW h \in Handlers, NEW u \in Users, Request(h, u)
    PROVE  /\ \E w : \E kind \in Kinds : /\ handler' = [handler EXCEPT ![h] = w]
                                         /\ w.user = u /\ w.todo = Steps[kind] /\ w.id = 0
           /\ handler[h] = Idle
           /\ overlapped' = IF serving(u) # {} THEN overlapped \cup {u} ELSE overlapped
           /\ UNCHANGED <<ledger, tables, cutOff>>
  <1>1. PICK r, kind : /\ Start(h, u, r) /\ IsRequest(r) /\ r.id = 0
                       /\ kind \in Kinds /\ mayStart(h, kind)
    <2>1. CASE SimpleRequest(h, u)
      <3>1. PICK r : r = Idle
        OBVIOUS
      <3>2. IsRequest(r) /\ r.id = 0
        BY <3>1, IdleRequest
      <3> QED BY <2>1, <3>1, <3>2 DEF SimpleRequest, Kinds
    <2>2. CASE PolicyRequest(h, u)
      <3>1. PICK p : Start(h, u, [Idle EXCEPT !.policy = p])
        BY <2>2 DEF PolicyRequest
      <3>2. PICK r : r = [Idle EXCEPT !.policy = p]
        OBVIOUS
      <3>3. IsRequest(r) /\ r.id = 0
        BY <3>2, IdleRequest
      <3>4. PICK kind \in Kinds : mayStart(h, kind)
        BY <2>2 DEF PolicyRequest, Kinds
      <3> QED BY <3>1, <3>2, <3>3, <3>4
    <2>5. CASE PayrollRequest(h, u)
      <3>1. PICK p : Start(h, u, [Idle EXCEPT !.payroll = p])
        BY <2>5 DEF PayrollRequest
      <3>2. PICK r : r = [Idle EXCEPT !.payroll = p]
        OBVIOUS
      <3>3. IsRequest(r) /\ r.id = 0
        BY <3>2, IdleRequest
      <3>4. PICK kind \in Kinds : mayStart(h, kind)
        BY <2>5 DEF PayrollRequest, Kinds
      <3> QED BY <3>1, <3>2, <3>3, <3>4
    <2>6. CASE FullFlowRequest(h, u)
      <3>1. PICK p : Start(h, u, [Idle EXCEPT !.policy = demoPolicy, !.payroll = p])
        BY <2>6 DEF FullFlowRequest
      <3>2. PICK r : r = [Idle EXCEPT !.policy = demoPolicy, !.payroll = p]
        OBVIOUS
      <3>3. IsRequest(r) /\ r.id = 0
        BY <3>2, IdleRequest
      <3>4. mayStart(h, "fullFlow") /\ "fullFlow" \in Kinds
        BY <2>6 DEF FullFlowRequest, Kinds
      <3> QED BY <3>1, <3>2, <3>3, <3>4
    <2>3. CASE AllocationRequest(h, u)
      <3>1. PICK c, p : Start(h, u, [Idle EXCEPT !.credit = c, !.policyId = p])
        BY <2>3 DEF AllocationRequest
      <3>2. PICK r : r = [Idle EXCEPT !.credit = c, !.policyId = p]
        OBVIOUS
      <3>3. IsRequest(r) /\ r.id = 0
        BY <3>2 DEF IsRequest, Idle
      <3>4. mayStart(h, "allocate") /\ "allocate" \in Kinds
        BY <2>3 DEF AllocationRequest, Kinds
      <3> QED BY <3>1, <3>2, <3>3, <3>4
    <2>4. CASE ActionRequest(h, u)
      <3>1. PICK a : Start(h, u, [Idle EXCEPT !.action = a])
        BY <2>4 DEF ActionRequest
      <3>2. PICK r : r = [Idle EXCEPT !.action = a]
        OBVIOUS
      <3>3. IsRequest(r) /\ r.id = 0
        BY <3>2, IdleRequest
      <3>4. PICK kind \in Kinds : mayStart(h, kind)
        BY <2>4 DEF ActionRequest, Kinds
      <3> QED BY <3>1, <3>2, <3>3, <3>4
    <2> QED BY <2>1, <2>2, <2>3, <2>4, <2>5, <2>6 DEF Request
  <1>2. PICK todo : todo = Steps[kind]
    OBVIOUS
  <1>3. kind = Head(workload) /\ handler[h] = Idle
    BY <1>1 DEF mayStart
  <1>4. PICK w : w = [r EXCEPT !.user = u, !.todo = todo]
    OBVIOUS
  <1>5. w.user = u /\ w.todo = todo /\ w.id = 0
    BY <1>1, <1>4 DEF IsRequest
  <1>6. handler' = [handler EXCEPT ![h] = w]
    BY <1>1, <1>2, <1>3, <1>4 DEF Start
  <1>7. /\ overlapped' = IF serving(u) # {} THEN overlapped \cup {u} ELSE overlapped
        /\ UNCHANGED <<ledger, tables, cutOff>>
    BY <1>1 DEF Start
  <1> QED BY <1>1, <1>2, <1>3, <1>5, <1>6, <1>7

LEMMA RequestSerial ==
    ASSUME Inv, SerialInv, NEW h \in Handlers, NEW u \in Users, Request(h, u)
    PROVE  SerialInv'
  <1>1. PICK w : \E kind \in Kinds : /\ handler' = [handler EXCEPT ![h] = w]
                                     /\ w.user = u /\ w.todo = Steps[kind] /\ w.id = 0
    BY RequestStarts
  <1>2. PICK kind \in Kinds : w.todo = Steps[kind] /\ w.id = 0 /\ w.user = u
    BY <1>1
  <1>3. /\ handler' = [handler EXCEPT ![h] = w] /\ handler[h] = Idle
        /\ overlapped' = IF serving(u) # {} THEN overlapped \cup {u} ELSE overlapped
        /\ cutOff' = cutOff
    BY <1>1, RequestStarts
  <1>4. UNCHANGED <<ledger, tables>>
    BY RequestStarts
  <1>5. ledger' = ledger /\ userIds' = userIds /\ policyRows' = policyRows
        /\ intents' = intents /\ agentRows' = agentRows
    BY <1>4 DEF tables
  <1>6. handler'[h] = w /\ \A g \in Handlers \ {h} : handler'[g] = handler[g]
    BY <1>3, OthersMove DEF Inv, TablesInv
  <1>7. Shapes'
    <2>1. PICK todo : todo = w.todo
      OBVIOUS
    <2>2. Shape(todo)
      BY <1>2, <2>1, StepsShape
    <2> QED BY <1>6, <2>1, <2>2 DEF SerialInv, Shapes
  <1>8. ASSUME NEW v, NEW x, FineNow(v, x) PROVE FineNow(v, x)'
    BY <1>5, <1>8 DEF FineNow, rowsOf
  <1>9. ASSUME NEW v \in Users \ (overlapped' \cup cutOff') PROVE Serial(v)'
    <2>1. v \in Users \ (overlapped \cup cutOff) /\ (v = u => serving(v) = {})
      BY <1>3, <1>9
    <2>2. Serial(v)
      BY <2>1 DEF SerialInv
    <2>3. \A g : g \in serving(v)' <=> g \in Handlers /\ handler'[g].user = v
      BY DEF serving
    <2>4. \A g : g \in serving(v) <=> g \in Handlers /\ handler[g].user = v
      BY DEF serving
    <2>5. CASE v = u
      <3>1. FineNow(v, Idle)
        BY <2>1, <2>2, <2>5 DEF Serial
      <3>2. FineNow(v, w)
        BY <1>2, <3>1, StartsFine
      <3>3. FineNow(v, w)'
        BY <1>8, <3>2
      <3>4. h \in serving(v)' /\ \A g \in serving(v)' : g = h
        BY <1>2, <1>6, <2>1, <2>3, <2>4, <2>5
      <3>5. \A g \in serving(v)' : FineNow(v, handler[g])'
        BY <1>6, <3>3, <3>4 DEF FineNow
      <3> QED BY <3>4, <3>5 DEF Serial
    <2>6. CASE v # u
      <3>1. handler[h].user # v
        BY <1>3, IdleIsNobodys
      <3>2. \A g \in serving(v) : g # h /\ handler'[g] = handler[g]
        BY <1>6, <2>4, <3>1
      <3>3. \A g : g \in serving(v)' <=> g \in serving(v)
        BY <1>2, <1>6, <2>3, <2>4, <2>6, <3>1
      <3>4. serving(v)' = serving(v)
        BY <3>3
      <3>5. ASSUME NEW g \in serving(v) PROVE FineNow(v, handler[g])'
        <4>1. PICK x : x = handler[g] /\ x = handler'[g]
          BY <3>2
        <4>2. FineNow(v, x)
          BY <2>2, <4>1 DEF Serial
        <4>3. FineNow(v, x)'
          BY <1>8, <4>2
        <4> QED BY <4>1, <4>3 DEF FineNow
      <3>6. serving(v) = {} => FineNow(v, Idle)'
        <4>1. PICK x : x = Idle
          OBVIOUS
        <4>2. serving(v) = {} => FineNow(v, x)'
          BY <1>8, <2>2, <4>1 DEF Serial
        <4> QED BY <4>1, <4>2
      <3> QED BY <2>2, <3>4, <3>5, <3>6 DEF Serial
    <2> QED BY <2>5, <2>6
  <1> QED BY <1>7, <1>9 DEF SerialInv

\* A request that fails concerns its user only.
LEMMA FailSerial ==
    ASSUME Inv, SerialInv, NEW h \in Handlers, Fail(h) PROVE SerialInv'
  <1>1. /\ handler' = [handler EXCEPT ![h] = Idle] /\ cutOff' = cutOff \cup {handler[h].user}
        /\ overlapped' = overlapped
        /\ ledger' = ledger /\ userIds' = userIds /\ policyRows' = policyRows
        /\ intents' = intents /\ agentRows' = agentRows
    BY DEF Fail, Finish, tables
  <1>2. handler'[h] = Idle /\ \A g \in Handlers \ {h} : handler'[g] = handler[g]
    BY <1>1, OthersMove DEF Inv, TablesInv
  <1>3. Shapes'
    <2>1. PICK w : w = Idle /\ Shape(w.todo)
      BY IdleShape
    <2> QED BY <1>2, <2>1 DEF SerialInv, Shapes
  <1>4. ASSUME NEW v, NEW x, FineNow(v, x) PROVE FineNow(v, x)'
    BY <1>1, <1>4 DEF FineNow, rowsOf
  <1>5. ASSUME NEW v \in Users \ (overlapped' \cup cutOff') PROVE Serial(v)'
    <2>1. v \in Users \ (overlapped \cup cutOff) /\ handler[h].user # v
      BY <1>1, <1>5
    <2>2. Serial(v)
      BY <2>1 DEF SerialInv
    <2>3. \A g : g \in serving(v)' <=> g \in Handlers /\ handler'[g].user = v
      BY DEF serving
    <2>4. \A g : g \in serving(v) <=> g \in Handlers /\ handler[g].user = v
      BY DEF serving
    <2>5. handler'[h].user # v
      BY <1>2, IdleIsNobodys
    <2>6. \A g \in serving(v) : g # h /\ handler'[g] = handler[g]
      BY <1>2, <2>1, <2>4
    <2>7. \A g : g \in serving(v)' <=> g \in serving(v)
      BY <1>2, <2>1, <2>3, <2>4, <2>5
    <2>8. serving(v)' = serving(v)
      BY <2>7
    <2>9. ASSUME NEW g \in serving(v) PROVE FineNow(v, handler[g])'
      <3>1. PICK x : x = handler[g] /\ x = handler'[g]
        BY <2>6
      <3>2. FineNow(v, x)
        BY <2>2, <3>1 DEF Serial
      <3>3. FineNow(v, x)'
        BY <1>4, <3>2
      <3> QED BY <3>1, <3>3 DEF FineNow
    <2>10. serving(v) = {} => FineNow(v, Idle)'
      <3>1. PICK x : x = Idle
        OBVIOUS
      <3>2. serving(v) = {} => FineNow(v, x)'
        BY <1>4, <2>2, <3>1 DEF Serial
      <3> QED BY <3>1, <3>2
    <2> QED BY <2>2, <2>8, <2>9, <2>10 DEF Serial
  <1> QED BY <1>3, <1>5 DEF SerialInv

\* A restart leaves the rows, and no policy on the ledger.
LEMMA RestartSerial == ASSUME SerialInv, Restart PROVE SerialInv'
  <1>1. /\ handler' = [h \in Handlers |-> Idle] /\ overlapped' = overlapped
        /\ cutOff' = cutOff \cup {u \in Users : serving(u) # {}}
        /\ ledger' = EmptyLedger /\ userIds' = userIds /\ policyRows' = policyRows
    BY DEF Restart, tables
  <1>2. \A g \in Handlers : handler'[g] = Idle
    BY <1>1
  <1>3. Shapes'
    <2>1. PICK w : w = Idle /\ Shape(w.todo)
      BY IdleShape
    <2> QED BY <1>2, <2>1 DEF Shapes
  <1>4. ASSUME NEW v \in Users \ (overlapped' \cup cutOff') PROVE Serial(v)'
    <2>1. v \in Users \ (overlapped \cup cutOff) /\ serving(v) = {}
      BY <1>1, <1>4
    <2>2. FineNow(v, Idle)
      BY <2>1 DEF SerialInv, Serial
    <2>3. PICK id, R : id = userIds[v] /\ R = rowsOf(userIds[v])
      OBVIOUS
    <2>4. InOrder(R)
      BY <2>2, <2>3, IdleFine DEF FineNow
    <2>5. PICK m, ints, agents : m = ledger' /\ ints = intents' /\ agents = agentRows'
      OBVIOUS
    <2>6. m = EmptyLedger
      BY <1>1, <2>5
    <2>7. OneProfile(m, v) /\ Settled(m, v, R)
      BY <2>6, NothingSeen DEF OneProfile, Settled
    <2>8. Fine(Idle, m, v, id, R, ints, agents)
      BY <2>4, <2>7, IdleFine
    <2>9. id = userIds'[v] /\ R = rowsOf(userIds[v])'
      BY <1>1, <2>3 DEF rowsOf
    <2>10. FineNow(v, Idle)'
      BY <2>5, <2>8, <2>9 DEF FineNow
    <2>11. serving(v)' = {}
      <3>1. Idle.user # v
        BY DemoUsersAssumption DEF Idle
      <3> QED BY <1>2, <3>1 DEF serving
    <2> QED BY <2>10, <2>11 DEF Serial
  <1> QED BY <1>3, <1>4 DEF SerialInv

LEMMA InitSerial == Init => SerialInv
  <1> SUFFICES ASSUME Init PROVE SerialInv
    OBVIOUS
  <1>1. /\ \A g \in Handlers : handler[g] = Idle
        /\ ledger = EmptyLedger /\ policyRows = {}
    BY DEF Init
  <1>2. Shapes
    <2>1. PICK w : w = Idle /\ Shape(w.todo)
      BY IdleShape
    <2> QED BY <1>1, <2>1 DEF Shapes
  <1>3. ASSUME NEW v \in Users PROVE Serial(v)
    <2>1. PICK l, id, R : l = ledger /\ id = userIds[v] /\ R = rowsOf(userIds[v])
      OBVIOUS
    <2>2. R = {} /\ l = EmptyLedger
      BY <1>1, <2>1 DEF rowsOf
    <2>3. InOrder(R)
      BY <2>2 DEF InOrder
    <2>4. OneProfile(l, v) /\ Settled(l, v, R)
      BY <2>2, NothingSeen DEF OneProfile, Settled
    <2>5. PICK ints, agents : ints = intents /\ agents = agentRows
      OBVIOUS
    <2>6. Fine(Idle, l, v, id, R, ints, agents)
      BY <2>3, <2>4, IdleFine
    <2>7. FineNow(v, Idle)
      BY <2>1, <2>5, <2>6 DEF FineNow
    <2>8. serving(v) = {}
      <3>1. Idle.user # v
        BY DemoUsersAssumption DEF Idle
      <3> QED BY <1>1, <3>1 DEF serving
    <2> QED BY <2>7, <2>8 DEF Serial
  <1> QED BY <1>2, <1>3 DEF SerialInv

LEMMA NextSerial == ASSUME Inv, SerialInv, [Next]_vars PROVE SerialInv'
  <1>1. CASE UNCHANGED vars
    BY <1>1 DEF vars, tables, SerialInv, Shapes, Serial, FineNow, serving, rowsOf
  <1>2. ASSUME NEW h \in Handlers, Step(h) PROVE SerialInv'
    BY <1>2, StepSerialInv
  <1>3. ASSUME NEW h \in Handlers, NEW u \in Users, Request(h, u) PROVE SerialInv'
    BY <1>3, RequestSerial
  <1>4. ASSUME NEW h \in Handlers, Fail(h) PROVE SerialInv'
    BY <1>4, FailSerial
  <1>5. CASE Restart
    BY <1>5, RestartSerial
  <1> QED BY <1>1, <1>2, <1>3, <1>4, <1>5 DEF Next

\* A set whose elements are all equal.
LEMMA AtMostOne ==
    ASSUME NEW s, \A x, y \in s : x = y PROVE Cardinality(s) <= 1
  <1>1. CASE s = {}
    BY <1>1, FS_EmptySet
  <1>2. ASSUME NEW x \in s PROVE Cardinality(s) <= 1
    <2>1. s = {x}
      BY <1>2
    <2>2. Cardinality({x}) = 1
      BY FS_Singleton
    <2> QED BY <2>1, <2>2
  <1> QED BY <1>1, <1>2

\* The newest policy is the one an allocation finds.
LEMMA NewestFound ==
    ASSUME NEW l, IsSeq(l), NEW u, NEW p, NEW v \in Nat, Newest(l, u, p, v)
    PROVE  getActivePayrollPolicy(l, u) = p /\ payload(l, p).version = v
  <1>1. PICK s : s = policiesOf(l, u) /\ s = query(l, "PayrollPolicy", u)
    BY DEF policiesOf
  <1>2. /\ p \in s /\ payload(l, p).version = v
        /\ \A q \in s : q # p => payload(l, q).version \in 0..(v - 1)
    BY <1>1 DEF Newest
  <1>2a. \A n \in 0..(v - 1) : n \in Int /\ v >= n /\ ~(n >= v)
    OBVIOUS
  <1>2b. \A q \in s : v >= payload(l, q).version
    BY <1>2, <1>2a
  <1>3. PICK latest : latest = {q \in s : \A r \in s :
                                   payload(l, q).version >= payload(l, r).version}
    OBVIOUS
  <1>4. p \in latest
    BY <1>2, <1>2b, <1>3
  <1>5. ASSUME NEW q \in latest PROVE q = p
    <2>1. q \in s /\ payload(l, q).version >= payload(l, p).version
      BY <1>2, <1>3
    <2> QED BY <1>2, <1>2a, <2>1
  <1>6. latest = {p}
    BY <1>4, <1>5
  <1>7. p[2] <= p[2]
    <2>1. PICK i \in DOMAIN l : p = <<"PayrollPolicy", i>>
      BY <1>1, <1>2 DEF query
    <2>2. i \in Int
      BY DEF IsSeq
    <2> QED BY <2>1, <2>2
  <1>8. firstOf(latest) = p
    BY <1>6, <1>7 DEF firstOf
  <1>9. getActivePayrollPolicy(l, u) = firstOf(latest)
    BY <1>1, <1>2, <1>3 DEF getActivePayrollPolicy
  <1> QED BY <1>2, <1>8, <1>9

LEMMA NoneFound ==
    ASSUME NEW l, NEW u, policiesOf(l, u) = {} PROVE getActivePayrollPolicy(l, u) = NoContract
  BY DEF policiesOf, getActivePayrollPolicy

LEMMA SerialIs ==
    ASSUME Inv, NEW u \in Users, Serial(u)
    PROVE  /\ Cardinality(live("UserProfile", u)) <= 1
           /\ Cardinality(activeRows(userIds[u])) <= 1
           /\ LET policy == getActivePayrollPolicy(ledger, u) IN
              policy # NoContract /\ serving(u) = {} =>
                  \E row \in activeRows(userIds[u]) :
                      row.contract = policy /\ row.version = payload(ledger, policy).version
  <1>1. PICK l, id, R : l = ledger /\ id = userIds[u] /\ R = rowsOf(userIds[u])
    OBVIOUS
  <1>2. PICK w : Fine(w, l, u, id, R, intents, agentRows) /\ (serving(u) = {} => w = Idle)
    BY <1>1 DEF Serial, FineNow
  <1>3. InOrder(R) /\ OneProfile(l, u)
    BY <1>2 DEF Fine
  <1>4. activeRows(userIds[u]) = {a \in R : a.active}
    BY <1>1 DEF activeRows
  <1>5. Cardinality(activeRows(userIds[u])) <= 1
    <2>1. PICK s : s = activeRows(userIds[u])
      OBVIOUS
    <2>2. \A a, b \in s : a = b
      BY <1>3, <1>4, <2>1 DEF InOrder
    <2> QED BY <2>1, <2>2, AtMostOne
  <1>6. Cardinality(live("UserProfile", u)) <= 1
    <2>1. PICK s : s = live("UserProfile", u)
      OBVIOUS
    <2>2. ASSUME NEW i \in s PROVE <<"UserProfile", i>> \in profilesOf(l, u)
      <3>1. PICK p : p = <<"UserProfile", i>>
        OBVIOUS
      <3>2. /\ i \in DOMAIN l /\ l[i].template = "UserProfile" /\ l[i].live
            /\ l[i].payload.user = u
        BY <1>1, <2>1, <2>2 DEF live
      <3>3. p[1] = "UserProfile" /\ p[2] = i
        BY <3>1
      <3>4. visibleTo(l[i], u)
        BY <3>2 DEF visibleTo
      <3>5. found(l, "UserProfile", p, u)
        BY <3>2, <3>3, <3>4 DEF found
      <3> QED BY <3>1, <3>2, <3>5 DEF profilesOf, query
    <2>3. ASSUME NEW i \in s, NEW j \in s PROVE i = j
      <3>1. <<"UserProfile", i>> = <<"UserProfile", j>>
        BY <1>3, <2>2 DEF OneProfile
      <3> QED BY <3>1
    <2> QED BY <2>1, <2>3, AtMostOne
  <1>7. ASSUME NEW policy, policy = getActivePayrollPolicy(l, u), policy # NoContract,
               serving(u) = {}
        PROVE  \E row \in activeRows(userIds[u]) :
                   row.contract = policy /\ row.version = payload(l, policy).version
    <2>1. Settled(l, u, R)
      BY <1>2, <1>7, IdleFine
    <2>2. policiesOf(l, u) # {}
      BY <1>7, NoneFound
    <2>3. PICK a \in R : a.active /\ Newest(l, u, a.contract, a.version)
      BY <2>1, <2>2 DEF Settled
    <2>4. PICK p, v : p = a.contract /\ v = a.version
      OBVIOUS
    <2>5. v \in Nat
      BY <1>1, <2>3, <2>4 DEF Inv, TablesInv, Rows, rowsOf
    <2>6. policy = p /\ payload(l, p).version = v
      <3>1. IsSeq(l)
        BY <1>1 DEF Inv, LedgerOK, Ledger
      <3> QED BY <1>7, <2>3, <2>4, <2>5, <3>1, NewestFound
    <2> QED BY <1>4, <2>3, <2>4, <2>6
  <1> QED BY <1>1, <1>5, <1>6, <1>7

\* For a user whose requests came one after the other and were answered: one
\* profile, one active policy, and the policy an allocation finds on the
\* ledger is that one, through any restarts and resets of others.
THEOREM SerialUserConsistentHolds == Spec => []SerialUserConsistent
  <1>1. Init => Inv /\ SerialInv
    BY InitInv, InitSerial
  <1>2. Inv /\ SerialInv /\ [Next]_vars => (Inv /\ SerialInv)'
    BY NextInv, NextSerial
  <1>3. Inv /\ SerialInv => SerialUserConsistent
    BY SerialIs DEF SerialInv, SerialUserConsistent
  <1> QED BY <1>1, <1>2, <1>3, PTL DEF Spec
===============================================================================
