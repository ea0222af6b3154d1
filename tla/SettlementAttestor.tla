-------------------------- MODULE SettlementAttestor --------------------------
(***************************************************************************)
(* The backend's settlement attestor: the routes that take evidence of a   *)
(* payment (Flow webhook, direct deposit, demo payroll, vault deposit) and *)
(* createPayrollCreditFromFundingIntent, which turns a funding intent into *)
(* a PayrollCredit on Canton.                                              *)
(*                                                                         *)
(* A request is served by a handler, and every `await` of its code is a    *)
(* step of its own: handlers interleave, and each works on what it read    *)
(* before.  Abort(h) ends a request between two steps: a rejected call, or *)
(* a server that went down.                                                *)
(*                                                                         *)
(* A payment is what really happened outside: money sent once.  Payments   *)
(* appear in `credits` and `webhooks` as history, so that properties can   *)
(* say which payment a credit was created for; no guard reads them there.  *)
(* References, hashes and contract ids are numbers and None is SQL null;   *)
(* those the server makes up from the clock are negative.                  *)
(***************************************************************************)
EXTENDS Integers, Sequences, FiniteSets

CONSTANTS
    Users,
    Payments,       \* the payments somebody may report
    Concurrency,    \* bound: requests the server may be serving at once
    MaxRequests,    \* bound: requests of a behaviour
    MaxAborts       \* bound: requests that fail half way

None == 0
NoPayment == [kind |-> "none"]

\* ref: what the reporter calls the payment; for a Flow payment its transaction
\* id, for a vault deposit its Blink session.  chainRef: the reference inside
\* the vault's deposit event.
ASSUME PaymentsAssumption ==
    Payments \subseteq [kind : {"flow", "direct", "employer", "vault"}, no : Nat, user : Users,
                        amount : Nat \ {0}, ref : Nat, chainRef : Nat, tx : Nat]

ASSUME BoundsAssumption == MaxRequests \in Nat /\ MaxAborts \in Nat /\ Concurrency \in Nat

VARIABLES
    intents,        \* FundingIntent rows, oldest first
    events,         \* EvmEvent rows: one per vault deposit, with its credit
    webhooks,       \* WebhookEvent rows
    credits,        \* PayrollCredit contracts created on Canton
    recorded,       \* credits in the CantonContract cache
    audited,        \* credits an OperatorAuditEvent was created for
    answered,       \* history: payments whose report was answered with a credit
    handler,        \* what each handler is doing
    requests,       \* number of requests so far
    aborts,         \* number of requests that failed half way
    disturbed       \* history: two requests overlapped, or one failed

tables == <<intents, events, webhooks, recorded>>
ledger == <<credits, audited>>
vars == <<tables, ledger, answered, handler, requests, aborts, disturbed>>

Handlers == 1..Concurrency
vaultPayments == {p \in Payments : p.kind = "vault"}

Idle == [pc |-> "idle", pay |-> NoPayment, intent |-> None, row |-> None, ref |-> None,
         tx |-> None, tid |-> None, amount |-> None, credit |-> None, seen |-> FALSE]

Init ==
    /\ intents = <<>> /\ webhooks = <<>> /\ credits = <<>>
    /\ events = [p \in vaultPayments |-> [exists |-> FALSE, credit |-> None]]
    /\ recorded = {} /\ audited = {} /\ answered = {}
    /\ handler = [h \in Handlers |-> Idle]
    /\ requests = 0 /\ aborts = 0 /\ disturbed = FALSE

-----------------------------------------------------------------------------
(* Requests arrive                                                         *)

Request == requests < MaxRequests /\ requests' = requests + 1

\* A request that takes more than one step occupies the first idle handler
\* (handlers are alike: any other choice is the same up to their numbers).
Begin(h, new) ==
    /\ Request
    /\ handler[h] = Idle
    /\ \A g \in 1..(h - 1) : handler[g] # Idle
    /\ handler' = [handler EXCEPT ![h] = new]
    /\ disturbed' = (disturbed \/ \E g \in Handlers : handler[g] # Idle)
    /\ UNCHANGED <<ledger, recorded, aborts>>

\* A reference made from Date.now(), or a random transaction hash.
fresh == -(requests + 1)
orFresh(x) == IF x = None THEN fresh ELSE x
orElse(x, y) == IF x = None THEN y ELSE x

newIntent(p, tid, ref, tx, status) ==
    [user |-> p.user, tid |-> tid, amount |-> p.amount, ref |-> ref, tx |-> tx,
     status |-> status, credit |-> None]

\* Requests that only open an intent: one insert, nothing to interleave with.
Open(intent) ==
    /\ Request
    /\ intents' = Append(intents, intent)
    /\ UNCHANGED <<events, webhooks, recorded, ledger, answered, handler, aborts, disturbed>>

\* The provider hands out each transaction id once.
FlowCheckout(p) ==
    /\ p.kind = "flow" /\ p.ref # None
    /\ \A i \in DOMAIN intents : intents[i].tid # p.ref
    /\ Open(newIntent(p, p.ref, None, None, "awaiting_user_action"))

FlowUnavailable(p) ==
    /\ p.kind = "flow"
    /\ Open(newIntent(p, None, None, None, "flow_unavailable_use_direct_deposit"))

\* The session's reference is made from the clock: one session per reference.
BlinkSession(p) ==
    /\ p.kind = "vault" /\ p.ref # None
    /\ \A i \in DOMAIN intents : intents[i].ref # p.ref
    /\ Open(newIntent(p, None, p.ref, None, "awaiting_user_action"))

DirectDeposit(h, p) ==
    /\ p.kind = "direct"
    /\ intents' = Append(intents, newIntent(p, None, None, orFresh(p.tx), "settled"))
    /\ Begin(h, [Idle EXCEPT !.pc = "readIntent", !.pay = p, !.intent = Len(intents) + 1,
                             !.ref = orFresh(p.ref), !.tx = orFresh(p.tx)])
    /\ UNCHANGED <<events, webhooks, answered>>

\* send-payroll and full-flow: the intent carries the reference and no hash.
EmployerPayroll(h, p) ==
    /\ p.kind = "employer"
    /\ intents' = Append(intents, newIntent(p, None, orFresh(p.ref), None, "settled"))
    /\ Begin(h, [Idle EXCEPT !.pc = "readIntent", !.pay = p, !.intent = Len(intents) + 1,
                             !.ref = orFresh(p.ref)])
    /\ UNCHANGED <<events, webhooks, answered>>

\* A delivery with a valid signature that reports the settlement of a
\* transaction it names.  Any other only inserts a row, which no code reads again.
Webhook(h, p) ==
    /\ p.kind = "flow" /\ p.ref # None
    /\ webhooks' = Append(webhooks, [pay |-> p, known |-> FALSE, processed |-> FALSE])
    /\ Begin(h, [Idle EXCEPT !.pc = "lookUp", !.pay = p, !.row = Len(webhooks) + 1,
                             !.ref = p.ref, !.tx = p.tx])
    /\ UNCHANGED <<intents, events, answered>>

\* evmEvent.findUnique: a deposit that has its credit is answered with it.
\* sourceRef is what the client remembers of the session, or None.
VerifyDeposit(h, p, sourceRef) ==
    /\ p.kind = "vault"
    /\ IF events[p].credit # None
       THEN Begin(h, Idle) /\ answered' = answered \cup {p}
       ELSE /\ Begin(h, [Idle EXCEPT !.pc = "saveEvent", !.pay = p, !.tx = p.tx,
                                     !.ref = sourceRef, !.seen = events[p].exists])
            /\ UNCHANGED answered
    /\ UNCHANGED <<intents, events, webhooks>>

-----------------------------------------------------------------------------
(* Steps of a handler                                                      *)

At(h, pc) == handler[h].pc = pc
Goto(h, new) == handler' = [handler EXCEPT ![h] = new]
GotoPc(h, pc) == Goto(h, [handler[h] EXCEPT !.pc = pc])
quiet == <<requests, aborts, disturbed>>

\* Mutant: findUnique's null is not checked.
LookUp_unchecked(h) ==
    /\ At(h, "lookUp")
    /\ LET w == handler[h]
           found == {i \in DOMAIN intents : intents[i].tid = w.ref}
       IN  IF \A i \in found : intents[i].credit = None
           THEN Goto(h, [w EXCEPT !.pc = "settle",
                                  !.intent = IF found = {} THEN None ELSE CHOOSE i \in found : TRUE])
           ELSE GotoPc(h, "process")
    /\ webhooks' = [webhooks EXCEPT ![handler[h].row].known =
                        \E i \in DOMAIN intents : intents[i].tid = handler[h].ref]
    /\ UNCHANGED <<intents, events, recorded, ledger, answered, quiet>>

\* webhook: findUnique by transaction id, then the settled update.
LookUp(h) ==
    /\ At(h, "lookUp")
    /\ LET w == handler[h]
           found == {i \in DOMAIN intents : intents[i].tid = w.ref}
       IN  IF \E i \in found : intents[i].credit = None
           THEN Goto(h, [w EXCEPT !.pc = "settle", !.intent = CHOOSE i \in found : TRUE])
           ELSE GotoPc(h, "process")
    /\ webhooks' = [webhooks EXCEPT ![handler[h].row].known =
                        \E i \in DOMAIN intents : intents[i].tid = handler[h].ref]
    /\ UNCHANGED <<intents, events, recorded, ledger, answered, quiet>>

\* Mutant: the delivery is marked processed before the credit is made.
Settle_processedFirst(h) ==
    /\ At(h, "settle")
    /\ LET w == handler[h] IN
       intents' = [intents EXCEPT ![w.intent].status = "settled",
                                  ![w.intent].tx = orElse(w.tx, intents[w.intent].tx)]
    /\ webhooks' = [webhooks EXCEPT ![handler[h].row].processed = TRUE]
    /\ GotoPc(h, "readIntent")
    /\ UNCHANGED <<events, recorded, ledger, answered, quiet>>

\* An undefined hash leaves the column alone.
Settle(h) ==
    /\ At(h, "settle")
    /\ LET w == handler[h] IN
       intents' = [intents EXCEPT ![w.intent].status = "settled",
                                  ![w.intent].tx = orElse(w.tx, intents[w.intent].tx)]
    /\ GotoPc(h, "readIntent")
    /\ UNCHANGED <<events, webhooks, recorded, ledger, answered, quiet>>

Process(h) ==
    /\ At(h, "process")
    /\ webhooks' = [webhooks EXCEPT ![handler[h].row].processed = TRUE]
    /\ answered' = answered \cup
           (IF webhooks[handler[h].row].known THEN {handler[h].pay} ELSE {})
    /\ Goto(h, Idle)
    /\ UNCHANGED <<intents, events, recorded, ledger, quiet>>

\* verify-deposit: inserting an event another request inserted meanwhile
\* violates the unique key and ends the request.
SaveEvent(h) ==
    /\ At(h, "saveEvent")
    /\ LET p == handler[h].pay IN
       IF ~handler[h].seen /\ events[p].exists
       THEN Goto(h, Idle) /\ UNCHANGED events
       ELSE GotoPc(h, "findIntent") /\ events' = [events EXCEPT ![p].exists = TRUE]
    /\ UNCHANGED <<intents, webhooks, recorded, ledger, answered, quiet>>

\* Without a sourceRef the filter on externalRef is undefined, and matches any.
intentsFor(w) == {i \in DOMAIN intents :
                      intents[i].user = w.pay.user /\ (w.ref # None => intents[i].ref = w.ref)}

\* The latest of them, or None.
latestFor(w) ==
    IF intentsFor(w) = {} THEN {None}
    ELSE {i \in intentsFor(w) : \A j \in intentsFor(w) : j <= i}

FindIntent(h) ==
    /\ At(h, "findIntent")
    /\ \E i \in latestFor(handler[h]) :
           Goto(h, [handler[h] EXCEPT !.pc = "saveIntent", !.intent = i,
                                      !.ref = orElse(handler[h].ref, handler[h].pay.chainRef)])
    /\ UNCHANGED <<tables, ledger, answered, quiet>>

SaveIntent(h) ==
    /\ At(h, "saveIntent")
    /\ LET w == handler[h]
           i == w.intent
       IN  /\ intents' = IF i = None
                         THEN Append(intents, newIntent(w.pay, None, w.ref, w.tx, "settled"))
                         ELSE [intents EXCEPT ![i].amount = w.pay.amount, ![i].ref = w.ref,
                                              ![i].tx = w.tx, ![i].status = "settled"]
           /\ Goto(h, [w EXCEPT !.pc = "readIntent",
                                !.intent = IF i = None THEN Len(intents) + 1 ELSE i])
    /\ UNCHANGED <<events, webhooks, recorded, ledger, answered, quiet>>

CloseEvent(h) ==
    /\ At(h, "closeEvent")
    /\ events' = [events EXCEPT ![handler[h].pay].credit = handler[h].credit]
    /\ answered' = answered \cup {handler[h].pay}
    /\ Goto(h, Idle)
    /\ UNCHANGED <<intents, webhooks, recorded, ledger, quiet>>

-----------------------------------------------------------------------------
(* createPayrollCreditFromFundingIntent                                    *)

\* What the route does once it has a contract id: the webhook and the vault
\* route have a row to close, the others answer.
Return(h, c) ==
    LET w == [handler[h] EXCEPT !.credit = c] IN
    CASE w.pay.kind = "flow" -> Goto(h, [w EXCEPT !.pc = "process"]) /\ UNCHANGED answered
      [] w.pay.kind = "vault" -> Goto(h, [w EXCEPT !.pc = "closeEvent"]) /\ UNCHANGED answered
      [] OTHER -> Goto(h, Idle) /\ answered' = answered \cup {w.pay}

\* Mutant: an intent that has its credit is not answered with it.
ReadIntent_always(h) ==
    /\ At(h, "readIntent")
    /\ LET w == handler[h]
           row == intents[w.intent]
       IN  Goto(h, [w EXCEPT !.pc = "findExisting", !.tid = row.tid, !.amount = row.amount,
                             !.tx = orElse(w.tx, row.tx)])
    /\ UNCHANGED <<tables, ledger, answered, quiet>>

ReadIntent(h) ==
    /\ At(h, "readIntent")
    /\ LET w == handler[h]
           row == intents[w.intent]
       IN  IF row.credit # None
           THEN Return(h, row.credit)
           ELSE /\ Goto(h, [w EXCEPT !.pc = "findExisting", !.tid = row.tid,
                                     !.amount = row.amount, !.tx = orElse(w.tx, row.tx)])
                /\ UNCHANGED answered
    /\ UNCHANGED <<tables, ledger, quiet>>

\* Mutant: the search is not restricted to the user of the intent.
duplicatesOf_anyUser(w) ==
    {j \in DOMAIN intents \ {w.intent} :
        /\ intents[j].credit # None
        /\ \/ intents[j].tid = w.tid
           \/ intents[j].ref = w.ref
           \/ intents[j].tx = w.tx}

\* Mutant: only a transaction id identifies a payment.
duplicatesOf_byTransaction(w) ==
    {j \in DOMAIN intents \ {w.intent} :
        /\ intents[j].user = intents[w.intent].user
        /\ intents[j].credit # None
        /\ w.tid # None /\ intents[j].tid = w.tid}

\* The credited intents of the user taken for the same payment.  Equality
\* is Prisma's: a null transaction id or hash matches every null.
duplicatesOf(w) ==
    {j \in DOMAIN intents \ {w.intent} :
        /\ intents[j].user = intents[w.intent].user
        /\ intents[j].credit # None
        /\ \/ intents[j].tid = w.tid
           \/ intents[j].ref = w.ref
           \/ intents[j].tx = w.tx}

FindExisting(h) ==
    /\ At(h, "findExisting")
    /\ LET w == handler[h] IN
       \/ /\ duplicatesOf(w) = {}
          /\ GotoPc(h, "createCredit")
       \/ \E j \in duplicatesOf(w) :
              Goto(h, [w EXCEPT !.pc = "reuse", !.credit = intents[j].credit])
    /\ UNCHANGED <<tables, ledger, answered, quiet>>

\* The intent gets the credit this request found or created.
nameCredit(w) ==
    intents' = [intents EXCEPT ![w.intent].status = "settled", ![w.intent].credit = w.credit,
                               ![w.intent].ref = w.ref, ![w.intent].tx = w.tx]

\* Mutant: a duplicate is settled but not given the credit.
Reuse_unnamed(h) ==
    /\ At(h, "reuse")
    /\ intents' = [intents EXCEPT ![handler[h].intent].status = "settled"]
    /\ Return(h, handler[h].credit)
    /\ UNCHANGED <<events, webhooks, recorded, ledger, quiet>>

Reuse(h) ==
    /\ At(h, "reuse")
    /\ nameCredit(handler[h])
    /\ Return(h, handler[h].credit)
    /\ UNCHANGED <<events, webhooks, recorded, ledger, quiet>>

CreateCredit(h) ==
    /\ At(h, "createCredit")
    /\ LET w == handler[h] IN
       /\ credits' = Append(credits, [user |-> intents[w.intent].user, amount |-> w.amount,
                                      ref |-> w.ref, pay |-> w.pay])
       /\ Goto(h, [w EXCEPT !.pc = "record", !.credit = Len(credits) + 1])
    /\ UNCHANGED <<tables, audited, answered, quiet>>

\* Mutant: the intent names the credit before the audit event exists.
RecordContract_skipsAudit(h) ==
    /\ At(h, "record")
    /\ recorded' = recorded \cup {handler[h].credit}
    /\ GotoPc(h, "name")
    /\ UNCHANGED <<intents, events, webhooks, ledger, answered, quiet>>

RecordContract(h) ==
    /\ At(h, "record")
    /\ recorded' = recorded \cup {handler[h].credit}
    /\ GotoPc(h, "audit")
    /\ UNCHANGED <<intents, events, webhooks, ledger, answered, quiet>>

\* The cache row of the audit event itself is left out: nothing reads it.
CreateAudit(h) ==
    /\ At(h, "audit")
    /\ audited' = audited \cup {handler[h].credit}
    /\ GotoPc(h, "name")
    /\ UNCHANGED <<tables, credits, answered, quiet>>

NameCredit(h) ==
    /\ At(h, "name")
    /\ nameCredit(handler[h])
    /\ Return(h, handler[h].credit)
    /\ UNCHANGED <<events, webhooks, recorded, ledger, quiet>>

-----------------------------------------------------------------------------
Abort(h) ==
    /\ handler[h] # Idle
    /\ aborts < MaxAborts
    /\ aborts' = aborts + 1
    /\ disturbed' = TRUE
    /\ Goto(h, Idle)
    /\ UNCHANGED <<tables, ledger, answered, requests>>

Arrive ==
    \E p \in Payments :
        \/ FlowCheckout(p)
        \/ FlowUnavailable(p)
        \/ BlinkSession(p)
        \/ \E h \in Handlers :
               \/ DirectDeposit(h, p)
               \/ EmployerPayroll(h, p)
               \/ Webhook(h, p)
               \/ \E sourceRef \in {None, p.ref} : VerifyDeposit(h, p, sourceRef)

Step(h) ==
    \/ LookUp(h)
    \/ Settle(h)
    \/ Process(h)
    \/ SaveEvent(h)
    \/ FindIntent(h)
    \/ SaveIntent(h)
    \/ CloseEvent(h)
    \/ ReadIntent(h)
    \/ FindExisting(h)
    \/ Reuse(h)
    \/ CreateCredit(h)
    \/ RecordContract(h)
    \/ CreateAudit(h)
    \/ NameCredit(h)

Next ==
    \/ Arrive
    \/ \E h \in Handlers : Step(h) \/ Abort(h)

Spec == Init /\ [][Next]_vars

\* The event loop keeps serving a request whose calls are answered.
FairSpec == Spec /\ \A h \in Handlers : WF_vars(Step(h))

-----------------------------------------------------------------------------
(* Properties                                                              *)

Refs == Int
Intent == [user : Users, tid : Nat, amount : Nat \ {0}, ref : Refs, tx : Refs,
           status : {"awaiting_user_action", "flow_unavailable_use_direct_deposit", "settled"},
           credit : Nat]
Pcs == {"idle", "readIntent", "findExisting", "reuse", "createCredit", "record", "audit", "name",
        "lookUp", "settle", "process", "saveEvent", "findIntent", "saveIntent", "closeEvent"}
rowSteps == {"settle", "readIntent", "findExisting", "reuse", "createCredit", "record",
             "audit", "name"}
Handler == [pc : Pcs, pay : Payments \cup {NoPayment}, intent : Nat, row : Nat, ref : Refs,
            tx : Refs, tid : Nat, amount : Nat, credit : Nat, seen : BOOLEAN]
Delivery == [pay : Payments, known : BOOLEAN, processed : BOOLEAN]
CreditContract == [user : Users, amount : Nat \ {0}, ref : Refs, pay : Payments]

\* The rows, contracts and handlers have their fields, and a working handler
\* points at rows that exist.
TypeOK ==
    /\ intents \in Seq(Intent)
    /\ events \in [vaultPayments -> [exists : BOOLEAN, credit : Nat]]
    /\ webhooks \in Seq(Delivery)
    /\ credits \in Seq(CreditContract)
    /\ recorded \subseteq DOMAIN credits
    /\ audited \subseteq DOMAIN credits
    /\ answered \subseteq Payments
    /\ handler \in [Handlers -> Handler]
    /\ requests \in Nat /\ aborts \in Nat /\ disturbed \in BOOLEAN
    /\ \A h \in Handlers :
           /\ handler[h].pc \in rowSteps => handler[h].intent \in DOMAIN intents
           /\ handler[h].pc \in {"lookUp", "settle", "process"} => handler[h].row \in DOMAIN webhooks

\* c is a credit of user u on the ledger, cached and reported to the operator.
goodCredit(c, u) == c \in DOMAIN credits /\ credits[c].user = u /\ c \in recorded /\ c \in audited

\* However requests interleave and wherever they fail, a credit named by a
\* funding intent or a vault event is on the ledger, belongs to that very
\* user, is in the contract cache and has its audit event.
NamedCreditIsGood ==
    /\ \A i \in DOMAIN intents :
           intents[i].credit # None => goodCredit(intents[i].credit, intents[i].user)
    /\ \A p \in vaultPayments :
           events[p].credit # None => goodCredit(events[p].credit, p.user)

\* A completed webhook is marked processed only once the intent it found has
\* a credit: a delivery that fails half way stays open for the provider's retry.
ProcessedIsCredited ==
    \A k \in DOMAIN webhooks :
        LET w == webhooks[k] IN
        w.processed /\ w.known =>
            \E i \in DOMAIN intents : intents[i].tid = w.pay.ref /\ intents[i].credit # None

\* Reports of one payment that come one after the other, and do not fail,
\* create at most one credit, however often and by whatever route it is
\* reported.  (Overlapping or failing requests can create a second one:
\* the search for duplicates and the credit are separate steps.)
CreditedOnce ==
    ~disturbed => \A c, d \in DOMAIN credits : credits[c].pay = credits[d].pay => c = d

CreditStep ==
    \A i \in DOMAIN intents : intents[i].credit # None =>
        /\ intents'[i].credit # None
        /\ ~disturbed' => intents'[i].credit = intents[i].credit

\* An intent that names a credit names one for ever, and the same one unless
\* requests overlapped or failed.
CreditKept == [][CreditStep]_vars

settledOpen(i) == intents[i].status = "settled" /\ intents[i].credit = None
allCredited == \A i \in DOMAIN intents : ~settledOpen(i)

\* Where no call fails, every settled intent is credited in the end: once
\* requests stop arriving, none is left open.
SettledIsCredited == ~allCredited ~> (allCredited \/ aborts > 0)

\* A payment whose report was answered with a contract id has a credit of its
\* own.  Refuted: two intents without a transaction id are taken for one
\* payment, and the second is answered with the credit of the first.
PaymentsCredited ==
    \A p \in answered : \E c \in DOMAIN credits : credits[c].pay = p
=============================================================================
