------------------------ MODULE SettlementAttestor_proofs ------------------------
(***************************************************************************)
(* Proofs about SettlementAttestor, for any users, payments, requests and  *)
(* aborts: TypeCorrect, NamedCreditIsGoodHolds, ProcessedIsCreditedHolds,  *)
(* CreditedOnceHolds and CreditKeptHolds.                                  *)
(*                                                                         *)
(* There are two invariants.  AttestorInv holds however requests           *)
(* interleave and fail: what a request remembers between two awaits        *)
(* (knows) is still true when it acts on it, because rows and contracts    *)
(* only grow (Grows) and no two requests share a delivery.  OnceInv adds   *)
(* what holds of requests that come one after the other: a payment that    *)
(* has its credit would be found when it is reported again (found), or     *)
(* its request is about to make it so (underWay).                          *)
(***************************************************************************)
EXTENDS SettlementAttestor, TLAPS

creditedTid(t) == \E i \in DOMAIN intents : intents[i].tid = t /\ intents[i].credit # None

\* The intent a request works on is the one its payment is about.
paidFor(w) ==
    /\ w.pay.kind = "flow" => intents[w.intent].tid = w.pay.ref
    /\ w.pay.kind # "flow" => intents[w.intent].user = w.pay.user
    /\ w.pay.kind \in {"direct", "employer"} => intents[w.intent].tid = None

\* The row of a delivery is the one its handler has inserted.
delivered(w) ==
    /\ w.row \in DOMAIN webhooks /\ webhooks[w.row].pay = w.pay
    /\ w.ref = w.pay.ref /\ w.ref # None
    /\ w.pc = "lookUp" => ~webhooks[w.row].processed

\* How far the credit in a request's hands has come on the ledger.
holds(w) ==
    LET u == intents[w.intent].user IN
    /\ w.pc = "reuse" => goodCredit(w.credit, u)
    /\ w.pc \in {"record", "audit", "name"} =>
           w.credit \in DOMAIN credits /\ credits[w.credit].user = u
    /\ w.pc \in {"audit", "name"} => w.credit \in recorded
    /\ w.pc = "name" => w.credit \in audited

\* What a request remembers is still true when it acts on it.
knows(w) ==
    /\ w.pc = "idle" => w = Idle
    /\ w.pc # "idle" => w.pay \in Payments
    /\ w.pc \in {"lookUp", "settle", "process"} => w.pay.kind = "flow"
    /\ w.pc \in {"saveEvent", "findIntent", "saveIntent", "closeEvent"} => w.pay.kind = "vault"
    /\ w.pay.kind = "flow" => delivered(w)
    /\ w.pc \in rowSteps => w.intent \in DOMAIN intents /\ paidFor(w)
    /\ w.pc = "saveIntent" /\ w.intent # None =>
           w.intent \in DOMAIN intents /\ intents[w.intent].user = w.pay.user
    /\ w.pc \in {"findExisting", "createCredit"} =>
           w.amount # 0 /\ w.tid = intents[w.intent].tid
    /\ w.pc \in {"reuse", "record", "audit", "name"} => holds(w)
    /\ w.pc = "process" /\ webhooks[w.row].known => creditedTid(w.pay.ref)
    /\ w.pc = "closeEvent" => goodCredit(w.credit, w.pay.user)

HandlersKnow == \A h \in Handlers : knows(handler[h])

\* No two handlers work on one delivery, no two intents have one transaction.
DeliveriesApart ==
    \A g, h \in Handlers :
        handler[g].pay.kind = "flow" /\ handler[h].pay.kind = "flow" /\ handler[g].row = handler[h].row
            => g = h

TidsApart ==
    \A i, j \in DOMAIN intents :
        intents[i].tid = intents[j].tid /\ intents[i].tid # None => i = j

AttestorInv ==
    /\ TypeOK
    /\ HandlersKnow /\ DeliveriesApart /\ TidsApart
    /\ NamedCreditIsGood /\ ProcessedIsCredited

\* A request that has not named its credit yet, when nobody disturbs it.
unanswered(w) ==
    /\ w.pc \in {"findExisting", "reuse", "createCredit", "record", "audit", "name"} =>
           intents[w.intent].credit = None
    /\ w.pc = "createCredit" => duplicatesOf(w) = {}
    /\ w.pay.kind = "vault" => events[w.pay].credit = None

\* Where a payment that has its credit would be found when it is reported again.
found(p) ==
    \/ p.kind = "flow" /\ creditedTid(p.ref)
    \/ p.kind = "vault" /\ events[p].credit # None
    \/ /\ p.kind \in {"direct", "employer"}
       /\ \E i \in DOMAIN intents : /\ intents[i].user = p.user /\ intents[i].tid = None
                                    /\ intents[i].credit # None

\* Or its request is about to make it so.
underWay(p) ==
    \E h \in Handlers : handler[h].pay = p /\ handler[h].pc \in {"record", "audit", "name", "closeEvent"}

Undisturbed ==
    ~disturbed =>
        /\ \A g, h \in Handlers : handler[g].pc # "idle" /\ handler[h].pc # "idle" => g = h
        /\ \A h \in Handlers : unanswered(handler[h])
        /\ \A c \in DOMAIN credits : found(credits[c].pay) \/ underWay(credits[c].pay)
-----------------------------------------------------------------------------
(* Lemmas about rows and handlers                                          *)

\* What no step undoes: rows and contracts stay, about the same user and
\* payment, and an intent that names a credit names one for ever.
Grows ==
    /\ \A i \in DOMAIN intents :
           /\ i \in DOMAIN intents'
           /\ intents'[i].user = intents[i].user /\ intents'[i].tid = intents[i].tid
           /\ intents[i].credit # None => intents'[i].credit # None
    /\ \A c \in DOMAIN credits : c \in DOMAIN credits' /\ credits'[c] = credits[c]
    /\ recorded \subseteq recorded' /\ audited \subseteq audited'
    /\ \A k \in DOMAIN webhooks : k \in DOMAIN webhooks' /\ webhooks'[k].pay = webhooks[k].pay
    /\ \A p \in vaultPayments : events[p].credit # None => events'[p].credit # None

\* TypeOK without the handlers.
TablesTyped ==
    /\ intents \in Seq(Intent)
    /\ events \in [vaultPayments -> [exists : BOOLEAN, credit : Nat]]
    /\ webhooks \in Seq(Delivery)
    /\ credits \in Seq(CreditContract)
    /\ recorded \subseteq DOMAIN credits
    /\ audited \subseteq DOMAIN credits
    /\ answered \subseteq Payments
    /\ requests \in Nat /\ aborts \in Nat /\ disturbed \in BOOLEAN

LEMMA IdleIsHandler ==
    /\ Idle \in Handler /\ Idle.pc = "idle" /\ Idle.pay = NoPayment /\ NoPayment.kind = "none"
    /\ Idle.pay.kind = "none" /\ NoPayment \notin Payments
  <1>1. \A p \in Payments : p.kind \in {"flow", "direct", "employer", "vault"}
    BY PaymentsAssumption
  <1>2. NoPayment.kind = "none" /\ NoPayment \notin Payments
    BY <1>1 DEF NoPayment
  <1>3. Idle.pc = "idle" /\ Idle.pay = NoPayment
    BY DEF Idle
  <1>4. Idle \in Handler
    BY DEF Idle, Handler, Pcs, Refs, None
  <1> QED BY <1>2, <1>3, <1>4

LEMMA PaymentTypes ==
    ASSUME NEW p \in Payments
    PROVE  /\ p.kind \in {"flow", "direct", "employer", "vault"} /\ p.user \in Users
           /\ p.amount \in Nat \ {0} /\ p.ref \in Nat /\ p.chainRef \in Nat /\ p.tx \in Nat
           /\ p \in vaultPayments <=> p.kind = "vault"
  <1>1. p \in [kind : {"flow", "direct", "employer", "vault"}, no : Nat, user : Users,
               amount : Nat \ {0}, ref : Nat, chainRef : Nat, tx : Nat]
    BY PaymentsAssumption
  <1>2. p \in vaultPayments <=> p.kind = "vault"
    BY DEF vaultPayments
  <1> QED BY <1>1, <1>2

\* Every row, contract and request has the fields of its type.
LEMMA ElementTypes ==
    ASSUME TypeOK
    PROVE  /\ \A i \in DOMAIN intents :
                  /\ intents[i] \in Intent
                  /\ intents[i].user \in Users /\ intents[i].tid \in Nat
                  /\ intents[i].amount \in Nat \ {0} /\ intents[i].ref \in Refs
                  /\ intents[i].tx \in Refs /\ intents[i].credit \in Nat
           /\ \A k \in DOMAIN webhooks :
                  /\ webhooks[k] \in Delivery /\ webhooks[k].pay \in Payments
                  /\ webhooks[k].known \in BOOLEAN /\ webhooks[k].processed \in BOOLEAN
           /\ \A c \in DOMAIN credits : credits[c] \in CreditContract /\ credits[c].pay \in Payments
           /\ \A h \in Handlers : handler[h] \in Handler
           /\ DOMAIN intents = 1..Len(intents) /\ Len(intents) \in Nat
           /\ DOMAIN credits = 1..Len(credits) /\ Len(credits) \in Nat
           /\ DOMAIN webhooks = 1..Len(webhooks) /\ Len(webhooks) \in Nat
  <1>1. \A x \in Intent : /\ x.user \in Users /\ x.tid \in Nat /\ x.amount \in Nat \ {0}
                          /\ x.ref \in Refs /\ x.tx \in Refs /\ x.credit \in Nat
    BY DEF Intent
  <1>2. \A x \in Delivery : x.pay \in Payments /\ x.known \in BOOLEAN /\ x.processed \in BOOLEAN
    BY DEF Delivery
  <1>3. \A x \in CreditContract : x.pay \in Payments
    BY DEF CreditContract
  <1>4. /\ intents \in Seq(Intent) /\ webhooks \in Seq(Delivery)
        /\ credits \in Seq(CreditContract) /\ handler \in [Handlers -> Handler]
    BY DEF TypeOK
  <1>5. \A i \in DOMAIN intents : intents[i] \in Intent
    BY <1>4
  <1>6. \A k \in DOMAIN webhooks : webhooks[k] \in Delivery
    BY <1>4
  <1>7. \A c \in DOMAIN credits : credits[c] \in CreditContract
    BY <1>4
  <1> QED BY <1>1, <1>2, <1>3, <1>4, <1>5, <1>6, <1>7

\* Only the handler of the step moves.
LEMMA HandlerMoves ==
    ASSUME handler \in [Handlers -> Handler], NEW h \in Handlers, NEW new \in Handler,
           Goto(h, new)
    PROVE  /\ handler' \in [Handlers -> Handler]
           /\ handler'[h] = new
           /\ \A g \in Handlers : g # h => handler'[g] = handler[g]
  BY DEF Goto

\* A handler that gets another pc keeps the rest of its record.
LEMMA PcMoves ==
    ASSUME handler \in [Handlers -> Handler], NEW h \in Handlers, NEW pc \in Pcs, GotoPc(h, pc)
    PROVE  LET w == handler[h]
               new == [w EXCEPT !.pc = pc]
           IN  /\ new \in Handler /\ Goto(h, new)
               /\ new.pc = pc /\ new.pay = w.pay /\ new.intent = w.intent /\ new.row = w.row
               /\ new.ref = w.ref /\ new.tid = w.tid /\ new.amount = w.amount
               /\ new.credit = w.credit /\ new.tx = w.tx /\ new.seen = w.seen
  BY DEF GotoPc, Handler

\* An intent that is opened, and one that is changed, touch no other.
LEMMA IntentOpened ==
    ASSUME intents \in Seq(Intent), NEW new \in Intent, intents' = Append(intents, new)
    PROVE  /\ intents' \in Seq(Intent) /\ Len(intents) \in Nat
           /\ DOMAIN intents' = DOMAIN intents \cup {Len(intents) + 1}
           /\ Len(intents) + 1 \notin DOMAIN intents
           /\ intents'[Len(intents) + 1] = new
           /\ \A i \in DOMAIN intents : intents'[i] = intents[i]
  OBVIOUS

LEMMA IntentChanged ==
    ASSUME intents \in Seq(Intent), NEW i \in DOMAIN intents, NEW new \in Intent,
           intents' = [intents EXCEPT ![i] = new]
    PROVE  /\ intents' \in Seq(Intent) /\ DOMAIN intents' = DOMAIN intents
           /\ intents'[i] = new
           /\ \A j \in DOMAIN intents : j # i => intents'[j] = intents[j]
  OBVIOUS

\* A good credit stays good, and what a handler knows stays true.
LEMMA GoodStays ==
    ASSUME Grows, NEW c, NEW u, goodCredit(c, u)
    PROVE  goodCredit(c, u)'
  BY DEF Grows, goodCredit

LEMMA KnowledgeStays ==
    ASSUME Grows, NEW w, knows(w), w.pay.kind = "flow" => webhooks'[w.row] = webhooks[w.row]
    PROVE  knows(w)'
  <1>1. w.pc \in rowSteps => w.intent \in DOMAIN intents' /\ paidFor(w)'
    BY DEF Grows, knows, paidFor
  <1>2. w.pay.kind = "flow" => delivered(w)'
    BY DEF Grows, knows, delivered
  <1>3. w.pc \in {"reuse", "record", "audit", "name"} => holds(w)'
    BY DEF Grows, knows, holds, goodCredit, rowSteps
  <1>4. w.pc = "process" /\ webhooks'[w.row].known => creditedTid(w.pay.ref)'
    BY DEF Grows, knows, creditedTid
  <1>5. w.pc = "closeEvent" => goodCredit(w.credit, w.pay.user)'
    BY DEF Grows, knows, goodCredit
  <1>6. /\ w.pc = "saveIntent" /\ w.intent # None =>
               w.intent \in DOMAIN intents' /\ intents'[w.intent].user = w.pay.user
        /\ w.pc \in {"findExisting", "createCredit"} =>
               w.amount # 0 /\ w.tid = intents'[w.intent].tid
    BY DEF Grows, knows, rowSteps
  <1> QED BY <1>1, <1>2, <1>3, <1>4, <1>5, <1>6 DEF knows

LEMMA NamedStays ==
    ASSUME NamedCreditIsGood, Grows,
           \A i \in DOMAIN intents' : intents'[i].credit # None =>
               \/ i \in DOMAIN intents /\ intents'[i].credit = intents[i].credit
               \/ goodCredit(intents'[i].credit, intents'[i].user),
           \A p \in vaultPayments : events'[p].credit # None =>
               \/ events'[p].credit = events[p].credit
               \/ goodCredit(events'[p].credit, p.user)
    PROVE  NamedCreditIsGood'
  <1>1. ASSUME NEW i \in DOMAIN intents', intents'[i].credit # None
        PROVE  goodCredit(intents'[i].credit, intents'[i].user)
    BY <1>1 DEF NamedCreditIsGood, Grows
  <1>2. ASSUME NEW p \in vaultPayments, events'[p].credit # None
        PROVE  goodCredit(events'[p].credit, p.user)
    BY <1>2 DEF NamedCreditIsGood
  <1> QED BY <1>1, <1>2 DEF NamedCreditIsGood, goodCredit, Grows

LEMMA ProcessedStays ==
    ASSUME ProcessedIsCredited, Grows,
           \A k \in DOMAIN webhooks' : webhooks'[k].processed /\ webhooks'[k].known =>
               \/ k \in DOMAIN webhooks /\ webhooks[k].processed /\ webhooks[k].known
               \/ creditedTid(webhooks'[k].pay.ref)
    PROVE  ProcessedIsCredited'
  <1> SUFFICES ASSUME NEW k \in DOMAIN webhooks', webhooks'[k].processed, webhooks'[k].known
               PROVE  \E i \in DOMAIN intents' :
                          intents'[i].tid = webhooks'[k].pay.ref /\ intents'[i].credit # None
    BY DEF ProcessedIsCredited
  <1>1. creditedTid(webhooks'[k].pay.ref)
    BY DEF ProcessedIsCredited, Grows, creditedTid
  <1> QED BY <1>1 DEF creditedTid, Grows

\* Steps that change no intent and no delivery.
LEMMA RowsStay ==
    ASSUME AttestorInv, UNCHANGED <<intents, webhooks>>,
           \A c \in DOMAIN credits : c \in DOMAIN credits' /\ credits'[c] = credits[c],
           recorded \subseteq recorded', audited \subseteq audited',
           \A p \in vaultPayments :
               \/ events'[p].credit = events[p].credit
               \/ goodCredit(events'[p].credit, p.user)
    PROVE  Grows /\ TidsApart' /\ NamedCreditIsGood' /\ ProcessedIsCredited'
  <1>1. Grows
    <2>1. DOMAIN credits = 1..Len(credits)
      BY ElementTypes DEF AttestorInv
    <2>2. \A p \in vaultPayments : events[p].credit # None => events'[p].credit # None
      BY <2>1 DEF goodCredit, None
    <2> QED BY <2>2 DEF Grows
  <1>2. TidsApart /\ NamedCreditIsGood /\ ProcessedIsCredited
    BY DEF AttestorInv
  <1>3. TidsApart'
    BY <1>2 DEF TidsApart
  <1> QED BY <1>1, <1>2, <1>3, NamedStays, ProcessedStays

\* Steps that open an intent of a new transaction, or of none.
LEMMA OpenedStays ==
    ASSUME AttestorInv, NEW new \in Intent, intents' = Append(intents, new), new.credit = None,
           new.tid = None \/ \A i \in DOMAIN intents : intents[i].tid # new.tid,
           UNCHANGED <<events, webhooks, ledger, recorded>>
    PROVE  Grows /\ TidsApart' /\ NamedCreditIsGood' /\ ProcessedIsCredited'
  <1>1. /\ intents' \in Seq(Intent) /\ Len(intents) \in Nat
        /\ DOMAIN intents' = DOMAIN intents \cup {Len(intents) + 1}
        /\ Len(intents) + 1 \notin DOMAIN intents /\ intents'[Len(intents) + 1] = new
        /\ \A i \in DOMAIN intents : intents'[i] = intents[i]
    BY IntentOpened DEF AttestorInv, TypeOK
  <1>2. TidsApart /\ NamedCreditIsGood /\ ProcessedIsCredited
    BY DEF AttestorInv
  <1>3. Grows
    BY <1>1 DEF Grows, ledger
  <1>4. TidsApart'
    BY <1>1, <1>2 DEF TidsApart
  <1>5. NamedCreditIsGood'
    BY <1>1, <1>2, <1>3, NamedStays
  <1> QED BY <1>2, <1>3, <1>4, <1>5, ProcessedStays

\* Steps that change an intent, but for its user and transaction.
LEMMA ChangedStays ==
    ASSUME AttestorInv, NEW i \in DOMAIN intents, NEW new \in Intent,
           intents' = [intents EXCEPT ![i] = new],
           new.user = intents[i].user, new.tid = intents[i].tid,
           new.credit = intents[i].credit \/ goodCredit(new.credit, new.user),
           UNCHANGED <<events, webhooks, ledger, recorded>>
    PROVE  Grows /\ TidsApart' /\ NamedCreditIsGood' /\ ProcessedIsCredited'
  <1>1. /\ DOMAIN intents' = DOMAIN intents /\ intents'[i] = new
        /\ \A j \in DOMAIN intents : j # i => intents'[j] = intents[j]
    BY IntentChanged DEF AttestorInv, TypeOK
  <1>2. TidsApart /\ NamedCreditIsGood /\ ProcessedIsCredited /\ DOMAIN credits = 1..Len(credits)
    BY ElementTypes DEF AttestorInv
  <1>3. goodCredit(new.credit, new.user) => new.credit # None
    BY <1>2 DEF goodCredit, None
  <1>4. Grows
    BY <1>1, <1>3 DEF Grows, ledger
  <1>5. TidsApart'
    BY <1>1, <1>2 DEF TidsApart
  <1>6. NamedCreditIsGood'
    BY <1>1, <1>2, <1>4, NamedStays
  <1> QED BY <1>2, <1>4, <1>5, <1>6, ProcessedStays

\* A step of one handler: nobody else's delivery is touched.
LEMMA StepInv ==
    ASSUME AttestorInv, NEW h \in Handlers, NEW new \in Handler, Goto(h, new), TablesTyped',
           Grows /\ TidsApart' /\ NamedCreditIsGood' /\ ProcessedIsCredited',
           \A k \in DOMAIN webhooks :
               k # handler[h].row \/ handler[h].pay.kind # "flow" => webhooks'[k] = webhooks[k],
           new.pay.kind = "flow" =>
               \/ handler[h].pay.kind = "flow" /\ new.row = handler[h].row
               \/ new.row \notin DOMAIN webhooks,
           knows(handler[h])'
    PROVE  AttestorInv' /\ Grows
  <1>1. /\ TypeOK /\ HandlersKnow /\ DeliveriesApart /\ handler' \in [Handlers -> Handler]
        /\ handler'[h] = new /\ \A g \in Handlers : g # h => handler'[g] = handler[g]
    BY HandlerMoves DEF AttestorInv, TypeOK
  <1>2. \A g \in Handlers : handler[g].pay.kind = "flow" => handler[g].row \in DOMAIN webhooks
    BY <1>1 DEF HandlersKnow, knows, delivered
  <1>3. HandlersKnow'
    <2> SUFFICES ASSUME NEW g \in Handlers, g # h PROVE knows(handler[g])'
      BY DEF HandlersKnow
    <2>1. PICK w : w = handler[g]
      OBVIOUS
    <2>2. knows(w)
      BY <1>1, <2>1 DEF HandlersKnow
    <2>3. w.pay.kind = "flow" => webhooks'[w.row] = webhooks[w.row]
      BY <1>1, <1>2, <2>1 DEF DeliveriesApart
    <2>4. knows(w)'
      BY <2>2, <2>3, KnowledgeStays
    <2>5. handler'[g] = w
      BY <1>1, <2>1
    <2> QED BY <2>4, <2>5
  <1>4. DeliveriesApart'
    BY <1>1, <1>2 DEF DeliveriesApart
  <1>5. TypeOK'
    <2>1. \A g \in Handlers :
             /\ handler'[g].pc \in rowSteps => handler'[g].intent \in DOMAIN intents'
             /\ handler'[g].pc \in {"lookUp", "settle", "process"} =>
                    handler'[g].row \in DOMAIN webhooks'
      BY <1>3 DEF HandlersKnow, knows, delivered
    <2> QED BY <1>1, <2>1 DEF TypeOK, TablesTyped
  <1> QED BY <1>3, <1>4, <1>5 DEF AttestorInv

LEMMA IdleKnows ==
    ASSUME NEW h \in Handlers, handler'[h] = Idle
    PROVE  knows(handler[h])'
  BY IdleIsHandler DEF knows, rowSteps

-----------------------------------------------------------------------------
(* The initial state, and requests that arrive                             *)

LEMMA InitInv == Init => AttestorInv
  <1> SUFFICES ASSUME Init PROVE AttestorInv
    OBVIOUS
  <1>1. /\ handler \in [Handlers -> Handler] /\ \A h \in Handlers : handler[h] = Idle
        /\ intents = <<>> /\ webhooks = <<>> /\ credits = <<>>
        /\ DOMAIN intents = {} /\ DOMAIN webhooks = {}
        /\ recorded = {} /\ audited = {} /\ answered = {}
        /\ requests = 0 /\ aborts = 0 /\ disturbed = FALSE
    BY IdleIsHandler DEF Init
  <1>2. /\ events \in [vaultPayments -> [exists : BOOLEAN, credit : Nat]]
        /\ \A p \in vaultPayments : events[p].credit = None
    BY DEF Init, None
  <1>3. TypeOK
    <2>1. intents \in Seq(Intent) /\ webhooks \in Seq(Delivery) /\ credits \in Seq(CreditContract)
      BY <1>1
    <2> QED BY <1>1, <1>2, <2>1, IdleIsHandler DEF TypeOK, rowSteps
  <1>4. HandlersKnow
    BY <1>1, IdleIsHandler DEF HandlersKnow, knows, rowSteps
  <1>5. DeliveriesApart /\ TidsApart
    BY <1>1, IdleIsHandler DEF DeliveriesApart, TidsApart
  <1>6. NamedCreditIsGood /\ ProcessedIsCredited
    BY <1>1, <1>2 DEF NamedCreditIsGood, ProcessedIsCredited
  <1> QED BY <1>3, <1>4, <1>5, <1>6 DEF AttestorInv

\* The intent of a request that has none yet.
LEMMA NewIntentType ==
    ASSUME NEW p \in Payments, NEW tid \in Nat, NEW ref \in Refs, NEW tx \in Refs,
           NEW status \in {"awaiting_user_action", "flow_unavailable_use_direct_deposit", "settled"}
    PROVE  LET new == newIntent(p, tid, ref, tx, status)
           IN  /\ new \in Intent /\ new.credit = None /\ new.tid = tid /\ new.user = p.user
               /\ new.ref = ref
  BY PaymentTypes DEF newIntent, Intent, None

LEMMA OpenInv ==
    ASSUME AttestorInv, NEW p \in Payments, FlowCheckout(p) \/ FlowUnavailable(p) \/ BlinkSession(p)
    PROVE  AttestorInv' /\ Grows
  <1>1. p.ref \in Nat /\ None \in Nat /\ None \in Refs /\ p.ref \in Refs
    BY PaymentTypes DEF None, Refs
  <1>2. PICK new \in Intent :
            /\ Open(new) /\ new.credit = None
            /\ new.tid = None \/ \A i \in DOMAIN intents : intents[i].tid # new.tid
    <2>1. CASE FlowCheckout(p)
      BY <1>1, <2>1, NewIntentType DEF FlowCheckout
    <2>2. CASE FlowUnavailable(p)
      BY <1>1, <2>2, NewIntentType DEF FlowUnavailable
    <2>3. CASE BlinkSession(p)
      BY <1>1, <2>3, NewIntentType DEF BlinkSession
    <2> QED BY <2>1, <2>2, <2>3
  <1>3. /\ intents' = Append(intents, new) /\ requests' = requests + 1 /\ handler' = handler
        /\ UNCHANGED <<events, webhooks, recorded, ledger, answered, aborts, disturbed>>
    BY <1>2 DEF Open, Request
  <1>4. Grows /\ TidsApart' /\ NamedCreditIsGood' /\ ProcessedIsCredited'
    BY <1>2, <1>3, OpenedStays
  <1>5. TypeOK /\ HandlersKnow /\ DeliveriesApart /\ intents' \in Seq(Intent)
    BY <1>3, IntentOpened DEF AttestorInv, TypeOK
  <1>6. HandlersKnow'
    <2> SUFFICES ASSUME NEW g \in Handlers PROVE knows(handler[g])'
      BY DEF HandlersKnow
    <2>1. PICK w : w = handler[g]
      OBVIOUS
    <2>2. knows(w) /\ webhooks' = webhooks
      BY <1>3, <1>5, <2>1 DEF HandlersKnow
    <2>3. knows(w)' /\ handler'[g] = w
      BY <1>3, <1>4, <2>1, <2>2, KnowledgeStays
    <2> QED BY <2>3
  <1>7. DeliveriesApart'
    BY <1>3, <1>5 DEF DeliveriesApart
  <1>8. TypeOK'
    <2>1. \A g \in Handlers :
             /\ handler'[g].pc \in rowSteps => handler'[g].intent \in DOMAIN intents'
             /\ handler'[g].pc \in {"lookUp", "settle", "process"} =>
                    handler'[g].row \in DOMAIN webhooks'
      BY <1>6 DEF HandlersKnow, knows, delivered
    <2> QED BY <1>3, <1>5, <2>1 DEF TypeOK, ledger
  <1> QED BY <1>4, <1>6, <1>7, <1>8 DEF AttestorInv

\* A direct deposit and an employer's payroll come with an intent of their own.
LEMMA DepositInv ==
    ASSUME AttestorInv, NEW p \in Payments, NEW h \in Handlers,
           DirectDeposit(h, p) \/ EmployerPayroll(h, p)
    PROVE  AttestorInv' /\ Grows
  <1>1. TypeOK /\ requests \in Nat
    BY DEF AttestorInv, TypeOK
  <1>2. /\ p.kind \in {"direct", "employer"} /\ p.ref \in Nat /\ p.tx \in Nat
    BY PaymentTypes DEF DirectDeposit, EmployerPayroll
  <1>3. /\ orFresh(p.ref) \in Refs /\ orFresh(p.tx) \in Refs /\ None \in Nat /\ None \in Refs
    BY <1>1, <1>2 DEF orFresh, fresh, Refs, None
  <1>4. PICK intent \in Intent, new \in Handler :
            /\ intents' = Append(intents, intent) /\ Begin(h, new)
            /\ UNCHANGED <<events, webhooks, answered>>
            /\ intent.credit = None /\ intent.tid = None /\ intent.user = p.user
            /\ new.pc = "readIntent" /\ new.pay = p /\ new.intent = Len(intents) + 1
    <2> DEFINE n == Len(intents) + 1
    <2>0. n \in Nat
      BY <1>1, ElementTypes
    <2>1. CASE DirectDeposit(h, p)
      <3> DEFINE intent == newIntent(p, None, None, orFresh(p.tx), "settled")
                 new == [Idle EXCEPT !.pc = "readIntent", !.pay = p, !.intent = n,
                                     !.ref = orFresh(p.ref), !.tx = orFresh(p.tx)]
      <3>1. intent \in Intent /\ intent.credit = None /\ intent.tid = None /\ intent.user = p.user
        BY <1>3, NewIntentType
      <3>2. new \in Handler /\ new.pc = "readIntent" /\ new.pay = p /\ new.intent = n
        BY <1>3, <2>0 DEF Idle, Handler, Pcs, NoPayment
      <3>3. /\ intents' = Append(intents, intent) /\ Begin(h, new)
            /\ UNCHANGED <<events, webhooks, answered>>
        BY <2>1 DEF DirectDeposit
      <3> HIDE DEF intent, new
      <3> QED BY <3>1, <3>2, <3>3
    <2>2. CASE EmployerPayroll(h, p)
      <3> DEFINE intent == newIntent(p, None, orFresh(p.ref), None, "settled")
                 new == [Idle EXCEPT !.pc = "readIntent", !.pay = p, !.intent = n,
                                     !.ref = orFresh(p.ref)]
      <3>1. intent \in Intent /\ intent.credit = None /\ intent.tid = None /\ intent.user = p.user
        <4>1. PICK ref \in Refs : ref = orFresh(p.ref)
          BY <1>3
        <4>2. intent = newIntent(p, None, ref, None, "settled")
          BY <4>1
        <4> HIDE DEF intent
        <4> QED BY <1>3, <4>2, NewIntentType
      <3>2. new \in Handler /\ new.pc = "readIntent" /\ new.pay = p /\ new.intent = n
        BY <1>3, <2>0 DEF Idle, Handler, Pcs, NoPayment
      <3>3. /\ intents' = Append(intents, intent) /\ Begin(h, new)
            /\ UNCHANGED <<events, webhooks, answered>>
        BY <2>2 DEF EmployerPayroll
      <3> HIDE DEF intent, new
      <3> QED BY <3>1, <3>2, <3>3
    <2> QED BY <2>1, <2>2
  <1>5. /\ Goto(h, new) /\ UNCHANGED <<events, webhooks, ledger, recorded, answered, aborts>>
        /\ requests' = requests + 1 /\ disturbed' \in BOOLEAN /\ handler[h] = Idle
    BY <1>1, <1>4 DEF Begin, Request, Goto, TypeOK
  <1>6. Grows /\ TidsApart' /\ NamedCreditIsGood' /\ ProcessedIsCredited'
    BY <1>4, <1>5, OpenedStays
  <1>7. /\ intents' \in Seq(Intent) /\ new.intent \in DOMAIN intents' /\ intents'[new.intent] = intent
    BY <1>1, <1>4, IntentOpened DEF TypeOK
  <1>8. TablesTyped'
    BY <1>1, <1>5, <1>7 DEF TablesTyped, TypeOK, ledger
  <1>9. handler'[h] = new
    BY <1>1, <1>5, HandlerMoves DEF TypeOK
  <1>10. knows(handler[h])'
    <2>1. paidFor(handler[h])'
      BY <1>2, <1>4, <1>7, <1>9 DEF paidFor
    <2> QED BY <1>2, <1>4, <1>7, <1>9, <2>1 DEF knows
  <1> QED BY <1>2, <1>4, <1>5, <1>6, <1>8, <1>10, StepInv

LEMMA WebhookInv ==
    ASSUME AttestorInv, NEW p \in Payments, NEW h \in Handlers, Webhook(h, p)
    PROVE  AttestorInv' /\ Grows
  <1> DEFINE k == Len(webhooks) + 1
             row == [pay |-> p, known |-> FALSE, processed |-> FALSE]
             new == [Idle EXCEPT !.pc = "lookUp", !.pay = p, !.row = k, !.ref = p.ref, !.tx = p.tx]
  <1>1. /\ p.kind = "flow" /\ p.ref # None /\ webhooks' = Append(webhooks, row) /\ Begin(h, new)
        /\ UNCHANGED <<intents, events, answered>>
    BY DEF Webhook
  <1>2. /\ TypeOK /\ ProcessedIsCredited /\ TidsApart /\ NamedCreditIsGood
    BY DEF AttestorInv
  <1>3. row \in Delivery /\ row.pay = p /\ ~row.processed /\ k \in Nat
    BY <1>2, ElementTypes DEF Delivery
  <1>4. /\ new \in Handler /\ new.pc = "lookUp" /\ new.pay = p /\ new.row = k /\ new.ref = p.ref
    <2>1. p.ref \in Refs /\ p.tx \in Refs
      BY PaymentTypes DEF Refs
    <2> QED BY <1>3, <2>1 DEF Idle, Handler, Pcs, NoPayment, None
  <1> HIDE DEF row, new
  <1>5. /\ webhooks' \in Seq(Delivery) /\ DOMAIN webhooks' = DOMAIN webhooks \cup {k}
        /\ k \notin DOMAIN webhooks /\ webhooks'[k] = row
        /\ \A j \in DOMAIN webhooks : webhooks'[j] = webhooks[j]
    BY <1>1, <1>2, <1>3 DEF TypeOK
  <1> HIDE DEF k
  <1>6. /\ Goto(h, new) /\ UNCHANGED <<intents, events, ledger, recorded, answered, aborts>>
        /\ requests' = requests + 1 /\ disturbed' \in BOOLEAN /\ handler[h] = Idle
    BY <1>1, <1>2 DEF Begin, Request, Goto, TypeOK
  <1>7. Grows
    BY <1>5, <1>6 DEF Grows, ledger
  <1>8. TidsApart' /\ NamedCreditIsGood' /\ ProcessedIsCredited'
    <2>1. TidsApart'
      BY <1>2, <1>6 DEF TidsApart
    <2>2. NamedCreditIsGood'
      BY <1>2, <1>6, <1>7, NamedStays
    <2>3. ProcessedIsCredited'
      BY <1>2, <1>3, <1>5, <1>7, ProcessedStays
    <2> QED BY <2>1, <2>2, <2>3
  <1>9. TablesTyped'
    BY <1>2, <1>5, <1>6 DEF TablesTyped, TypeOK, ledger
  <1>10. handler'[h] = new
    BY <1>2, <1>4, <1>6, HandlerMoves DEF TypeOK
  <1>11. knows(handler[h])'
    <2>1. delivered(handler[h])'
      BY <1>1, <1>3, <1>4, <1>5, <1>10 DEF delivered
    <2> QED BY <1>1, <1>4, <1>10, <2>1 DEF knows, rowSteps
  <1> QED BY <1>4, <1>5, <1>6, <1>7, <1>8, <1>9, <1>11, StepInv

LEMMA VerifyDepositInv ==
    ASSUME AttestorInv, NEW p \in Payments, NEW h \in Handlers, NEW sourceRef \in {None, p.ref},
           VerifyDeposit(h, p, sourceRef)
    PROVE  AttestorInv' /\ Grows
  <1> DEFINE working == [Idle EXCEPT !.pc = "saveEvent", !.pay = p, !.tx = p.tx, !.ref = sourceRef,
                                     !.seen = events[p].exists]
  <1>1. PICK new \in {Idle, working} :
            /\ Begin(h, new) /\ UNCHANGED <<intents, events, webhooks>>
            /\ answered' \subseteq answered \cup {p} /\ p.kind = "vault"
    BY DEF VerifyDeposit
  <1>2. TypeOK
    BY DEF AttestorInv
  <1>3. working \in Handler /\ working.pc = "saveEvent" /\ working.pay = p
    <2>1. p.tx \in Refs /\ sourceRef \in Refs
      BY PaymentTypes DEF Refs, None
    <2>2. events[p].exists \in BOOLEAN
      BY <1>1, <1>2, PaymentTypes DEF TypeOK
    <2> QED BY <2>1, <2>2 DEF Idle, Handler, Pcs, NoPayment, None
  <1> HIDE DEF working
  <1>4. /\ Goto(h, new) /\ UNCHANGED <<ledger, recorded, aborts>>
        /\ requests' = requests + 1 /\ disturbed' \in BOOLEAN /\ handler[h] = Idle
    BY <1>1, <1>2 DEF Begin, Request, Goto, TypeOK
  <1>5. Grows /\ TidsApart' /\ NamedCreditIsGood' /\ ProcessedIsCredited'
    BY <1>1, <1>4, RowsStay DEF ledger
  <1>6. TablesTyped'
    BY <1>1, <1>2, <1>4 DEF TablesTyped, TypeOK, ledger
  <1>7. new \in Handler /\ new.pay.kind # "flow" /\ handler'[h] = new
    BY <1>1, <1>2, <1>3, <1>4, IdleIsHandler, HandlerMoves DEF TypeOK
  <1>8. knows(handler[h])'
    BY <1>1, <1>3, <1>7, IdleKnows DEF knows, rowSteps
  <1> QED BY <1>1, <1>4, <1>5, <1>6, <1>7, <1>8, StepInv

-----------------------------------------------------------------------------
(* Steps of a delivery                                                     *)

LEMMA LookUpInv ==
    ASSUME AttestorInv, NEW h \in Handlers, LookUp(h)
    PROVE  AttestorInv' /\ Grows
  <1> DEFINE w == handler[h]
             matches == {i \in DOMAIN intents : intents[i].tid = w.ref}
             known == \E i \in DOMAIN intents : intents[i].tid = w.ref
             row == [webhooks[w.row] EXCEPT !.known = known]
             settling == [w EXCEPT !.pc = "settle", !.intent = CHOOSE i \in matches : TRUE]
             closing == [w EXCEPT !.pc = "process"]
  <1>1. /\ w.pc = "lookUp" /\ webhooks' = [webhooks EXCEPT ![w.row] = row]
        /\ UNCHANGED <<intents, events, recorded, ledger, answered, quiet>>
        /\ \/ Goto(h, settling) /\ \E i \in matches : intents[i].credit = None
           \/ Goto(h, closing) /\ \A i \in matches : intents[i].credit # None
    BY DEF LookUp, At, GotoPc
  <1>2. /\ TypeOK /\ ProcessedIsCredited /\ TidsApart /\ NamedCreditIsGood
        /\ w \in Handler /\ knows(w)
    BY ElementTypes DEF AttestorInv, HandlersKnow
  <1>3. /\ w.pay \in Payments /\ w.pay.kind = "flow" /\ w.row \in DOMAIN webhooks
        /\ webhooks[w.row].pay = w.pay /\ w.ref = w.pay.ref /\ w.ref # None
        /\ ~webhooks[w.row].processed
    BY <1>1, <1>2 DEF knows, delivered
  <1>4. /\ row \in Delivery /\ row.pay = w.pay /\ ~row.processed /\ row.known = known
    <2>1. webhooks[w.row] \in Delivery /\ known \in BOOLEAN
      BY <1>2, <1>3, ElementTypes
    <2> QED BY <1>3, <2>1 DEF Delivery
  <1> HIDE DEF row
  <1>5. /\ webhooks' \in Seq(Delivery) /\ DOMAIN webhooks' = DOMAIN webhooks
        /\ webhooks'[w.row] = row
        /\ \A k \in DOMAIN webhooks : k # w.row => webhooks'[k] = webhooks[k]
    BY <1>1, <1>2, <1>3, <1>4 DEF TypeOK
  <1>6. Grows
    BY <1>1, <1>3, <1>4, <1>5 DEF Grows, ledger
  <1>7. TidsApart' /\ NamedCreditIsGood' /\ ProcessedIsCredited'
    <2>1. TidsApart'
      BY <1>1, <1>2 DEF TidsApart
    <2>2. NamedCreditIsGood'
      BY <1>1, <1>2, <1>6, NamedStays
    <2>3. ProcessedIsCredited'
      BY <1>2, <1>4, <1>5, <1>6, ProcessedStays
    <2> QED BY <2>1, <2>2, <2>3
  <1>8. TablesTyped'
    BY <1>1, <1>2, <1>5 DEF TablesTyped, TypeOK, ledger, quiet
  <1>9. CASE Goto(h, settling) /\ \E i \in matches : intents[i].credit = None
    <2>1. PICK i \in matches : i = (CHOOSE j \in matches : TRUE)
      BY <1>9
    <2>2. /\ settling \in Handler /\ settling.pc = "settle" /\ settling.intent = i
          /\ settling.pay = w.pay /\ settling.row = w.row /\ settling.ref = w.ref
      <3>1. i \in Nat /\ settling = [w EXCEPT !.pc = "settle", !.intent = i]
        BY <1>2, <2>1, ElementTypes
      <3> QED BY <1>2, <3>1 DEF Handler, Pcs
    <2> HIDE DEF settling
    <2>3. handler'[h] = settling
      BY <1>2, <1>9, <2>2, HandlerMoves DEF TypeOK
    <2>4. knows(handler[h])'
      <3>1. delivered(handler[h])'
        BY <1>3, <1>4, <1>5, <2>2, <2>3 DEF delivered
      <3>2. paidFor(handler[h])'
        BY <1>1, <1>3, <2>1, <2>2, <2>3 DEF paidFor
      <3> QED BY <1>1, <1>3, <2>1, <2>2, <2>3, <3>1, <3>2 DEF knows
    <2> QED BY <1>3, <1>5, <1>6, <1>7, <1>8, <1>9, <2>2, <2>4, StepInv
  <1>10. CASE Goto(h, closing) /\ \A i \in matches : intents[i].credit # None
    <2>1. /\ closing \in Handler /\ closing.pc = "process" /\ closing.pay = w.pay
          /\ closing.row = w.row /\ closing.ref = w.ref
      BY <1>2 DEF Handler, Pcs
    <2> HIDE DEF closing
    <2>2. handler'[h] = closing
      BY <1>2, <1>10, <2>1, HandlerMoves DEF TypeOK
    <2>3. knows(handler[h])'
      <3>1. delivered(handler[h])'
        BY <1>3, <1>4, <1>5, <2>1, <2>2 DEF delivered
      <3>2. PICK t : t = w.pay.ref
        OBVIOUS
      <3>3. row.known => creditedTid(t)'
        BY <1>1, <1>3, <1>4, <1>10, <3>2 DEF creditedTid
      <3>4. handler'[h].pay.ref = t
        BY <2>1, <2>2, <3>2
      <3>5. webhooks'[handler'[h].row].known => creditedTid(handler[h].pay.ref)'
        BY <1>5, <2>1, <2>2, <3>3, <3>4 DEF creditedTid
      <3> QED BY <1>3, <2>1, <2>2, <3>1, <3>5 DEF knows, rowSteps
    <2> QED BY <1>3, <1>5, <1>6, <1>7, <1>8, <1>10, <2>1, <2>3, StepInv
  <1> QED BY <1>1, <1>9, <1>10

LEMMA SettleInv ==
    ASSUME AttestorInv, NEW h \in Handlers, Settle(h)
    PROVE  AttestorInv' /\ Grows
  <1> DEFINE w == handler[h]
             row == [intents[w.intent] EXCEPT !.status = "settled",
                                              !.tx = orElse(w.tx, intents[w.intent].tx)]
             new == [w EXCEPT !.pc = "readIntent"]
  <1>1. /\ w.pc = "settle" /\ intents' = [intents EXCEPT ![w.intent] = row] /\ GotoPc(h, "readIntent")
        /\ UNCHANGED <<events, webhooks, recorded, ledger, answered, quiet>>
    BY DEF Settle, At
  <1>2. TypeOK /\ w \in Handler /\ knows(w)
    BY ElementTypes DEF AttestorInv, HandlersKnow
  <1>3. w.intent \in DOMAIN intents /\ paidFor(w) /\ w.pay \in Payments /\ delivered(w)
    BY <1>1, <1>2 DEF knows, rowSteps
  <1>4. /\ row \in Intent /\ row.user = intents[w.intent].user /\ row.tid = intents[w.intent].tid
        /\ row.credit = intents[w.intent].credit
    <2>1. intents[w.intent] \in Intent /\ intents[w.intent].tx \in Refs /\ w.tx \in Refs
      BY <1>2, <1>3, ElementTypes DEF Handler
    <2>2. orElse(w.tx, intents[w.intent].tx) \in Refs
      BY <2>1 DEF orElse
    <2> QED BY <2>1, <2>2 DEF Intent
  <1> HIDE DEF row
  <1>5. Grows /\ TidsApart' /\ NamedCreditIsGood' /\ ProcessedIsCredited'
    BY <1>1, <1>3, <1>4, ChangedStays
  <1>6. /\ intents' \in Seq(Intent) /\ DOMAIN intents' = DOMAIN intents /\ intents'[w.intent] = row
    BY <1>1, <1>2, <1>3, <1>4, IntentChanged DEF TypeOK
  <1>7. TablesTyped'
    BY <1>1, <1>2, <1>6 DEF TablesTyped, TypeOK, ledger, quiet
  <1>8. /\ new \in Handler /\ Goto(h, new) /\ new.pc = "readIntent" /\ new.pay = w.pay
        /\ new.intent = w.intent /\ new.row = w.row /\ new.ref = w.ref
    <2>1. handler \in [Handlers -> Handler] /\ "readIntent" \in Pcs
      BY <1>2 DEF TypeOK, Pcs
    <2> QED BY <1>1, <2>1, PcMoves
  <1> HIDE DEF new
  <1>9. handler'[h] = new
    BY <1>2, <1>8, HandlerMoves DEF TypeOK
  <1>10. knows(handler[h])'
    <2>1. paidFor(handler[h])'
      BY <1>3, <1>4, <1>6, <1>8, <1>9 DEF paidFor
    <2>2. delivered(handler[h])'
      BY <1>1, <1>3, <1>8, <1>9 DEF delivered
    <2> QED BY <1>3, <1>6, <1>8, <1>9, <2>1, <2>2 DEF knows
  <1> QED BY <1>1, <1>5, <1>7, <1>8, <1>10, StepInv

LEMMA ProcessInv ==
    ASSUME AttestorInv, NEW h \in Handlers, Process(h)
    PROVE  AttestorInv' /\ Grows
  <1> DEFINE w == handler[h]
             row == [webhooks[w.row] EXCEPT !.processed = TRUE]
  <1>1. /\ w.pc = "process" /\ webhooks' = [webhooks EXCEPT ![w.row] = row] /\ Goto(h, Idle)
        /\ answered' \subseteq answered \cup {w.pay}
        /\ UNCHANGED <<intents, events, recorded, ledger, quiet>>
    BY DEF Process, At
  <1>2. /\ TypeOK /\ ProcessedIsCredited /\ TidsApart /\ NamedCreditIsGood
        /\ w \in Handler /\ knows(w)
    BY ElementTypes DEF AttestorInv, HandlersKnow
  <1>3. /\ w.pay \in Payments /\ w.row \in DOMAIN webhooks /\ webhooks[w.row].pay = w.pay
        /\ w.pay.kind = "flow"
        /\ webhooks[w.row].known => creditedTid(w.pay.ref)
    BY <1>1, <1>2 DEF knows, delivered
  <1>4. /\ row \in Delivery /\ row.pay = w.pay /\ row.known = webhooks[w.row].known
    <2>1. webhooks[w.row] \in Delivery
      BY <1>2, <1>3, ElementTypes
    <2> QED BY <1>3, <2>1 DEF Delivery
  <1> HIDE DEF row
  <1>5. /\ webhooks' \in Seq(Delivery) /\ DOMAIN webhooks' = DOMAIN webhooks
        /\ webhooks'[w.row] = row
        /\ \A k \in DOMAIN webhooks : k # w.row => webhooks'[k] = webhooks[k]
    BY <1>1, <1>2, <1>3, <1>4 DEF TypeOK
  <1>6. Grows
    BY <1>1, <1>3, <1>4, <1>5 DEF Grows, ledger
  <1>7. TidsApart' /\ NamedCreditIsGood' /\ ProcessedIsCredited'
    <2>1. TidsApart'
      BY <1>1, <1>2 DEF TidsApart
    <2>2. NamedCreditIsGood'
      BY <1>1, <1>2, <1>6, NamedStays
    <2>3. ProcessedIsCredited'
      BY <1>2, <1>3, <1>4, <1>5, <1>6, ProcessedStays
    <2> QED BY <2>1, <2>2, <2>3
  <1>8. TablesTyped'
    BY <1>1, <1>2, <1>3, <1>5 DEF TablesTyped, TypeOK, ledger, quiet
  <1>9. handler'[h] = Idle
    BY <1>1, <1>2, IdleIsHandler, HandlerMoves DEF TypeOK
  <1> QED BY <1>1, <1>3, <1>5, <1>6, <1>7, <1>8, <1>9, IdleKnows, IdleIsHandler, StepInv

\* A request that fails, or whose server goes down, leaves all rows as they are.
LEMMA AbortInv ==
    ASSUME AttestorInv, NEW h \in Handlers, Abort(h)
    PROVE  AttestorInv' /\ Grows
  <1>1. /\ aborts' = aborts + 1 /\ disturbed' = TRUE /\ Goto(h, Idle)
        /\ UNCHANGED <<tables, ledger, answered, requests>>
    BY DEF Abort
  <1>2. TypeOK
    BY DEF AttestorInv
  <1>3. Grows /\ TidsApart' /\ NamedCreditIsGood' /\ ProcessedIsCredited'
    BY <1>1, RowsStay DEF tables, ledger
  <1>4. TablesTyped'
    BY <1>1, <1>2 DEF TablesTyped, TypeOK, tables, ledger
  <1>5. handler'[h] = Idle
    BY <1>1, <1>2, IdleIsHandler, HandlerMoves DEF TypeOK
  <1>6. webhooks' = webhooks
    BY <1>1 DEF tables
  <1> QED BY <1>1, <1>3, <1>4, <1>5, <1>6, IdleKnows, IdleIsHandler, StepInv

-----------------------------------------------------------------------------
(* Steps of a vault deposit                                                *)

LEMMA SaveEventInv ==
    ASSUME AttestorInv, NEW h \in Handlers, SaveEvent(h)
    PROVE  AttestorInv' /\ Grows
  <1> DEFINE w == handler[h]
             p == w.pay
             next == [w EXCEPT !.pc = "findIntent"]
  <1>1. /\ w.pc = "saveEvent" /\ UNCHANGED <<intents, webhooks, recorded, ledger, answered, quiet>>
        /\ \/ Goto(h, Idle) /\ events' = events
           \/ GotoPc(h, "findIntent") /\ events' = [events EXCEPT ![p].exists = TRUE]
    BY DEF SaveEvent, At
  <1>2. TypeOK /\ w \in Handler /\ knows(w)
    BY ElementTypes DEF AttestorInv, HandlersKnow
  <1>3. p \in Payments /\ p.kind = "vault" /\ p \in vaultPayments
    BY <1>1, <1>2, PaymentTypes DEF knows
  <1>4. /\ events' \in [vaultPayments -> [exists : BOOLEAN, credit : Nat]]
        /\ \A q \in vaultPayments : events'[q].credit = events[q].credit
    <2> DEFINE Event == [exists : BOOLEAN, credit : Nat]
               event == [events[p] EXCEPT !.exists = TRUE]
    <2>1. events \in [vaultPayments -> Event] /\ events[p] \in Event
      BY <1>2, <1>3 DEF TypeOK
    <2>2. event \in Event /\ event.credit = events[p].credit
      BY <2>1
    <2>3. events' = events \/ events' = [events EXCEPT ![p] = event]
      BY <1>1
    <2> HIDE DEF Event, event
    <2>4. /\ events' \in [vaultPayments -> Event]
          /\ \A q \in vaultPayments : events'[q].credit = events[q].credit
      BY <1>3, <2>1, <2>2, <2>3
    <2> QED BY <2>4 DEF Event
  <1>5. Grows /\ TidsApart' /\ NamedCreditIsGood' /\ ProcessedIsCredited'
    BY <1>1, <1>4, RowsStay DEF ledger
  <1>6. TablesTyped'
    BY <1>1, <1>2, <1>4 DEF TablesTyped, TypeOK, ledger, quiet
  <1>7. CASE Goto(h, Idle)
    <2>1. handler'[h] = Idle
      BY <1>2, <1>7, IdleIsHandler, HandlerMoves DEF TypeOK
    <2> QED BY <1>1, <1>5, <1>6, <1>7, <2>1, IdleKnows, IdleIsHandler, StepInv
  <1>8. CASE GotoPc(h, "findIntent")
    <2>1. next \in Handler /\ Goto(h, next) /\ next.pc = "findIntent" /\ next.pay = p
      BY <1>2, <1>8, PcMoves DEF TypeOK, Pcs
    <2> HIDE DEF next
    <2>2. handler'[h] = next
      BY <1>2, <2>1, HandlerMoves DEF TypeOK
    <2>3. knows(handler[h])'
      BY <1>3, <2>1, <2>2 DEF knows, rowSteps
    <2> QED BY <1>1, <1>3, <1>5, <1>6, <2>1, <2>3, StepInv
  <1> QED BY <1>1, <1>7, <1>8

\* The intent found is one of the user who paid.
LEMMA FindIntentInv ==
    ASSUME AttestorInv, NEW h \in Handlers, FindIntent(h)
    PROVE  AttestorInv' /\ Grows
  <1> DEFINE w == handler[h]
             latest(i) == [w EXCEPT !.pc = "saveIntent", !.intent = i,
                                    !.ref = orElse(w.ref, w.pay.chainRef)]
  <1>1. w.pc = "findIntent" /\ UNCHANGED <<tables, ledger, answered, quiet>>
    BY DEF FindIntent, At
  <1>2. PICK i \in latestFor(w) : Goto(h, latest(i))
    BY DEF FindIntent
  <1>3. TypeOK /\ w \in Handler /\ knows(w)
    BY ElementTypes DEF AttestorInv, HandlersKnow
  <1>4. w.pay \in Payments /\ w.pay.kind = "vault"
    BY <1>1, <1>3 DEF knows
  <1>5. i \in Nat /\ (i # None => i \in DOMAIN intents /\ intents[i].user = w.pay.user)
    BY <1>3, ElementTypes DEF latestFor, intentsFor, None
  <1> DEFINE new == latest(i)
  <1>6. /\ new \in Handler /\ Goto(h, new)
        /\ new.pc = "saveIntent" /\ new.intent = i /\ new.pay = w.pay
    <2>1. orElse(w.ref, w.pay.chainRef) \in Refs
      BY <1>3, <1>4, PaymentTypes DEF orElse, Refs, Handler
    <2> QED BY <1>2, <1>3, <1>5, <2>1 DEF Handler, Pcs
  <1> HIDE DEF new, latest
  <1>7. Grows /\ TidsApart' /\ NamedCreditIsGood' /\ ProcessedIsCredited'
    BY <1>1, RowsStay DEF tables, ledger
  <1>8. TablesTyped' /\ intents' = intents /\ webhooks' = webhooks
    BY <1>1, <1>3 DEF TablesTyped, TypeOK, tables, ledger, quiet
  <1>9. handler'[h] = new
    BY <1>3, <1>6, HandlerMoves DEF TypeOK
  <1>10. knows(handler[h])'
    BY <1>4, <1>5, <1>6, <1>8, <1>9 DEF knows, rowSteps
  <1> QED BY <1>4, <1>6, <1>7, <1>8, <1>10, StepInv

\* The intent is the one found, or one opened for the payment.
LEMMA SaveIntentInv ==
    ASSUME AttestorInv, NEW h \in Handlers, SaveIntent(h)
    PROVE  AttestorInv' /\ Grows
  <1> DEFINE w == handler[h]
             i == w.intent
             opened == newIntent(w.pay, None, w.ref, w.tx, "settled")
             saved == [intents[i] EXCEPT !.amount = w.pay.amount, !.ref = w.ref,
                                         !.tx = w.tx, !.status = "settled"]
             j == IF i = None THEN Len(intents) + 1 ELSE i
             new == [w EXCEPT !.pc = "readIntent", !.intent = j]
  <1>1. /\ w.pc = "saveIntent" /\ Goto(h, new)
        /\ UNCHANGED <<events, webhooks, recorded, ledger, answered, quiet>>
        /\ intents' = IF i = None THEN Append(intents, opened) ELSE [intents EXCEPT ![i] = saved]
    BY DEF SaveIntent, At
  <1>2. TypeOK /\ w \in Handler /\ knows(w) /\ w.ref \in Refs /\ w.tx \in Refs
    BY ElementTypes DEF AttestorInv, HandlersKnow, Handler
  <1>3. /\ w.pay \in Payments /\ w.pay.kind = "vault" /\ None \in Nat
        /\ i # None => i \in DOMAIN intents /\ intents[i].user = w.pay.user
    BY <1>1, <1>2 DEF knows, None
  <1>4. opened \in Intent /\ opened.credit = None /\ opened.tid = None /\ opened.user = w.pay.user
    <2>1. PICK p \in Payments, ref \in Refs, tx \in Refs : p = w.pay /\ ref = w.ref /\ tx = w.tx
      BY <1>2, <1>3
    <2>2. opened = newIntent(p, None, ref, tx, "settled")
      BY <2>1
    <2>3. None \in Nat
      BY <1>3
    <2> DEFINE row == newIntent(p, None, ref, tx, "settled")
    <2>4. row \in Intent /\ row.credit = None /\ row.tid = None /\ row.user = p.user
      BY ONLY <2>3, p \in Payments, ref \in Refs, tx \in Refs, NewIntentType
    <2> HIDE DEF opened, row
    <2> QED BY <2>1, <2>2, <2>4 DEF row
  <1>5. ASSUME i # None
        PROVE  /\ saved \in Intent /\ saved.user = intents[i].user /\ saved.tid = intents[i].tid
               /\ saved.credit = intents[i].credit
    <2>1. intents[i] \in Intent /\ w.pay.amount \in Nat \ {0}
      BY <1>2, <1>3, <1>5, ElementTypes, PaymentTypes
    <2> QED BY <1>2, <2>1 DEF Intent
  <1> HIDE DEF opened, saved
  <1>6. Grows /\ TidsApart' /\ NamedCreditIsGood' /\ ProcessedIsCredited'
    <2>1. CASE i = None
      BY <1>1, <1>4, <2>1, OpenedStays
    <2>2. CASE i # None
      BY <1>1, <1>3, <1>5, <2>2, ChangedStays
    <2> QED BY <2>1, <2>2
  <1>7. /\ intents' \in Seq(Intent) /\ j \in DOMAIN intents' /\ intents'[j].user = w.pay.user
        /\ j \in Nat
    <2>1. CASE i = None
      BY <1>1, <1>2, <1>4, <2>1, IntentOpened DEF TypeOK
    <2>2. CASE i # None
      BY <1>1, <1>2, <1>3, <1>5, <2>2, IntentChanged, ElementTypes DEF TypeOK
    <2> QED BY <2>1, <2>2
  <1> HIDE DEF j
  <1>8. TablesTyped'
    BY <1>1, <1>2, <1>7 DEF TablesTyped, TypeOK, ledger, quiet
  <1>9. new \in Handler /\ new.pc = "readIntent" /\ new.intent = j /\ new.pay = w.pay
    BY <1>2, <1>7 DEF Handler, Pcs
  <1> HIDE DEF new
  <1>10. handler'[h] = new
    BY <1>1, <1>2, <1>9, HandlerMoves DEF TypeOK
  <1>11. knows(handler[h])'
    <2>1. paidFor(handler[h])'
      BY <1>3, <1>7, <1>9, <1>10 DEF paidFor
    <2> QED BY <1>3, <1>7, <1>9, <1>10, <2>1 DEF knows
  <1> QED BY <1>1, <1>3, <1>6, <1>8, <1>9, <1>11, StepInv

LEMMA CloseEventInv ==
    ASSUME AttestorInv, NEW h \in Handlers, CloseEvent(h)
    PROVE  AttestorInv' /\ Grows
  <1> DEFINE w == handler[h]
             p == w.pay
             Event == [exists : BOOLEAN, credit : Nat]
             event == [events[p] EXCEPT !.credit = w.credit]
  <1>1. /\ w.pc = "closeEvent" /\ events' = [events EXCEPT ![p] = event] /\ Goto(h, Idle)
        /\ answered' = answered \cup {p}
        /\ UNCHANGED <<intents, webhooks, recorded, ledger, quiet>>
    BY DEF CloseEvent, At
  <1>2. TypeOK /\ w \in Handler /\ knows(w) /\ w.credit \in Nat
    BY ElementTypes DEF AttestorInv, HandlersKnow, Handler
  <1>3. p \in Payments /\ p \in vaultPayments /\ goodCredit(w.credit, p.user)
    BY <1>1, <1>2, PaymentTypes DEF knows
  <1>4. event \in Event /\ event.credit = w.credit
    BY <1>2, <1>3 DEF TypeOK
  <1>5. events \in [vaultPayments -> Event]
    BY <1>2 DEF TypeOK
  <1> HIDE DEF Event, event
  <1>6. /\ events' \in [vaultPayments -> Event] /\ events'[p].credit = w.credit
        /\ \A q \in vaultPayments : q # p => events'[q].credit = events[q].credit
    BY <1>1, <1>3, <1>4, <1>5
  <1>7. Grows /\ TidsApart' /\ NamedCreditIsGood' /\ ProcessedIsCredited'
    BY <1>1, <1>3, <1>6, RowsStay DEF ledger
  <1>8. TablesTyped'
    BY <1>1, <1>2, <1>3, <1>6 DEF TablesTyped, TypeOK, ledger, quiet, Event
  <1>9. handler'[h] = Idle
    BY <1>1, <1>2, IdleIsHandler, HandlerMoves DEF TypeOK
  <1> QED BY <1>1, <1>7, <1>8, <1>9, IdleKnows, IdleIsHandler, StepInv

-----------------------------------------------------------------------------
(* Steps of createPayrollCreditFromFundingIntent                           *)

\* Where a route goes on with the contract id it has got.
LEMMA ReturnMoves ==
    ASSUME TypeOK, NEW h \in Handlers, handler[h].pay \in Payments, NEW c \in Nat, Return(h, c)
    PROVE  \E new \in Handler :
               /\ Goto(h, new) /\ answered' \subseteq answered \cup {handler[h].pay}
               /\ \/ handler[h].pay.kind \in {"direct", "employer"} /\ new = Idle
                  \/ /\ new.pc = "process" /\ handler[h].pay.kind = "flow"
                     /\ new.pay = handler[h].pay /\ new.row = handler[h].row
                     /\ new.ref = handler[h].ref
                  \/ /\ new.pc = "closeEvent" /\ handler[h].pay.kind = "vault"
                     /\ new.pay = handler[h].pay /\ new.credit = c
  <1> DEFINE w == handler[h]
             v == [w EXCEPT !.credit = c]
             process == [v EXCEPT !.pc = "process"]
             close == [v EXCEPT !.pc = "closeEvent"]
  <1>1. w \in Handler /\ w.pay.kind \in {"flow", "direct", "employer", "vault"}
    BY ElementTypes, PaymentTypes
  <1>2. /\ v.pay = w.pay
        /\ process \in Handler /\ process.pc = "process" /\ process.pay = w.pay
        /\ process.row = w.row /\ process.ref = w.ref
        /\ close \in Handler /\ close.pc = "closeEvent" /\ close.pay = w.pay /\ close.credit = c
    BY <1>1 DEF Handler, Pcs
  <1>3. \/ w.pay.kind = "flow" /\ Goto(h, process) /\ answered' = answered
        \/ w.pay.kind = "vault" /\ Goto(h, close) /\ answered' = answered
        \/ /\ w.pay.kind \in {"direct", "employer"}
           /\ Goto(h, Idle) /\ answered' = answered \cup {w.pay}
    BY <1>1, <1>2 DEF Return
  <1> HIDE DEF v, process, close
  <1> QED BY <1>2, <1>3, IdleIsHandler

\* A route that returns a good credit, which its intent names.
LEMMA ReturnInv ==
    ASSUME AttestorInv, NEW h \in Handlers, handler[h].pc \in rowSteps, NEW c \in Nat, Return(h, c),
           goodCredit(c, intents[handler[h].intent].user),
           intents' \in Seq(Intent), intents'[handler[h].intent].credit # None,
           Grows /\ TidsApart' /\ NamedCreditIsGood' /\ ProcessedIsCredited',
           UNCHANGED <<events, webhooks, recorded, ledger, quiet>>
    PROVE  AttestorInv' /\ Grows
  <1> DEFINE w == handler[h]
  <1>1. TypeOK /\ w \in Handler /\ knows(w)
    BY ElementTypes DEF AttestorInv, HandlersKnow
  <1>2. /\ w.pay \in Payments /\ w.intent \in DOMAIN intents /\ paidFor(w)
        /\ w.pay.kind = "flow" => delivered(w)
    BY <1>1 DEF knows, rowSteps
  <1>3. PICK new \in Handler :
            /\ Goto(h, new) /\ answered' \subseteq answered \cup {w.pay}
            /\ \/ w.pay.kind \in {"direct", "employer"} /\ new = Idle
               \/ /\ new.pc = "process" /\ w.pay.kind = "flow"
                  /\ new.pay = w.pay /\ new.row = w.row /\ new.ref = w.ref
               \/ /\ new.pc = "closeEvent" /\ w.pay.kind = "vault"
                  /\ new.pay = w.pay /\ new.credit = c
    BY <1>1, <1>2, ReturnMoves
  <1>4. TablesTyped'
    BY <1>1, <1>2, <1>3 DEF TablesTyped, TypeOK, ledger, quiet
  <1>5. handler'[h] = new
    BY <1>1, <1>3, HandlerMoves DEF TypeOK
  <1>6. knows(handler[h])'
    <2>1. CASE new = Idle
      BY <1>5, <2>1, IdleKnows
    <2>2. CASE /\ new.pc = "process" /\ w.pay.kind = "flow"
               /\ new.pay = w.pay /\ new.row = w.row /\ new.ref = w.ref
      <3>1. delivered(handler[h])'
        BY <1>2, <1>5, <2>2 DEF delivered
      <3>2. /\ w.intent \in DOMAIN intents' /\ intents'[w.intent].tid = w.pay.ref
            /\ handler'[h].pay.ref = w.pay.ref
        BY <1>2, <1>5, <2>2 DEF paidFor, Grows
      <3>3. creditedTid(handler[h].pay.ref)'
        BY <3>2 DEF creditedTid
      <3> QED BY <1>2, <1>5, <2>2, <3>1, <3>3 DEF knows, rowSteps
    <2>3. CASE /\ new.pc = "closeEvent" /\ w.pay.kind = "vault"
               /\ new.pay = w.pay /\ new.credit = c
      <3>1. intents[w.intent].user = w.pay.user
        BY <1>2, <2>3 DEF paidFor
      <3>2. goodCredit(new.credit, new.pay.user)
        BY <2>3, <3>1
      <3>3. goodCredit(handler[h].credit, handler[h].pay.user)'
        BY <1>5, <3>2 DEF goodCredit, ledger
      <3> QED BY <1>2, <1>5, <2>3, <3>3 DEF knows, rowSteps
    <2> QED BY <1>3, <2>1, <2>2, <2>3
  <1> QED BY <1>3, <1>4, <1>6, IdleIsHandler, StepInv

LEMMA ReadIntentInv ==
    ASSUME AttestorInv, NEW h \in Handlers, ReadIntent(h)
    PROVE  AttestorInv' /\ Grows
  <1> DEFINE w == handler[h]
             row == intents[w.intent]
             new == [w EXCEPT !.pc = "findExisting", !.tid = row.tid, !.amount = row.amount,
                              !.tx = orElse(w.tx, row.tx)]
  <1>1. /\ w.pc = "readIntent" /\ UNCHANGED <<tables, ledger, quiet>>
        /\ \/ row.credit # None /\ Return(h, row.credit)
           \/ row.credit = None /\ Goto(h, new) /\ answered' = answered
    BY DEF ReadIntent, At
  <1>2. TypeOK /\ NamedCreditIsGood /\ w \in Handler /\ knows(w)
    BY ElementTypes DEF AttestorInv, HandlersKnow
  <1>3. /\ w.pay \in Payments /\ w.intent \in DOMAIN intents /\ paidFor(w)
        /\ w.pay.kind = "flow" => delivered(w)
    BY <1>1, <1>2 DEF knows, rowSteps
  <1>4. /\ row.credit \in Nat /\ row.tid \in Nat /\ row.amount \in Nat \ {0}
        /\ orElse(w.tx, row.tx) \in Refs
    BY <1>2, <1>3, ElementTypes DEF orElse, Handler
  <1>5. Grows /\ TidsApart' /\ NamedCreditIsGood' /\ ProcessedIsCredited'
    BY <1>1, RowsStay DEF tables, ledger
  <1>6. UNCHANGED <<intents, events, webhooks, recorded, ledger, quiet>>
    BY <1>1 DEF tables
  <1>7. CASE row.credit # None /\ Return(h, row.credit)
    <2>1. goodCredit(row.credit, row.user)
      BY <1>2, <1>3, <1>7 DEF NamedCreditIsGood
    <2>2. intents' \in Seq(Intent) /\ w.pc \in rowSteps
      BY <1>1, <1>2, <1>6 DEF TypeOK, rowSteps
    <2> QED BY <1>4, <1>5, <1>6, <1>7, <2>1, <2>2, ReturnInv
  <1>8. CASE row.credit = None /\ Goto(h, new) /\ answered' = answered
    <2>1. /\ new \in Handler /\ new.pc = "findExisting" /\ new.pay = w.pay /\ new.row = w.row
          /\ new.intent = w.intent /\ new.ref = w.ref /\ new.tid = row.tid /\ new.amount = row.amount
      BY <1>2, <1>4 DEF Handler, Pcs
    <2> HIDE DEF new
    <2>2. handler'[h] = new
      BY <1>2, <1>8, <2>1, HandlerMoves DEF TypeOK
    <2>3. TablesTyped'
      BY <1>2, <1>6, <1>8 DEF TablesTyped, TypeOK, ledger, quiet
    <2>4. knows(handler[h])'
      <3>1. paidFor(handler[h])'
        BY <1>3, <1>6, <2>1, <2>2 DEF paidFor
      <3>2. handler'[h].pay.kind = "flow" => delivered(handler[h])'
        BY <1>3, <1>6, <2>1, <2>2 DEF delivered
      <3>3. /\ handler'[h].intent \in DOMAIN intents' /\ handler'[h].amount # 0
            /\ handler'[h].tid = intents'[handler'[h].intent].tid
        BY <1>3, <1>4, <1>6, <2>1, <2>2
      <3> QED BY <1>3, <2>1, <2>2, <3>1, <3>2, <3>3 DEF knows
    <2> QED BY <1>3, <1>5, <1>6, <1>8, <2>1, <2>3, <2>4, StepInv
  <1> QED BY <1>1, <1>7, <1>8

\* Handlers that go on with their intent, and change neither it nor the tables
\* of the routes.
LEMMA WorkInv ==
    ASSUME AttestorInv, NEW h \in Handlers, NEW new \in Handler, Goto(h, new),
           handler[h].pc \in rowSteps, new.pc \in rowSteps \ {"settle", "readIntent"},
           new.pay = handler[h].pay, new.row = handler[h].row, new.intent = handler[h].intent,
           new.ref = handler[h].ref,
           new.pc = "createCredit" => new.amount # 0 /\ new.tid = intents[new.intent].tid,
           new.pc # "findExisting",
           UNCHANGED <<intents, events, webhooks, answered, quiet>>,
           credits' \in Seq(CreditContract),
           recorded' \subseteq DOMAIN credits', audited' \subseteq DOMAIN credits',
           \A c \in DOMAIN credits : c \in DOMAIN credits' /\ credits'[c] = credits[c],
           recorded \subseteq recorded', audited \subseteq audited',
           new.pc # "createCredit" => holds(handler[h])'
    PROVE  AttestorInv' /\ Grows
  <1> DEFINE w == handler[h]
  <1>1. TypeOK /\ w \in Handler /\ knows(w)
    BY ElementTypes DEF AttestorInv, HandlersKnow
  <1>2. /\ w.pay \in Payments /\ w.intent \in DOMAIN intents /\ paidFor(w)
        /\ w.pay.kind = "flow" => delivered(w)
    BY <1>1 DEF knows, rowSteps
  <1>3. Grows /\ TidsApart' /\ NamedCreditIsGood' /\ ProcessedIsCredited'
    BY RowsStay
  <1>4. TablesTyped'
    BY <1>1 DEF TablesTyped, TypeOK, quiet
  <1>5. handler'[h] = new
    BY <1>1, HandlerMoves DEF TypeOK
  <1>6. paidFor(handler[h])'
    BY <1>2, <1>5 DEF paidFor
  <1>7. handler'[h].pay.kind = "flow" => delivered(handler[h])'
    BY <1>2, <1>5 DEF delivered, rowSteps
  <1>8. knows(handler[h])'
    BY <1>2, <1>5, <1>6, <1>7 DEF knows, rowSteps
  <1> QED BY <1>2, <1>3, <1>4, <1>8, StepInv

LEMMA FindExistingInv ==
    ASSUME AttestorInv, NEW h \in Handlers, FindExisting(h)
    PROVE  AttestorInv' /\ Grows
  <1> DEFINE w == handler[h]
             reuse(j) == [w EXCEPT !.pc = "reuse", !.credit = intents[j].credit]
             create == [w EXCEPT !.pc = "createCredit"]
  <1>1. /\ w.pc = "findExisting" /\ UNCHANGED <<tables, ledger, answered, quiet>>
        /\ \/ GotoPc(h, "createCredit")
           \/ \E j \in duplicatesOf(w) : Goto(h, reuse(j))
    BY DEF FindExisting, At
  <1>2. TypeOK /\ NamedCreditIsGood /\ w \in Handler /\ knows(w)
    BY ElementTypes DEF AttestorInv, HandlersKnow
  <1>3. w.amount # 0 /\ w.tid = intents[w.intent].tid
    BY <1>1, <1>2 DEF knows
  <1>4. /\ UNCHANGED <<intents, events, webhooks, recorded, ledger, credits, audited, answered, quiet>>
        /\ w.pc \in rowSteps
    BY <1>1 DEF tables, ledger, rowSteps
  <1>5. /\ credits' \in Seq(CreditContract)
        /\ recorded' \subseteq DOMAIN credits' /\ audited' \subseteq DOMAIN credits'
    BY <1>2, <1>4 DEF TypeOK
  <1>6. CASE GotoPc(h, "createCredit")
    <2>1. /\ create \in Handler /\ Goto(h, create) /\ create.pc = "createCredit"
          /\ create.pay = w.pay /\ create.row = w.row /\ create.intent = w.intent
          /\ create.ref = w.ref /\ create.amount = w.amount /\ create.tid = w.tid
      <3>1. handler \in [Handlers -> Handler] /\ "createCredit" \in Pcs
        BY <1>2 DEF TypeOK, Pcs
      <3> QED BY <1>6, <3>1, PcMoves
    <2> HIDE DEF create
    <2>2. create.pc \in rowSteps \ {"settle", "readIntent"}
      BY <2>1 DEF rowSteps
    <2> QED BY <1>3, <1>4, <1>5, <2>1, <2>2, WorkInv
  <1>7. ASSUME NEW j \in duplicatesOf(w), Goto(h, reuse(j))
        PROVE  AttestorInv' /\ Grows
    <2> DEFINE new == reuse(j)
    <2>1. /\ j \in DOMAIN intents /\ intents[j].user = intents[w.intent].user
          /\ intents[j].credit # None
      BY DEF duplicatesOf
    <2>2. goodCredit(intents[j].credit, intents[w.intent].user) /\ intents[j].credit \in Nat
      BY <1>2, <2>1, ElementTypes DEF NamedCreditIsGood
    <2>3. /\ new \in Handler /\ Goto(h, new) /\ new.pc = "reuse" /\ new.credit = intents[j].credit
          /\ new.pay = w.pay /\ new.row = w.row /\ new.intent = w.intent /\ new.ref = w.ref
      BY <1>2, <1>7, <2>2 DEF Handler, Pcs
    <2> HIDE DEF new, reuse
    <2>4. handler'[h] = new
      BY <1>2, <2>3, HandlerMoves DEF TypeOK
    <2>5. holds(handler[h])'
      BY <1>4, <2>2, <2>3, <2>4 DEF holds, goodCredit
    <2>6. new.pc \in rowSteps \ {"settle", "readIntent"}
      BY <2>3 DEF rowSteps
    <2> QED BY <1>4, <1>5, <2>3, <2>5, <2>6, WorkInv
  <1> QED BY <1>1, <1>6, <1>7

LEMMA CreateCreditInv ==
    ASSUME AttestorInv, NEW h \in Handlers, CreateCredit(h)
    PROVE  AttestorInv' /\ Grows
  <1> DEFINE w == handler[h]
             c == Len(credits) + 1
             contract == [user |-> intents[w.intent].user, amount |-> w.amount,
                          ref |-> w.ref, pay |-> w.pay]
             new == [w EXCEPT !.pc = "record", !.credit = c]
  <1>1. /\ w.pc = "createCredit" /\ credits' = Append(credits, contract) /\ Goto(h, new)
        /\ UNCHANGED <<tables, audited, answered, quiet>>
    BY DEF CreateCredit, At
  <1>2. TypeOK /\ w \in Handler /\ knows(w)
    BY ElementTypes DEF AttestorInv, HandlersKnow
  <1>3. w.pay \in Payments /\ w.intent \in DOMAIN intents /\ w.amount # 0
    BY <1>1, <1>2 DEF knows, rowSteps
  <1>4. contract \in CreditContract /\ contract.user = intents[w.intent].user
    <2>1. intents[w.intent].user \in Users /\ w.amount \in Nat \ {0} /\ w.ref \in Refs
      BY <1>2, <1>3, ElementTypes DEF Handler
    <2> QED BY <1>3, <2>1 DEF CreditContract
  <1> HIDE DEF contract
  <1>5. c \in Nat
    BY <1>2, ElementTypes
  <1>6. /\ new \in Handler /\ new.pc = "record" /\ new.credit = c
        /\ new.pay = w.pay /\ new.row = w.row /\ new.intent = w.intent /\ new.ref = w.ref
    BY <1>2, <1>5 DEF Handler, Pcs
  <1> HIDE DEF new
  <1>7. /\ credits' \in Seq(CreditContract) /\ c \in DOMAIN credits' /\ credits'[c] = contract
        /\ \A d \in DOMAIN credits : d \in DOMAIN credits' /\ credits'[d] = credits[d]
    BY <1>1, <1>2, <1>4 DEF TypeOK
  <1> HIDE DEF c
  <1>8. /\ UNCHANGED <<intents, events, webhooks, recorded, audited, answered, quiet>>
        /\ w.pc \in rowSteps /\ new.pc \in rowSteps \ {"settle", "readIntent"}
    BY <1>1, <1>6 DEF tables, rowSteps
  <1>9. recorded' \subseteq DOMAIN credits' /\ audited' \subseteq DOMAIN credits'
    BY <1>2, <1>7, <1>8 DEF TypeOK
  <1>10. handler'[h] = new
    BY <1>1, <1>2, <1>6, HandlerMoves DEF TypeOK
  <1>11. holds(handler[h])'
    BY <1>4, <1>6, <1>7, <1>8, <1>10 DEF holds
  <1> QED BY <1>1, <1>6, <1>7, <1>8, <1>9, <1>11, WorkInv

LEMMA RecordContractInv ==
    ASSUME AttestorInv, NEW h \in Handlers, RecordContract(h)
    PROVE  AttestorInv' /\ Grows
  <1> DEFINE w == handler[h]
             new == [w EXCEPT !.pc = "audit"]
  <1>1. /\ w.pc = "record" /\ recorded' = recorded \cup {w.credit} /\ GotoPc(h, "audit")
        /\ UNCHANGED <<intents, events, webhooks, ledger, credits, audited, answered, quiet>>
    BY DEF RecordContract, At, ledger
  <1>2. TypeOK /\ w \in Handler /\ knows(w)
    BY ElementTypes DEF AttestorInv, HandlersKnow
  <1>3. holds(w)
    BY <1>1, <1>2 DEF knows
  <1>4. /\ new \in Handler /\ Goto(h, new) /\ new.pc = "audit" /\ new.credit = w.credit
        /\ new.pay = w.pay /\ new.row = w.row /\ new.intent = w.intent /\ new.ref = w.ref
    <2>1. handler \in [Handlers -> Handler] /\ "audit" \in Pcs
      BY <1>2 DEF TypeOK, Pcs
    <2> QED BY <1>1, <2>1, PcMoves
  <1> HIDE DEF new
  <1>5. /\ w.pc \in rowSteps /\ new.pc \in rowSteps \ {"settle", "readIntent"}
        /\ w.credit \in DOMAIN credits
    BY <1>1, <1>3, <1>4 DEF rowSteps, holds
  <1>6. /\ credits' \in Seq(CreditContract)
        /\ recorded' \subseteq DOMAIN credits' /\ audited' \subseteq DOMAIN credits'
    BY <1>1, <1>2, <1>5 DEF TypeOK
  <1>7. handler'[h] = new
    BY <1>2, <1>4, HandlerMoves DEF TypeOK
  <1>8. holds(handler[h])'
    BY <1>1, <1>3, <1>4, <1>7 DEF holds
  <1> QED BY <1>1, <1>4, <1>5, <1>6, <1>8, WorkInv

LEMMA CreateAuditInv ==
    ASSUME AttestorInv, NEW h \in Handlers, CreateAudit(h)
    PROVE  AttestorInv' /\ Grows
  <1> DEFINE w == handler[h]
             new == [w EXCEPT !.pc = "name"]
  <1>1. /\ w.pc = "audit" /\ audited' = audited \cup {w.credit} /\ GotoPc(h, "name")
        /\ UNCHANGED <<intents, events, webhooks, recorded, credits, answered, quiet>>
    BY DEF CreateAudit, At, tables
  <1>2. TypeOK /\ w \in Handler /\ knows(w)
    BY ElementTypes DEF AttestorInv, HandlersKnow
  <1>3. holds(w)
    BY <1>1, <1>2 DEF knows
  <1>4. /\ new \in Handler /\ Goto(h, new) /\ new.pc = "name" /\ new.credit = w.credit
        /\ new.pay = w.pay /\ new.row = w.row /\ new.intent = w.intent /\ new.ref = w.ref
    <2>1. handler \in [Handlers -> Handler] /\ "name" \in Pcs
      BY <1>2 DEF TypeOK, Pcs
    <2> QED BY <1>1, <2>1, PcMoves
  <1> HIDE DEF new
  <1>5. /\ w.pc \in rowSteps /\ new.pc \in rowSteps \ {"settle", "readIntent"}
        /\ w.credit \in DOMAIN credits
    BY <1>1, <1>3, <1>4 DEF rowSteps, holds
  <1>6. /\ credits' \in Seq(CreditContract)
        /\ recorded' \subseteq DOMAIN credits' /\ audited' \subseteq DOMAIN credits'
    BY <1>1, <1>2, <1>5 DEF TypeOK
  <1>7. handler'[h] = new
    BY <1>2, <1>4, HandlerMoves DEF TypeOK
  <1>8. holds(handler[h])'
    BY <1>1, <1>3, <1>4, <1>7 DEF holds
  <1> QED BY <1>1, <1>4, <1>5, <1>6, <1>8, WorkInv

\* The intent names the credit found, or the one created.
LEMMA NamingInv ==
    ASSUME AttestorInv, NEW h \in Handlers, Reuse(h) \/ NameCredit(h)
    PROVE  AttestorInv' /\ Grows
  <1> DEFINE w == handler[h]
             row == [intents[w.intent] EXCEPT !.status = "settled", !.credit = w.credit,
                                              !.ref = w.ref, !.tx = w.tx]
  <1>1. /\ w.pc \in {"reuse", "name"} /\ intents' = [intents EXCEPT ![w.intent] = row]
        /\ Return(h, w.credit) /\ UNCHANGED <<events, webhooks, recorded, ledger, quiet>>
    BY DEF Reuse, NameCredit, nameCredit, At
  <1>2. TypeOK /\ w \in Handler /\ knows(w) /\ DOMAIN credits = 1..Len(credits)
    BY ElementTypes DEF AttestorInv, HandlersKnow
  <1>3. w.intent \in DOMAIN intents /\ holds(w) /\ w.pc \in rowSteps
    BY <1>1, <1>2 DEF knows, rowSteps
  <1>4. goodCredit(w.credit, intents[w.intent].user)
    BY <1>1, <1>3 DEF holds, goodCredit
  <1>5. w.credit # None /\ w.credit \in Nat /\ w.ref \in Refs /\ w.tx \in Refs
    BY <1>2, <1>4 DEF goodCredit, None, Handler
  <1>6. /\ row \in Intent /\ row.user = intents[w.intent].user /\ row.tid = intents[w.intent].tid
        /\ row.credit = w.credit
    <2>1. intents[w.intent] \in Intent
      BY <1>2, <1>3, ElementTypes
    <2> QED BY <1>5, <2>1 DEF Intent
  <1> HIDE DEF row
  <1>7. Grows /\ TidsApart' /\ NamedCreditIsGood' /\ ProcessedIsCredited'
    BY <1>1, <1>3, <1>4, <1>6, ChangedStays
  <1>8. intents' \in Seq(Intent) /\ intents'[w.intent] = row
    BY <1>1, <1>2, <1>3, <1>6, IntentChanged DEF TypeOK
  <1> QED BY <1>1, <1>3, <1>4, <1>5, <1>6, <1>7, <1>8, ReturnInv

-----------------------------------------------------------------------------
(* The invariant, and what follows from it                                 *)

LEMMA NextInv == AttestorInv /\ [Next]_vars => AttestorInv' /\ Grows
  <1> SUFFICES ASSUME AttestorInv, [Next]_vars PROVE AttestorInv' /\ Grows
    OBVIOUS
  <1>1. CASE Arrive
    BY <1>1, OpenInv, DepositInv, WebhookInv, VerifyDepositInv DEF Arrive
  <1>2. ASSUME NEW h \in Handlers, Step(h) PROVE AttestorInv' /\ Grows
    BY <1>2, LookUpInv, SettleInv, ProcessInv, SaveEventInv, FindIntentInv, SaveIntentInv,
       CloseEventInv, ReadIntentInv, FindExistingInv, NamingInv, CreateCreditInv,
       RecordContractInv, CreateAuditInv DEF Step
  <1>3. ASSUME NEW h \in Handlers, Abort(h) PROVE AttestorInv' /\ Grows
    BY <1>3, AbortInv
  <1>4. CASE UNCHANGED vars
    <2>1. UNCHANGED <<intents, events, webhooks, recorded, credits, audited, answered,
                      handler, requests, aborts, disturbed>>
      BY <1>4 DEF vars, tables, ledger
    <2>2. HandlersKnow'
      <3> SUFFICES ASSUME NEW h \in Handlers PROVE knows(handler[h])'
        BY DEF HandlersKnow
      <3>1. PICK w : w = handler[h] /\ knows(w)
        BY DEF AttestorInv, HandlersKnow
      <3>2. knows(w)' /\ handler'[h] = w
        BY <2>1, <3>1, KnowledgeStays DEF Grows
      <3> QED BY <3>2
    <2>3. TypeOK' /\ DeliveriesApart' /\ TidsApart'
      BY <2>1 DEF AttestorInv, TypeOK, DeliveriesApart, TidsApart
    <2>4. NamedCreditIsGood' /\ ProcessedIsCredited'
      BY <2>1 DEF AttestorInv, NamedCreditIsGood, ProcessedIsCredited, goodCredit
    <2>5. Grows
      BY <2>1 DEF Grows
    <2> QED BY <2>2, <2>3, <2>4, <2>5 DEF AttestorInv
  <1> QED BY <1>1, <1>2, <1>3, <1>4 DEF Next

LEMMA AttestorInvHolds == Spec => []AttestorInv
  BY InitInv, NextInv, PTL DEF Spec

-----------------------------------------------------------------------------
(* Requests that come one after the other                                  *)

LEMMA FoundStays ==
    ASSUME Grows, NEW p \in Payments, found(p)
    PROVE  found(p)'
  <1>1. p.kind = "vault" => p \in vaultPayments
    BY PaymentTypes
  <1> QED BY <1>1 DEF found, Grows, creditedTid

LEMMA IdleUnanswered ==
    ASSUME NEW h \in Handlers, handler'[h] = Idle
    PROVE  unanswered(handler[h])'
  BY IdleIsHandler DEF unanswered

\* A step of the only request at work.
LEMMA LoneStep ==
    ASSUME AttestorInv, Grows, Undisturbed, ~disturbed, ~disturbed',
           NEW h \in Handlers, NEW new \in Handler, Goto(h, new), handler[h].pc # "idle",
           NEW p, p = handler[h].pay,
           unanswered(handler[h])',
           \A c \in DOMAIN credits' :
               c \in DOMAIN credits \/ (credits'[c].pay = p /\ new.pay = p /\ new.pc = "record"),
           handler[h].pc \in {"record", "audit", "name", "closeEvent"} =>
               \/ found(p)'
               \/ new.pay = p /\ new.pc \in {"record", "audit", "name", "closeEvent"}
    PROVE  Undisturbed'
  <1>1. /\ TypeOK /\ HandlersKnow /\ handler'[h] = new
        /\ \A g \in Handlers : g # h => handler'[g] = handler[g]
    BY HandlerMoves DEF AttestorInv, TypeOK
  <1>2. \A g \in Handlers : g # h => handler[g].pc = "idle"
    BY DEF Undisturbed
  <1>3. \A g \in Handlers : g # h => handler'[g] = Idle
    BY <1>1, <1>2 DEF HandlersKnow, knows
  <1>4. \A g1, g2 \in Handlers : handler'[g1].pc # "idle" /\ handler'[g2].pc # "idle" => g1 = g2
    BY <1>3, IdleIsHandler
  <1>5. \A g \in Handlers : unanswered(handler[g])'
    BY <1>3, IdleUnanswered
  <1>6. ASSUME NEW c \in DOMAIN credits'
        PROVE  found(credits[c].pay)' \/ underWay(credits[c].pay)'
    <2>1. CASE c \notin DOMAIN credits
      BY <1>1, <1>6, <2>1 DEF underWay
    <2>2. CASE c \in DOMAIN credits
      <3>1. PICK q \in Payments : q = credits[c].pay
        BY <1>1, <2>2, ElementTypes
      <3>2. credits'[c].pay = q
        BY <2>2, <3>1 DEF Grows
      <3>3. found(q) \/ underWay(q)
        BY <2>2, <3>1 DEF Undisturbed
      <3>4. found(q)' \/ underWay(q)'
        <4>1. CASE found(q)
          BY <4>1, FoundStays
        <4>2. CASE underWay(q)
          <5>1. q = p /\ handler[h].pc \in {"record", "audit", "name", "closeEvent"}
            BY <1>2, <4>2 DEF underWay
          <5>2. CASE found(p)'
            BY <5>1, <5>2
          <5>3. CASE new.pay = p /\ new.pc \in {"record", "audit", "name", "closeEvent"}
            BY <1>1, <5>1, <5>3 DEF underWay
          <5> QED BY <5>1, <5>2, <5>3
        <4> QED BY <3>3, <4>1, <4>2
      <3>5. CASE found(q)'
        BY <3>2, <3>5 DEF found
      <3>6. CASE underWay(q)'
        BY <3>2, <3>6 DEF underWay
      <3> QED BY <3>4, <3>5, <3>6
    <2> QED BY <2>1, <2>2
  <1> QED BY <1>4, <1>5, <1>6 DEF Undisturbed

\* A request that nobody disturbs comes when all others are answered.
LEMMA LoneRequest ==
    ASSUME AttestorInv, Grows, Undisturbed, NEW h \in Handlers, NEW new \in Handler, Begin(h, new),
           ~disturbed', new.pc \in {"idle", "readIntent", "lookUp", "saveEvent"},
           new.pc = "idle" => new = Idle,
           new.pay.kind = "vault" => events'[new.pay].credit = None
    PROVE  Undisturbed'
  <1>1. /\ TypeOK /\ HandlersKnow /\ handler'[h] = new /\ credits' = credits
        /\ \A g \in Handlers : g # h => handler'[g] = handler[g]
        /\ ~disturbed /\ \A g \in Handlers : handler[g] = Idle
    BY HandlerMoves DEF AttestorInv, TypeOK, Begin, Goto, ledger
  <1>2. \A g1, g2 \in Handlers : handler'[g1].pc # "idle" /\ handler'[g2].pc # "idle" => g1 = g2
    BY <1>1, IdleIsHandler
  <1>3. ASSUME NEW g \in Handlers PROVE unanswered(handler[g])'
    <2>1. CASE g # h
      BY <1>1, <2>1, IdleUnanswered
    <2>2. CASE g = h
      BY <1>1, <2>2 DEF unanswered
    <2> QED BY <2>1, <2>2
  <1>4. ASSUME NEW c \in DOMAIN credits' PROVE found(credits[c].pay)'
    <2>1. PICK q \in Payments : q = credits[c].pay
      BY <1>1, <1>4, ElementTypes
    <2>2. found(q) /\ credits'[c].pay = q
      BY <1>1, <1>4, <2>1, IdleIsHandler DEF Undisturbed, underWay
    <2>3. found(q)'
      BY <2>2, FoundStays
    <2> QED BY <2>2, <2>3 DEF found
  <1> QED BY <1>2, <1>3, <1>4 DEF Undisturbed

LEMMA OpenUndisturbed ==
    ASSUME AttestorInv, Grows, Undisturbed, ~disturbed', NEW p \in Payments,
           FlowCheckout(p) \/ FlowUnavailable(p) \/ BlinkSession(p)
    PROVE  Undisturbed'
  <1>1. PICK intent : Open(intent) /\ intent.credit = None
    BY DEF FlowCheckout, FlowUnavailable, BlinkSession, newIntent
  <1>2. /\ ~disturbed /\ handler' = handler /\ credits' = credits /\ events' = events
        /\ intents' = Append(intents, intent)
    BY <1>1 DEF Open, ledger
  <1>3. TypeOK /\ HandlersKnow
    BY DEF AttestorInv
  <1>4. /\ \A i \in DOMAIN intents : i \in DOMAIN intents' /\ intents'[i] = intents[i]
        /\ \A i \in DOMAIN intents' : i \in DOMAIN intents \/ intents'[i].credit = None
    BY <1>1, <1>2, <1>3 DEF TypeOK
  <1>5. ASSUME NEW g \in Handlers PROVE unanswered(handler[g])'
    <2>1. PICK w : w = handler[g]
      OBVIOUS
    <2>2. unanswered(w) /\ knows(w) /\ handler'[g] = w
      BY <1>2, <1>3, <2>1 DEF Undisturbed, HandlersKnow
    <2>3. w.pc \in rowSteps => w.intent \in DOMAIN intents
      BY <2>2 DEF knows
    <2>4. w.pc = "createCredit" => duplicatesOf(w)' = {}
      BY <1>4, <2>2, <2>3 DEF unanswered, duplicatesOf, rowSteps
    <2>5. unanswered(w)'
      BY <1>2, <1>4, <2>2, <2>3, <2>4 DEF unanswered, rowSteps
    <2> QED BY <2>2, <2>5
  <1>6. ASSUME NEW c \in DOMAIN credits'
        PROVE  found(credits[c].pay)' \/ underWay(credits[c].pay)'
    <2>1. PICK q \in Payments : q = credits[c].pay
      BY <1>2, <1>3, ElementTypes
    <2>2. found(q) \/ underWay(q)
      BY <1>2, <2>1 DEF Undisturbed
    <2>3. found(q)' \/ underWay(q)'
      BY <1>2, <2>2, FoundStays DEF underWay
    <2>4. credits'[c].pay = q
      BY <1>2, <2>1
    <2>5. CASE found(q)'
      BY <2>4, <2>5 DEF found
    <2>6. CASE underWay(q)'
      BY <2>4, <2>6 DEF underWay
    <2> QED BY <2>3, <2>5, <2>6
  <1> QED BY <1>2, <1>5, <1>6 DEF Undisturbed

LEMMA RequestUndisturbed ==
    ASSUME AttestorInv, AttestorInv', Grows, Undisturbed, ~disturbed',
           NEW p \in Payments, NEW h \in Handlers,
           \/ DirectDeposit(h, p)
           \/ EmployerPayroll(h, p)
           \/ Webhook(h, p)
           \/ \E sourceRef \in {None, p.ref} : VerifyDeposit(h, p, sourceRef)
    PROVE  Undisturbed'
  <1> DEFINE first(pc, new) == new.pc = pc /\ new.pay = p
  <1>1. PICK new :
            /\ Begin(h, new) /\ events' = events
            /\ \/ first("readIntent", new) /\ p.kind # "vault"
               \/ first("lookUp", new) /\ p.kind # "vault"
               \/ first("saveEvent", new) /\ events[p].credit = None
               \/ new = Idle
    <2>1. CASE DirectDeposit(h, p)
      <3> DEFINE new == [Idle EXCEPT !.pc = "readIntent", !.pay = p, !.intent = Len(intents) + 1,
                                     !.ref = orFresh(p.ref), !.tx = orFresh(p.tx)]
      <3>1. first("readIntent", new)
        BY DEF Idle
      <3>2. Begin(h, new) /\ events' = events /\ p.kind # "vault"
        BY <2>1 DEF DirectDeposit
      <3> HIDE DEF new
      <3> QED BY <3>1, <3>2
    <2>2. CASE EmployerPayroll(h, p)
      <3> DEFINE new == [Idle EXCEPT !.pc = "readIntent", !.pay = p, !.intent = Len(intents) + 1,
                                     !.ref = orFresh(p.ref)]
      <3>1. first("readIntent", new)
        BY DEF Idle
      <3>2. Begin(h, new) /\ events' = events /\ p.kind # "vault"
        BY <2>2 DEF EmployerPayroll
      <3> HIDE DEF new
      <3> QED BY <3>1, <3>2
    <2>3. CASE Webhook(h, p)
      <3> DEFINE new == [Idle EXCEPT !.pc = "lookUp", !.pay = p, !.row = Len(webhooks) + 1,
                                     !.ref = p.ref, !.tx = p.tx]
      <3>1. first("lookUp", new)
        BY DEF Idle
      <3>2. Begin(h, new) /\ events' = events /\ p.kind # "vault"
        BY <2>3 DEF Webhook
      <3> HIDE DEF new
      <3> QED BY <3>1, <3>2
    <2>4. ASSUME NEW sourceRef \in {None, p.ref}, VerifyDeposit(h, p, sourceRef)
          PROVE  \/ Begin(h, Idle) /\ events' = events
                 \/ \E new : /\ first("saveEvent", new) /\ Begin(h, new)
                             /\ events' = events /\ events[p].credit = None
      <3> DEFINE new == [Idle EXCEPT !.pc = "saveEvent", !.pay = p, !.tx = p.tx,
                                     !.ref = sourceRef, !.seen = events[p].exists]
      <3>1. first("saveEvent", new)
        BY DEF Idle
      <3>2. /\ events' = events
            /\ \/ Begin(h, Idle)
               \/ Begin(h, new) /\ events[p].credit = None
        BY <2>4 DEF VerifyDeposit
      <3> HIDE DEF new
      <3> QED BY <3>1, <3>2
    <2> QED BY <2>1, <2>2, <2>3, <2>4
  <1>2. new \in Handler
    BY <1>1 DEF AttestorInv, TypeOK, Begin
  <1>3. new.pc \in {"idle", "readIntent", "lookUp", "saveEvent"} /\ (new.pc = "idle" => new = Idle)
    BY <1>1, IdleIsHandler
  <1>4. new.pay.kind = "vault" => events'[new.pay].credit = None
    BY <1>1, IdleIsHandler
  <1> QED BY <1>1, <1>2, <1>3, <1>4, LoneRequest

\* A deposit that is still far from its credit stays unanswered.
LEMMA EarlyStep ==
    ASSUME AttestorInv, AttestorInv', Grows, Undisturbed, ~disturbed', disturbed' = disturbed,
           NEW h \in Handlers, NEW new, Goto(h, new), credits' = credits,
           \A p \in vaultPayments : events'[p].credit = events[p].credit,
           handler[h].pc \notin {"idle", "record", "audit", "name", "closeEvent"},
           new.pc \notin {"findExisting", "reuse", "createCredit", "record", "audit", "name"},
           new.pay = handler[h].pay \/ new = Idle
    PROVE  Undisturbed'
  <1>1. handler'[h] = new /\ new \in Handler
    BY DEF AttestorInv, TypeOK, Goto
  <1>2. PICK p : p = handler[h].pay
    OBVIOUS
  <1>3. unanswered(handler[h]) /\ p \in Payments
    BY <1>2 DEF Undisturbed, AttestorInv, HandlersKnow, knows
  <1>4. unanswered(handler[h])'
    <2>1. CASE new = Idle
      BY <1>1, <2>1, IdleUnanswered
    <2>2. CASE new.pay = p
      BY <1>1, <1>2, <1>3, <2>2, PaymentTypes DEF unanswered
    <2> QED BY <1>2, <2>1, <2>2
  <1> QED BY <1>1, <1>2, <1>4, LoneStep

LEMMA EarlyUndisturbed ==
    ASSUME AttestorInv, AttestorInv', Grows, Undisturbed, ~disturbed', NEW h \in Handlers,
           \/ LookUp(h) \/ Settle(h) \/ Process(h) \/ SaveEvent(h) \/ FindIntent(h) \/ SaveIntent(h)
    PROVE  Undisturbed'
  <1> DEFINE w == handler[h]
             early(pc, new) == new.pc = pc /\ new.pay = w.pay
  <1>1. TypeOK /\ w \in Handler /\ knows(w)
    BY ElementTypes DEF AttestorInv, HandlersKnow
  <1>2. /\ credits' = credits /\ disturbed' = disturbed
        /\ w.pc \in {"lookUp", "settle", "process", "saveEvent", "findIntent", "saveIntent"}
    BY DEF LookUp, Settle, Process, SaveEvent, FindIntent, SaveIntent, At, ledger, quiet
  <1>3. \A p \in vaultPayments : events'[p].credit = events[p].credit
    <2>1. CASE SaveEvent(h)
      <3> DEFINE p == w.pay
                 Event == [exists : BOOLEAN, credit : Nat]
                 event == [events[p] EXCEPT !.exists = TRUE]
      <3>1. p \in vaultPayments /\ events \in [vaultPayments -> Event] /\ events[p] \in Event
        BY <1>1, <2>1, PaymentTypes DEF knows, SaveEvent, At, TypeOK
      <3>2. event.credit = events[p].credit
        BY <3>1
      <3>3. events' = events \/ events' = [events EXCEPT ![p] = event]
        BY <2>1 DEF SaveEvent
      <3> HIDE DEF Event, event
      <3> QED BY <3>1, <3>2, <3>3
    <2>2. CASE LookUp(h) \/ Settle(h) \/ Process(h) \/ FindIntent(h) \/ SaveIntent(h)
      BY <2>2 DEF LookUp, Settle, Process, FindIntent, SaveIntent, tables
    <2> QED BY <2>1, <2>2
  <1>4. PICK new : /\ Goto(h, new)
                   /\ \/ early("settle", new) \/ early("process", new) \/ early("readIntent", new)
                      \/ early("findIntent", new) \/ early("saveIntent", new) \/ new = Idle
    <2>1. \A i : LET new == [w EXCEPT !.pc = "settle", !.intent = i] IN early("settle", new)
      BY <1>1 DEF Handler
    <2>2. \A pc : LET new == [w EXCEPT !.pc = pc] IN early(pc, new)
      BY <1>1 DEF Handler
    <2>3. \A i, ref : LET new == [w EXCEPT !.pc = "saveIntent", !.intent = i, !.ref = ref]
                      IN  early("saveIntent", new)
      BY <1>1 DEF Handler
    <2>4. \A i : LET new == [w EXCEPT !.pc = "readIntent", !.intent = i] IN early("readIntent", new)
      BY <1>1 DEF Handler
    <2> HIDE DEF early
    <2>5. CASE LookUp(h)
      BY <2>1, <2>2, <2>5 DEF LookUp, GotoPc
    <2>6. CASE Settle(h)
      BY <2>2, <2>6 DEF Settle, GotoPc
    <2>7. CASE Process(h)
      BY <2>7 DEF Process
    <2>8. CASE SaveEvent(h)
      BY <2>2, <2>8 DEF SaveEvent, GotoPc
    <2>9. CASE FindIntent(h)
      BY <2>3, <2>9 DEF FindIntent
    <2>10. CASE SaveIntent(h)
      BY <2>4, <2>10 DEF SaveIntent
    <2> QED BY <2>5, <2>6, <2>7, <2>8, <2>9, <2>10
  <1>5. new.pc \notin {"findExisting", "reuse", "createCredit", "record", "audit", "name"}
    BY <1>4, IdleIsHandler
  <1>6. w.pc \notin {"idle", "record", "audit", "name", "closeEvent"}
    BY <1>2
  <1> QED BY <1>2, <1>3, <1>4, <1>5, <1>6, EarlyStep

\* The vault event names the credit: from now on the deposit is found.
LEMMA CloseEventUndisturbed ==
    ASSUME AttestorInv, AttestorInv', Grows, Undisturbed, ~disturbed', NEW h \in Handlers,
           CloseEvent(h)
    PROVE  Undisturbed'
  <1> DEFINE w == handler[h]
             Event == [exists : BOOLEAN, credit : Nat]
             event == [events[w.pay] EXCEPT !.credit = w.credit]
  <1>1. /\ w.pc = "closeEvent" /\ events' = [events EXCEPT ![w.pay] = event] /\ Goto(h, Idle)
        /\ credits' = credits /\ disturbed' = disturbed
    BY DEF CloseEvent, At, ledger, quiet
  <1>2. /\ TypeOK /\ w \in Handler /\ knows(w) /\ DOMAIN credits = 1..Len(credits)
        /\ events \in [vaultPayments -> Event]
    BY ElementTypes DEF AttestorInv, HandlersKnow, TypeOK
  <1>3. /\ w.pay \in vaultPayments /\ w.pay.kind = "vault" /\ w.credit \in DOMAIN credits
    BY <1>1, <1>2, PaymentTypes DEF knows, goodCredit
  <1>4. event.credit = w.credit /\ w.credit # None
    BY <1>2, <1>3 DEF None
  <1> HIDE DEF event, Event
  <1>5. PICK p : p = w.pay
    OBVIOUS
  <1>6. found(p)'
    BY <1>1, <1>2, <1>3, <1>4, <1>5 DEF found
  <1>7. handler'[h] = Idle
    BY <1>1, <1>2, IdleIsHandler, HandlerMoves DEF TypeOK
  <1>8. unanswered(handler[h])'
    BY <1>7, IdleUnanswered
  <1> QED BY <1>1, <1>5, <1>6, <1>8, IdleIsHandler, LoneStep

\* Naming the credit makes the payment one that would be found again.
LEMMA ReturnUndisturbed ==
    ASSUME AttestorInv, AttestorInv', Grows, Undisturbed, ~disturbed', NEW h \in Handlers,
           ReadIntent(h) \/ Reuse(h) \/ NameCredit(h), NEW c \in Nat, Return(h, c),
           disturbed' = disturbed, credits' = credits, events' = events,
           intents'[handler[h].intent].credit # None
    PROVE  Undisturbed'
  <1> DEFINE w == handler[h]
  <1>1. TypeOK /\ w \in Handler /\ knows(w) /\ unanswered(w)
    BY ElementTypes DEF AttestorInv, HandlersKnow, Undisturbed
  <1>2. w.pc \in {"readIntent", "reuse", "name"}
    BY DEF ReadIntent, Reuse, NameCredit, At
  <1>3. w.pay \in Payments /\ w.intent \in DOMAIN intents /\ paidFor(w)
    BY <1>1, <1>2 DEF knows, rowSteps
  <1>4. PICK new \in Handler :
            /\ Goto(h, new)
            /\ \/ w.pay.kind \in {"direct", "employer"} /\ new = Idle
               \/ new.pc = "process" /\ w.pay.kind = "flow" /\ new.pay = w.pay
               \/ new.pc = "closeEvent" /\ w.pay.kind = "vault" /\ new.pay = w.pay
    BY <1>1, <1>3, ReturnMoves
  <1>5. handler'[h] = new
    BY <1>1, <1>4, HandlerMoves DEF TypeOK
  <1>6. PICK p : p = w.pay
    OBVIOUS
  <1>7. unanswered(handler[h])'
    BY <1>1, <1>4, <1>5, IdleUnanswered DEF unanswered
  <1>8. found(p)' \/ (new.pay = p /\ new.pc = "closeEvent")
    <2>1. /\ w.intent \in DOMAIN intents' /\ intents'[w.intent].credit # None
          /\ intents'[w.intent].tid = intents[w.intent].tid
          /\ intents'[w.intent].user = intents[w.intent].user
      BY <1>3 DEF Grows
    <2>2. CASE p.kind = "flow"
      BY <1>3, <1>6, <2>1, <2>2 DEF found, creditedTid, paidFor
    <2>3. CASE p.kind \in {"direct", "employer"}
      <3>1. intents[w.intent].user = p.user /\ intents[w.intent].tid = None
        BY <1>3, <1>6, <2>3 DEF paidFor
      <3> QED BY <2>1, <2>3, <3>1 DEF found
    <2> QED BY <1>4, <1>6, <2>2, <2>3
  <1> QED BY <1>2, <1>4, <1>6, <1>7, <1>8, LoneStep

LEMMA NamingUndisturbed ==
    ASSUME AttestorInv, AttestorInv', Grows, Undisturbed, ~disturbed', NEW h \in Handlers,
           Reuse(h) \/ NameCredit(h)
    PROVE  Undisturbed'
  <1> DEFINE w == handler[h]
             row == [intents[w.intent] EXCEPT !.status = "settled", !.credit = w.credit,
                                              !.ref = w.ref, !.tx = w.tx]
  <1>1. /\ w.pc \in {"reuse", "name"} /\ intents' = [intents EXCEPT ![w.intent] = row]
        /\ Return(h, w.credit) /\ disturbed' = disturbed /\ credits' = credits /\ events' = events
    BY DEF Reuse, NameCredit, nameCredit, At, ledger, quiet
  <1>2. /\ TypeOK /\ w \in Handler /\ knows(w) /\ w.credit \in Nat
        /\ DOMAIN credits = 1..Len(credits)
    BY ElementTypes DEF AttestorInv, HandlersKnow, Handler
  <1>3. w.intent \in DOMAIN intents /\ w.credit \in DOMAIN credits
    BY <1>1, <1>2 DEF knows, rowSteps, holds, goodCredit
  <1>4. row.credit = w.credit /\ row.credit # None
    <2>1. intents[w.intent] \in Intent
      BY <1>2, <1>3, ElementTypes
    <2> QED BY <1>2, <1>3, <2>1 DEF Intent, None
  <1> HIDE DEF row
  <1>5. intents'[w.intent].credit # None
    BY <1>1, <1>2, <1>3, <1>4 DEF TypeOK
  <1> QED BY <1>1, <1>2, <1>5, ReturnUndisturbed

\* Between reading an intent and naming its credit nothing else happens.
LEMMA WorkUndisturbed ==
    ASSUME AttestorInv, AttestorInv', Grows, Undisturbed, ~disturbed', disturbed' = disturbed,
           NEW h \in Handlers, NEW new, Goto(h, new), handler[h].pc \in rowSteps,
           new.pay = handler[h].pay, new.intent = handler[h].intent,
           intents[handler[h].intent].credit = None, intents' = intents, events' = events,
           new.pc = "createCredit" => duplicatesOf(new) = {},
           \/ credits' = credits
           \/ /\ new.pc = "record"
              /\ \A c \in DOMAIN credits' :
                     c \in DOMAIN credits \/ credits'[c].pay = handler[h].pay,
           handler[h].pc \in {"record", "audit", "name"} => new.pc \in {"record", "audit", "name"}
    PROVE  Undisturbed'
  <1>1. handler'[h] = new /\ new \in Handler /\ handler[h].pc \notin {"idle", "closeEvent"}
    BY DEF AttestorInv, TypeOK, Goto, rowSteps
  <1>2. PICK p : p = handler[h].pay
    OBVIOUS
  <1>3. unanswered(handler[h])
    BY DEF Undisturbed
  <1>4. unanswered(handler[h])'
    <2>1. handler'[h].pc = "createCredit" => duplicatesOf(handler[h])' = {}
      BY <1>1 DEF duplicatesOf
    <2> QED BY <1>1, <1>3, <2>1 DEF unanswered
  <1> QED BY <1>1, <1>2, <1>4, LoneStep

LEMMA ReadIntentUndisturbed ==
    ASSUME AttestorInv, AttestorInv', Grows, Undisturbed, ~disturbed', NEW h \in Handlers,
           ReadIntent(h)
    PROVE  Undisturbed'
  <1> DEFINE w == handler[h]
             row == intents[w.intent]
             new == [w EXCEPT !.pc = "findExisting", !.tid = row.tid, !.amount = row.amount,
                              !.tx = orElse(w.tx, row.tx)]
  <1>1. /\ w.pc = "readIntent" /\ intents' = intents /\ credits' = credits /\ events' = events
        /\ disturbed' = disturbed
        /\ \/ row.credit # None /\ Return(h, row.credit)
           \/ row.credit = None /\ Goto(h, new)
    BY DEF ReadIntent, At, tables, ledger, quiet
  <1>2. TypeOK /\ w \in Handler /\ knows(w)
    BY ElementTypes DEF AttestorInv, HandlersKnow
  <1>3. w.intent \in DOMAIN intents /\ row.credit \in Nat /\ w.pc \in rowSteps
    BY <1>1, <1>2, ElementTypes DEF knows, rowSteps
  <1>4. CASE row.credit # None /\ Return(h, row.credit)
    BY <1>1, <1>3, <1>4, ReturnUndisturbed
  <1>5. CASE row.credit = None /\ Goto(h, new)
    <2>1. new.pc = "findExisting" /\ new.pay = w.pay /\ new.intent = w.intent
      BY <1>2 DEF Handler
    <2> HIDE DEF new
    <2> QED BY <1>1, <1>3, <1>5, <2>1, WorkUndisturbed
  <1> QED BY <1>1, <1>4, <1>5

LEMMA FindExistingUndisturbed ==
    ASSUME AttestorInv, AttestorInv', Grows, Undisturbed, ~disturbed', NEW h \in Handlers,
           FindExisting(h)
    PROVE  Undisturbed'
  <1> DEFINE w == handler[h]
             create == [w EXCEPT !.pc = "createCredit"]
             reuse(c) == [w EXCEPT !.pc = "reuse", !.credit = c]
  <1>1. /\ w.pc = "findExisting" /\ intents' = intents /\ credits' = credits /\ events' = events
        /\ disturbed' = disturbed
        /\ \/ duplicatesOf(w) = {} /\ Goto(h, create)
           \/ \E c : Goto(h, reuse(c))
    BY DEF FindExisting, GotoPc, At, tables, ledger, quiet
  <1>2. w \in Handler /\ unanswered(w)
    BY <1>1, ElementTypes DEF AttestorInv, Undisturbed
  <1>3. w.pc \in rowSteps /\ intents[w.intent].credit = None
    BY <1>1, <1>2 DEF unanswered, rowSteps
  <1>4. /\ create.pc = "createCredit" /\ create.pay = w.pay /\ create.intent = w.intent
        /\ create.tid = w.tid /\ create.ref = w.ref /\ create.tx = w.tx
        /\ \A c : reuse(c).pc = "reuse" /\ reuse(c).pay = w.pay /\ reuse(c).intent = w.intent
    BY <1>2 DEF Handler
  <1> HIDE DEF create, reuse
  <1>5. duplicatesOf(create) = duplicatesOf(w)
    BY <1>4 DEF duplicatesOf
  <1>6. CASE duplicatesOf(w) = {} /\ Goto(h, create)
    BY <1>1, <1>3, <1>4, <1>5, <1>6, WorkUndisturbed
  <1>7. CASE \E c : Goto(h, reuse(c))
    <2>1. PICK new : /\ Goto(h, new)
                     /\ new.pc = "reuse" /\ new.pay = w.pay /\ new.intent = w.intent
      BY <1>4, <1>7
    <2> QED BY <1>1, <1>3, <2>1, WorkUndisturbed
  <1> QED BY <1>1, <1>6, <1>7

LEMMA LedgerUndisturbed ==
    ASSUME AttestorInv, AttestorInv', Grows, Undisturbed, ~disturbed', NEW h \in Handlers,
           CreateCredit(h) \/ RecordContract(h) \/ CreateAudit(h)
    PROVE  Undisturbed'
  <1> DEFINE w == handler[h]
  <1>1. /\ w.pc \in {"createCredit", "record", "audit"} /\ w.pc \in rowSteps
        /\ intents' = intents /\ events' = events /\ disturbed' = disturbed
    BY DEF CreateCredit, RecordContract, CreateAudit, At, tables, ledger, quiet, rowSteps
  <1>2. w \in Handler /\ unanswered(w) /\ credits \in Seq(CreditContract)
    BY <1>1, ElementTypes DEF AttestorInv, Undisturbed, TypeOK
  <1>3. intents[w.intent].credit = None
    BY <1>1, <1>2 DEF unanswered
  <1>4. PICK new :
            /\ Goto(h, new) /\ new.pay = w.pay /\ new.intent = w.intent
            /\ new.pc \in {"record", "audit", "name"}
            /\ \/ credits' = credits
               \/ /\ new.pc = "record"
                  /\ \A c \in DOMAIN credits' : c \in DOMAIN credits \/ credits'[c].pay = w.pay
    <2>1. CASE CreateCredit(h)
      <3> DEFINE contract == [user |-> intents[w.intent].user, amount |-> w.amount,
                              ref |-> w.ref, pay |-> w.pay]
                 new == [w EXCEPT !.pc = "record", !.credit = Len(credits) + 1]
      <3>1. credits' = Append(credits, contract) /\ Goto(h, new)
        BY <2>1 DEF CreateCredit
      <3>2. contract.pay = w.pay
        OBVIOUS
      <3>3. new.pay = w.pay /\ new.intent = w.intent /\ new.pc = "record"
        BY <1>2 DEF Handler
      <3> HIDE DEF contract, new
      <3>4. \A c \in DOMAIN credits' : c \in DOMAIN credits \/ credits'[c].pay = w.pay
        BY <1>2, <3>1, <3>2
      <3> QED BY <3>1, <3>3, <3>4
    <2>2. ASSUME NEW pc \in {"audit", "name"}, GotoPc(h, pc), credits' = credits
          PROVE  \E new : /\ Goto(h, new) /\ new.pay = w.pay /\ new.intent = w.intent
                         /\ new.pc = pc /\ credits' = credits
      <3> DEFINE new == [w EXCEPT !.pc = pc]
      <3>1. Goto(h, new) /\ new.pay = w.pay /\ new.intent = w.intent /\ new.pc = pc
        BY <1>2, <2>2 DEF GotoPc, Handler
      <3> HIDE DEF new
      <3> QED BY <2>2, <3>1
    <2>3. CASE RecordContract(h) \/ CreateAudit(h)
      BY <2>2, <2>3 DEF RecordContract, CreateAudit, ledger
    <2> QED BY <2>1, <2>3
  <1>5. new.pc # "createCredit"
    BY <1>4
  <1> QED BY <1>1, <1>3, <1>4, <1>5, WorkUndisturbed

\* A credit is created for a payment that has none: it would have been found.
LEMMA CreateCreditOnce ==
    ASSUME AttestorInv, Undisturbed, CreditedOnce, ~disturbed', NEW h \in Handlers, CreateCredit(h)
    PROVE  CreditedOnce'
  <1> DEFINE w == handler[h]
             contract == [user |-> intents[w.intent].user, amount |-> w.amount,
                          ref |-> w.ref, pay |-> w.pay]
  <1>1. /\ w.pc = "createCredit" /\ credits' = Append(credits, contract) /\ disturbed' = disturbed
        /\ contract.pay = w.pay
    BY DEF CreateCredit, At, quiet
  <1> HIDE DEF contract
  <1>2. TypeOK /\ TidsApart /\ w \in Handler /\ knows(w) /\ unanswered(w)
    BY <1>1, ElementTypes DEF AttestorInv, HandlersKnow, Undisturbed
  <1>3. /\ w.pay \in Payments /\ w.intent \in DOMAIN intents /\ paidFor(w)
        /\ w.pay.kind = "flow" => w.pay.ref # None
        /\ w.tid = intents[w.intent].tid
        /\ intents[w.intent].credit = None /\ duplicatesOf(w) = {}
        /\ w.pay.kind = "vault" => events[w.pay].credit = None
    BY <1>1, <1>2 DEF knows, rowSteps, delivered, unanswered
  <1>4. ~underWay(w.pay)
    BY <1>1, <1>2 DEF Undisturbed, underWay
  <1>5. ~found(w.pay)
    <2>1. CASE w.pay.kind = "flow"
      BY <1>2, <1>3, <2>1 DEF found, creditedTid, paidFor, TidsApart
    <2>2. CASE w.pay.kind = "vault"
      BY <1>3, <2>2 DEF found
    <2>3. CASE w.pay.kind \in {"direct", "employer"}
      <3> SUFFICES ASSUME NEW i \in DOMAIN intents, intents[i].user = w.pay.user,
                          intents[i].tid = None, intents[i].credit # None
                   PROVE  FALSE
        BY <2>3 DEF found
      <3>1. intents[w.intent].user = w.pay.user /\ intents[w.intent].tid = None /\ i # w.intent
        BY <1>3, <2>3 DEF paidFor
      <3>2. i \in duplicatesOf(w)
        BY <1>3, <3>1 DEF duplicatesOf
      <3> QED BY <1>3, <3>2
    <2> QED BY <1>3, <2>1, <2>2, <2>3, PaymentTypes
  <1>6. \A c \in DOMAIN credits : credits[c].pay # w.pay
    BY <1>1, <1>4, <1>5 DEF Undisturbed
  <1>7. \A c \in DOMAIN credits' :
           \/ c \in DOMAIN credits /\ credits'[c] = credits[c]
           \/ c = Len(credits) + 1 /\ credits'[c].pay = w.pay
    BY <1>1, <1>2 DEF TypeOK
  <1> QED BY <1>1, <1>6, <1>7 DEF CreditedOnce

\* Only the request that names a credit changes what an intent names.
LEMMA NamedByHandler ==
    ASSUME AttestorInv, [Next]_vars, NEW i \in DOMAIN intents,
           intents'[i].credit # intents[i].credit
    PROVE  /\ disturbed' = disturbed
           /\ \E h \in Handlers : handler[h].pc \in {"reuse", "name"} /\ handler[h].intent = i
  <1>1. intents \in Seq(Intent) /\ TypeOK /\ HandlersKnow
    BY DEF AttestorInv, TypeOK
  <1>2. \A new : intents' = Append(intents, new) => intents'[i] = intents[i]
    BY <1>1
  <1>3. ASSUME NEW p \in Payments, NEW h \in Handlers, DirectDeposit(h, p) \/ EmployerPayroll(h, p)
        PROVE  FALSE
    BY <1>2, <1>3 DEF DirectDeposit, EmployerPayroll
  <1>4. ASSUME NEW p \in Payments, FlowCheckout(p) \/ FlowUnavailable(p) \/ BlinkSession(p)
        PROVE  FALSE
    BY <1>2, <1>4 DEF FlowCheckout, FlowUnavailable, BlinkSession, Open
  <1>5. CASE Arrive
    BY <1>3, <1>4, <1>5 DEF Arrive, Webhook, VerifyDeposit
  <1>6. ASSUME NEW h \in Handlers, Step(h)
        PROVE  Reuse(h) \/ NameCredit(h)
    <2>1. CASE Settle(h) \/ SaveIntent(h)
      <3> DEFINE w == handler[h]
                 settled == [intents[w.intent] EXCEPT !.status = "settled",
                                                      !.tx = orElse(w.tx, intents[w.intent].tx)]
                 opened == newIntent(w.pay, None, w.ref, w.tx, "settled")
                 saved == [intents[w.intent] EXCEPT !.amount = w.pay.amount, !.ref = w.ref,
                                                    !.tx = w.tx, !.status = "settled"]
      <3>1. /\ \/ intents' = [intents EXCEPT ![w.intent] = settled]
               \/ intents' = [intents EXCEPT ![w.intent] = saved]
               \/ intents' = Append(intents, opened)
        BY <2>1 DEF Settle, SaveIntent
      <3>2. intents[i] \in Intent
        BY <1>1
      <3>3. w.intent = i => settled.credit = intents[i].credit /\ saved.credit = intents[i].credit
        BY <3>2 DEF Intent
      <3> HIDE DEF settled, opened, saved
      <3> QED BY <1>1, <1>2, <3>1, <3>3
    <2>2. ASSUME intents' # intents
          PROVE  Settle(h) \/ SaveIntent(h) \/ Reuse(h) \/ NameCredit(h)
      BY <1>6, <2>2 DEF Step, LookUp, Process, SaveEvent, FindIntent, CloseEvent, ReadIntent,
         FindExisting, CreateCredit, RecordContract, CreateAudit, tables
    <2> QED BY <2>1, <2>2
  <1>7. ASSUME NEW h \in Handlers, Reuse(h) \/ NameCredit(h)
        PROVE  /\ disturbed' = disturbed
               /\ handler[h].pc \in {"reuse", "name"} /\ handler[h].intent = i
    <2> DEFINE w == handler[h]
               row == [intents[w.intent] EXCEPT !.status = "settled", !.credit = w.credit,
                                                !.ref = w.ref, !.tx = w.tx]
    <2>1. /\ w.pc \in {"reuse", "name"} /\ disturbed' = disturbed
          /\ intents' = [intents EXCEPT ![w.intent] = row]
      BY <1>7 DEF Reuse, NameCredit, nameCredit, At, quiet
    <2> HIDE DEF row
    <2> QED BY <1>1, <2>1
  <1>8. intents' # intents
    OBVIOUS
  <1>9. ASSUME NEW h \in Handlers, Abort(h) PROVE FALSE
    BY <1>8, <1>9 DEF Abort, tables
  <1> QED BY <1>5, <1>6, <1>7, <1>8, <1>9 DEF Next, Arrive, vars, tables

OnceInv == AttestorInv /\ Undisturbed /\ CreditedOnce

LEMMA OnceInit == Init => OnceInv
  <1> SUFFICES ASSUME Init PROVE Undisturbed /\ CreditedOnce
    BY InitInv DEF OnceInv
  <1>1. DOMAIN credits = {} /\ \A h \in Handlers : handler[h] = Idle
    BY DEF Init
  <1> QED BY <1>1, IdleIsHandler DEF Undisturbed, CreditedOnce, unanswered

LEMMA OnceNext == OnceInv /\ [Next]_vars => OnceInv'
  <1> SUFFICES ASSUME OnceInv, [Next]_vars PROVE OnceInv'
    OBVIOUS
  <1>1. AttestorInv /\ AttestorInv' /\ Grows /\ Undisturbed /\ CreditedOnce
    BY NextInv DEF OnceInv
  <1>2. ASSUME UNCHANGED vars PROVE Undisturbed' /\ CreditedOnce'
    BY <1>1, <1>2 DEF vars, tables, ledger, Undisturbed, CreditedOnce, unanswered, duplicatesOf,
       found, creditedTid, underWay
  <1>3. Undisturbed'
    <2> SUFFICES ASSUME ~disturbed', Next PROVE Undisturbed'
      BY <1>2 DEF Undisturbed
    <2>1. CASE Arrive
      BY <1>1, <2>1, OpenUndisturbed, RequestUndisturbed DEF Arrive
    <2>2. ASSUME NEW h \in Handlers, Step(h) PROVE Undisturbed'
      BY <1>1, <2>2, EarlyUndisturbed, CloseEventUndisturbed, ReadIntentUndisturbed,
         FindExistingUndisturbed, NamingUndisturbed, LedgerUndisturbed DEF Step
    <2>3. ASSUME NEW h \in Handlers, Abort(h) PROVE FALSE
      BY <2>3 DEF Abort
    <2> QED BY <2>1, <2>2, <2>3 DEF Next
  <1>4. CreditedOnce'
    <2> SUFFICES ASSUME ~disturbed', Next PROVE CreditedOnce'
      BY <1>2 DEF CreditedOnce
    <2>1. CASE Arrive
      <3>1. ASSUME NEW h \in Handlers, NEW new, Begin(h, new)
            PROVE  credits' = credits /\ (disturbed => disturbed')
        BY <3>1 DEF Begin, ledger
      <3>2. ASSUME NEW intent, Open(intent)
            PROVE  credits' = credits /\ disturbed' = disturbed
        BY <3>2 DEF Open, ledger
      <3>3. credits' = credits /\ (disturbed => disturbed')
        BY <2>1, <3>1, <3>2 DEF Arrive, FlowCheckout, FlowUnavailable, BlinkSession,
           DirectDeposit, EmployerPayroll, Webhook, VerifyDeposit
      <3> QED BY <1>1, <3>3 DEF CreditedOnce
    <2>2. ASSUME NEW h \in Handlers, Step(h), ~CreateCredit(h)
          PROVE  credits' = credits /\ disturbed' = disturbed
      BY <2>2 DEF Step, LookUp, Settle, Process, SaveEvent, FindIntent, SaveIntent, CloseEvent,
         ReadIntent, FindExisting, Reuse, RecordContract, CreateAudit, NameCredit, ledger, quiet
    <2>3. ASSUME NEW h \in Handlers, Step(h) PROVE CreditedOnce'
      BY <1>1, <2>2, <2>3, CreateCreditOnce DEF CreditedOnce
    <2>4. ASSUME NEW h \in Handlers, Abort(h) PROVE FALSE
      BY <2>4 DEF Abort
    <2> QED BY <2>1, <2>3, <2>4 DEF Next
  <1> QED BY <1>1, <1>3, <1>4 DEF OnceInv

LEMMA OnceInvHolds == Spec => []OnceInv
  BY OnceInit, OnceNext, PTL DEF Spec

-----------------------------------------------------------------------------
(* The theorems                                                            *)

\* The rows, contracts and handlers of the routes have their fields, whatever
\* payments are reported and however many requests are served at once.
THEOREM TypeCorrect == Spec => []TypeOK
  <1>1. AttestorInv => TypeOK
    BY DEF AttestorInv
  <1> QED BY <1>1, AttestorInvHolds, PTL

\* A credit that a funding intent or a vault event names is on the ledger, the
\* user's own, cached and audited, however requests interleave and fail.
THEOREM NamedCreditIsGoodHolds == Spec => []NamedCreditIsGood
  <1>1. AttestorInv => NamedCreditIsGood
    BY DEF AttestorInv
  <1> QED BY <1>1, AttestorInvHolds, PTL

\* A webhook delivery that found its intent is processed only when that intent
\* has a credit.
THEOREM ProcessedIsCreditedHolds == Spec => []ProcessedIsCredited
  <1>1. AttestorInv => ProcessedIsCredited
    BY DEF AttestorInv
  <1> QED BY <1>1, AttestorInvHolds, PTL

\* Reports of a payment that neither overlap nor fail create one credit at most.
THEOREM CreditedOnceHolds == Spec => []CreditedOnce
  <1>1. OnceInv => CreditedOnce
    BY DEF OnceInv
  <1> QED BY <1>1, OnceInvHolds, PTL

\* An intent that names a credit names one for ever, and the same one unless
\* requests overlapped or failed.
THEOREM CreditKeptHolds == Spec => CreditKept
  <1>1. OnceInv /\ [Next]_vars => [CreditStep]_vars
    <2> SUFFICES ASSUME OnceInv, [Next]_vars, NEW i \in DOMAIN intents, intents[i].credit # None
                 PROVE  /\ intents'[i].credit # None
                        /\ ~disturbed' => intents'[i].credit = intents[i].credit
      BY DEF CreditStep
    <2>1. AttestorInv /\ Undisturbed /\ Grows
      BY NextInv DEF OnceInv
    <2>2. intents'[i].credit # None
      BY <2>1 DEF Grows
    <2>3. ASSUME ~disturbed', intents'[i].credit # intents[i].credit
          PROVE  FALSE
      BY <2>1, <2>3, NamedByHandler DEF Undisturbed, unanswered
    <2> QED BY <2>2, <2>3
  <1> QED BY <1>1, OnceInvHolds, PTL DEF Spec, CreditKept
=============================================================================
