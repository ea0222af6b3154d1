-------------------------- MODULE ProductPages_proofs --------------------------
(***************************************************************************)
(* Proofs about ProductPages, for any people, forms and number of clicks:  *)
(* SavedIsValidatedHolds and StoredIdsKnownHolds.                          *)
(*                                                                         *)
(* What a request carries is what was clicked on (CarriesClick) and, once  *)
(* it was found valid, what the server found valid (CarriesValid).  As     *)
(* long as no page was left with a request under way, all requests are of  *)
(* the page mounted, which has one at most that changes what is stored     *)
(* (OneAtATime): the ids in it are known to the server, and so are those   *)
(* stored unless that request is a reset (KnowsIds).  That holds until a   *)
(* reset takes a credit from under the row of another user, for till then  *)
(* a row's credit is one the server has (CreditsKept).                     *)
(***************************************************************************)
EXTENDS ProductPages, TLAPS

PageUsers == People \cup {DemoUser}
Tags == {<<"preo", u>> : u \in PageUsers} \cup {<<n>> : n \in Nat}

\* The requests that bring ids to store.
Bringing == {"bootstrap", "save", "verify", "fullFlow"}

IsRequest(r) ==
    /\ r = [no |-> r.no, visit |-> r.visit, kind |-> r.kind, user |-> r.user, policy |-> r.policy,
            ref |-> r.ref, seen |-> r.seen, answered |-> r.answered, ok |-> r.ok,
            valid |-> r.valid, ids |-> r.ids]
    /\ r.user \in PageUsers /\ r.ids \in [Ids -> Tags \cup {NoId}]

ServerType == [PageUsers -> [ids : [Ids -> SUBSET Tags],
                             credits : SUBSET [ref : {NoId} \cup Tags, id : Tags]]]

Typed ==
    /\ identity.user \in PageUsers
    /\ nextId \in Nat
    /\ server \in ServerType
    /\ localStorage \in [Ids -> Tags \cup {NoId}]
    /\ saved \in [Ids -> Tags \cup {NoId}]
    /\ \A r \in requests : IsRequest(r) /\ r.ref \in {NoId} \cup Tags
    /\ blinkRef \in {NoId} \cup Tags

CarriesClick == \A r \in requests : r.seen = <<r.user, r.policy>>

\* A policy that is posted, or about to be, was found valid.
CarriesValid ==
    \A r \in requests :
        r.kind = "save" \/ (r.kind = "validate" /\ r.ok /\ r.valid) => r.policy \in validated

PostInv == CarriesClick /\ CarriesValid /\ SavedIsValidated

OneAtATime ==
    /\ \A r \in requests : r.visit = visit
    /\ \A r, s \in requests : r.kind # "blink" /\ s.kind # "blink" => r = s
    /\ ~busy => \A r \in requests : r.kind = "blink"

known(i, id) == \E u \in PageUsers : id \in server[u].ids[i]

KnowsIds ==
    /\ \A r \in requests :
           r.ok /\ r.kind \in Bringing => \A i \in Ids : r.ids[i] # NoId => known(i, r.ids[i])
    /\ \/ \E r \in requests : r.kind = "reset"
       \/ \A i \in Ids : localStorage[i] # NoId => known(i, localStorage[i])

CreditsKept ==
    ~taken => \A u \in PageUsers : \A c \in server[u].credits :
                  c.id \in server[u].ids["creditContractId"]

StayInv == ~left => OneAtATime /\ saved = localStorage /\ (~taken => KnowsIds)

PagesInv == Typed /\ PostInv /\ CreditsKept /\ StayInv

-----------------------------------------------------------------------------
(* Users and forms                                                         *)

\* A page may be edited or left, and somebody may sign in or out.
LEMMA UseInv ==
    ASSUME PagesInv, identity'.user \in PageUsers,
           UNCHANGED <<requests, backend, localStorage>>,
           blinkRef' \in {NoId} \cup Tags,
           \/ UNCHANGED <<visit, busy, saved, left>>
           \/ saved' = localStorage /\ left' = (left \/ requests # {})
    PROVE  PagesInv'
  <1>1. Typed /\ PostInv /\ CreditsKept /\ StayInv
        /\ requests' = requests /\ server' = server /\ nextId' = nextId /\ saves' = saves
        /\ validated' = validated /\ taken' = taken /\ localStorage' = localStorage
    BY DEF PagesInv, backend
  <1>2. saved' \in [Ids -> Tags \cup {NoId}]
    BY <1>1 DEF Typed
  <1>3. Typed'
    BY <1>1, <1>2 DEF Typed
  <1>4. PostInv'
    BY <1>1 DEF PostInv, CarriesClick, CarriesValid, SavedIsValidated
  <1>5. StayInv'
    <2>1. CASE UNCHANGED <<visit, busy, saved, left>>
      BY <1>1, <2>1 DEF StayInv, OneAtATime, KnowsIds, known
    <2>2. CASE saved' = localStorage /\ left' = (left \/ requests # {})
      <3> SUFFICES ASSUME ~left'
                   PROVE  OneAtATime' /\ saved' = localStorage' /\ (~taken' => KnowsIds')
        BY DEF StayInv
      <3>1. ~left /\ requests = {}
        BY <2>2
      <3>2. ~taken => KnowsIds
        BY <1>1, <3>1 DEF StayInv
      <3>3. ~taken => \A i \in Ids : localStorage[i] # NoId => known(i, localStorage[i])
        BY <3>1, <3>2 DEF KnowsIds
      <3>4. ~taken' => KnowsIds'
        BY <1>1, <3>1, <3>3 DEF KnowsIds, known
      <3>5. OneAtATime'
        BY <1>1, <3>1 DEF OneAtATime
      <3> QED BY <1>1, <2>2, <3>4, <3>5
    <2> QED BY <2>1, <2>2
  <1>6. CreditsKept'
    BY <1>1 DEF CreditsKept
  <1> QED BY <1>3, <1>4, <1>5, <1>6 DEF PagesInv

LEMMA TurnsAndEditsInv ==
    ASSUME PagesInv,
           \/ \E u \in PageUsers : SignInOrOut(u)
           \/ \E p \in Pages : Open(p)
           \/ \E new : Edit(new)
    PROVE  PagesInv'
  <1>1. identity.user \in PageUsers /\ NoId \in {NoId} \cup Tags /\ blinkRef \in {NoId} \cup Tags
    BY DEF PagesInv, Typed
  <1>2. CASE \E u \in PageUsers : SignInOrOut(u)
    <2>1. PICK u \in PageUsers : SignInOrOut(u)
      BY <1>2
    <2>2. /\ identity' = [identity EXCEPT !.user = u, !.signedIn = u # DemoUser]
          /\ UNCHANGED <<visit, busy, saved, left>> /\ UNCHANGED <<requests, backend, localStorage>>
          /\ blinkRef' = blinkRef
      BY <2>1 DEF SignInOrOut
    <2>3. identity'.user \in PageUsers
      BY <1>1, <2>2
    <2> QED BY <1>1, <2>2, <2>3, UseInv
  <1>3. CASE \E p \in Pages : Open(p)
    BY <1>1, <1>3, UseInv DEF Open
  <1>4. CASE \E new : Edit(new)
    BY <1>1, <1>4, UseInv DEF Edit
  <1> QED BY <1>2, <1>3, <1>4

-----------------------------------------------------------------------------
(* Clicks                                                                  *)

\* A new request carries what was clicked on, and no answer.
LEMMA RequestIs ==
    ASSUME Typed, NEW kind
    PROVE  LET r == request(kind)
           IN  /\ IsRequest(r) /\ r.ref \in {NoId} \cup Tags /\ r.visit = visit /\ r.kind = kind
               /\ r.seen = <<r.user, r.policy>> /\ r.ok = FALSE
  BY DEF request, IsRequest, Typed, NoIds

\* A button sends a request only when the page is not busy, and makes it so;
\* the Blink button does neither.
LEMMA ClickInv ==
    ASSUME PagesInv, NEW kind, kind # "save", requests' = requests \cup {request(kind)},
           UNCHANGED <<identity, visit, blinkRef, saved, localStorage, left, backend>>,
           \/ kind = "blink" /\ busy' = busy
           \/ ~busy /\ busy' = TRUE
    PROVE  PagesInv'
  <1>1. /\ Typed /\ PostInv /\ CreditsKept /\ StayInv
        /\ identity' = identity /\ visit' = visit /\ blinkRef' = blinkRef /\ saved' = saved
        /\ localStorage' = localStorage /\ left' = left /\ server' = server
        /\ nextId' = nextId /\ saves' = saves /\ validated' = validated /\ taken' = taken
    BY DEF PagesInv, backend
  <1>2. PICK r : r = request(kind)
    OBVIOUS
  <1>3. /\ IsRequest(r) /\ r.ref \in {NoId} \cup Tags /\ r.visit = visit /\ r.kind = kind
        /\ r.seen = <<r.user, r.policy>> /\ r.ok = FALSE /\ requests' = requests \cup {r}
    BY <1>1, <1>2, RequestIs
  <1>4. Typed'
    BY <1>1, <1>3 DEF Typed
  <1>5. PostInv'
    <2>1. CarriesClick'
      BY <1>1, <1>3 DEF PostInv, CarriesClick
    <2>2. CarriesValid'
      BY <1>1, <1>3 DEF PostInv, CarriesValid
    <2>3. SavedIsValidated'
      BY <1>1 DEF PostInv, SavedIsValidated
    <2> QED BY <2>1, <2>2, <2>3 DEF PostInv
  <1>6. StayInv'
    <2> SUFFICES ASSUME ~left
                 PROVE  OneAtATime' /\ saved' = localStorage' /\ (~taken' => KnowsIds')
      BY <1>1 DEF StayInv
    <2>1. OneAtATime /\ saved = localStorage /\ (~taken => KnowsIds)
      BY <1>1 DEF StayInv
    <2>2. OneAtATime'
      BY <1>1, <1>3, <2>1 DEF OneAtATime
    <2>3. ~taken' => KnowsIds'
      BY <1>1, <1>3, <2>1 DEF KnowsIds, known
    <2> QED BY <1>1, <2>1, <2>2, <2>3
  <1>7. CreditsKept'
    BY <1>1 DEF CreditsKept
  <1> QED BY <1>4, <1>5, <1>6, <1>7 DEF PagesInv

LEMMA ClicksInv ==
    ASSUME PagesInv,
           \/ BootstrapAccount \/ PreviewPolicy \/ Save \/ VerifyDeposit \/ FullFlow \/ Reset
           \/ BlinkDeposit
    PROVE  PagesInv'
  <1>1. ASSUME NEW p, NEW kind, NEW b, kind # "save", Click(p, kind, b) PROVE PagesInv'
    BY <1>1, ClickInv DEF Click
  <1>2. CASE BlinkDeposit
    BY <1>2, ClickInv DEF BlinkDeposit, browser
  <1> QED BY <1>1, <1>2 DEF BootstrapAccount, PreviewPolicy, Save, VerifyDeposit, FullFlow, Reset

-----------------------------------------------------------------------------
(* The server                                                              *)

\* A request that is served, or goes on as the next one: what it carries stays,
\* and the server forgets ids only for a reset.
LEMMA ServedInv ==
    ASSUME PagesInv, NEW r \in requests, NEW s, requests' = (requests \ {r}) \cup {s},
           IsRequest(s), s.ref \in {NoId} \cup Tags, s.visit = r.visit,
           s.user = r.user, s.policy = r.policy, s.seen = r.seen,
           s.kind = "blink" <=> r.kind = "blink", s.kind = "reset" <=> r.kind = "reset",
           UNCHANGED <<identity, visit, busy, blinkRef, saved, localStorage, left>>,
           nextId' \in Nat, server' \in ServerType,
           r.kind = "reset" \/ \A i \in Ids : \A id : known(i, id) => known(i, id)',
           taken => taken', CreditsKept', validated \subseteq validated',
           \/ saves' = saves
           \/ r.kind = "save" /\ saves' = saves \cup {<<r.user, r.policy, r.seen>>},
           s.kind = "save" \/ (s.kind = "validate" /\ s.ok /\ s.valid) => s.policy \in validated',
           ~left /\ ~taken' /\ s.ok /\ s.kind \in Bringing =>
               \A i \in Ids : s.ids[i] # NoId => known(i, s.ids[i])'
    PROVE  PagesInv'
  <1>1. /\ Typed /\ PostInv /\ StayInv
        /\ identity' = identity /\ visit' = visit /\ busy' = busy /\ blinkRef' = blinkRef
        /\ saved' = saved /\ localStorage' = localStorage /\ left' = left
    BY DEF PagesInv
  <1>2. Typed'
    BY <1>1 DEF Typed
  <1>3. PostInv'
    <2>1. CarriesClick'
      BY <1>1 DEF PostInv, CarriesClick
    <2>2. CarriesValid'
      BY <1>1 DEF PostInv, CarriesValid
    <2>3. SavedIsValidated'
      <3>1. \A v \in saves : <<v[1], v[2]>> = v[3] /\ v[2] \in validated'
        BY <1>1 DEF PostInv, SavedIsValidated
      <3>2. r.kind = "save" => <<r.user, r.policy>> = r.seen /\ r.policy \in validated'
        BY <1>1 DEF PostInv, CarriesClick, CarriesValid
      <3> QED BY <3>1, <3>2 DEF SavedIsValidated
    <2> QED BY <2>1, <2>2, <2>3 DEF PostInv
  <1>4. StayInv'
    <2> SUFFICES ASSUME ~left
                 PROVE  OneAtATime' /\ saved' = localStorage' /\ (~taken' => KnowsIds')
      BY <1>1 DEF StayInv
    <2>1. OneAtATime /\ saved = localStorage /\ (~taken' => KnowsIds)
      BY <1>1 DEF StayInv
    <2>2. OneAtATime'
      BY <1>1, <2>1 DEF OneAtATime
    <2>3. ASSUME ~taken', NEW q \in requests, q # r, q.ok, q.kind \in Bringing, NEW i \in Ids,
                 q.ids[i] # NoId
          PROVE  known(i, q.ids[i])'
      <3>1. known(i, q.ids[i])
        BY <2>1, <2>3 DEF KnowsIds
      <3>2. r.kind # "reset"
        BY <2>1, <2>3 DEF OneAtATime, Bringing
      <3> QED BY <3>1, <3>2
    <2>4. \/ taken'
          \/ \E q \in requests' : q.kind = "reset"
          \/ \A i \in Ids : localStorage[i] # NoId => known(i, localStorage[i])'
      <3>1. CASE \E q \in requests : q.kind = "reset"
        BY <3>1
      <3>2. CASE r.kind # "reset"
                 /\ \A i \in Ids : localStorage[i] # NoId => known(i, localStorage[i])
        BY <3>2
      <3> QED BY <2>1, <3>1, <3>2 DEF KnowsIds
    <2>5. ASSUME ~taken' PROVE KnowsIds'
      <3>1. ASSUME NEW q \in requests', q.ok, q.kind \in Bringing, NEW i \in Ids, q.ids[i] # NoId
            PROVE  known(i, q.ids[i])'
        BY <2>3, <2>5, <3>1
      <3> QED BY <1>1, <2>4, <2>5, <3>1 DEF KnowsIds
    <2> QED BY <1>1, <2>1, <2>2, <2>5
  <1> QED BY <1>2, <1>3, <1>4 DEF PagesInv

\* An answer that arrives brings the ids the server knows by then, or none.
LEMMA AnswerInv ==
    ASSUME PagesInv, NEW r \in requests, NEW ids, NEW valid, answer(r, ids, valid),
           DOMAIN ids \subseteq Ids, \A i \in DOMAIN ids : ids[i] \in Tags \cup {NoId},
           UNCHANGED browser, nextId' \in Nat, server' \in ServerType,
           r.kind = "reset" \/ \A i \in Ids : \A id : known(i, id) => known(i, id)',
           taken => taken', CreditsKept', validated \subseteq validated',
           \/ saves' = saves
           \/ r.kind = "save" /\ saves' = saves \cup {<<r.user, r.policy, r.seen>>},
           r.kind = "validate" /\ valid => r.policy \in validated',
           ~taken' /\ r.kind \in Bringing => \A i \in DOMAIN ids : ids[i] # NoId => known(i, ids[i])'
    PROVE  PagesInv'
  <1> DEFINE all == [i \in Ids |-> IF i \in DOMAIN ids THEN ids[i] ELSE NoId]
  <1>1. /\ IsRequest(r) /\ r.ref \in {NoId} \cup Tags
        /\ r.kind = "save" \/ (r.kind = "validate" /\ r.ok /\ r.valid) => r.policy \in validated
    BY DEF PagesInv, Typed, PostInv, CarriesValid
  <1>2. all \in [Ids -> Tags \cup {NoId}]
    OBVIOUS
  <1>3. ~taken' /\ r.kind \in Bringing => \A i \in Ids : all[i] # NoId => known(i, all[i])'
    OBVIOUS
  <1>4. UNCHANGED <<identity, visit, busy, blinkRef, saved, localStorage, left>>
    BY DEF browser
  <1>5. \/ requests' = (requests \ {r}) \cup
               {[r EXCEPT !.answered = TRUE, !.ok = TRUE, !.ids = all, !.valid = valid]}
        \/ requests' = (requests \ {r}) \cup {[r EXCEPT !.answered = TRUE]}
    BY DEF answer, lost
  <1> HIDE DEF all
  <1>6. CASE requests' = (requests \ {r}) \cup
                 {[r EXCEPT !.answered = TRUE, !.ok = TRUE, !.ids = all, !.valid = valid]}
    <2>1. PICK s : s = [r EXCEPT !.answered = TRUE, !.ok = TRUE, !.ids = all, !.valid = valid]
      OBVIOUS
    <2>2. /\ IsRequest(s) /\ s.ref = r.ref /\ s.visit = r.visit /\ s.user = r.user
          /\ s.policy = r.policy /\ s.seen = r.seen /\ s.kind = r.kind
          /\ s.valid = valid /\ s.ids = all
      BY <1>1, <1>2, <2>1 DEF IsRequest
    <2>3. requests' = (requests \ {r}) \cup {s}
      BY <1>6, <2>1
    <2>4. s.kind = "save" \/ (s.kind = "validate" /\ s.ok /\ s.valid) => s.policy \in validated'
      BY <1>1, <2>2
    <2>5. ~taken' /\ s.kind \in Bringing => \A i \in Ids : s.ids[i] # NoId => known(i, s.ids[i])'
      BY <1>3, <2>2
    <2> QED BY <1>1, <1>4, <2>2, <2>3, <2>4, <2>5, ServedInv
  <1>7. CASE requests' = (requests \ {r}) \cup {[r EXCEPT !.answered = TRUE]}
    <2>1. PICK s : s = [r EXCEPT !.answered = TRUE]
      OBVIOUS
    <2>2. /\ IsRequest(s) /\ s.ref = r.ref /\ s.visit = r.visit /\ s.user = r.user
          /\ s.policy = r.policy /\ s.seen = r.seen /\ s.kind = r.kind
          /\ s.ok = r.ok /\ s.valid = r.valid /\ s.ids = r.ids
      BY <1>1, <2>1 DEF IsRequest
    <2>3. requests' = (requests \ {r}) \cup {s}
      BY <1>7, <2>1
    <2>4. s.kind = "save" \/ (s.kind = "validate" /\ s.ok /\ s.valid) => s.policy \in validated'
      BY <1>1, <2>2
    <2>5. ~left /\ ~taken' /\ s.ok /\ s.kind \in Bringing =>
              \A i \in Ids : s.ids[i] # NoId => known(i, s.ids[i])'
      <3> SUFFICES ASSUME ~left, ~taken', r.ok, r.kind \in Bringing, NEW i \in Ids, r.ids[i] # NoId
                   PROVE  known(i, r.ids[i])'
        BY <2>2
      <3>1. KnowsIds
        BY DEF PagesInv, StayInv
      <3>2. known(i, r.ids[i])
        BY <3>1 DEF KnowsIds
      <3> QED BY <3>2 DEF Bringing
    <2> QED BY <1>1, <1>4, <2>2, <2>3, <2>4, <2>5, ServedInv
  <1> QED BY <1>5, <1>6, <1>7

\* What a request is given, the server knows.
LEMMA GiveInv ==
    ASSUME PagesInv, NEW r \in requests, NEW ids, give(r, ids), r.kind # "reset",
           DOMAIN ids \subseteq Ids, \A i \in DOMAIN ids : ids[i] \in Tags,
           UNCHANGED browser, validated' = validated, taken' = taken,
           \/ saves' = saves
           \/ r.kind = "save" /\ saves' = saves \cup {<<r.user, r.policy, r.seen>>}
    PROVE  PagesInv'
  <1>1. nextId \in Nat /\ server \in ServerType /\ r.user \in PageUsers
    BY DEF PagesInv, Typed, IsRequest
  <1> DEFINE more == [i \in Ids |-> IF i \in DOMAIN ids THEN server[r.user].ids[i] \cup {ids[i]}
                                    ELSE server[r.user].ids[i]]
  <1>2. /\ nextId' = nextId + 1 /\ answer(r, ids, FALSE)
        /\ server' = [server EXCEPT ![r.user].ids = more]
    BY <1>1 DEF give
  <1>3. more \in [Ids -> SUBSET Tags]
    BY <1>1 DEF ServerType
  <1>4. /\ \A i \in Ids : server[r.user].ids[i] \subseteq more[i]
        /\ \A i \in DOMAIN ids : ids[i] \in more[i]
    OBVIOUS
  <1> HIDE DEF more
  <1>5. server' \in ServerType
    BY <1>1, <1>2, <1>3 DEF ServerType
  <1>6. server'[r.user].ids = more /\ \A u \in PageUsers \ {r.user} : server'[u] = server[u]
    BY <1>1, <1>2 DEF ServerType
  <1>7. \A i \in Ids : \A id : known(i, id) => known(i, id)'
    BY <1>1, <1>4, <1>6 DEF known
  <1>8. \A i \in DOMAIN ids : known(i, ids[i])'
    BY <1>1, <1>4, <1>6 DEF known
  <1>9. nextId' \in Nat
    BY <1>1, <1>2
  <1>10. /\ \A u \in PageUsers : server'[u].credits = server[u].credits
         /\ \A u \in PageUsers : server[u].ids["creditContractId"]
                                      \subseteq server'[u].ids["creditContractId"]
    BY <1>1, <1>2, <1>4, <1>6 DEF ServerType, Ids
  <1>11. CreditsKept'
    BY <1>10 DEF PagesInv, CreditsKept
  <1> QED BY <1>2, <1>5, <1>7, <1>8, <1>9, <1>11, AnswerInv

\* The requests that the server answers without a change to the ids it knows.
LEMMA ServeQuietlyInv ==
    ASSUME PagesInv, NEW r \in requests, UNCHANGED browser,
           ServeFailure(r) \/ ServeValidation(r)
    PROVE  PagesInv'
  <1>1. nextId \in Nat /\ server \in ServerType
    BY DEF PagesInv, Typed
  <1>2. DOMAIN NoIds = Ids /\ \A i \in Ids : NoIds[i] = NoId
    BY DEF NoIds
  <1>3. ASSUME NEW valid, answer(r, NoIds, valid), nextId' = nextId, server' = server,
               taken' = taken, validated \subseteq validated', saves' = saves,
               r.kind = "validate" /\ valid => r.policy \in validated'
        PROVE  PagesInv'
    <2>1. \A i \in Ids : \A id : known(i, id) => known(i, id)'
      BY <1>3 DEF known
    <2>2. CreditsKept'
      BY <1>3 DEF PagesInv, CreditsKept
    <2> QED BY <1>1, <1>2, <1>3, <2>1, <2>2, AnswerInv
  <1>4. CASE ServeFailure(r)
    <2>1. answer(r, NoIds, FALSE)
      BY <1>4 DEF ServeFailure, answer
    <2>2. /\ nextId' = nextId /\ server' = server /\ validated' = validated /\ saves' = saves
          /\ taken' = taken
      BY <1>4 DEF ServeFailure, backend
    <2> QED BY <1>3, <2>1, <2>2
  <1>5. CASE ServeValidation(r)
    <2>1. CASE validatePolicyInput(r.policy)
      <3>1. /\ answer(r, NoIds, TRUE) /\ nextId' = nextId /\ server' = server /\ saves' = saves
            /\ validated' = validated \cup {r.policy} /\ taken' = taken
        BY <1>5, <2>1 DEF ServeValidation
      <3> QED BY <1>3, <3>1
    <2>2. CASE ~validatePolicyInput(r.policy)
      <3>1. /\ answer(r, NoIds, FALSE) /\ nextId' = nextId /\ server' = server /\ saves' = saves
            /\ validated' = validated /\ taken' = taken
        BY <1>5, <2>2 DEF ServeValidation
      <3> QED BY <1>3, <3>1
    <2> QED BY <2>1, <2>2
  <1> QED BY <1>4, <1>5

LEMMA ServeGivingInv ==
    ASSUME PagesInv, NEW r \in requests, UNCHANGED browser,
           ServeBootstrap(r) \/ ServePolicy(r) \/ ServeFullFlow(r)
    PROVE  PagesInv'
  <1>1. /\ <<nextId>> \in Tags /\ cantonPartyForDynamicUser(r.user) \in Tags
    BY DEF PagesInv, Typed, IsRequest, Tags, cantonPartyForDynamicUser
  <1>2. CASE ServeBootstrap(r)
    <2> DEFINE ids == [cantonPartyId |-> cantonPartyForDynamicUser(r.user)]
    <2>1. /\ give(r, ids) /\ r.kind # "reset" /\ validated' = validated /\ saves' = saves
          /\ taken' = taken
      BY <1>2 DEF ServeBootstrap
    <2>2. DOMAIN ids \subseteq Ids /\ \A i \in DOMAIN ids : ids[i] \in Tags
      BY <1>1 DEF Ids
    <2> HIDE DEF ids
    <2> QED BY <2>1, <2>2, GiveInv
  <1>3. CASE ServePolicy(r)
    <2> DEFINE ids == [policyContractId |-> <<nextId>>]
    <2>1. /\ give(r, ids) /\ r.kind = "save" /\ validated' = validated /\ taken' = taken
          /\ saves' = saves \cup {<<r.user, r.policy, r.seen>>}
      BY <1>3 DEF ServePolicy
    <2>2. DOMAIN ids \subseteq Ids /\ \A i \in DOMAIN ids : ids[i] \in Tags
      BY <1>1 DEF Ids
    <2> HIDE DEF ids
    <2> QED BY <2>1, <2>2, GiveInv
  <1>4. CASE ServeFullFlow(r)
    <2> DEFINE ids == [cantonPartyId |-> cantonPartyForDynamicUser(r.user),
                       policyContractId |-> <<nextId>>, creditContractId |-> <<nextId>>]
    <2>1. /\ give(r, ids) /\ r.kind # "reset" /\ validated' = validated /\ saves' = saves
          /\ taken' = taken
      BY <1>4 DEF ServeFullFlow
    <2>2. DOMAIN ids \subseteq Ids /\ \A i \in DOMAIN ids : ids[i] \in Tags
      BY <1>1 DEF Ids
    <2> HIDE DEF ids
    <2> QED BY <2>1, <2>2, GiveInv
  <1> QED BY <1>2, <1>3, <1>4

\* The answer to the Blink button brings a reference, and no id.
LEMMA ServeBlinkInv ==
    ASSUME PagesInv, NEW r \in requests, UNCHANGED browser, ServeBlink(r)
    PROVE  PagesInv'
  <1>1. /\ IsRequest(r) /\ r.ref \in {NoId} \cup Tags /\ nextId \in Nat
        /\ server \in ServerType /\ r.user \in PageUsers
        /\ <<nextId>> \in Tags /\ cantonPartyForDynamicUser(r.user) \in Tags
    BY DEF PagesInv, Typed, IsRequest, Tags, cantonPartyForDynamicUser
  <1> DEFINE party == cantonPartyForDynamicUser(r.user)
             more == [server[r.user].ids EXCEPT !["cantonPartyId"] = @ \cup {party}]
  <1>2. /\ r.kind = "blink" /\ nextId' = nextId + 1 /\ saves' = saves /\ validated' = validated
        /\ taken' = taken /\ server' = [server EXCEPT ![r.user].ids = more]
        /\ UNCHANGED <<identity, visit, busy, blinkRef, saved, localStorage, left>>
    BY DEF ServeBlink, browser
  <1>3. more \in [Ids -> SUBSET Tags] /\ \A i \in Ids : server[r.user].ids[i] \subseteq more[i]
    <2>1. server[r.user].ids \in [Ids -> SUBSET Tags]
      BY <1>1 DEF ServerType
    <2> HIDE DEF party
    <2>2. party \in Tags
      BY <1>1 DEF party
    <2> QED BY <2>1, <2>2 DEF Ids
  <1> HIDE DEF more
  <1>4. server' \in ServerType
    BY <1>1, <1>2, <1>3 DEF ServerType
  <1>5. server'[r.user].ids = more /\ \A u \in PageUsers \ {r.user} : server'[u] = server[u]
    BY <1>1, <1>2 DEF ServerType
  <1>6. \A i \in Ids : \A id : known(i, id) => known(i, id)'
    BY <1>1, <1>3, <1>5 DEF known
  <1>7. nextId' \in Nat
    BY <1>1, <1>2
  <1>8. PICK s : /\ requests' = (requests \ {r}) \cup {s}
                 /\ \/ s = [r EXCEPT !.answered = TRUE, !.ok = TRUE, !.ref = <<nextId>>]
                    \/ s = [r EXCEPT !.answered = TRUE]
    BY DEF ServeBlink, lost
  <1>9. /\ IsRequest(s) /\ s.ref \in {NoId} \cup Tags /\ s.visit = r.visit /\ s.user = r.user
        /\ s.policy = r.policy /\ s.seen = r.seen /\ s.kind = r.kind
    <2>1. CASE s = [r EXCEPT !.answered = TRUE, !.ok = TRUE, !.ref = <<nextId>>]
      BY <1>1, <2>1 DEF IsRequest
    <2>2. CASE s = [r EXCEPT !.answered = TRUE]
      BY <1>1, <2>2 DEF IsRequest
    <2> QED BY <1>8, <2>1, <2>2
  <1>10. s.kind # "save" /\ s.kind # "validate" /\ s.kind \notin Bringing
    BY <1>2, <1>9 DEF Bringing
  <1>11. /\ \A u \in PageUsers : server'[u].credits = server[u].credits
         /\ \A u \in PageUsers : server[u].ids["creditContractId"]
                                      \subseteq server'[u].ids["creditContractId"]
    BY <1>1, <1>2, <1>3, <1>5 DEF ServerType, Ids
  <1>12. CreditsKept'
    BY <1>2, <1>11 DEF PagesInv, CreditsKept
  <1> QED BY <1>2, <1>4, <1>6, <1>7, <1>8, <1>9, <1>10, <1>12, ServedInv

\* A deposit is answered with a new credit, or with the credit a row names, which
\* the server has unless another user's reset took it.
LEMMA ServeVerificationInv ==
    ASSUME PagesInv, NEW r \in requests, UNCHANGED browser, ServeVerification(r)
    PROVE  PagesInv'
  <1>1. /\ r.ref \in {NoId} \cup Tags /\ nextId \in Nat /\ CreditsKept
        /\ server \in ServerType /\ r.user \in PageUsers /\ <<nextId>> \in Tags
    BY DEF PagesInv, Typed, IsRequest, Tags
  <1> DEFINE earlier == {c \in server[r.user].credits : c.ref = r.ref}
             found == IF earlier = {} THEN <<nextId>> ELSE (CHOOSE c \in earlier : TRUE).id
             owned == server[r.user].ids["creditContractId"]
  <1>0. PICK credit, ids : credit = found /\ ids = [creditContractId |-> credit]
    OBVIOUS
  <1> DEFINE held == IF earlier = {} THEN owned \cup {credit} ELSE owned
             more == [server[r.user].ids EXCEPT !["creditContractId"] = held]
             paid == server[r.user].credits \cup {[ref |-> r.ref, id |-> credit]}
  <1>2. /\ r.kind = "verify" /\ nextId' = nextId + 1 /\ saves' = saves /\ validated' = validated
        /\ taken' = taken /\ server' = [server EXCEPT ![r.user].credits = paid, ![r.user].ids = more]
        /\ answer(r, ids, FALSE)
    BY <1>0, <1>1 DEF ServeVerification, ServerType
  <1>3. credit \in Tags /\ (~taken => credit \in held)
    <2>1. \A c \in earlier : c.id \in Tags /\ (~taken => c.id \in owned)
      BY <1>1 DEF ServerType, CreditsKept
    <2>2. earlier # {} => (CHOOSE c \in earlier : TRUE) \in earlier
      OBVIOUS
    <2> HIDE DEF earlier, owned
    <2> QED BY <1>0, <1>1, <2>1, <2>2
  <1>4. /\ server[r.user].ids \in [Ids -> SUBSET Tags]
        /\ server[r.user].credits \in SUBSET [ref : {NoId} \cup Tags, id : Tags]
        /\ owned \subseteq held /\ held \in SUBSET Tags
    <2>1. /\ server[r.user].ids \in [Ids -> SUBSET Tags]
          /\ server[r.user].credits \in SUBSET [ref : {NoId} \cup Tags, id : Tags]
      BY <1>1 DEF ServerType
    <2>2. owned \in SUBSET Tags
      BY <2>1 DEF Ids
    <2> HIDE DEF earlier, owned
    <2> QED BY <1>3, <2>1, <2>2
  <1> HIDE DEF held
  <1>5. /\ more \in [Ids -> SUBSET Tags] /\ more["creditContractId"] = held
        /\ \A i \in Ids : server[r.user].ids[i] \subseteq more[i]
    BY <1>4 DEF Ids
  <1>6. paid \in SUBSET [ref : {NoId} \cup Tags, id : Tags]
    BY <1>1, <1>3, <1>4
  <1>7. DOMAIN ids = {"creditContractId"} /\ ids["creditContractId"] = credit
    BY <1>0
  <1> HIDE DEF more
  <1>8. server' \in ServerType
    <2> HIDE DEF paid
    <2> QED BY <1>1, <1>2, <1>5, <1>6 DEF ServerType
  <1>9. /\ server'[r.user].ids = more /\ server'[r.user].credits = paid
        /\ \A u \in PageUsers \ {r.user} : server'[u] = server[u]
    BY <1>1, <1>2 DEF ServerType
  <1>10. \A i \in Ids : \A id : known(i, id) => known(i, id)'
    BY <1>1, <1>5, <1>9 DEF known
  <1>11. ~taken' => \A i \in DOMAIN ids : known(i, ids[i])'
    BY <1>1, <1>2, <1>3, <1>5, <1>7, <1>9 DEF known
  <1>12. DOMAIN ids \subseteq Ids /\ \A i \in DOMAIN ids : ids[i] \in Tags \cup {NoId}
    BY <1>3, <1>7 DEF Ids
  <1>13. nextId' \in Nat
    BY <1>1, <1>2
  <1>14. CreditsKept'
    <2> SUFFICES ASSUME ~taken', NEW u \in PageUsers, NEW c \in server'[u].credits
                 PROVE  c.id \in server'[u].ids["creditContractId"]
      BY DEF CreditsKept
    <2>1. ~taken
      BY <1>2
    <2>2. CASE u # r.user
      BY <1>1, <1>9, <2>1, <2>2 DEF CreditsKept
    <2>3. CASE u = r.user
      <3>1. CASE c \in server[r.user].credits
        BY <1>1, <1>4, <1>5, <1>9, <2>1, <2>3, <3>1 DEF CreditsKept
      <3>2. CASE c = [ref |-> r.ref, id |-> credit]
        BY <1>3, <1>5, <1>9, <2>1, <2>3, <3>2
      <3> QED BY <1>9, <2>3, <3>1, <3>2
    <2> QED BY <2>2, <2>3
  <1> QED BY <1>2, <1>8, <1>10, <1>11, <1>12, <1>13, <1>14, AnswerInv

\* A reset makes the server forget, and is still to be answered.
LEMMA ServeResetInv ==
    ASSUME PagesInv, NEW r \in requests, UNCHANGED browser, ServeReset(r)
    PROVE  PagesInv'
  <1>1. nextId \in Nat /\ server \in ServerType
    BY DEF PagesInv, Typed
  <1>2. DOMAIN NoIds = Ids /\ \A i \in Ids : NoIds[i] = NoId
    BY DEF NoIds
  <1>3. /\ r.kind = "reset" /\ answer(r, NoIds, FALSE) /\ nextId' = nextId /\ saves' = saves
        /\ validated' = validated
        /\ taken' = (taken \/ \E u \in DOMAIN server \ {r.user} : server[u].credits # {})
        /\ server' = [u \in DOMAIN server |->
                          IF u = r.user THEN Fresh
                          ELSE [server[u] EXCEPT !.ids["policyContractId"] = {},
                                                 !.ids["creditContractId"] = {}]]
    BY DEF ServeReset
  <1>4. ASSUME NEW u \in PageUsers
        PROVE  server'[u] \in [ids : [Ids -> SUBSET Tags],
                               credits : SUBSET [ref : {NoId} \cup Tags, id : Tags]]
    <2>1. CASE u = r.user
      BY <1>1, <1>3, <2>1 DEF ServerType, Fresh
    <2>2. CASE u # r.user
      BY <1>1, <1>3, <2>2 DEF ServerType, Ids
    <2> QED BY <2>1, <2>2
  <1>5. server' \in ServerType
    <2>1. DOMAIN server = PageUsers
      BY <1>1 DEF ServerType
    <2> QED BY <1>3, <1>4, <2>1 DEF ServerType
  <1>6. CreditsKept'
    <2>1. DOMAIN server = PageUsers
      BY <1>1 DEF ServerType
    <2>2. ASSUME ~taken', NEW u \in PageUsers PROVE server'[u].credits = {}
      <3>1. CASE u = r.user
        BY <1>3, <2>1, <3>1 DEF Fresh
      <3>2. CASE u # r.user
        <4>1. server[u].credits = {}
          BY <1>3, <2>1, <2>2, <3>2
        <4>2. server'[u] = [server[u] EXCEPT !.ids["policyContractId"] = {},
                                             !.ids["creditContractId"] = {}]
          BY <1>3, <2>1, <3>2
        <4>3. server'[u].credits = server[u].credits
          BY <1>1, <4>2 DEF ServerType
        <4> QED BY <4>1, <4>3
      <3> QED BY <3>1, <3>2
    <2> QED BY <2>2 DEF CreditsKept
  <1> QED BY <1>1, <1>2, <1>3, <1>5, <1>6, AnswerInv DEF Bringing

LEMMA ServeInv ==
    ASSUME PagesInv, NEW r \in requests, Serve(r)
    PROVE  PagesInv'
  BY ServeQuietlyInv, ServeGivingInv, ServeBlinkInv, ServeVerificationInv, ServeResetInv DEF Serve

-----------------------------------------------------------------------------
(* Answers                                                                 *)

\* The page settles the request: it stores nothing, ids the server knows, or,
\* for a reset, forgets all.
LEMMA SettledInv ==
    ASSUME PagesInv, NEW r \in requests, requests' = requests \ {r},
           UNCHANGED <<identity, visit, left, backend>>,
           blinkRef' \in {NoId} \cup Tags,
           \/ r.kind = "blink" /\ busy' = busy
           \/ r.kind # "blink" /\ settled(r),
           localStorage' \in [Ids -> Tags \cup {NoId}], saved' \in [Ids -> Tags \cup {NoId}],
           ~left => /\ saved' = localStorage'
                    /\ \/ \A i \in Ids : localStorage'[i] = NoId
                       \/ /\ r.kind # "reset"
                          /\ \/ localStorage' = localStorage
                             \/ /\ r.kind # "blink"
                                /\ ~taken => \A i \in Ids : localStorage'[i] # localStorage[i] =>
                                                      known(i, localStorage'[i])
    PROVE  PagesInv'
  <1>1. /\ Typed /\ PostInv /\ CreditsKept /\ StayInv
        /\ identity' = identity /\ visit' = visit /\ left' = left
        /\ server' = server /\ nextId' = nextId /\ saves' = saves /\ validated' = validated
        /\ taken' = taken
    BY DEF PagesInv, backend
  <1>2. Typed'
    BY <1>1 DEF Typed
  <1>3. PostInv'
    BY <1>1 DEF PostInv, CarriesClick, CarriesValid, SavedIsValidated
  <1>4. StayInv'
    <2> SUFFICES ASSUME ~left
                 PROVE  OneAtATime' /\ saved' = localStorage' /\ (~taken' => KnowsIds')
      BY <1>1 DEF StayInv
    <2>1. OneAtATime /\ saved = localStorage /\ (~taken => KnowsIds)
      BY <1>1 DEF StayInv
    <2>2. OneAtATime'
      BY <1>1, <2>1 DEF OneAtATime, settled, mounted
    <2>3. \A i \in Ids : \A id : known(i, id)' <=> known(i, id)
      BY <1>1 DEF known
    <2>4. \/ taken
          \/ \E q \in requests' : q.kind = "reset"
          \/ \A i \in Ids : localStorage'[i] # NoId => known(i, localStorage'[i])
      <3>1. CASE \A i \in Ids : localStorage'[i] = NoId
        BY <3>1
      <3>2. CASE r.kind # "reset" /\ localStorage' = localStorage
        BY <2>1, <3>2 DEF KnowsIds
      <3>3. CASE /\ r.kind # "reset" /\ r.kind # "blink"
                 /\ ~taken => \A i \in Ids : localStorage'[i] # localStorage[i] =>
                                       known(i, localStorage'[i])
        <4>1. ~\E q \in requests : q.kind = "reset"
          BY <2>1, <3>3 DEF OneAtATime
        <4> QED BY <2>1, <3>3, <4>1 DEF KnowsIds
      <3> QED BY <3>1, <3>2, <3>3
    <2>5. ASSUME ~taken PROVE KnowsIds'
      <3>1. \A q \in requests' :
                q.ok /\ q.kind \in Bringing =>
                    \A i \in Ids : q.ids[i] # NoId => known(i, q.ids[i])
        BY <2>1, <2>5 DEF KnowsIds
      <3> QED BY <1>1, <2>4, <2>5, <3>1 DEF KnowsIds, known
    <2> QED BY <1>1, <2>2, <2>5
  <1>5. CreditsKept'
    BY <1>1 DEF CreditsKept
  <1> QED BY <1>2, <1>3, <1>4, <1>5 DEF PagesInv

\* A policy found valid is posted as it was.
LEMMA PostPolicyInv ==
    ASSUME PagesInv, NEW r \in requests, PostPolicy(r),
           UNCHANGED <<identity, visit, left, backend>>
    PROVE  PagesInv'
  <1>1. /\ IsRequest(r) /\ r.ref \in {NoId} \cup Tags /\ nextId \in Nat /\ server \in ServerType
        /\ r.kind = "validate" /\ r.ok /\ r.valid /\ r.policy \in validated
    BY DEF PagesInv, Typed, PostInv, CarriesValid, PostPolicy
  <1>2. PICK s : s = [r EXCEPT !.kind = "save", !.answered = FALSE, !.ok = FALSE]
    OBVIOUS
  <1>3. /\ IsRequest(s) /\ s.ref = r.ref /\ s.visit = r.visit /\ s.user = r.user
        /\ s.policy = r.policy /\ s.seen = r.seen /\ s.kind = "save" /\ s.ok = FALSE
    BY <1>1, <1>2 DEF IsRequest
  <1>4. /\ requests' = (requests \ {r}) \cup {s}
        /\ UNCHANGED <<identity, visit, busy, blinkRef, saved, localStorage, left>>
        /\ nextId' = nextId /\ server' = server /\ saves' = saves /\ validated' = validated
        /\ taken' = taken
    BY <1>2 DEF PostPolicy, backend
  <1>5. \A i \in Ids : \A id : known(i, id) => known(i, id)'
    BY <1>4 DEF known
  <1>6. CreditsKept'
    BY <1>4 DEF PagesInv, CreditsKept
  <1> QED BY <1>1, <1>3, <1>4, <1>5, <1>6, ServedInv

LEMMA AnswersInv ==
    ASSUME PagesInv, NEW r \in requests, Answer(r)
    PROVE  PagesInv'
  <1>1. /\ IsRequest(r) /\ r.ref \in {NoId} \cup Tags /\ blinkRef \in {NoId} \cup Tags
        /\ localStorage \in [Ids -> Tags \cup {NoId}] /\ saved \in [Ids -> Tags \cup {NoId}]
        /\ ~left => saved = localStorage /\ r.visit = visit /\ (~taken => KnowsIds)
    BY DEF PagesInv, Typed, StayInv, OneAtATime
  <1>2. UNCHANGED <<identity, visit, left, backend>>
    BY DEF Answer
  <1>3. CASE Catch(r) \/ Show(r)
    <2>1. /\ requests' = requests \ {r} /\ settled(r) /\ saved' = saved
          /\ localStorage' = localStorage /\ blinkRef' = blinkRef
          /\ r.kind # "blink" /\ r.kind # "reset"
      BY <1>3 DEF Catch, Show
    <2> QED BY <1>1, <1>2, <2>1, SettledInv
  <1>4. CASE PostPolicy(r)
    BY <1>2, <1>4, PostPolicyInv
  <1>5. CASE Remember(r)
    <2> DEFINE merge(old) == [i \in Ids |-> IF r.ids[i] # NoId THEN r.ids[i] ELSE old[i]]
    <2>1. /\ r.ok /\ r.kind \in Bringing /\ r.kind # "blink" /\ r.kind # "reset"
          /\ localStorage' = merge(localStorage)
          /\ saved' = IF mounted(r) THEN merge(saved) ELSE saved
          /\ requests' = requests \ {r} /\ settled(r) /\ blinkRef' = blinkRef
      BY <1>5 DEF Remember, Bringing
    <2>2. r.ids \in [Ids -> Tags \cup {NoId}]
      BY <1>1 DEF IsRequest
    <2>3. /\ localStorage' \in [Ids -> Tags \cup {NoId}]
          /\ saved' \in [Ids -> Tags \cup {NoId}]
      BY <1>1, <2>1, <2>2
    <2>4. ASSUME ~left
          PROVE  /\ saved' = localStorage'
                 /\ ~taken => \A i \in Ids : localStorage'[i] # localStorage[i] =>
                                                 known(i, localStorage'[i])
      <3>1. saved' = localStorage'
        BY <1>1, <2>1, <2>4 DEF mounted
      <3>2. ~taken => \A i \in Ids : r.ids[i] # NoId => known(i, r.ids[i])
        BY <1>1, <2>1, <2>4 DEF KnowsIds
      <3>3. ASSUME ~taken, NEW i \in Ids, localStorage'[i] # localStorage[i]
            PROVE  known(i, localStorage'[i])
        <4>1. localStorage'[i] = r.ids[i] /\ r.ids[i] # NoId
          BY <2>1, <3>3
        <4> QED BY <3>2, <3>3, <4>1
      <3> QED BY <3>1, <3>3
    <2> HIDE DEF merge
    <2> QED BY <1>1, <1>2, <2>1, <2>3, <2>4, SettledInv
  <1>6. CASE Clear(r)
    <2>1. /\ r.kind = "reset" /\ requests' = requests \ {r} /\ settled(r) /\ blinkRef' = blinkRef
          /\ localStorage' = NoIds /\ saved' = IF mounted(r) THEN NoIds ELSE saved
      BY <1>6 DEF Clear
    <2>2. NoIds \in [Ids -> Tags \cup {NoId}] /\ \A i \in Ids : NoIds[i] = NoId
      BY DEF NoIds
    <2>3. saved' \in [Ids -> Tags \cup {NoId}] /\ (~left => saved' = localStorage')
      BY <1>1, <2>1, <2>2 DEF mounted
    <2> QED BY <1>1, <1>2, <2>1, <2>2, <2>3, SettledInv
  <1>7. CASE SetBlinkRef(r)
    <2>1. /\ r.kind = "blink" /\ requests' = requests \ {r} /\ busy' = busy /\ saved' = saved
          /\ localStorage' = localStorage /\ blinkRef' \in {NoId} \cup Tags
      BY <1>1, <1>7 DEF SetBlinkRef
    <2> QED BY <1>1, <1>2, <2>1, SettledInv
  <1> QED BY <1>3, <1>4, <1>5, <1>6, <1>7 DEF Answer

-----------------------------------------------------------------------------
(* The theorems                                                            *)

LEMMA InitInv == Init => PagesInv
  <1> SUFFICES ASSUME Init PROVE PagesInv
    OBVIOUS
  <1>1. /\ requests = {} /\ saves = {} /\ validated = {} /\ left = FALSE /\ visit = 1 /\ nextId = 1
        /\ saved = NoIds /\ localStorage = NoIds /\ blinkRef = NoId /\ taken = FALSE
        /\ server = [u \in PageUsers |-> Fresh] /\ identity.user = DemoUser
    BY DEF Init, PageUsers, getIdentityForWalletMode
  <1>2. NoIds \in [Ids -> Tags \cup {NoId}] /\ \A i \in Ids : NoIds[i] = NoId
    BY DEF NoIds
  <1>3. Fresh \in [ids : [Ids -> SUBSET Tags], credits : SUBSET [ref : {NoId} \cup Tags, id : Tags]]
    BY DEF Fresh
  <1>4. Typed
    <2>1. server \in ServerType
      BY <1>1, <1>3 DEF ServerType
    <2> QED BY <1>1, <1>2, <2>1 DEF Typed, PageUsers
  <1>5. PostInv
    BY <1>1 DEF PostInv, CarriesClick, CarriesValid, SavedIsValidated
  <1>6. StayInv
    BY <1>1, <1>2 DEF StayInv, OneAtATime, KnowsIds
  <1>7. CreditsKept
    BY <1>1 DEF CreditsKept, Fresh
  <1> QED BY <1>4, <1>5, <1>6, <1>7 DEF PagesInv

\* Whatever the user does meanwhile, each answer and each click keeps the
\* invariant.
LEMMA NextInv == PagesInv /\ [Next]_vars => PagesInv'
  <1> SUFFICES ASSUME PagesInv, [Next]_vars PROVE PagesInv'
    OBVIOUS
  <1>1. CASE \/ \E u \in People \cup {DemoUser} : SignInOrOut(u)
             \/ \E p \in Pages : Open(p)
             \/ StartFromExample \/ SetName \/ SetRule \/ AddCategory \/ RemoveCategory
             \/ UpdateCategory
    <2>1. \/ \E u \in PageUsers : SignInOrOut(u)
          \/ \E p \in Pages : Open(p)
          \/ \E new : Edit(new)
      BY <1>1 DEF PageUsers, StartFromExample, SetName, SetRule, AddCategory, RemoveCategory,
                  UpdateCategory
    <2> QED BY <2>1, TurnsAndEditsInv
  <1>2. CASE \/ BootstrapAccount \/ PreviewPolicy \/ Save \/ VerifyDeposit \/ FullFlow \/ Reset
             \/ BlinkDeposit
    BY <1>2, ClicksInv
  <1>3. CASE Progress
    BY <1>3, ServeInv, AnswersInv DEF Progress
  <1>4. CASE UNCHANGED vars
    BY <1>4 DEF vars, browser, backend, PagesInv, Typed, PostInv, CarriesClick, CarriesValid,
                SavedIsValidated, StayInv, OneAtATime, CreditsKept, KnowsIds, known
  <1> QED BY <1>1, <1>2, <1>3, <1>4 DEF Next, User

LEMMA InvHolds == Spec => []PagesInv
  BY InitInv, NextInv, PTL DEF Spec

\* However the form is edited, the user changes and pages are left while requests
\* are under way: a policy that is saved is the one Save was clicked on, for the
\* user then signed in, and the server had found it valid.
THEOREM SavedIsValidatedHolds == Spec => []SavedIsValidated
  <1>1. PagesInv => SavedIsValidated
    BY DEF PagesInv, PostInv
  <1> QED BY <1>1, InvHolds, PTL

\* When every answer is in and no page was left while it waited, the page shows
\* what localStorage holds, and that names only what the server gave out and has
\* not reset, also after a reset that failed or whose answer was lost: as long as
\* no reset took a credit that the row of another user names.
THEOREM StoredIdsKnownHolds == Spec => []StoredIdsKnown
  <1>1. PagesInv => StoredIdsKnown
    <2> SUFFICES ASSUME PagesInv, requests = {}, ~left
                 PROVE  /\ saved = localStorage
                        /\ ~taken => \A i \in Ids : localStorage[i] # NoId =>
                               \E u \in DOMAIN server : localStorage[i] \in server[u].ids[i]
      BY DEF StoredIdsKnown
    <2>1. saved = localStorage /\ (~taken => KnowsIds)
      BY DEF PagesInv, StayInv
    <2>2. DOMAIN server = PageUsers
      BY DEF PagesInv, Typed, ServerType
    <2> QED BY <2>1, <2>2 DEF KnowsIds, known
  <1> QED BY <1>1, InvHolds, PTL
=============================================================================
