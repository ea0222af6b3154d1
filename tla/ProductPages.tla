----------------------------- MODULE ProductPages -----------------------------
(***************************************************************************)
(* The pages of the web application in one browser tab: who they act for,  *)
(* the policy form, the requests their buttons send, and the contract ids  *)
(* they keep in localStorage.                                              *)
(*                                                                         *)
(* A click captures the form and the identity it was rendered with; its    *)
(* requests are served and answered later, while the user goes on editing, *)
(* clicking, signing in or out, or leaves for another page.  Leaving a     *)
(* page unmounts it: an answer that comes later still writes localStorage, *)
(* but changes no page.  The server is reduced to the ids it has given out *)
(* and not reset since, and does not restart; DemoServer models it.  What a*)
(* page only displays (the preview, the last answer, the simulated         *)
(* dashboards and animations) is left out, and with it the Flow checkout,  *)
(* whose answer is displayed.                                              *)
(***************************************************************************)
EXTENDS Integers, Sequences, FiniteSets, FiniteSetsExt, SequencesExt

CONSTANTS
    Modes,          \* client wallet modes to start in: "mock", "live", "none"
    People,         \* who may sign in with a live wallet
    DemoUser,       \* "demo-dynamic-user"
    Example,        \* exampleCategories
    Labels,         \* names somebody may type for a category, as their slugs
    Percentages,    \* basis points somebody may type
    Switches,       \* approval rules to switch on or off
    MaxClicks,      \* bound: clicks on buttons that send a request
    MaxEdits,       \* bound: edits of the form
    MaxTurns,       \* bound: pages opened, and sign-ins and -outs
    MaxUse          \* bound: all of these together

ASSUME ProductAssumption ==
    /\ DemoUser \notin People /\ Modes \subseteq {"mock", "live", "none"}
    /\ MaxClicks \in Nat /\ MaxEdits \in Nat /\ MaxTurns \in Nat /\ MaxUse \in Nat

VARIABLES
    identity,       \* usePreoIdentity(): live wallet or not, user, signed in or not
    page, visit,    \* the page mounted, and which mount it is
    busy,           \* useAsyncState of the page
    form,           \* of the policy builder
    blinkRef,       \* of the fund page
    saved,          \* useSavedDemoState of the page
    localStorage,
    requests,       \* sent and not yet settled
    server,         \* by user: ids given out and not reset, and credits by reference
    nextId,
    clicks, edits, turns,
    saves,          \* history: policies the server saved, with what was clicked
    validated,      \* history: policies the server found valid
    taken,          \* history: a reset took a credit that a row of another user names
    left            \* history: a page was left while it had a request

browser == <<identity, page, visit, busy, form, blinkRef, saved, localStorage, turns, edits, left>>
backend == <<server, nextId, saves, validated, taken>>
vars == <<browser, backend, requests, clicks>>

Pages == {"onboarding", "policy", "fund", "demo"}
Ids == {"policyContractId", "creditContractId", "cantonPartyId"}
NoId == <<>>
NoIds == [i \in Ids |-> NoId]
NoForm == [named |-> FALSE, categories |-> <<>>, rules |-> {"newRecipient", "investments"}]
Fresh == [ids |-> [i \in Ids |-> {}], credits |-> {}]

\* A page that waits for a live wallet shows the demo user until somebody signs in.
getIdentityForWalletMode(mode) ==
    [live |-> mode = "live", user |-> DemoUser, signedIn |-> mode # "live"]

Init ==
    /\ \E mode \in Modes : identity = getIdentityForWalletMode(mode)
    /\ page \in Pages /\ visit = 1 /\ busy = FALSE /\ form = NoForm /\ blinkRef = NoId
    /\ saved = NoIds /\ localStorage = NoIds
    /\ requests = {} /\ clicks = 0 /\ edits = 0 /\ turns = 0
    /\ server = [u \in People \cup {DemoUser} |-> Fresh] /\ nextId = 1
    /\ saves = {} /\ validated = {} /\ taken = FALSE /\ left = FALSE

-----------------------------------------------------------------------------
(* Identity and navigation                                                 *)

mayUse == clicks + edits + turns < MaxUse

Turn == mayUse /\ turns < MaxTurns /\ turns' = turns + 1

\* LiveDynamicIdentityBridge: somebody signed in to the live wallet, or out of it.
SignInOrOut(u) ==
    /\ Turn /\ identity.live /\ u # identity.user
    /\ identity' = [identity EXCEPT !.user = u, !.signedIn = u # DemoUser]
    /\ UNCHANGED <<page, visit, busy, form, blinkRef, saved, localStorage, edits, left, backend,
                   requests, clicks>>

\* A page mounts with fresh state, and reads what localStorage holds.
Open(p) ==
    /\ Turn
    /\ page' = p /\ visit' = visit + 1 /\ busy' = FALSE /\ form' = NoForm /\ blinkRef' = NoId
    /\ saved' = localStorage
    /\ left' = (left \/ requests # {})
    /\ UNCHANGED <<identity, localStorage, edits, backend, requests, clicks>>

-----------------------------------------------------------------------------
(* The policy form                                                         *)

Edit(new) ==
    /\ page = "policy" /\ mayUse /\ edits < MaxEdits /\ edits' = edits + 1
    /\ form' = new
    /\ UNCHANGED <<identity, page, visit, busy, blinkRef, saved, localStorage, turns, left, backend,
                   requests, clicks>>

StartFromExample == Edit([form EXCEPT !.named = TRUE, !.categories = Example])

SetName == \E b \in BOOLEAN : Edit([form EXCEPT !.named = b])

SetRule == \E s \in Switches :
    Edit([form EXCEPT !.rules = IF s \in @ THEN @ \ {s} ELSE @ \cup {s}])

\* A new category's id is its number in the list: ids may collide after a removal.
AddCategory ==
    Edit([form EXCEPT !.categories =
              Append(@, [id |-> <<"category", Len(@) + 1>>, labelled |-> FALSE, bps |-> 0,
                         type |-> "InternalReserve", recipient |-> FALSE])])

RemoveCategory == \E i \in DOMAIN form.categories : Edit([form EXCEPT !.categories = RemoveAt(@, i)])

\* A name gives the category its slug for an id, and an empty one leaves the id.
UpdateCategory ==
    \E i \in DOMAIN form.categories :
        LET category == form.categories[i]
        IN  \E patched \in
                {[category EXCEPT !.id = <<l>>, !.labelled = TRUE] : l \in Labels}
                \cup {[category EXCEPT !.labelled = FALSE]}
                \cup {[category EXCEPT !.bps = b] : b \in Percentages}
                \cup {[category EXCEPT !.type = t] : t \in {"InternalReserve", "ExternalPayment"}}
                \cup {[category EXCEPT !.recipient = b] :
                          b \in {b \in BOOLEAN : category.type = "ExternalPayment"}} :
            Edit([form EXCEPT !.categories[i] = patched])

\* policyInputSchema, which every route that takes a policy parses it with.
parses(policy) ==
    /\ policy.named /\ policy.categories # <<>>
    /\ \A i \in DOMAIN policy.categories :
           policy.categories[i].labelled /\ policy.categories[i].bps \in 0..10000

\* validatePolicyInput, as far as the form can vary.
validatePolicyInput(policy) ==
    LET c == policy.categories
    IN  /\ \A i, j \in DOMAIN c : c[i].id = c[j].id => i = j
        /\ \A i \in DOMAIN c : c[i].type = "ExternalPayment" => c[i].recipient
        /\ MapThenSumSet(LAMBDA i : c[i].bps, DOMAIN c) = 10000

-----------------------------------------------------------------------------
(* Clicks                                                                  *)

\* What the page captures, and (history, `seen`) what the user clicked on.
request(kind) ==
    [no |-> clicks, visit |-> visit, kind |-> kind, user |-> identity.user, policy |-> form,
     ref |-> blinkRef, seen |-> <<identity.user, form>>,
     answered |-> FALSE, ok |-> FALSE, valid |-> FALSE, ids |-> NoIds]

\* useAsyncState's run(): the page is busy until its action is settled.
Click(p, kind, needsSignIn) ==
    /\ mayUse /\ clicks < MaxClicks /\ clicks' = clicks + 1
    /\ page = p /\ ~busy /\ (needsSignIn => identity.signedIn)
    /\ requests' = requests \cup {request(kind)}
    /\ busy' = TRUE
    /\ UNCHANGED <<identity, page, visit, form, blinkRef, saved, localStorage, turns, edits, left,
                   backend>>

BootstrapAccount == \E p \in {"onboarding", "demo"} : Click(p, "bootstrap", TRUE)
PreviewPolicy == Click("policy", "preview", FALSE)
Save == Click("policy", "validate", TRUE)
VerifyDeposit == Click("fund", "verify", FALSE)
FullFlow == Click("demo", "fullFlow", TRUE)
Reset == Click("demo", "reset", TRUE)

\* The Blink button neither heeds nor makes the page busy.
BlinkDeposit ==
    /\ mayUse /\ clicks < MaxClicks /\ clicks' = clicks + 1
    /\ page = "fund" /\ identity.signedIn
    /\ requests' = requests \cup {request("blink")}
    /\ UNCHANGED <<browser, backend>>

-----------------------------------------------------------------------------
(* The server                                                              *)

\* r ends with an error: it failed, or its answer was lost on the way.
lost(r) == requests' = (requests \ {r}) \cup {[r EXCEPT !.answered = TRUE]}

\* r did what it was asked, and may have got some ids.
answer(r, ids, valid) ==
    LET all == [i \in Ids |-> IF i \in DOMAIN ids THEN ids[i] ELSE NoId]
    IN  \/ requests' = (requests \ {r}) \cup
               {[r EXCEPT !.answered = TRUE, !.ok = TRUE, !.ids = all, !.valid = valid]}
        \/ lost(r)

cantonPartyForDynamicUser(u) == <<"preo", u>>

give(r, ids) ==
    /\ nextId' = nextId + 1
    /\ server' = [server EXCEPT ![r.user].ids =
                      [i \in Ids |-> IF i \in DOMAIN ids THEN @[i] \cup {ids[i]} ELSE @[i]]]
    /\ answer(r, ids, FALSE)

ServeFailure(r) == lost(r) /\ UNCHANGED backend

ServeBootstrap(r) ==
    /\ r.kind = "bootstrap"
    /\ give(r, [cantonPartyId |-> cantonPartyForDynamicUser(r.user)])
    /\ UNCHANGED <<saves, validated, taken>>

ServeValidation(r) ==
    /\ r.kind \in {"preview", "validate"} /\ parses(r.policy)
    /\ \/ /\ validatePolicyInput(r.policy) /\ answer(r, NoIds, TRUE)
          /\ validated' = validated \cup {r.policy}
       \/ /\ ~validatePolicyInput(r.policy) /\ answer(r, NoIds, FALSE)
          /\ validated' = validated
    /\ UNCHANGED <<server, nextId, saves, taken>>

ServePolicy(r) ==
    /\ r.kind = "save" /\ parses(r.policy) /\ server[r.user].ids["cantonPartyId"] # {}
    /\ give(r, [policyContractId |-> <<nextId>>])
    /\ saves' = saves \cup {<<r.user, r.policy, r.seen>>}
    /\ UNCHANGED <<validated, taken>>

\* ensureBootstrappedUser, and a reference made from the clock.
ServeBlink(r) ==
    /\ r.kind = "blink"
    /\ nextId' = nextId + 1
    /\ server' = [server EXCEPT ![r.user].ids["cantonPartyId"] = @ \cup {cantonPartyForDynamicUser(r.user)}]
    /\ \/ requests' = (requests \ {r}) \cup {[r EXCEPT !.answered = TRUE, !.ok = TRUE, !.ref = <<nextId>>]}
       \/ lost(r)
    /\ UNCHANGED <<saves, validated, taken>>

\* A deposit under a reference that was credited is answered with that credit,
\* which is not created again where a reset took it.
ServeVerification(r) ==
    LET earlier == {c \in server[r.user].credits : c.ref = r.ref}
        credit == IF earlier = {} THEN <<nextId>> ELSE (CHOOSE c \in earlier : TRUE).id
    IN  /\ r.kind = "verify" /\ server[r.user].ids["cantonPartyId"] # {}
        /\ nextId' = nextId + 1
        /\ server' = [server EXCEPT ![r.user].credits = @ \cup {[ref |-> r.ref, id |-> credit]},
                                    ![r.user].ids["creditContractId"] =
                                        IF earlier = {} THEN @ \cup {credit} ELSE @]
        /\ answer(r, [creditContractId |-> credit], FALSE)
        /\ UNCHANGED <<saves, validated, taken>>

ServeFullFlow(r) ==
    /\ r.kind = "fullFlow"
    /\ give(r, [cantonPartyId |-> cantonPartyForDynamicUser(r.user), policyContractId |-> <<nextId>>,
                creditContractId |-> <<nextId>>])
    /\ UNCHANGED <<saves, validated, taken>>

\* The rows of the user are deleted, and the ledger of every user is reset.
ServeReset(r) ==
    /\ r.kind = "reset"
    /\ server' = [u \in DOMAIN server |->
                      IF u = r.user THEN Fresh
                      ELSE [server[u] EXCEPT !.ids["policyContractId"] = {},
                                             !.ids["creditContractId"] = {}]]
    /\ taken' = (taken \/ \E u \in DOMAIN server \ {r.user} : server[u].credits # {})
    /\ answer(r, NoIds, FALSE)
    /\ UNCHANGED <<nextId, saves, validated>>

Serve(r) ==
    /\ ~r.answered
    /\ \/ ServeFailure(r) \/ ServeBootstrap(r) \/ ServeValidation(r) \/ ServePolicy(r)
       \/ ServeBlink(r) \/ ServeVerification(r) \/ ServeFullFlow(r) \/ ServeReset(r)
    /\ UNCHANGED <<browser, clicks>>

-----------------------------------------------------------------------------
(* Answers arrive                                                          *)

mounted(r) == r.visit = visit

settled(r) == busy' = IF mounted(r) THEN FALSE ELSE busy

\* Mutant: an error leaves the page busy.
Catch_silent(r) ==
    /\ ~r.ok /\ r.kind \notin {"blink", "reset"}
    /\ requests' = requests \ {r}
    /\ UNCHANGED <<busy, saved, localStorage, blinkRef>>

\* run() catches the error and shows it.
Catch(r) ==
    /\ ~r.ok /\ r.kind \notin {"blink", "reset"}
    /\ requests' = requests \ {r} /\ settled(r)
    /\ UNCHANGED <<saved, localStorage, blinkRef>>

\* Mutant: the policy and the user are those of the page as it is now.
PostPolicy_current(r) ==
    /\ r.kind = "validate" /\ r.ok /\ r.valid
    /\ requests' = (requests \ {r}) \cup
           {[r EXCEPT !.kind = "save", !.answered = FALSE, !.ok = FALSE,
                      !.policy = form, !.user = identity.user]}
    /\ UNCHANGED <<busy, saved, localStorage, blinkRef>>

\* A policy found valid is posted, as it was when Save was clicked.
PostPolicy(r) ==
    /\ r.kind = "validate" /\ r.ok /\ r.valid
    /\ requests' = (requests \ {r}) \cup
           {[r EXCEPT !.kind = "save", !.answered = FALSE, !.ok = FALSE]}
    /\ UNCHANGED <<busy, saved, localStorage, blinkRef>>

\* Nothing to remember: a preview, or a policy found invalid.
Show(r) ==
    /\ r.ok /\ (r.kind = "preview" \/ (r.kind = "validate" /\ ~r.valid))
    /\ requests' = requests \ {r} /\ settled(r)
    /\ UNCHANGED <<saved, localStorage, blinkRef>>

\* The setters of useSavedDemoState, for the ids of an answer.
Remember(r) ==
    LET merge(old) == [i \in Ids |-> IF r.ids[i] # NoId THEN r.ids[i] ELSE old[i]]
    IN  /\ r.ok /\ r.kind \in {"bootstrap", "save", "verify", "fullFlow"}
        /\ localStorage' = merge(localStorage)
        /\ saved' = IF mounted(r) THEN merge(saved) ELSE saved
        /\ requests' = requests \ {r} /\ settled(r)
        /\ UNCHANGED blinkRef

\* Mutant: the ids are kept when the request failed.
Clear_ifOk(r) ==
    /\ r.kind = "reset"
    /\ localStorage' = IF r.ok THEN NoIds ELSE localStorage
    /\ saved' = IF mounted(r) /\ r.ok THEN NoIds ELSE saved
    /\ requests' = requests \ {r} /\ settled(r)
    /\ UNCHANGED blinkRef

\* reset() forgets every id, whatever the answer.
Clear(r) ==
    /\ r.kind = "reset"
    /\ localStorage' = NoIds /\ saved' = IF mounted(r) THEN NoIds ELSE saved
    /\ requests' = requests \ {r} /\ settled(r)
    /\ UNCHANGED blinkRef

SetBlinkRef(r) ==
    /\ r.kind = "blink"
    /\ blinkRef' = IF mounted(r) /\ r.ok THEN r.ref ELSE blinkRef
    /\ requests' = requests \ {r}
    /\ UNCHANGED <<busy, saved, localStorage>>

Answer(r) ==
    /\ r.answered
    /\ Catch(r) \/ PostPolicy(r) \/ Show(r) \/ Remember(r) \/ Clear(r) \/ SetBlinkRef(r)
    /\ UNCHANGED <<identity, page, visit, form, turns, edits, left, backend, clicks>>

-----------------------------------------------------------------------------
User ==
    \/ \E u \in People \cup {DemoUser} : SignInOrOut(u)
    \/ \E p \in Pages : Open(p)
    \/ StartFromExample \/ SetName \/ SetRule \/ AddCategory \/ RemoveCategory \/ UpdateCategory
    \/ BootstrapAccount \/ PreviewPolicy \/ Save \/ VerifyDeposit \/ FullFlow \/ Reset \/ BlinkDeposit

Progress == \E r \in requests : Serve(r) \/ Answer(r)

Next == User \/ Progress

\* A fetch settles, with an answer or an error, and its continuation runs.
Spec == Init /\ [][Next]_vars /\ WF_vars(Progress)

-----------------------------------------------------------------------------
(* Properties                                                              *)

\* However the form is edited, the user changes or a page is left while requests
\* are under way, a policy the page saves is the very one the user clicked Save
\* on, for the user who was signed in then, and one the server had found valid.
SavedIsValidated ==
    \A s \in saves : <<s[1], s[2]>> = s[3] /\ s[2] \in validated

\* Once every answer is in, and no page was left while it waited, the page shows
\* what localStorage holds, and that names only ids the server gave out and has not
\* reset since: also when a reset failed, or was done and its answer lost.  Not so
\* once somebody's reset took another user's credit, which that user's row still
\* names and the server answers again.
StoredIdsKnown ==
    requests = {} /\ ~left =>
        /\ saved = localStorage
        /\ ~taken => \A i \in Ids : localStorage[i] # NoId =>
                         \E u \in DOMAIN server : localStorage[i] \in server[u].ids[i]

\* A page that is busy gets free again: no error keeps its buttons disabled.
BusyEnds == busy ~> ~busy
=============================================================================
