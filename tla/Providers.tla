------------------------------- MODULE Providers -------------------------------
(***************************************************************************)
(* External providers: the rows an administrator edits and the snapshot    *)
(* of them in every instance, and the flows that send a browser to a       *)
(* provider and act on its answer: sign in (creating an account the first  *)
(* time), link an identity, confirm a session, diagnose.                   *)
(*                                                                         *)
(* A flow is a single-use state in Redis, a cookie of the browser that     *)
(* began it and, for all but a sign-in, the session it began in.  A        *)
(* browser stands for a person.  A person answers a flow with an external  *)
(* identity of their own, and may hand the address of the callback of a    *)
(* flow they began to somebody else's browser.                             *)
(***************************************************************************)
EXTENDS Naturals, FiniteSets, Sequences

CONSTANTS ProviderInstances,
          Names,        \* providers
          Browsers,     \* people, each with a browser
          Externals,    \* identities at the providers, each with a verified address
          Holder,       \* the person an external identity belongs to
          People,       \* ids of users
          Flows,        \* values of the state parameter
          Nobody,
          MaxChange     \* bound: changes of a provider row

ASSUME ProviderAssumptions ==
    /\ Holder \in [Externals -> Browsers] /\ MaxChange \in Nat
    /\ Nobody \notin People \cup Externals \cup Flows \cup Browsers

VARIABLES providers,          \* oauth_providers; change counts the commits that touched the row
          providerSnapshots,  \* Manager.providers of each instance, with the change they come from
          loading,            \* the rows a LoadDynamic under way has read
          updating,           \* the row an UpdateProvider under way has read
          accounts,           \* users
          identities,         \* identities: the account of an external identity
          signedIn,           \* the account of the session of a browser
          confirmed,          \* the external identity that confirmed this session last
          cookie,             \* provider_flow cookie of a browser
          flows               \* CSRF states and the callbacks that consumed them
providerVars == <<providers, providerSnapshots, loading, updating, accounts, identities, signedIn, confirmed,
                  cookie, flows>>
adminVars == <<providers, providerSnapshots, loading, updating>>
peopleVars == <<accounts, identities, signedIn, confirmed>>

ProviderRow == [there : BOOLEAN, enabled : BOOLEAN, revision : Nat, change : Nat]
Entry == [on : BOOLEAN, change : Nat]
Account == [there : BOOLEAN, active : BOOLEAN, local : BOOLEAN, username : Externals \cup {Nobody},
            email : Externals \cup {Nobody}, owner : Browsers \cup {Nobody}]
NoPerson == [there |-> FALSE, active |-> FALSE, local |-> FALSE, username |-> Nobody, email |-> Nobody,
              owner |-> Nobody]
Intents == {"login", "bind", "reauth", "diagnostic"}
Flow == [step : {"none", "open", "authenticated", "creating", "binding", "found"}, name : Names \cup {Nobody},
         intent : Intents, user : People \cup {Nobody}, browser : Browsers \cup {Nobody}, same : BOOLEAN,
         at : Browsers \cup {Nobody}, external : Externals \cup {Nobody}, email : BOOLEAN,
         account : People \cup {Nobody}]
NoFlow == [step |-> "none", name |-> Nobody, intent |-> "login", user |-> Nobody, browser |-> Nobody,
           same |-> FALSE, at |-> Nobody, external |-> Nobody, email |-> FALSE, account |-> Nobody]

RowsTypeOK ==
    /\ providers \in [Names -> ProviderRow]
    /\ providerSnapshots \in [ProviderInstances -> [Names -> Entry]]
    /\ loading \in [ProviderInstances -> Seq([Names -> ProviderRow])]
    /\ updating \in [ProviderInstances -> {<<>>} \cup (Names \X ProviderRow)]

PeopleTypeOK ==
    /\ accounts \in [People -> Account]
    /\ identities \in [Names -> [Externals -> People \cup {Nobody}]]
    /\ signedIn \in [Browsers -> People \cup {Nobody}]
    /\ confirmed \in [Browsers -> Externals \cup {Nobody}]
    /\ cookie \in [Browsers -> Flows \cup {Nobody}]
    /\ flows \in [Flows -> Flow]

ProvidersTypeOK == RowsTypeOK /\ PeopleTypeOK

ProvidersInit ==
    /\ providers = [n \in Names |-> [there |-> TRUE, enabled |-> TRUE, revision |-> 1, change |-> 0]]
    /\ providerSnapshots = [i \in ProviderInstances |-> [n \in Names |-> [on |-> TRUE, change |-> 0]]]
    /\ loading = [i \in ProviderInstances |-> <<>>]
    /\ updating = [i \in ProviderInstances |-> <<>>]
    /\ accounts = [a \in People |-> NoPerson]
    /\ identities = [n \in Names |-> [e \in Externals |-> Nobody]]
    /\ signedIn = [b \in Browsers |-> Nobody]
    /\ confirmed = [b \in Browsers |-> Nobody]
    /\ cookie = [b \in Browsers |-> Nobody]
    /\ flows = [f \in Flows |-> NoFlow]
-----------------------------------------------------------------------------
(***************************************************************************)
(* Provider rows and snapshots.  mutationMu keeps one change or reload of  *)
(* an instance at a time; a notification or the reconciliation interval    *)
(* starts a reload at any time, and notifications may be lost.             *)
(***************************************************************************)

\* An instance without mutationMu.
AlwaysFree(i) == TRUE
MutationFree(i) == loading[i] = <<>> /\ updating[i] = <<>>

\* The rows become the snapshot, but for the disabled ones and those that cannot be decrypted.
SnapshotOf(rows, skipped) ==
    [n \in Names |-> [on |-> rows[n].there /\ rows[n].enabled /\ n \notin skipped,
                      change |-> rows[n].change]]

LoadDynamic(i) ==
    /\ MutationFree(i)
    /\ loading' = [loading EXCEPT ![i] = <<providers>>]
    /\ UNCHANGED <<providers, providerSnapshots, updating, peopleVars, cookie, flows>>

\* The query failed, or its rows replace the snapshot.
LoadDynamicEnds(i, skipped) ==
    /\ loading[i] # <<>>
    /\ loading' = [loading EXCEPT ![i] = <<>>]
    /\ providerSnapshots' \in {providerSnapshots, [providerSnapshots EXCEPT ![i] = SnapshotOf(loading[i][1], skipped)]}
    /\ UNCHANGED <<providers, updating, peopleVars, cookie, flows>>

SetDynamicProvider(i, n, row) ==
    providerSnapshots' = [providerSnapshots EXCEPT ![i][n] = [on |-> row.there /\ row.enabled, change |-> row.change]]

CreateProvider(i, n, enabled) ==
    /\ MutationFree(i) /\ ~providers[n].there /\ providers[n].change < MaxChange
    /\ LET row == [there |-> TRUE, enabled |-> enabled, revision |-> 1, change |-> providers[n].change + 1]
       IN  providers' = [providers EXCEPT ![n] = row] /\ SetDynamicProvider(i, n, row)
    /\ UNCHANGED <<loading, updating, peopleVars, cookie, flows>>

\* UpdateProvider reads the row it merges the request with ...
UpdateProvider(i, n) ==
    /\ MutationFree(i) /\ providers[n].there
    /\ updating' = [updating EXCEPT ![i] = <<n, providers[n]>>]
    /\ UNCHANGED <<providers, providerSnapshots, loading, peopleVars, cookie, flows>>

\* ... and writes it back if it still has the revision it read; otherwise a conflict.
UpdateProviderCommits(i, enabled) ==
    LET n == updating[i][1]  read == updating[i][2]
        row == [there |-> TRUE, enabled |-> enabled, revision |-> read.revision + 1,
                change |-> providers[n].change + 1]
    IN  /\ updating[i] # <<>>
        /\ updating' = [updating EXCEPT ![i] = <<>>]
        /\ \/ /\ providers[n].there /\ providers[n].revision = read.revision /\ providers[n].change < MaxChange
              /\ providers' = [providers EXCEPT ![n] = row]
              /\ SetDynamicProvider(i, n, row)
           \/ UNCHANGED <<providers, providerSnapshots>>
        /\ UNCHANGED <<loading, peopleVars, cookie, flows>>

DeleteProvider(i, n) ==
    /\ MutationFree(i) /\ providers[n].there /\ providers[n].change < MaxChange
    /\ LET row == [there |-> FALSE, enabled |-> FALSE, revision |-> 0, change |-> providers[n].change + 1]
       IN  providers' = [providers EXCEPT ![n] = row] /\ SetDynamicProvider(i, n, row)
    /\ UNCHANGED <<loading, updating, peopleVars, cookie, flows>>

AdminStep == \E i \in ProviderInstances :
    \/ LoadDynamic(i)
    \/ \E skipped \in SUBSET Names : LoadDynamicEnds(i, skipped)
    \/ \E n \in Names : UpdateProvider(i, n) \/ DeleteProvider(i, n)
    \/ \E n \in Names, enabled \in BOOLEAN : CreateProvider(i, n, enabled)
    \/ \E enabled \in BOOLEAN : UpdateProviderCommits(i, enabled)
-----------------------------------------------------------------------------
(***************************************************************************)
(* Sessions and accounts, as far as the flows depend on them.              *)
(***************************************************************************)

FlowEnded(f) == [flows EXCEPT ![f] = NoFlow]

\* The session of b is another one from here on: its digest no longer matches that of older flows.
NewSession(b, account, later) ==
    /\ signedIn' = [signedIn EXCEPT ![b] = account]
    /\ confirmed' = [confirmed EXCEPT ![b] = Nobody]
    /\ flows' = [f \in Flows |-> IF later[f].browser = b THEN [later[f] EXCEPT !.same = FALSE] ELSE later[f]]

\* Somebody registers with a password and an address that may also be that of an external identity.
SignUp(b, a, email) ==
    /\ signedIn[b] = Nobody /\ ~accounts[a].there
    /\ email # Nobody => \A other \in People : accounts[other].email # email
    /\ accounts' = [accounts EXCEPT ![a] = [there |-> TRUE, active |-> TRUE, local |-> TRUE, username |-> Nobody,
                                            email |-> email, owner |-> b]]
    /\ NewSession(b, a, flows)
    /\ UNCHANGED <<adminVars, identities, cookie>>

SignOut(b) ==
    /\ signedIn[b] # Nobody
    /\ NewSession(b, Nobody, flows)
    /\ UNCHANGED <<adminVars, accounts, identities, cookie>>

\* An administrator suspends an account or activates it again; its sessions end with it.
SetActive(a, active) ==
    /\ accounts[a].there /\ accounts[a].active # active
    /\ accounts' = [accounts EXCEPT ![a].active = active]
    /\ signedIn' = [b \in Browsers |-> IF signedIn[b] = a THEN Nobody ELSE signedIn[b]]
    /\ confirmed' = [b \in Browsers |-> IF signedIn[b] = a THEN Nobody ELSE confirmed[b]]
    /\ flows' = [f \in Flows |-> IF flows[f].user = a THEN [flows[f] EXCEPT !.same = FALSE] ELSE flows[f]]
    /\ UNCHANGED <<adminVars, identities, cookie>>

Links(a) == {link \in Names \X Externals : identities[link[1]][link[2]] = a}

\* DeleteOwned: an account without password keeps its last link; the sessions of the account end.
DeleteOwned(b, n, e) ==
    LET a == signedIn[b] IN
    /\ a # Nobody /\ identities[n][e] = a
    /\ accounts[a].local \/ Cardinality(Links(a)) > 1
    /\ identities' = [identities EXCEPT ![n][e] = Nobody]
    /\ signedIn' = [c \in Browsers |-> IF signedIn[c] = a THEN Nobody ELSE signedIn[c]]
    /\ confirmed' = [c \in Browsers |-> IF signedIn[c] = a THEN Nobody ELSE confirmed[c]]
    /\ flows' = [f \in Flows |-> IF flows[f].user = a THEN [flows[f] EXCEPT !.same = FALSE] ELSE flows[f]]
    /\ UNCHANGED <<adminVars, accounts, cookie>>
-----------------------------------------------------------------------------
(***************************************************************************)
(* Flows.                                                                  *)
(***************************************************************************)

\* Manager.Get at an instance; a diagnosis falls back to the stored row.
Configured(i, n, intent) == providerSnapshots[i][n].on \/ (intent = "diagnostic" /\ providers[n].there)

\* beginProviderFlow: save the state, a new random value, and set the cookie, over that of an earlier flow.
BeginProviderFlow(b, f, i, n, intent) ==
    /\ flows[f].step = "none" /\ f \notin {cookie[c] : c \in Browsers} /\ Configured(i, n, intent)
    /\ intent # "login" => signedIn[b] # Nobody
    /\ flows' = [flows EXCEPT ![f] = [NoFlow EXCEPT !.step = "open", !.name = n, !.intent = intent, !.browser = b,
                     !.user = IF intent = "login" THEN Nobody ELSE signedIn[b], !.same = TRUE]]
    /\ cookie' = [cookie EXCEPT ![b] = f]
    /\ UNCHANGED <<adminVars, peopleVars>>

FlowExpires(f) ==
    /\ flows[f].step = "open"
    /\ flows' = FlowEnded(f)
    /\ cookie' = [b \in Browsers |-> IF cookie[b] = f THEN Nobody ELSE cookie[b]]
    /\ UNCHANGED <<adminVars, peopleVars>>

ValidProviderFlowCookie(b, f) == cookie[b] = f

\* The answer e of flow f may reach browser b: from its holder, who may pass on answers to own flows.
MayPresent(b, f, e) == b = Holder[e] \/ flows[f].browser = Holder[e]

\* handleProviderCallback up to Authenticate: the state is consumed whatever comes of it.
ProviderCallback(b, f, i, e) ==
    /\ flows[f].step = "open" /\ MayPresent(b, f, e)
    /\ cookie' = [cookie EXCEPT ![b] = Nobody]
    /\ \/ /\ ValidProviderFlowCookie(b, f) /\ Configured(i, flows[f].name, flows[f].intent)
          /\ flows' = [flows EXCEPT ![f].step = "authenticated", ![f].at = b, ![f].external = e]
       \/ flows' = FlowEnded(f)
    /\ UNCHANGED <<adminVars, peopleVars>>

BoundTo(f) == identities[flows[f].name][flows[f].external]

\* The session of the callback is the one the flow began in, and its user is active.
SessionUnchanged(f) ==
    LET b == flows[f].at IN
    /\ signedIn[b] # Nobody /\ signedIn[b] = flows[f].user
    /\ flows[f].browser = b /\ flows[f].same
    /\ accounts[signedIn[b]].active

\* finishIdentityBind: nothing to do, refused, or a link to be made ...
FinishIdentityBind(f) ==
    /\ flows[f].step = "authenticated" /\ flows[f].intent = "bind"
    /\ flows' = IF SessionUnchanged(f) /\ BoundTo(f) = Nobody
                THEN [flows EXCEPT ![f].step = "binding"] ELSE FlowEnded(f)
    /\ UNCHANGED <<adminVars, peopleVars, cookie>>

\* ... which the unique constraint refuses if another request has made one since.
CreateIdentity(f) ==
    /\ flows[f].step = "binding"
    /\ identities' = IF BoundTo(f) = Nobody
                     THEN [identities EXCEPT ![flows[f].name][flows[f].external] = flows[f].user]
                     ELSE identities
    /\ flows' = FlowEnded(f)
    /\ UNCHANGED <<adminVars, accounts, signedIn, confirmed, cookie>>

\* finishExternalReauthentication; a second factor may take over before the session is marked.
FinishExternalReauthentication(f, mfaRequired) ==
    /\ flows[f].step = "authenticated" /\ flows[f].intent = "reauth"
    /\ confirmed' = IF SessionUnchanged(f) /\ BoundTo(f) = flows[f].user /\ ~mfaRequired
                    THEN [confirmed EXCEPT ![flows[f].at] = flows[f].external] ELSE confirmed
    /\ flows' = FlowEnded(f)
    /\ UNCHANGED <<adminVars, accounts, identities, signedIn, cookie>>

\* finishProviderInteractiveDiagnostic writes a diagnostic run only.
FinishProviderDiagnostic(f) ==
    /\ flows[f].step = "authenticated" /\ flows[f].intent = "diagnostic"
    /\ flows' = FlowEnded(f)
    /\ UNCHANGED <<adminVars, peopleVars, cookie>>

\* finishExternalLogin: the linked account, or an account to be made unless that is paused.
FinishExternalLogin(f) ==
    /\ flows[f].step = "authenticated" /\ flows[f].intent = "login"
    /\ IF BoundTo(f) # Nobody
       THEN flows' = [flows EXCEPT ![f].step = "found", ![f].account = BoundTo(f)]
       ELSE flows' \in {FlowEnded(f), [flows EXCEPT ![f].step = "creating", ![f].email = TRUE]}
    /\ UNCHANGED <<adminVars, peopleVars, cookie>>

EmailInUse(e) == \E a \in People : accounts[a].email = e
UsernameTaken(e) == \E a \in People : accounts[a].username = e

\* The account that already has the address takes the new identity.
MergeOnEmail(f, a) ==
    LET e == flows[f].external
        owner == IF EmailInUse(e) THEN CHOOSE o \in People : accounts[o].email = e ELSE a
    IN  /\ flows[f].step = "creating" /\ ~accounts[a].there /\ BoundTo(f) = Nobody
        /\ accounts' = IF owner # a THEN accounts ELSE
               [accounts EXCEPT ![a] = [there |-> TRUE, active |-> TRUE, local |-> FALSE, username |-> e,
                                        email |-> e, owner |-> Holder[e]]]
        /\ identities' = [identities EXCEPT ![flows[f].name][e] = owner]
        /\ flows' = [flows EXCEPT ![f].step = "found", ![f].account = owner]
        /\ UNCHANGED <<adminVars, signedIn, confirmed, cookie>>

\* CreateUserAndIdentity, in one transaction: username, address and identity are unique.  When the
\* address is taken it is tried again without; after any other conflict the identity is looked up again.
CreateUserAndIdentity(f, a) ==
    LET e == flows[f].external IN
    /\ flows[f].step = "creating" /\ ~accounts[a].there
    /\ \/ /\ flows[f].email /\ EmailInUse(e)
          /\ flows' = [flows EXCEPT ![f].email = FALSE]
          /\ UNCHANGED <<accounts, identities>>
       \/ /\ UsernameTaken(e) \/ BoundTo(f) # Nobody
          /\ flows' = IF BoundTo(f) = Nobody THEN FlowEnded(f)
                      ELSE [flows EXCEPT ![f].step = "found", ![f].account = BoundTo(f)]
          /\ UNCHANGED <<accounts, identities>>
       \/ /\ ~UsernameTaken(e) /\ BoundTo(f) = Nobody /\ ~(flows[f].email /\ EmailInUse(e))
          /\ accounts' = [accounts EXCEPT ![a] = [there |-> TRUE, active |-> TRUE, local |-> FALSE, username |-> e,
                             email |-> IF flows[f].email THEN e ELSE Nobody, owner |-> Holder[e]]]
          /\ identities' = [identities EXCEPT ![flows[f].name][e] = a]
          /\ flows' = [flows EXCEPT ![f].step = "found", ![f].account = a]
    /\ UNCHANGED <<adminVars, signedIn, confirmed, cookie>>

\* The end of finishExternalLogin: a session, unless the account is not active or a factor is asked for.
ExternalSession(f) ==
    /\ flows[f].step = "found"
    /\ \/ /\ accounts[flows[f].account].active
          /\ NewSession(flows[f].at, flows[f].account, FlowEnded(f))
       \/ flows' = FlowEnded(f) /\ UNCHANGED <<signedIn, confirmed>>
    /\ UNCHANGED <<adminVars, accounts, identities, cookie>>

PeopleStep ==
    \/ \E b \in Browsers, a \in People, email \in Externals \cup {Nobody} : SignUp(b, a, email)
    \/ \E b \in Browsers : SignOut(b)
    \/ \E a \in People, active \in BOOLEAN : SetActive(a, active)
    \/ \E b \in Browsers, n \in Names, e \in Externals : DeleteOwned(b, n, e)

FlowStep ==
    \/ \E b \in Browsers, f \in Flows, i \in ProviderInstances, n \in Names, intent \in Intents :
          BeginProviderFlow(b, f, i, n, intent)
    \/ \E b \in Browsers, f \in Flows, i \in ProviderInstances, e \in Externals : ProviderCallback(b, f, i, e)
    \/ \E f \in Flows :
          \/ FlowExpires(f) \/ FinishIdentityBind(f) \/ CreateIdentity(f) \/ FinishProviderDiagnostic(f)
          \/ FinishExternalLogin(f) \/ ExternalSession(f)
          \/ \E mfaRequired \in BOOLEAN : FinishExternalReauthentication(f, mfaRequired)
          \/ \E a \in People : CreateUserAndIdentity(f, a)

ProvidersNext == AdminStep \/ PeopleStep \/ FlowStep
ProvidersSpec == ProvidersInit /\ [][ProvidersNext]_providerVars
-----------------------------------------------------------------------------
(***************************************************************************)
(* Nobody reaches the account of somebody else through a provider: an      *)
(* external identity is linked to an account of the person it belongs to,  *)
(* whoever else has used its address, and a browser is signed in to and    *)
(* confirmed for accounts of its own person, whatever callback it was led  *)
(* to.  The address is evidence, "not authority to merge with an existing  *)
(* local account" (finishExternalLogin).                                   *)
(***************************************************************************)
PeopleStayApart ==
    /\ \A n \in Names, e \in Externals :
          identities[n][e] # Nobody => accounts[identities[n][e]].owner = Holder[e]
    /\ \A b \in Browsers : /\ signedIn[b] # Nobody => accounts[signedIn[b]].owner = b
                           /\ confirmed[b] # Nobody => Holder[confirmed[b]] = b

(***************************************************************************)
(* The snapshot of an instance never goes back to an older configuration:  *)
(* a reload that read the rows before a change of the same instance must   *)
(* not undo that change in memory (mutationMu around LoadDynamic).         *)
(***************************************************************************)
SnapshotsDoNotGoBack ==
    [][\A i \in ProviderInstances, n \in Names :
          providerSnapshots'[i][n].change >= providerSnapshots[i][n].change]_providerVars
-----------------------------------------------------------------------------
(* Inductive strengthening *)

\* A flow acts for the person whose browser began it: its session was theirs, its cookie keeps it in
\* that browser, and the answer it was given is an identity of that person.
FlowOK(f) ==
    LET w == flows[f] IN
    /\ w.step # "none" => w.name \in Names /\ w.browser \in Browsers
    /\ (w.step # "none" /\ w.intent # "login") => w.user \in People /\ accounts[w.user].owner = w.browser
    /\ w.step \notin {"none", "open"} => w.at = w.browser /\ w.external \in Externals /\ Holder[w.external] = w.at
    /\ w.step = "binding" => w.intent # "login"
    /\ w.step = "found" => w.account \in People /\ accounts[w.account].owner = w.at

CookieOK(b) == \A f \in Flows : (cookie[b] = f /\ flows[f].step # "none") => flows[f].browser = b

PeopleInv ==
    /\ PeopleTypeOK /\ PeopleStayApart
    /\ \A a \in People : ~accounts[a].there => accounts[a].owner = Nobody
    /\ \A f \in Flows : FlowOK(f)
    /\ \A b \in Browsers : CookieOK(b)

\* A snapshot is not ahead of the rows; while it is being replaced it changes in no other way.
SnapshotInv ==
    /\ RowsTypeOK
    /\ \A i \in ProviderInstances : loading[i] = <<>> \/ updating[i] = <<>>
    /\ \A i \in ProviderInstances, n \in Names :
          /\ providerSnapshots[i][n].change <= providers[n].change
          /\ loading[i] # <<>> => /\ providerSnapshots[i][n].change <= loading[i][1][n].change
                                  /\ loading[i][1][n].change <= providers[n].change
=============================================================================
