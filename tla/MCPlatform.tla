----------------------------- MODULE MCPlatform -----------------------------
(***************************************************************************)
(* Small instances of the services around the sign-in: media storage,      *)
(* external providers, clients and their quotas, and the delivery queues.  *)
(* Each is checked on its own, in scenarios that keep the states few:      *)
(* scene says what takes steps, of the Scenes a run is about.  The parts   *)
(* share their model values.                                               *)
(***************************************************************************)
EXTENDS MediaStorage, Providers, Clients, Outbox, TLC

CONSTANTS b1, b2, e1, e2, again, Scenes

VARIABLE scene

MediaScenes == {"media: uploads", "media: rounds", "media: move", "media: both", "media: again", "media: back"}
ClientScenes == {"clients: quota", "clients: policy", "clients: rest"}

\* A profile may be the storage of the deployment again.
TwoPlaces == [s \in Stores |-> IF s = again THEN Fallback ELSE s]
\* Each person holds one external identity.
OwnIdentity == [e \in Externals |-> IF e = e1 THEN b1 ELSE b2]

MCInit ==
    /\ scene \in Scenes
    /\ MediaInit /\ ProvidersInit /\ ClientsInit /\ OutboxInit
    /\ (scene # "media: uploads") => \A o \in MediaOwners : jobs[o].status = "none"
    /\ (scene \in {"media: move", "media: both", "media: again", "media: back"})
          => \A o \in MediaOwners : current[o] # Nothing
    /\ (scene \notin MediaScenes) => \A o \in MediaOwners : current[o] = Nothing
    /\ (scene \notin {"media: move", "media: both"}) => media.active = Fallback
    /\ media.active # again
    /\ (scene \notin ClientScenes) => limit = 1

NodesAtWork ==
    \/ \E n \in Nodes : NodeStep(n) \/ MigrationStep(n)
    \/ \E a \in Images : ClaimLapses(a)
    \/ \E admitted \in BOOLEAN : SetWrites(admitted)
\* A round of the clean-up overlaps a migration only while writes are paused.
Paused == writes' /\ Unresolved' => \A c \in Cleaners : cleaners'[c].step = "idle"
OneMove == moves' <= 1 /\ again \notin profiles'
OneNode == Cardinality({uploads'[u].node : u \in Uploads} \ {Nothing}) <= 1
OneRound == \A c \in Cleaners \ {CHOOSE k \in Cleaners : TRUE} : cleaners'[c].step = "idle"
OneClaim == \A a \in Images : items'[a].attempts < 2
\* Migrations of one image, one after the other, while writes are paused.
Moving == (\E n \in Nodes : NodeStep(n) \/ MigrationStep(n)) /\ OneClaim

\* Uploads, imports and the clean-up on one instance, without a migration; two
\* rounds of the clean-up over images users remove; a migration while users remove
\* their images and instances come and go; a migration while an image is uploaded;
\* and two migrations, to any storage, or to the deployment's by way of another.
MediaScene ==
    \/ scene = "media: uploads" /\ MediaNext /\ moves' = 0 /\ alive' = Nodes /\ writes' /\ media' = media
       /\ OneNode /\ OneRound
    \/ scene = "media: rounds" /\ (OwnerStep \/ CleanupStep \/ \E u \in Uploads : UploadStep(u))
       /\ OneNode
    \/ scene = "media: move" /\ (OwnerStep \/ CleanupStep \/ NodesAtWork) /\ OneMove /\ OneRound /\ Paused
    \/ scene = "media: both" /\ ((\E u \in Uploads : UploadStep(u)) \/ NodesAtWork)
       /\ alive' = Nodes /\ unclear' = {} /\ OneMove /\ OneClaim
    \/ scene = "media: again" /\ Moving
    \/ scene = "media: back" /\ Moving /\ alive' = Nodes /\ (media'.candidate = again => media.active # Fallback)

\* Changes of provider rows on two instances; and the flows of two people,
\* both at once only for sign-in and linking between active accounts.
Busy == Cardinality({f \in Flows : flows[f].step # "none"}) > 1
ProviderScene ==
    \/ scene = "providers: rows" /\ AdminStep
    \/ scene = "providers: people" /\ (PeopleStep \/ FlowStep)
       /\ (Busy => accounts' = accounts \/ flows' # flows)
       /\ (Busy' => \A f \in Flows : flows'[f].intent \in {"login", "bind"})
       /\ (Busy' => \A a \in People : accounts'[a].there => accounts'[a].active)

\* Two requests for one owner's places while limits and an owner change; two
\* requests for scopes while the policy changes; and the rest of a client.
Plain == \A c \in Clients : ~clients'[c].used /\ clients'[c].secret \in {0, 1} /\ clients'[c].publisher # "verified"
SomeOwner == CHOOSE u \in ClientOwners : TRUE
OthersStay == \A u \in ClientOwners \ {SomeOwner} : owners'[u] = owners[u]
OfOneOwner == \A r \in Requests : requests'[r].owner \in {SomeOwner, NoOwner}
ClientScene ==
    \/ scene = "clients: quota" /\ ClientsNext /\ policy' = policy /\ Plain /\ OthersStay
       /\ \A r \in Requests : requests'[r].scopes = {} /\ requests'[r].kind \notin {"update", "access"}
    \/ scene = "clients: policy" /\ ClientsNext /\ owners' = owners /\ limit' = limit /\ Plain /\ OfOneOwner
       /\ \A r \in Requests : requests'[r].kind \notin {"transfer", "access"}
    \/ scene = "clients: rest" /\ ClientsNext /\ owners' = owners /\ limit' = limit /\ policy' = policy /\ OfOneOwner
       /\ Cardinality({c \in Clients : clients'[c].there}) <= 1
       /\ \A r \in Requests : requests'[r].kind \in {"create", "access"} /\ requests'[r].scopes = {}

OutboxScene ==
    \/ scene = "mail" /\ MailStep /\ UNCHANGED auditVars
    \/ scene = "audit" /\ AuditStep /\ UNCHANGED mailVars

MCNext ==
    /\ UNCHANGED scene
    /\ \/ MediaScene /\ UNCHANGED <<providerVars, clientVars, outboxVars>>
       \/ ProviderScene /\ UNCHANGED <<mediaVars, clientVars, outboxVars>>
       \/ ClientScene /\ UNCHANGED <<mediaVars, providerVars, outboxVars>>
       \/ OutboxScene /\ UNCHANGED <<mediaVars, providerVars, clientVars>>

MCSpec == MCInit /\ [][MCNext]_<<scene, mediaVars, providerVars, clientVars, outboxVars>>

Symmetry == Permutations(Images) \cup Permutations(Nodes)
=============================================================================
