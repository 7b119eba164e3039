----------------------------- MODULE MediaStorage -----------------------------
(***************************************************************************)
(* Images of users and clients.  A row of user_avatars names the storage   *)
(* profile that holds the objects of the image; NULL is the storage the    *)
(* process was deployed with.  Uploads, removals and a clean-up work on    *)
(* rows and objects without a common transaction, and a migration moves    *)
(* all objects of the active profile to another one, item by item, with    *)
(* workers on every instance.                                              *)
(*                                                                         *)
(* The four sizes of an image are one object.  A write is admitted under   *)
(* the capability media_writes (ServiceControl); a pause is in force when  *)
(* no admitted write is left.  Requests end within the quarter of an hour  *)
(* after which the clean-up takes a row, and a process that has not        *)
(* reported for fifteen seconds has stopped.                               *)
(***************************************************************************)
EXTENDS Naturals, FiniteSets

CONSTANTS MediaOwners,         \* users and clients with an image
          Images,         \* rows of user_avatars
          Uploads,        \* upload requests and import jobs under way
          Nodes,          \* instances
          Cleaners,       \* rounds of the clean-up under way, of servers and the command line
          Profiles,       \* S3 profiles administrators may save
          Fallback,       \* the storage of the deployment
          PlaceOf,        \* bucket and prefix, or directory, of each storage
          Nothing,
          MaxMoves,       \* bound: migrations started
          MaxClaims       \* bound: claims of one migration item

ASSUME MediaAssumptions ==
    /\ Fallback \notin Profiles /\ Nothing \notin MediaOwners \cup Images \cup Profiles \cup Nodes
    /\ MaxMoves \in Nat /\ MaxClaims \in Nat

Stores == Profiles \cup {Fallback}

VARIABLES media,       \* media_storage_state, with the result of the candidate's test
          profiles,    \* media_storage_profiles: saved
          mediaSnapshots,   \* the state each instance has loaded; also its heartbeat row
          alive,       \* instances that report
          writes,      \* service control: media_writes is admitted
          images,      \* user_avatars
          current,     \* current_avatar_id, current_logo_id
          objects,     \* what the stores hold: <<place, image>>
          uploads,     \* upload requests
          jobs,        \* provider_avatar_import_jobs, one for each owner
          cleaners,    \* the rounds of the clean-up
          migration,   \* the newest row of media_storage_migrations
          items,       \* its media_storage_migration_items
          movers,      \* migrateOnce of each instance
          moves,       \* history: migrations started
          unclear,     \* history: images whose activation was committed and reported as failed
          strayed      \* history: images of which an object was deleted as a source when it need not be one
mediaVars == <<media, profiles, mediaSnapshots, alive, writes, images, current, objects, uploads, jobs,
               cleaners, migration, items, movers, moves, unclear, strayed>>

MediaState == [revision : Nat, active : Stores, candidate : Profiles \cup {Nothing}, tested : BOOLEAN]
Image == [status : {"none", "staging", "active", "replaced", "failed", "deleted"},
          owner : MediaOwners \cup {Nothing}, store : Stores, old : BOOLEAN, claimed : BOOLEAN, erased : BOOLEAN]
NoImage == [status |-> "none", owner |-> Nothing, store |-> Fallback, old |-> FALSE,
            claimed |-> FALSE, erased |-> FALSE]
Upload == [step : {"idle", "staged", "stored"}, owner : MediaOwners \cup {Nothing}, image : Images \cup {Nothing},
           store : Stores, node : Nodes \cup {Nothing}, job : Nat]
NoUpload == [step |-> "idle", owner |-> Nothing, image |-> Nothing, store |-> Fallback,
             node |-> Nothing, job |-> 0]
Job == [status : {"none", "pending", "processing", "completed", "failed"}, attempts : Nat]
Item == [status : {"none", "pending", "copying", "switched", "failed", "completed"},
         source : Stores, worker : Nodes \cup {Nothing}, attempts : Nat, lapsed : BOOLEAN]
NoItem == [status |-> "none", source |-> Fallback, worker |-> Nothing, attempts |-> 0, lapsed |-> FALSE]
\* move: the migration of the item; resumed: the item was claimed as switched.
Mover == [step : {"idle", "claimed", "copied", "switched", "resumed", "deleted"}, image : Images \cup {Nothing},
          source : Stores, target : Stores, attempts : Nat, move : Nat]
NoMover == [step |-> "idle", image |-> Nothing, source |-> Fallback, target |-> Fallback, attempts |-> 0, move |-> 0]
\* restore: the pause is the migration's own; stuck: an older row has failed after all.
Migration == [status : {"none", "pending", "running", "applying", "failed", "completed"},
              source : Stores, target : Stores, restore : BOOLEAN, stuck : BOOLEAN]
Round == [step : {"idle", "checked", "claimed"}, taken : SUBSET (Images \X Stores)]
NoRound == [step |-> "idle", taken |-> {}]

MediaTypeOK ==
    /\ media \in MediaState /\ profiles \subseteq Profiles /\ mediaSnapshots \in [Nodes -> MediaState]
    /\ alive \subseteq Nodes /\ writes \in BOOLEAN
    /\ images \in [Images -> Image] /\ current \in [MediaOwners -> Images \cup {Nothing}]
    /\ objects \subseteq {PlaceOf[s] : s \in Stores} \X Images
    /\ uploads \in [Uploads -> Upload] /\ jobs \in [MediaOwners -> Job]
    /\ cleaners \in [Cleaners -> Round]
    /\ migration \in Migration /\ items \in [Images -> Item] /\ movers \in [Nodes -> Mover]
    /\ moves \in 0 .. MaxMoves /\ unclear \subseteq Images /\ strayed \subseteq Images

\* Where the objects of an image in a store are.
At(store, image) == <<PlaceOf[store], image>>
Unresolved == migration.status \notin {"none", "completed"} \/ migration.stuck
-----------------------------------------------------------------------------
(* Uploads *)

CreateStaging(o, store) ==
    [status |-> "staging", owner |-> o, store |-> store, old |-> FALSE, claimed |-> FALSE, erased |-> FALSE]
Stage(u, n, o, a, job) ==
    /\ uploads[u].step = "idle" /\ n \in alive /\ writes /\ images[a].status = "none"
    /\ images' = [images EXCEPT ![a] = CreateStaging(o, mediaSnapshots[n].active)]
    /\ uploads' = [uploads EXCEPT ![u] = [step |-> "staged", owner |-> o, image |-> a, node |-> n,
                                          store |-> mediaSnapshots[n].active, job |-> job]]
BeginUpload(u, n, o, a) ==
    /\ Stage(u, n, o, a, 0)
    /\ UNCHANGED <<media, profiles, mediaSnapshots, alive, writes, current, objects, jobs, cleaners,
                   migration, items, movers, moves, unclear, strayed>>

\* An import is claimed by its time, which every claim moves by the lease.
ClaimProviderImportJob(u, n, o, a) ==
    /\ jobs[o].status \in {"pending", "processing"} /\ jobs[o].attempts < MaxClaims
    /\ Stage(u, n, o, a, jobs[o].attempts + 1)
    /\ jobs' = [jobs EXCEPT ![o] = [status |-> "processing", attempts |-> @.attempts + 1]]
    /\ UNCHANGED <<media, profiles, mediaSnapshots, alive, writes, current, objects, cleaners,
                   migration, items, movers, moves, unclear, strayed>>
\* Only the claim that is still current ends the job.
FinishJob(u, status) ==
    LET o == uploads[u].owner
    IN jobs' = IF uploads[u].job # 0 /\ jobs[o] = [status |-> "processing", attempts |-> uploads[u].job]
                  THEN [jobs EXCEPT ![o].status = status] ELSE jobs

PutVariants(u) ==
    /\ uploads[u].step = "staged"
    /\ objects' = objects \cup {At(uploads[u].store, uploads[u].image)}
    /\ uploads' = [uploads EXCEPT ![u].step = "stored"]
    /\ UNCHANGED <<media, profiles, mediaSnapshots, alive, writes, images, current, jobs, cleaners,
                   migration, items, movers, moves, unclear, strayed>>

\* MarkFailed, and the objects are deleted in what is the current store now.
Compensate(u, removed) ==
    /\ images' = [images EXCEPT ![uploads[u].image] =
                     IF @.status = "staging" THEN [@ EXCEPT !.status = "failed", !.old = FALSE] ELSE @]
    /\ objects' = IF removed THEN objects \ {At(mediaSnapshots[uploads[u].node].active, uploads[u].image)} ELSE objects
    /\ uploads' = [uploads EXCEPT ![u] = NoUpload]
UploadFails(u, removed, retry) ==
    /\ uploads[u].step # "idle"
    /\ Compensate(u, removed) /\ FinishJob(u, IF retry THEN "pending" ELSE "failed")
    /\ UNCHANGED <<media, profiles, mediaSnapshots, alive, writes, current, cleaners,
                   migration, items, movers, moves, unclear, strayed>>

\* The owner's row is locked; an import gives way to an image that is there.
Activated(u, a, o) ==
    [b \in Images |->
        CASE b = a -> [images[b] EXCEPT !.status = "active", !.old = FALSE]
          [] b # a /\ images[b].owner = o /\ images[b].status = "active"
               -> [images[b] EXCEPT !.status = "replaced", !.old = FALSE]
          [] OTHER -> images[b]]
Activatable(u) ==
    LET up == uploads[u]
    IN /\ up.step = "stored" /\ images[up.image].status = "staging" /\ images[up.image].owner = up.owner
       /\ up.job # 0 => current[up.owner] = Nothing
Activate(u) ==
    LET up == uploads[u]
    IN /\ Activatable(u)
       /\ images' = Activated(u, up.image, up.owner)
       /\ current' = [current EXCEPT ![up.owner] = up.image]
       /\ uploads' = [uploads EXCEPT ![u] = NoUpload]
       /\ FinishJob(u, "completed")
       /\ UNCHANGED <<media, profiles, mediaSnapshots, alive, writes, objects, cleaners,
                      migration, items, movers, moves, unclear, strayed>>
\* The commit succeeds and its answer is lost: the objects are deleted all the same.
ActivateUnclear(u) ==
    LET up == uploads[u]
    IN /\ Activatable(u)
       /\ images' = Activated(u, up.image, up.owner)
       /\ current' = [current EXCEPT ![up.owner] = up.image]
       /\ objects' = objects \ {At(mediaSnapshots[up.node].active, up.image)}
       /\ uploads' = [uploads EXCEPT ![u] = NoUpload]
       /\ FinishJob(u, "pending") /\ unclear' = unclear \cup {up.image}
       /\ UNCHANGED <<media, profiles, mediaSnapshots, alive, writes, cleaners, migration, items, movers, moves, strayed>>
\* The process stops: a staging row is left, a job waits for its lease.
UploadCrashes(u) ==
    /\ uploads[u].step # "idle" /\ uploads' = [uploads EXCEPT ![u] = NoUpload]
    /\ UNCHANGED <<media, profiles, mediaSnapshots, alive, writes, images, current, objects, jobs, cleaners,
                   migration, items, movers, moves, unclear, strayed>>

\* Committed first; the objects follow as far as the store answers.
DeleteImage(o, removed) ==
    LET a == current[o]
    IN /\ writes /\ a # Nothing
       /\ images' = [images EXCEPT ![a].status = "deleted", ![a].old = FALSE]
       /\ current' = [current EXCEPT ![o] = Nothing]
       /\ objects' = IF removed THEN objects \ {At(images[a].store, a)} ELSE objects
       /\ UNCHANGED <<media, profiles, mediaSnapshots, alive, writes, uploads, jobs, cleaners,
                      migration, items, movers, moves, unclear, strayed>>
\* ON DELETE SET NULL: the rows stay for the clean-up.
DeleteOwner(o) ==
    /\ \E a \in Images : images[a].owner = o
    /\ images' = [a \in Images |-> IF images[a].owner = o THEN [images[a] EXCEPT !.owner = Nothing] ELSE images[a]]
    /\ current' = [current EXCEPT ![o] = Nothing]
    /\ jobs' = [jobs EXCEPT ![o] = [status |-> "none", attempts |-> 0]]
    /\ UNCHANGED <<media, profiles, mediaSnapshots, alive, writes, objects, uploads, cleaners,
                   migration, items, movers, moves, unclear, strayed>>
-----------------------------------------------------------------------------
(* Clean-up *)

\* A quarter of an hour passes for a row that nothing has written.
GrowOld(a) ==
    /\ images[a].status # "none" /\ ~images[a].old /\ \A u \in Uploads : uploads[u].image # a
    /\ images' = [images EXCEPT ![a].old = TRUE]
    /\ UNCHANGED <<media, profiles, mediaSnapshots, alive, writes, current, objects, uploads, jobs, cleaners,
                   migration, items, movers, moves, unclear, strayed>>

\* The server skips a round while a migration is unresolved; the command line does not.
BeginCleanup(c, byServer) ==
    /\ cleaners[c].step = "idle" /\ (byServer => ~Unresolved)
    /\ cleaners' = [cleaners EXCEPT ![c].step = "checked"]
    /\ UNCHANGED <<media, profiles, mediaSnapshots, alive, writes, images, current, objects, uploads, jobs,
                   migration, items, movers, moves, unclear, strayed>>
\* Mutant: the row's age does not matter.
CleanableAnyAge(a) ==
    /\ images[a].status \in {"staging", "replaced", "failed", "deleted"} \/ images[a].owner = Nothing
    /\ images[a].status # "none" /\ ~images[a].erased /\ ~images[a].claimed
Cleanable(a) ==
    /\ images[a].status \in {"staging", "replaced", "failed", "deleted"} \/ images[a].owner = Nothing
    /\ images[a].status # "none" /\ ~images[a].erased /\ ~images[a].claimed /\ images[a].old
\* Only the claim is made under the advisory lock: rounds overlap after it.
ClaimUnreferenced(c, taken) ==
    /\ cleaners[c].step = "checked" /\ taken # {} /\ \A a \in taken : Cleanable(a)
    /\ images' = [a \in Images |-> IF a \in taken THEN [images[a] EXCEPT !.claimed = TRUE] ELSE images[a]]
    /\ cleaners' = [cleaners EXCEPT ![c] = [step |-> "claimed", taken |-> {<<a, images[a].store>> : a \in taken}]]
    /\ UNCHANGED <<media, profiles, mediaSnapshots, alive, writes, current, objects, uploads, jobs,
                   migration, items, movers, moves, unclear, strayed>>
\* A quarter of an hour passes for a claim: the row may be claimed again.
CleanupClaimLapses(a) ==
    /\ images[a].claimed /\ images' = [images EXCEPT ![a].claimed = FALSE]
    /\ UNCHANGED <<media, profiles, mediaSnapshots, alive, writes, current, objects, uploads, jobs, cleaners,
                   migration, items, movers, moves, unclear, strayed>>
\* Delete and MarkStorageDeleted, or ReleaseCleanupClaim; neither asks whose the claim is.
CleanupItem(c, t, deleted) ==
    /\ t \in cleaners[c].taken
    /\ objects' = IF deleted THEN objects \ {At(t[2], t[1])} ELSE objects
    /\ images' = [images EXCEPT ![t[1]] =
                     CASE @.erased -> @
                       [] ~@.erased /\ deleted -> [@ EXCEPT !.erased = TRUE, !.claimed = FALSE, !.old = FALSE]
                       [] OTHER -> [@ EXCEPT !.claimed = FALSE]]
    /\ cleaners' = [cleaners EXCEPT ![c].taken = @ \ {t}]
    /\ UNCHANGED <<media, profiles, mediaSnapshots, alive, writes, current, uploads, jobs,
                   migration, items, movers, moves, unclear, strayed>>
\* The round is over, or its process has stopped and leaves its claims.
CleanupEnds(c) ==
    /\ cleaners[c].step # "idle" /\ cleaners' = [cleaners EXCEPT ![c] = NoRound]
    /\ UNCHANGED <<media, profiles, mediaSnapshots, alive, writes, images, current, objects, uploads, jobs,
                   migration, items, movers, moves, unclear, strayed>>
-----------------------------------------------------------------------------
(* Storage profiles and the pause *)

LoadMedia(n) ==
    /\ n \in alive /\ mediaSnapshots[n] # media
    /\ mediaSnapshots' = [mediaSnapshots EXCEPT ![n] = media]
    /\ UNCHANGED <<media, profiles, alive, writes, images, current, objects, uploads, jobs, cleaners,
                   migration, items, movers, moves, unclear, strayed>>
CreateCandidate(n, p) ==
    /\ n \in alive /\ p \notin profiles /\ ~Unresolved
    /\ profiles' = profiles \cup {p}
    /\ media' = [media EXCEPT !.revision = @ + 1, !.candidate = p, !.tested = FALSE]
    /\ mediaSnapshots' = [mediaSnapshots EXCEPT ![n] = media']
    /\ UNCHANGED <<alive, writes, images, current, objects, uploads, jobs, cleaners,
                   migration, items, movers, moves, unclear, strayed>>
\* A test that fails leaves the candidate as untested as before.
TestCandidate(n) ==
    /\ n \in alive /\ media.candidate # Nothing /\ ~media.tested /\ ~Unresolved
    /\ media' = [media EXCEPT !.revision = @ + 1, !.tested = TRUE]
    /\ mediaSnapshots' = [mediaSnapshots EXCEPT ![n] = media']
    /\ UNCHANGED <<profiles, alive, writes, images, current, objects, uploads, jobs, cleaners,
                   migration, items, movers, moves, unclear, strayed>>
\* An administrator changes the service control: a migration no longer takes
\* back the pause it made, for the revision is another.
SetWrites(admitted) ==
    /\ writes # admitted \/ migration.restore
    /\ writes' = admitted
    /\ migration' = [migration EXCEPT !.restore = FALSE]
    /\ UNCHANGED <<media, profiles, mediaSnapshots, alive, images, current, objects, uploads, jobs, cleaners,
                   items, movers, moves, unclear, strayed>>
StopNode(n) ==
    /\ n \in alive /\ alive' = alive \ {n} /\ movers' = [movers EXCEPT ![n] = NoMover]
    /\ uploads' = [u \in Uploads |-> IF uploads[u].node = n THEN NoUpload ELSE uploads[u]]
    /\ UNCHANGED <<media, profiles, mediaSnapshots, writes, images, current, objects, jobs, cleaners,
                   migration, items, moves, unclear, strayed>>
StartNode(n) ==
    /\ n \notin alive /\ alive' = alive \cup {n} /\ mediaSnapshots' = [mediaSnapshots EXCEPT ![n] = media]
    /\ UNCHANGED <<media, profiles, writes, images, current, objects, uploads, jobs, cleaners,
                   migration, items, movers, moves, unclear, strayed>>
-----------------------------------------------------------------------------
(* Migration *)

\* The pause is applied: every admitted write has ended.
Drained == \A u \in Uploads : uploads[u].step = "idle"
TargetReady(n, target) ==
    IF target = Fallback
       THEN media.active # Fallback /\ alive = {n}
       ELSE media.candidate = target /\ media.tested /\ \A k \in alive : mediaSnapshots[k] = media
\* It pauses writes itself unless they are; it then lifts that pause at the end.
StartMigration(n, target) ==
    /\ n \in alive /\ ~Unresolved /\ moves < MaxMoves /\ Drained /\ TargetReady(n, target)
    /\ writes' = FALSE /\ moves' = moves + 1
    /\ migration' = [status |-> "pending", source |-> media.active, target |-> target, restore |-> writes,
                      stuck |-> FALSE]
    /\ items' = [a \in Images |->
                    IF images[a].status # "none" /\ ~images[a].erased /\ images[a].store = media.active
                       THEN [NoItem EXCEPT !.status = "pending", !.source = media.active] ELSE NoItem]
    /\ UNCHANGED <<media, profiles, mediaSnapshots, alive, images, current, objects, uploads, jobs, cleaners,
                   movers, unclear, strayed>>
\* The pause of another revision than the migration's is stored as one it did
\* not make: SetWrites has set restore so.
RetryMigration(n) ==
    /\ n \in alive /\ migration.status = "failed" /\ ~writes /\ Drained
    /\ IF migration.target = Fallback THEN alive = {n} ELSE media.candidate = migration.target
    /\ migration' = [migration EXCEPT !.status = "pending"]
    /\ items' = [a \in Images |-> IF items[a].status = "failed"
                                     THEN [items[a] EXCEPT !.status = "pending", !.worker = Nothing] ELSE items[a]]
    /\ UNCHANGED <<media, profiles, mediaSnapshots, alive, writes, images, current, objects, uploads, jobs,
                   cleaners, movers, moves, unclear, strayed>>

\* An item whose row has switched is taken without a lease, by as many workers as come.
ClaimMigrationItem(n, a) ==
    /\ n \in alive /\ movers[n].step = "idle" /\ migration.status \in {"pending", "running"}
    /\ \/ items[a].status \in {"pending", "failed", "switched"}
       \/ items[a].status = "copying" /\ items[a].lapsed
    /\ items[a].status # "switched" => items[a].attempts < MaxClaims
    /\ items' = [items EXCEPT ![a] =
                    IF @.status = "switched" THEN @
                    ELSE [@ EXCEPT !.status = "copying", !.worker = n, !.attempts = items[a].attempts + 1,
                                   !.lapsed = FALSE]]
    /\ movers' = [movers EXCEPT ![n] =
                    [step |-> IF items[a].status = "switched" THEN "resumed" ELSE "claimed",
                     image |-> a, source |-> items[a].source, target |-> migration.target,
                     attempts |-> items'[a].attempts, move |-> moves]]
    /\ migration' = [migration EXCEPT !.status = "running"]
    /\ UNCHANGED <<media, profiles, mediaSnapshots, alive, writes, images, current, objects, uploads, jobs,
                   cleaners, moves, unclear, strayed>>
ClaimLapses(a) ==
    /\ items[a].status = "copying" /\ ~items[a].lapsed /\ items' = [items EXCEPT ![a].lapsed = TRUE]
    /\ UNCHANGED <<media, profiles, mediaSnapshots, alive, writes, images, current, objects, uploads, jobs,
                   cleaners, migration, movers, moves, unclear, strayed>>

\* The items of an earlier migration are all completed.
OfThisMove(n) == movers[n].move = moves
HoldsClaim(n) ==
    LET m == movers[n]
    IN /\ OfThisMove(n) /\ items[m.image].status = "copying"
       /\ items[m.image].worker = n /\ items[m.image].attempts = m.attempts
CopyAndVerify(n) ==
    LET m == movers[n]
    IN /\ m.step = "claimed" /\ At(m.source, m.image) \in objects
       /\ objects' = objects \cup {At(m.target, m.image)}
       /\ movers' = [movers EXCEPT ![n].step = "copied"]
       /\ UNCHANGED <<media, profiles, mediaSnapshots, alive, writes, images, current, uploads, jobs, cleaners,
                      migration, items, moves, unclear, strayed>>
\* A store is not resolved, or the copy fails.  The item fails only while the
\* claim is held, the migration whatever has become of it.  A migration that
\* fails after a later one was started is in the way of all others; it cannot be
\* carried on, for its target is not the candidate, or its source not in use.
FailItem(n) ==
    /\ movers[n].step \in {"claimed", "resumed"}
    /\ items' = IF HoldsClaim(n) THEN [items EXCEPT ![movers[n].image].status = "failed"] ELSE items
    /\ migration' = IF OfThisMove(n) THEN [migration EXCEPT !.status = "failed"]
                    ELSE [migration EXCEPT !.stuck = TRUE]
    /\ movers' = [movers EXCEPT ![n] = NoMover]
    /\ UNCHANGED <<media, profiles, mediaSnapshots, alive, writes, images, current, objects, uploads, jobs,
                   cleaners, moves, unclear, strayed>>
MarkItemSwitched(n) ==
    LET m == movers[n]
        ok == images[m.image].store = m.source /\ ~images[m.image].erased /\ HoldsClaim(n)
    IN /\ m.step = "copied"
       /\ images' = IF ok THEN [images EXCEPT ![m.image].store = m.target, ![m.image].old = FALSE] ELSE images
       /\ items' = IF ok THEN [items EXCEPT ![m.image].status = "switched"] ELSE items
       /\ movers' = [movers EXCEPT ![n] = IF ok THEN [@ EXCEPT !.step = "switched"] ELSE NoMover]
       /\ UNCHANGED <<media, profiles, mediaSnapshots, alive, writes, current, objects, uploads, jobs, cleaners,
                      migration, moves, unclear, strayed>>
\* Nothing is asked before it.  It strays if the migration is over and a later
\* one may have come to the source, or if the target is the same place.
DeleteSource(n) ==
    LET m == movers[n]
    IN /\ m.step \in {"switched", "resumed"} /\ objects' = objects \ {At(m.source, m.image)}
       /\ strayed' = IF OfThisMove(n) /\ PlaceOf[m.source] # PlaceOf[m.target] THEN strayed
                     ELSE strayed \cup {m.image}
       /\ movers' = [movers EXCEPT ![n].step = "deleted"]
       /\ UNCHANGED <<media, profiles, mediaSnapshots, alive, writes, images, current, uploads, jobs, cleaners,
                      migration, items, moves, unclear>>
CompleteItem(n) ==
    /\ movers[n].step = "deleted"
    /\ items' = IF OfThisMove(n) /\ items[movers[n].image].status = "switched"
                   THEN [items EXCEPT ![movers[n].image].status = "completed"] ELSE items
    /\ movers' = [movers EXCEPT ![n] = NoMover]
    /\ UNCHANGED <<media, profiles, mediaSnapshots, alive, writes, images, current, objects, uploads, jobs,
                   cleaners, migration, moves, unclear, strayed>>
\* An error after the switch, or of FailItem itself, leaves the item for the next round.
MoverStops(n) ==
    /\ movers[n].step # "idle" /\ movers' = [movers EXCEPT ![n] = NoMover]
    /\ UNCHANGED <<media, profiles, mediaSnapshots, alive, writes, images, current, objects, uploads, jobs,
                   cleaners, migration, items, moves, unclear, strayed>>

\* First the target becomes active, then every instance has to have loaded that.
\* The pause is lifted after the commit, which an error or a stop may prevent.
FinalizeMigration(n) ==
    /\ n \in alive /\ movers[n].step = "idle"
    /\ \/ /\ migration.status \in {"running", "pending"}
          /\ \A a \in Images : items[a].status \in {"none", "completed"}
          /\ media.active = migration.source
          /\ migration.target = Fallback \/ media.candidate = migration.target
          /\ media' = [revision |-> media.revision + 1, active |-> migration.target,
                       candidate |-> Nothing, tested |-> FALSE]
          /\ migration' = [migration EXCEPT !.status = "applying"]
          /\ mediaSnapshots' = [mediaSnapshots EXCEPT ![n] = media'] /\ UNCHANGED writes
       \/ /\ migration.status = "applying" /\ media.active = migration.target
          /\ \A k \in alive : mediaSnapshots[k].revision >= media.revision
          /\ migration' = [migration EXCEPT !.status = "completed"]
          /\ \/ writes' = (writes \/ migration.restore)
             \/ UNCHANGED writes
          /\ UNCHANGED <<media, mediaSnapshots>>
    /\ UNCHANGED <<profiles, alive, images, current, objects, uploads, jobs, cleaners, items, movers,
                   moves, unclear, strayed>>
-----------------------------------------------------------------------------
(* Owners may have an image already, in the storage that is in use. *)
MediaInit ==
    /\ media \in [revision : {1}, active : Stores, candidate : {Nothing}, tested : {FALSE}]
    /\ profiles = {media.active} \ {Fallback} /\ mediaSnapshots = [n \in Nodes |-> media]
    /\ alive = Nodes /\ writes = TRUE
    /\ current \in [MediaOwners -> Images \cup {Nothing}]
    /\ \A o, q \in MediaOwners : current[o] = current[q] /\ current[o] # Nothing => o = q
    /\ images = [a \in Images |->
                    IF \E o \in MediaOwners : current[o] = a
                       THEN [CreateStaging(CHOOSE o \in MediaOwners : current[o] = a, media.active)
                                EXCEPT !.status = "active"]
                       ELSE NoImage]
    /\ objects = {At(media.active, a) : a \in {b \in Images : images[b].status = "active"}}
    /\ uploads = [u \in Uploads |-> NoUpload]
    /\ jobs \in [MediaOwners -> [status : {"none", "pending"}, attempts : {0}]]
    /\ cleaners = [c \in Cleaners |-> NoRound]
    /\ migration = [status |-> "none", source |-> Fallback, target |-> Fallback, restore |-> FALSE, stuck |-> FALSE]
    /\ items = [a \in Images |-> NoItem] /\ movers = [n \in Nodes |-> NoMover]
    /\ moves = 0 /\ unclear = {} /\ strayed = {}

UploadStep(u) ==
    \/ \E n \in Nodes, o \in MediaOwners, a \in Images : BeginUpload(u, n, o, a)
    \/ \E n \in Nodes, o \in MediaOwners, a \in Images : ClaimProviderImportJob(u, n, o, a)
    \/ PutVariants(u)
    \/ \E removed, retry \in BOOLEAN : UploadFails(u, removed, retry)
    \/ Activate(u)
    \/ ActivateUnclear(u)
    \/ UploadCrashes(u)
MigrationStep(n) ==
    \/ \E target \in Stores : StartMigration(n, target)
    \/ RetryMigration(n)
    \/ \E a \in Images : ClaimMigrationItem(n, a)
    \/ CopyAndVerify(n)
    \/ FailItem(n)
    \/ MarkItemSwitched(n)
    \/ DeleteSource(n)
    \/ CompleteItem(n)
    \/ MoverStops(n)
    \/ FinalizeMigration(n)
OwnerStep ==
    \/ \E o \in MediaOwners, removed \in BOOLEAN : DeleteImage(o, removed)
    \/ \E o \in MediaOwners : DeleteOwner(o)
CleanupStep ==
    \/ \E a \in Images : GrowOld(a)
    \/ \E c \in Cleaners, byServer \in BOOLEAN : BeginCleanup(c, byServer)
    \/ \E c \in Cleaners, taken \in SUBSET Images : ClaimUnreferenced(c, taken)
    \/ \E a \in Images : CleanupClaimLapses(a)
    \/ \E c \in Cleaners, deleted \in BOOLEAN : \E t \in cleaners[c].taken : CleanupItem(c, t, deleted)
    \/ \E c \in Cleaners : CleanupEnds(c)
NodeStep(n) ==
    \/ LoadMedia(n)
    \/ \E p \in Profiles : CreateCandidate(n, p)
    \/ TestCandidate(n)
    \/ StopNode(n)
    \/ StartNode(n)
MediaNext ==
    \/ \E u \in Uploads : UploadStep(u)
    \/ OwnerStep
    \/ CleanupStep
    \/ \E n \in Nodes : NodeStep(n)
    \/ \E n \in Nodes : MigrationStep(n)
    \/ \E a \in Images : ClaimLapses(a)
    \/ \E admitted \in BOOLEAN : SetWrites(admitted)
MediaSpec == MediaInit /\ [][MediaNext]_mediaVars
-----------------------------------------------------------------------------
OwnImage(o) ==
    LET a == current[o]
    IN /\ images[a].status = "active" /\ images[a].owner = o /\ ~images[a].erased
       /\ \A b \in Images : images[b].status = "active" /\ images[b].owner = o => b = a
Readable(a) == At(images[a].store, a) \in objects

(* The image an owner has is active, is his only active one, and the store *)
(* its row names holds its objects, through uploads, imports, overlapping  *)
(* rounds of the clean-up and migrations with workers that lose their      *)
(* leases.  The objects are lost to two things only: the compensation of   *)
(* an upload whose activation was committed and answered with an error,    *)
(* and a source deleted by a worker that comes too late, when a later      *)
(* migration has begun, or in a migration within one place.                *)
ImagesOutliveMigrations ==
    \A o \in MediaOwners : current[o] # Nothing =>
        OwnImage(o) /\ (current[o] \notin unclear \cup strayed => Readable(current[o]))

(* The design of the migration promises more: an image is switched when    *)
(* its copy was verified, the source is deleted after that, and either is  *)
(* readable meanwhile (migrateOnce).                                       *)
CurrentImageIsReadable ==
    \A o \in MediaOwners : current[o] # Nothing =>
        OwnImage(o) /\ (current[o] \notin unclear => Readable(current[o]))
-----------------------------------------------------------------------------
(* The inductive strengthening of ImagesOutliveMigrations. *)

IsCurrent(a) == \E o \in MediaOwners : current[o] = a

(* The candidate is not the storage in use. *)
ProfilesOK ==
    /\ media.active \in profiles \cup {Fallback}
    /\ media.candidate # Nothing => media.candidate \in profiles /\ media.candidate # media.active

(* A request has a fresh staging row to itself, which no migration knows.  *)
UploadOK(u) ==
    LET up == uploads[u]
        a == up.image
    IN  up.step # "idle" =>
          /\ a \in Images /\ up.owner \in MediaOwners /\ up.node \in Nodes
          /\ images[a].status = "staging" /\ images[a].store = up.store
          /\ ~images[a].old /\ ~images[a].erased
          /\ items[a].status = "none"
          /\ \A v \in Uploads : uploads[v].step # "idle" /\ uploads[v].image = a => v = u
          /\ up.step = "stored" => At(up.store, a) \in objects

(* What a round of the clean-up has taken is nobody's image, nor becomes   *)
(* one.                                                                    *)
TakenOK(t) ==
    /\ images[t[1]].status # "none"
    /\ images[t[1]].status = "active" => images[t[1]].owner = Nothing
    /\ \A u \in Uploads : uploads[u].step # "idle" => uploads[u].image # t[1]

MigrationOK ==
    /\ moves = 0 => /\ \A a \in Images : items[a].status = "none"
                    /\ \A n \in Nodes : movers[n].step = "idle"
    /\ moves > 0 => migration.source # migration.target

(* The row of an image follows its item. *)
ItemOK(a) ==
    /\ images[a].status = "none" => items[a].status = "none"
    /\ items[a].status # "none" => items[a].source = migration.source
    /\ items[a].status \in {"pending", "copying", "failed"} => images[a].store = migration.source
    /\ items[a].status \in {"switched", "completed"} => images[a].store = migration.target

(* A worker of the newest migration knows it; what it has copied is there  *)
(* as long as somebody needs it; it deletes a source only after the        *)
(* switch.  Of a worker of an earlier one only its image is known, which   *)
(* is not that of an upload.                                               *)
MoverOK(n) ==
    LET m == movers[n]
    IN  m.step # "idle" =>
          /\ m.image \in Images /\ m.move <= moves
          /\ images[m.image].status # "none" /\ \A u \in Uploads : uploads[u].step # "idle" => uploads[u].image # m.image
          /\ m.move = moves =>
                /\ m.source = migration.source /\ m.target = migration.target
                /\ items[m.image].status # "none"
                /\ m.step = "copied" /\ IsCurrent(m.image) /\ m.image \notin strayed
                     => At(m.target, m.image) \in objects
                /\ m.step \in {"switched", "resumed", "deleted"} => items[m.image].status \in {"switched", "completed"}

OwnerOK(o) ==
    current[o] # Nothing => OwnImage(o) /\ (current[o] \notin unclear \cup strayed => Readable(current[o]))

MediaInv ==
    /\ MediaTypeOK
    /\ ProfilesOK
    /\ \A u \in Uploads : UploadOK(u)
    /\ \A c \in Cleaners : \A t \in cleaners[c].taken : TakenOK(t)
    /\ MigrationOK
    /\ \A a \in Images : ItemOK(a)
    /\ \A n \in Nodes : MoverOK(n)
    /\ \A o \in MediaOwners : OwnerOK(o)
=============================================================================
