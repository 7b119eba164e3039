---------------------------- MODULE ServiceControl ----------------------------
(***************************************************************************)
(* Pausing capabilities of a running cluster.  The state to be in force is *)
(* one row of PostgreSQL with a revision.  Every server holds a copy of it *)
(* behind which its gates are open or closed, counts the work it has       *)
(* admitted, and reports in a heartbeat row which revision it has loaded   *)
(* and which it has applied: loaded, and no admitted work is left that it  *)
(* pauses.  A server that cannot refresh or report closes all its gates.   *)
(* A change is answered when every server that is alive has applied it.    *)
(*                                                                         *)
(* Work is a lease on a set of capabilities; a server holds at most one    *)
(* for each set.  The clocks of servers and database run at the same rate, *)
(* and a round trip takes less than a tick.                                *)
(***************************************************************************)
EXTENDS Naturals, FiniteSets

CONSTANTS Servers,        \* processes; a restart is a new one
          LeaseKinds,     \* sets of capabilities that handlers and workers acquire
          PauseTargets,   \* sets of capabilities that administrators pause
          Operators,      \* transactions under way
          NoServer,
          StaleAfter,     \* ticks until a heartbeat or a refresh is too old
          MaxControl,     \* bound: last revision
          LastTick        \* bound: the clock

ASSUME ControlAssumptions ==
    /\ NoServer \notin Servers /\ StaleAfter \in Nat \ {0}
    /\ MaxControl \in Nat \ {0} /\ LastTick \in Nat

VARIABLES control,     \* service_control_state and service_control_pauses
          openMode,    \* runtime_settings, key "registration": the mode is not "closed"
          operations,  \* transactions that hold the registration lock
          gates,       \* the controller of each server
          beats,       \* service_control_instances
          leases,      \* work each server has admitted
          loadings,    \* snapshots read and not published yet
          waits,       \* revision whose application a request waits for, 0: none
          reports,     \* history: what was answered as applied
          tick
controlVars == <<control, openMode, operations, gates, beats, leases, loadings, waits, reports, tick>>

Capabilities == {"self_registration", "account_mutations", "admin_mutations",
                 "auth_issuance", "mail_delivery", "media_writes"}
ASSUME CapabilityAssumption == PauseTargets \subseteq SUBSET Capabilities /\ LeaseKinds \subseteq SUBSET Capabilities

Never == LastTick + 1
Snapshot == [revision : Nat, paused : SUBSET Capabilities, expires : Nat]
NoSnapshot == [revision |-> 0, paused |-> {}, expires |-> Never]
Gate == [phase : {"new", "loaded", "running", "gone"}, snapshot : Snapshot, applied : Nat,
         refreshed : Nat, beat : Nat]
Beat == [present : BOOLEAN, at : Nat, loaded : Nat, applied : Nat]
NoBeat == [present |-> FALSE, at |-> 0, loaded |-> 0, applied |-> 0]
Operation == [kind : {"none", "update", "registration"}, server : Servers \cup {NoServer},
              paused : SUBSET Capabilities, expires : Nat, open : BOOLEAN]
NoOperation == [kind |-> "none", server |-> NoServer, paused |-> {}, expires |-> Never, open |-> FALSE]

ControlTypeOK ==
    /\ control \in Snapshot /\ openMode \in BOOLEAN
    /\ operations \in [Operators -> Operation]
    /\ gates \in [Servers -> Gate] /\ beats \in [Servers -> Beat]
    /\ leases \in [Servers -> SUBSET LeaseKinds]
    /\ loadings \in [Servers -> Snapshot] /\ waits \in [Servers -> Nat]
    /\ reports \subseteq [revision : Nat, paused : SUBSET Capabilities, servers : SUBSET Servers]
    /\ tick \in 0 .. LastTick
-----------------------------------------------------------------------------
(* The controller of a process *)

\* What is paused at this time: an expired pause is over before the row says so.
EffectiveAt(s) == IF tick >= s.expires THEN {} ELSE s.paused

FailClosed(g) ==
    \/ g.snapshot.revision = 0
    \/ tick - g.refreshed >= StaleAfter
    \/ tick - g.beat >= StaleAfter

InFlight(s) == UNION leases[s]
\* Mutant: a revision counts as applied once its gates are closed.
MarkAppliedAtOnce(g, inFlight) == [g EXCEPT !.applied = g.snapshot.revision]
MaybeMarkApplied(g, inFlight) ==
    IF EffectiveAt(g.snapshot) \cap inFlight = {} THEN [g EXCEPT !.applied = g.snapshot.revision] ELSE g

\* Mutant: a revision that lifts every pause is taken for an empty answer.
PublishPauses(g, snapshot, inFlight) ==
    IF snapshot.revision < g.snapshot.revision \/ (snapshot.paused = {} /\ g.snapshot.paused # {}) THEN g
    ELSE MaybeMarkApplied([g EXCEPT !.snapshot = snapshot, !.refreshed = tick], inFlight)
\* An older revision than the loaded one changes nothing.
Publish(g, snapshot, inFlight) ==
    IF snapshot.revision < g.snapshot.revision THEN g
    ELSE MaybeMarkApplied([g EXCEPT !.snapshot = snapshot, !.refreshed = tick], inFlight)

AcquireAll(s, kind) ==
    /\ gates[s].phase = "running" /\ kind \notin leases[s]
    /\ ~FailClosed(gates[s]) /\ EffectiveAt(gates[s].snapshot) \cap kind = {}
    /\ leases' = [leases EXCEPT ![s] = @ \cup {kind}]
    /\ UNCHANGED <<control, openMode, operations, gates, beats, loadings, waits, reports, tick>>
ReleaseLease(s, kind) ==
    /\ gates[s].phase = "running" /\ kind \in leases[s]
    /\ leases' = [leases EXCEPT ![s] = @ \ {kind}]
    /\ gates' = [gates EXCEPT ![s] = MaybeMarkApplied(@, UNION leases'[s])]
    /\ UNCHANGED <<control, openMode, operations, beats, loadings, waits, reports, tick>>
-----------------------------------------------------------------------------
(* Heartbeats and the set of servers that are alive *)

\* Revisions, the row and MarkHeartbeatNow; a row that was cleaned up is registered again.
RegisterInstance(g, b) ==
    [present |-> TRUE, at |-> tick, loaded |-> g.snapshot.revision, applied |-> g.applied]
HeartbeatOnce(s, g, reached) ==
    LET marked == MaybeMarkApplied(g, InFlight(s))
    IN /\ beats' = IF reached THEN [beats EXCEPT ![s] = RegisterInstance(marked, @)] ELSE beats
       /\ gates' = [gates EXCEPT ![s] = IF reached THEN [marked EXCEPT !.beat = tick] ELSE marked]
Heartbeat(s) ==
    /\ gates[s].phase = "running" /\ HeartbeatOnce(s, gates[s], TRUE)
    /\ UNCHANGED <<control, openMode, operations, leases, loadings, waits, reports, tick>>
CleanupStaleInstances ==
    LET stale == {s \in Servers : beats[s].present /\ tick - beats[s].at > StaleAfter}
    IN /\ stale # {}
       /\ beats' = [s \in Servers |-> IF s \in stale THEN NoBeat ELSE beats[s]]
       /\ UNCHANGED <<control, openMode, operations, gates, leases, loadings, waits, reports, tick>>

ListActiveInstances(b) == {s \in Servers : b[s].present /\ tick - b[s].at <= StaleAfter}
ApplicationStatus(b, revision) ==
    \A s \in ListActiveInstances(b) : b[s].loaded >= revision /\ b[s].applied >= revision
-----------------------------------------------------------------------------
(* Transactions on the stored state *)

\* Mutant: the settings and the pauses are checked without the common lock.
NoRegistrationLock == TRUE
LockRegistration == \A o \in Operators : operations[o] = NoOperation

ValidateTarget(paused, open) ==
    /\ "auth_issuance" \in paused => "self_registration" \in paused
    /\ "mail_delivery" \in paused /\ open => "self_registration" \in paused

\* The revision is the one the administrator has seen.
HandleUpdateOperationsSettings(o, s, paused, expires) ==
    /\ gates[s].phase = "running" /\ waits[s] = 0 /\ operations[o] = NoOperation
    /\ LockRegistration /\ control.revision < MaxControl
    /\ expires > tick /\ (paused = {} => expires = Never)
    /\ ValidateTarget(paused, openMode)
    /\ operations' = [operations EXCEPT ![o] = [kind |-> "update", server |-> s, paused |-> paused,
                                                expires |-> expires, open |-> FALSE]]
    /\ UNCHANGED <<control, openMode, gates, beats, leases, loadings, waits, reports, tick>>
HandleUpdateRegistration(o, open) ==
    /\ operations[o] = NoOperation /\ LockRegistration /\ openMode # open
    /\ ValidateTarget(control.paused, open)
    /\ operations' = [operations EXCEPT ![o] = [NoOperation EXCEPT !.kind = "registration", !.open = open]]
    /\ UNCHANGED <<control, openMode, gates, beats, leases, loadings, waits, reports, tick>>

StoreState(paused, expires) ==
    control' = [revision |-> control.revision + 1, paused |-> paused, expires |-> expires]

\* The server that has made the change closes its own gates and begins to wait.
UpdateControl(o) ==
    /\ operations[o].kind = "update" /\ control.revision < MaxControl
    /\ StoreState(operations[o].paused, operations[o].expires)
    /\ LET s == operations[o].server
       IN /\ gates' = [gates EXCEPT ![s] = Publish(@, control', InFlight(s))]
          /\ waits' = [waits EXCEPT ![s] = IF gates[s].phase = "running" THEN control'.revision ELSE 0]
    /\ operations' = [operations EXCEPT ![o] = NoOperation]
    /\ UNCHANGED <<openMode, beats, leases, loadings, reports, tick>>
SetRegistration(o) ==
    /\ operations[o].kind = "registration"
    /\ openMode' = operations[o].open
    /\ operations' = [operations EXCEPT ![o] = NoOperation]
    /\ UNCHANGED <<control, gates, beats, leases, loadings, waits, reports, tick>>
\* The command-line reset lifts every pause.
Reset ==
    /\ LockRegistration /\ control.revision < MaxControl /\ control.paused # {}
    /\ StoreState({}, Never)
    /\ UNCHANGED <<openMode, operations, gates, beats, leases, loadings, waits, reports, tick>>

\* publishAndWait: it reports as applied, or gives up (its time, or a later revision).
PublishAndWait(s) ==
    /\ gates[s].phase = "running" /\ waits[s] # 0
    /\ HeartbeatOnce(s, gates[s], TRUE)
    /\ reports' = IF ApplicationStatus(beats', waits[s])
                     THEN reports \cup {[revision |-> waits[s], servers |-> ListActiveInstances(beats'),
                                         paused |-> IF gates[s].snapshot.revision = waits[s]
                                                       THEN gates[s].snapshot.paused ELSE {}]}
                     ELSE reports
    /\ waits' = [waits EXCEPT ![s] = 0]
    /\ UNCHANGED <<control, openMode, operations, leases, loadings, tick>>
-----------------------------------------------------------------------------
(* Start, refresh and end of a process *)

\* A notification, the reconciliation, or the start of a process.
LoadSnapshot(s) ==
    /\ gates[s].phase \in {"new", "running"} /\ loadings[s].revision = 0
    /\ loadings' = [loadings EXCEPT ![s] = control]
    /\ UNCHANGED <<control, openMode, operations, gates, beats, leases, waits, reports, tick>>
\* TryExpire under the registration lock: an expired row becomes a new revision.
TryExpire == IF tick >= control.expires /\ LockRegistration /\ control.revision < MaxControl
                THEN StoreState({}, Never) ELSE UNCHANGED control
\* The database may become unreachable after the load: no report, or no expiry.
Refresh(s, reached) ==
    /\ gates[s].phase = "running" /\ loadings[s].revision # 0
    /\ IF reached /\ tick >= loadings[s].expires THEN TryExpire ELSE UNCHANGED control
    /\ HeartbeatOnce(s, Publish(Publish(gates[s], loadings[s], InFlight(s)),
                                IF control' # control THEN control' ELSE loadings[s], InFlight(s)), reached)
    /\ loadings' = [loadings EXCEPT ![s] = NoSnapshot]
    /\ UNCHANGED <<openMode, operations, leases, waits, reports, tick>>
Load(s) ==
    /\ gates[s].phase = "new" /\ loadings[s].revision # 0
    /\ gates' = [gates EXCEPT ![s] = [Publish(@, loadings[s], {}) EXCEPT !.phase = "loaded", !.beat = tick]]
    /\ loadings' = [loadings EXCEPT ![s] = NoSnapshot]
    /\ UNCHANGED <<control, openMode, operations, beats, leases, waits, reports, tick>>
Start(s) ==
    /\ gates[s].phase = "loaded"
    /\ beats' = [beats EXCEPT ![s] = RegisterInstance(gates[s], @)]
    /\ gates' = [gates EXCEPT ![s].phase = "running", ![s].beat = tick]
    /\ UNCHANGED <<control, openMode, operations, leases, loadings, waits, reports, tick>>
\* An orderly stop removes the row; after a crash it grows stale.
Stop(s, orderly) ==
    /\ gates[s].phase = "running"
    /\ gates' = [gates EXCEPT ![s].phase = "gone"]
    /\ beats' = IF orderly THEN [beats EXCEPT ![s] = NoBeat] ELSE beats
    /\ leases' = [leases EXCEPT ![s] = {}] /\ waits' = [waits EXCEPT ![s] = 0]
    /\ loadings' = [loadings EXCEPT ![s] = NoSnapshot]
    /\ UNCHANGED <<control, openMode, operations, reports, tick>>
ControlTick ==
    /\ tick < LastTick /\ tick' = tick + 1
    /\ UNCHANGED <<control, openMode, operations, gates, beats, leases, loadings, waits, reports>>
-----------------------------------------------------------------------------
FirstGate(phase, snapshot) ==
    [phase |-> phase, snapshot |-> snapshot, applied |-> snapshot.revision, refreshed |-> 0, beat |-> 0]

\* Each process has yet to start, runs, or has ended.
ControlInit ==
    /\ tick = 0
    /\ openMode \in BOOLEAN
    /\ control \in [revision : {1}, paused : {p \in PauseTargets : ValidateTarget(p, openMode)},
                    expires : {1, Never}]
    /\ control.paused = {} => control.expires = Never
    /\ operations = [o \in Operators |-> NoOperation]
    /\ gates \in [Servers -> {FirstGate("new", NoSnapshot), FirstGate("running", control),
                              FirstGate("gone", NoSnapshot)}]
    /\ beats = [s \in Servers |-> IF gates[s].phase = "running" THEN RegisterInstance(gates[s], NoBeat) ELSE NoBeat]
    /\ leases = [s \in Servers |-> {}]
    /\ loadings = [s \in Servers |-> NoSnapshot] /\ waits = [s \in Servers |-> 0]
    /\ reports = {}

ServerStep(s) ==
    \/ LoadSnapshot(s)
    \/ Load(s)
    \/ Start(s)
    \/ \E reached \in BOOLEAN : Refresh(s, reached)
    \/ \E kind \in LeaseKinds : AcquireAll(s, kind)
    \/ \E kind \in LeaseKinds : ReleaseLease(s, kind)
    \/ Heartbeat(s)
    \/ PublishAndWait(s)
    \/ \E orderly \in BOOLEAN : Stop(s, orderly)
ControlNext ==
    \/ \E s \in Servers : ServerStep(s)
    \/ \E o \in Operators, s \in Servers, p \in PauseTargets, e \in {1, Never} :
          HandleUpdateOperationsSettings(o, s, p, e)
    \/ \E o \in Operators, open \in BOOLEAN : HandleUpdateRegistration(o, open)
    \/ \E o \in Operators : UpdateControl(o)
    \/ \E o \in Operators : SetRegistration(o)
    \/ Reset
    \/ CleanupStaleInstances
    \/ ControlTick
ControlSpec == ControlInit /\ [][ControlNext]_controlVars

(* Handlers return, and the reconciliation loop of a running process goes  *)
(* on; nothing else is certain to happen.                                  *)
ControlFairness ==
    \A s \in Servers :
        /\ WF_controlVars(LoadSnapshot(s)) /\ WF_controlVars(\E reached \in BOOLEAN : Refresh(s, reached))
        /\ \A kind \in LeaseKinds : WF_controlVars(ReleaseLease(s, kind))
-----------------------------------------------------------------------------
(* Once a pause was answered as applied, no server that was alive then has *)
(* work under way that it pauses, until the pause is over or that server   *)
(* has loaded a later revision; and it never goes back to an earlier one.  *)
AppliedIsStopped ==
    \A r \in reports : \A s \in r.servers :
        gates[s].phase = "running" =>
            /\ gates[s].snapshot.revision >= r.revision
            /\ gates[s].snapshot.revision = r.revision
                 => EffectiveAt(gates[s].snapshot) \cap r.paused \cap InFlight(s) = {}

(* Self-registration is paused whenever something it needs is: issuing     *)
(* credentials, or mail while registration is open.  Pauses and the mode   *)
(* of registration are changed by different requests.                      *)
PausesAreConsistent == ValidateTarget(control.paused, openMode)

(* Every server that keeps running ends up with the stored revision and    *)
(* has applied it, whatever notifications and refreshes are lost.          *)
PausesConverge ==
    \A s \in Servers :
        <>[](gates[s].phase = "running")
            => <>[](gates[s].snapshot.revision = control.revision /\ gates[s].applied = control.revision)
-----------------------------------------------------------------------------
(* Inductive strengthenings.  A transaction that holds the registration    *)
(* lock is alone, and what it has validated is still true.                 *)
OperationInv ==
    /\ \A o, p \in Operators : operations[o] # NoOperation /\ operations[p] # NoOperation => o = p
    /\ \A o \in Operators :
          /\ operations[o].kind = "update" => ValidateTarget(operations[o].paused, openMode)
          /\ operations[o].kind = "registration" => ValidateTarget(control.paused, operations[o].open)

\* All copies of the stored state are earlier versions of it, and a revision names one of them.
Copies == {control, NoSnapshot} \cup {gates[s].snapshot : s \in Servers} \cup {loadings[s] : s \in Servers}
CopiesInv ==
    /\ \A x \in Copies : x.revision <= control.revision
    /\ \A x, y \in Copies : x.revision = y.revision => x = y

\* A gate has applied its revision only if no work is left that it pauses.
GateOK(g, inFlight) ==
    /\ g.applied <= g.snapshot.revision
    /\ g.applied = g.snapshot.revision => EffectiveAt(g.snapshot) \cap inFlight = {}
GatesInv ==
    \A s \in Servers : GateOK(gates[s], InFlight(s)) /\ (gates[s].phase # "running" => leases[s] = {})

\* Heartbeats and answers are never ahead of the servers they are about.
BeatOK(b, g) ==
    b.present => /\ g.phase \in {"running", "gone"}
                 /\ b.loaded <= g.snapshot.revision /\ b.applied <= g.applied
ReportOK(revision, g) ==
    /\ g.phase \in {"running", "gone"}
    /\ revision <= g.snapshot.revision /\ revision <= g.applied
ReportsInv ==
    /\ \A s \in Servers : BeatOK(beats[s], gates[s])
    /\ \A r \in reports : \A s \in r.servers : ReportOK(r.revision, gates[s])

ControlInv ==
    /\ ControlTypeOK /\ OperationInv /\ PausesAreConsistent
    /\ CopiesInv /\ GatesInv /\ ReportsInv
=============================================================================
