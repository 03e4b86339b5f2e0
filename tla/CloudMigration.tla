---------------------------- MODULE CloudMigration ----------------------------
(***************************************************************************)
(* VM allocation in dslab-iaas (CloudAllocation) together with migration:  *)
(* the user moves a VM to another host, or the migrator does.              *)
(***************************************************************************)
EXTENDS CloudAllocation

-----------------------------------------------------------------------------
(***************************************************************************)
(* Migration of VMs between the host managers of dslab-iaas                *)
(* (core/host_manager.rs).  The target allocates the VM and asks the       *)
(* source, once the memory is copied, to let it go; if the target has no   *)
(* room the request is dropped.  The placement store takes no part in it.  *)
(***************************************************************************)

VARIABLE migrationRequests
    \* how many MigrationRequest events are on their way, by target, source
    \* and VM

MigrationRequestsInit ==
    migrationRequests = [h \in Host |-> [g \in Host |-> [v \in Vm |-> 0]]]

\* requested[t][s][v]: what is asked for in one step
EmitMigrationRequests(requested) ==
    migrationRequests' =
      [t \in Host |-> [s \in Host |-> [v \in Vm |->
         migrationRequests[t][s][v] + requested[t][s][v]]]]

TakeMigrationRequest(target, source, v) ==
    /\ migrationRequests[target][source][v] > 0
    /\ migrationRequests' =
         [migrationRequests EXCEPT ![target][source][v] = @ - 1]

SetMigrationTimers(target, source, v) ==
    timers' = [timers EXCEPT ![target]["VMStarted"][v] = @ + 1,
                             ![source]["MigrationReleaseRequest"][v] = @ + 1]

AcceptMigration(target, source, v) ==
    /\ HostCanAllocate(target, v)
    /\ HostAllocate(target, v)
    /\ hostReport' = [hostReport EXCEPT ![target] =
         WithStatus(WithAdded(@, v), v, "Migrating")]
    /\ SetMigrationTimers(target, source, v)

\* Mutant: the source keeps the VM.
AcceptAndKeep(target, source, v) ==
    /\ TakeMigrationRequest(target, source, v)
    /\ \/ /\ HostCanAllocate(target, v)
          /\ HostAllocate(target, v)
          /\ hostReport' = [hostReport EXCEPT ![target] =
               WithStatus(WithAdded(@, v), v, "Migrating")]
          /\ SetTimer(target, "VMStarted", v)
       \/ ~ HostCanAllocate(target, v) /\ UNCHANGED <<hostVars, timers>>
    /\ UNCHANGED <<requests, commitRequests, hostNotices, toSched, creating,
                   toApi, toMonitoring>>

\* Mutant: the source is asked to let go although the target has no room.
ReleaseAnyway(target, source, v) ==
    /\ TakeMigrationRequest(target, source, v)
    /\ \/ AcceptMigration(target, source, v)
       \/ /\ ~ HostCanAllocate(target, v)
          /\ SetTimer(source, "MigrationReleaseRequest", v)
          /\ UNCHANGED hostVars
    /\ UNCHANGED <<requests, commitRequests, hostNotices, toSched, creating,
                   toApi, toMonitoring>>

OnMigrationRequest(target, source, v) ==
    /\ TakeMigrationRequest(target, source, v)
    /\ \/ AcceptMigration(target, source, v)
       \/ ~ HostCanAllocate(target, v) /\ UNCHANGED <<hostVars, timers>>
    /\ UNCHANGED <<requests, commitRequests, hostNotices, toSched, creating,
                   toApi, toMonitoring>>

-----------------------------------------------------------------------------
(***************************************************************************)
(* The component that migrates VMs off underloaded and overloaded hosts    *)
(* (extensions/vm_migrator.rs).  It looks at what was reported: the VMs of *)
(* each host to the monitoring, the statuses of VMs to the VM API.         *)
(*                                                                         *)
(* The load of a host depends on the load models of its VMs, so a host may *)
(* be found underloaded, overloaded or both (a CPU that is busy, a memory  *)
(* that is almost free), and any target may be the best fit.               *)
(***************************************************************************)

\* vms_to_migrate: running VMs of underloaded and of overloaded hosts.  A host
\* that is both is gone through twice, and so are its VMs.  seen: pairs of a VM
\* that is said to run and a host that it is listed on.
Candidates(seen) == {"underloaded", "overloaded"} \X seen

Target(m) == {m[c] : c \in DOMAIN m}
Source(m) == {c[2][2] : c \in DOMAIN m}

\* A round that moves n of the candidates, each to the host that fits best; the
\* others stay.  A host that was chosen as a target is no source in the same
\* round, nor is a source a target.
Rounds(seen, n) ==
    {m \in UNION {[moved -> hosts] : moved \in kSubset(n, Candidates(seen))} :
       Source(m) \cap Target(m) = {}}

NumberOfMoves(m, t, s, v) ==
    Cardinality({c \in DOMAIN m : m[c] = t /\ c[2] = <<v, s>>})

PerformMigrations(m) ==
    EmitMigrationRequests([t \in Host |-> [s \in Host |-> [v \in Vm |->
      NumberOfMoves(m, t, s, v)]]])

-----------------------------------------------------------------------------

CONSTANTS
    MaxMigrations,  \* bound: migrations asked for
    Askers          \* who asks for them: the user, the migrator

ASSUME MigrationAssumption ==
    MaxMigrations \in Nat /\ Askers \subseteq {"user", "migrator"}

\* The hosts and VMs of a simulation are created one by one.
ASSUME FiniteAssumption == IsFiniteSet(Host) /\ IsFiniteSet(Vm)

VARIABLES
    migrationsAsked,    \* how many
    orderly,            \* each was asked for when its VM was at rest
    ranOn,              \* hosts on which each VM has started: reports are
                        \* delayed, so each may still be taken for its host
    lifetimeOver        \* VMs whose lifetime has passed

migrationVars == <<migrationRequests, migrationsAsked, orderly, ranOn,
                   lifetimeOver>>
allVars == <<vars, migrationVars>>

MigrationInit ==
    /\ Init
    /\ MigrationRequestsInit
    /\ migrationsAsked = 0
    /\ orderly = TRUE
    /\ ranOn = [v \in Vm |-> {}]
    /\ lifetimeOver = {}

-----------------------------------------------------------------------------

TimersOf(v, h, types) == \E t \in types : timers[h][t][v] > 0

\* The VM runs there, and no earlier migration of it is under way.
AtRest(v, source) ==
    /\ v \in hostPool[source].allocations
    /\ \A h, g \in Host :
         /\ migrationRequests[h][g][v] = 0
         /\ ~ TimersOf(v, h, TimerType \ {"AllocationReleaseRequest"})

\* migrate_vm_to_host: the source is where the VM was last reported to run.
Migrate(v, source, target) ==
    /\ "user" \in Askers
    /\ migrationsAsked < MaxMigrations
    /\ source \in ranOn[v]
    /\ target \in hosts
    /\ EmitMigrationRequests([t \in Host |-> [s \in Host |-> [w \in Vm |->
         IF <<t, s, w>> = <<target, source, v>> THEN 1 ELSE 0]]])
    /\ migrationsAsked' = migrationsAsked + 1
    /\ orderly' = (orderly /\ AtRest(v, source) /\ target # source)
    /\ UNCHANGED <<vars, ranOn, lifetimeOver>>

MigratorStep ==
    /\ "migrator" \in Askers
    /\ \E n \in 1..(MaxMigrations - migrationsAsked) :
       \E m \in Rounds({x \in Vm \X Host : x[2] \in ranOn[x[1]]}, n) :
         /\ PerformMigrations(m)
         /\ migrationsAsked' = migrationsAsked + n
         /\ orderly' = (orderly /\ n = 1 /\ \A c \in DOMAIN m :
                          AtRest(c[2][1], c[2][2]))
    /\ UNCHANGED <<vars, ranOn, lifetimeOver>>

MigrationStep(target) ==
    /\ \E source \in Host, v \in Vm : OnMigrationRequest(target, source, v)
    /\ UNCHANGED <<registrations, apiVars, schedPool, storePool, monitored,
                   migrationsAsked, orderly, ranOn, lifetimeOver>>

\* on_vm_started takes off the lifetime what has passed since the last start,
\* so that the lifetime of a VM ends at the same moment on every host.
LifetimeEnds(v) ==
    /\ \E h \in Host : TimersOf(v, h, {"AllocationReleaseRequest"})
    /\ lifetimeOver' = lifetimeOver \cup {v}
    /\ v \notin lifetimeOver
    /\ UNCHANGED <<vars, migrationRequests, migrationsAsked, orderly, ranOn>>

\* The steps of CloudAllocation, with each lifetime timer fired on time.
AllocationStep ==
    /\ Next
    /\ LET before(h, v) == timers[h]["AllocationReleaseRequest"][v]
           after(h, v)  == timers'[h]["AllocationReleaseRequest"][v]
       IN /\ \A h \in Host, v \in Vm :
               after(h, v) < before(h, v) => v \in lifetimeOver
          /\ ranOn' = [v \in Vm |-> ranOn[v] \cup
               {h \in Host : after(h, v) > before(h, v)}]
    /\ UNCHANGED <<migrationRequests, migrationsAsked, orderly, lifetimeOver>>

MigrationNext ==
    \/ AllocationStep
    \/ \E v \in Vm, source, target \in Host : Migrate(v, source, target)
    \/ MigratorStep
    \/ \E h \in Host : MigrationStep(h)
    \/ \E v \in Vm : LifetimeEnds(v)

MigrationSpec == MigrationInit /\ [][MigrationNext]_allVars

-----------------------------------------------------------------------------

(* A VM never stays on a host for ever: while it is there, a timer pending *)
(* at that host leads to its end, however often it came and went           *)
(* (host_manager.rs, the chain VMStarted, AllocationReleaseRequest,        *)
(* VMDeleted that a stale timer must not break).                           *)
NoOrphans ==
    \A h \in Host : \A v \in hostPool[h].allocations :
      TimersOf(v, h, TimerType)

(* A VM is not lost: from its start to the end of its lifetime it is on    *)
(* some host, whether a migration is accepted or refused.  This takes      *)
(* migrations that are asked for one at a time and to another host.        *)
NotLost ==
    orderly =>
      \A v \in Vm \ lifetimeOver :
        (\E h \in Host : TimersOf(v, h, {"AllocationReleaseRequest"}))
          => \E h \in Host : v \in hostPool[h].allocations

(* With such migrations a VM is on two hosts only while one of them is     *)
(* about to let it go.                                                     *)
RunsOnce ==
    orderly =>
      \A v \in Vm, g, h \in Host :
        g # h /\ v \in hostPool[g].allocations /\ v \in hostPool[h].allocations
          => TimersOf(v, g, {"MigrationReleaseRequest", "VMDeleted"}) \/
             TimersOf(v, h, {"MigrationReleaseRequest", "VMDeleted"})

(* With such migrations the hosts account for exactly the VMs they run: a  *)
(* VM takes its demand once and gives it back once, although its release   *)
(* may be asked for by the end of its lifetime and by a migration          *)
(* (host_manager.rs, allocate and release).                                *)
HostBooksBalanced ==
    orderly => \A h \in Host : Balanced(hostPool[h], h)

(* A host accounts for the VMs it runs, whichever migrations are asked for *)
(* ("possesses a certain amount of resources", host_manager.rs).           *)
HostBooksAlwaysBalanced ==
    \A h \in Host : Balanced(hostPool[h], h)

(* The store's pool never offers more than a host has ("authoritative copy *)
(* of resource pool state", placement_store.rs).                           *)
AvailableWithinTotal ==
    \A h \in Host, r \in Resource : storePool[h].available[r] <= Capacity[h][r]
=============================================================================
