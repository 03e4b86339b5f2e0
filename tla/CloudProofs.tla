----------------------------- MODULE CloudProofs -----------------------------
(***************************************************************************)
(* VM allocation, for any number of hosts, schedulers and VMs, any         *)
(* capacities and demands: type correctness, then safety.  Then the life   *)
(* of a VM: its reported status only moves forward, allocation implements  *)
(* VmPlacement, and the monitoring learns which VMs are on which host.     *)
(* Then migration, for any migrations asked for: no VM stays on a host for *)
(* ever, and when migrations are asked for one at a time a VM is neither   *)
(* lost nor run twice and the hosts' books balance.                        *)
(***************************************************************************)
EXTENDS CloudMigration, FoldTheorems, FiniteSetTheorems, SequenceTheorems, TLAPS

-----------------------------------------------------------------------------
(* The resource pool.                                                      *)

(* The demand of any set of VMs is a natural number.                        *)
LEMMA UsageTyped ==
    ASSUME NEW r \in Resource, NEW S \in SUBSET Vm
    PROVE  Usage[r][S] \in Nat
  BY UsageAssumption

(* A larger set needs the demand of the rest on top.                        *)
LEMMA UsageSplits ==
    ASSUME NEW r \in Resource, NEW S \in SUBSET Vm, NEW T \in SUBSET S
    PROVE  Usage[r][S] = Usage[r][T] + Usage[r][S \ T]
  <1>1. T \cup (S \ T) = S /\ T \cap (S \ T) = {}
    OBVIOUS
  <1> QED BY <1>1, UsageAssumption

(* A larger set never needs less.                                           *)
LEMMA UsageMonotone ==
    ASSUME NEW r \in Resource, NEW S \in SUBSET Vm, NEW T \in SUBSET S
    PROVE  Usage[r][T] <= Usage[r][S]
  <1>1. Usage[r][S] = Usage[r][T] + Usage[r][S \ T]
    BY UsageSplits
  <1>2. T \in SUBSET Vm /\ S \ T \in SUBSET Vm
    OBVIOUS
  <1> QED BY <1>1, <1>2, UsageTyped

-----------------------------------------------------------------------------

LEMMA DemandTyped ==
    ASSUME NEW S \in SUBSET Vm
    PROVE  Demand(S) \in [Resource -> Nat]
  BY UsageTyped DEF Demand

LEMMA NewHostInfoTyped ==
    ASSUME NEW h \in Host
    PROVE  NewHostInfo(h) \in HostInfo
  BY CapacityAssumption DEF NewHostInfo, HostInfo

LEMMA TakeTyped ==
    ASSUME NEW info \in HostInfo, NEW d \in [Resource -> Nat]
    PROVE  /\ Take(info, d) \in HostInfo
           /\ Take(info, d).allocations = info.allocations
  <1>1. \A r \in Resource :
          /\ AvailableAfterTake(info.available[r], d[r]) \in Nat
          /\ OvercommitAfterTake(info.available[r], info.overcommit[r], d[r]) \in Nat
    BY DEF HostInfo, AvailableAfterTake, OvercommitAfterTake
  <1> QED BY <1>1 DEF Take, HostInfo

LEMMA GiveTyped ==
    ASSUME NEW info \in HostInfo, NEW d \in [Resource -> Nat]
    PROVE  /\ Give(info, d) \in HostInfo
           /\ Give(info, d).allocations = info.allocations
  <1>1. \A r \in Resource :
          /\ AvailableAfterGive(info.available[r], info.overcommit[r], d[r]) \in Nat
          /\ OvercommitAfterGive(info.overcommit[r], d[r]) \in Nat
    BY DEF HostInfo, AvailableAfterGive, OvercommitAfterGive
  <1> QED BY <1>1 DEF Give, HostInfo

LEMMA OccupyTyped ==
    ASSUME NEW info \in HostInfo, NEW S \in SUBSET Vm
    PROVE  /\ Occupy(info, S) \in HostInfo
           /\ Occupy(info, S).allocations = info.allocations \cup S
  <1>1. Demand(S) \in [Resource -> Nat]
    BY DemandTyped
  <1> QED BY <1>1, TakeTyped DEF Occupy, HostInfo

LEMMA AllocateTyped ==
    ASSUME NEW info \in HostInfo, NEW S \in SUBSET Vm
    PROVE  /\ Allocate(info, S) \in HostInfo
           /\ Allocate(info, S).allocations = info.allocations \cup S
  <1>1. /\ S \ info.allocations \in SUBSET Vm
        /\ info.allocations \cup (S \ info.allocations) = info.allocations \cup S
    OBVIOUS
  <1> QED BY <1>1, OccupyTyped DEF Allocate

LEMMA ReleaseTyped ==
    ASSUME NEW info \in HostInfo, NEW S \in SUBSET Vm
    PROVE  /\ Release(info, S) \in HostInfo
           /\ Release(info, S).allocations = info.allocations \ S
  <1>1. Demand(S) \in [Resource -> Nat]
    BY DemandTyped
  <1> QED BY <1>1, GiveTyped DEF Release, HostInfo

LEMMA AllocateAllTyped ==
    ASSUME NEW pool \in [Host -> HostInfo], NEW ids, NEW p, DOMAIN p \subseteq Vm
    PROVE  AllocateAll(pool, ids, p) \in [Host -> HostInfo]
  <1>1. \A h \in Host : PlacedOn(p, h) \in SUBSET Vm
    BY DEF PlacedOn
  <1> QED BY <1>1, AllocateTyped DEF AllocateAll

LEMMA ReleaseAllTyped ==
    ASSUME NEW pool \in [Host -> HostInfo], NEW ids, NEW p, DOMAIN p \subseteq Vm
    PROVE  ReleaseAll(pool, ids, p) \in [Host -> HostInfo]
  <1>1. \A h \in Host : PlacedOn(p, h) \in SUBSET Vm
    BY DEF PlacedOn
  <1> QED BY <1>1, ReleaseTyped DEF ReleaseAll

-----------------------------------------------------------------------------

(* A host that runs nothing is balanced.                                    *)
LEMMA NewHostInfoBalanced ==
    ASSUME NEW h \in Host
    PROVE  Balanced(NewHostInfo(h), h)
  BY CapacityAssumption, UsageAssumption
     DEF Balanced, Net, NewHostInfo

(* Taking an amount lowers what is available net of what is overcommitted   *)
(* by exactly that amount, and keeps one of the two at zero.                *)
LEMMA TakeNet ==
    ASSUME NEW info \in HostInfo, NEW d \in [Resource -> Nat], NEW r \in Resource,
           info.available[r] = 0 \/ info.overcommit[r] = 0
    PROVE  /\ Net(Take(info, d), r) = Net(info, r) - d[r]
           /\ Take(info, d).available[r] = 0 \/ Take(info, d).overcommit[r] = 0
  BY DEF Take, Net, HostInfo, AvailableAfterTake, OvercommitAfterTake

LEMMA GiveNet ==
    ASSUME NEW info \in HostInfo, NEW d \in [Resource -> Nat], NEW r \in Resource,
           info.available[r] = 0 \/ info.overcommit[r] = 0
    PROVE  /\ Net(Give(info, d), r) = Net(info, r) + d[r]
           /\ Give(info, d).available[r] = 0 \/ Give(info, d).overcommit[r] = 0
  BY DEF Give, Net, HostInfo, AvailableAfterGive, OvercommitAfterGive

(* VMs that are not there yet can take their demand.                        *)
LEMMA OccupyBalanced ==
    ASSUME NEW h \in Host, NEW info \in HostInfo, NEW S \in SUBSET Vm,
           S \cap info.allocations = {}, Balanced(info, h)
    PROVE  Balanced(Occupy(info, S), h)
  <1> DEFINE taken == Take(info, Demand(S))
  <1>1. info.allocations \in SUBSET Vm
    BY DEF HostInfo
  <1>2. Demand(S) \in [Resource -> Nat]
    BY DemandTyped
  <1>3. /\ Occupy(info, S).available = taken.available
        /\ Occupy(info, S).overcommit = taken.overcommit
        /\ Occupy(info, S).allocations = info.allocations \cup S
    BY <1>2, TakeTyped DEF Occupy, HostInfo
  <1> SUFFICES ASSUME NEW r \in Resource
               PROVE  /\ Net(taken, r)
                           = Capacity[h][r] - Usage[r][info.allocations \cup S]
                      /\ taken.available[r] = 0 \/ taken.overcommit[r] = 0
    BY <1>3 DEF Balanced, Net
  <1>4. /\ Net(taken, r) = Net(info, r) - Usage[r][S]
        /\ taken.available[r] = 0 \/ taken.overcommit[r] = 0
    BY <1>2, TakeNet DEF Balanced, Demand
  <1>5. Usage[r][info.allocations \cup S] = Usage[r][info.allocations] + Usage[r][S]
    BY <1>1, UsageAssumption
  <1>6. Net(info, r) = Capacity[h][r] - Usage[r][info.allocations]
    BY DEF Balanced
  <1> QED BY <1>1, <1>4, <1>5, <1>6, UsageTyped, CapacityAssumption

(* allocate keeps the books balanced, whatever is there already.            *)
LEMMA AllocateBalanced ==
    ASSUME NEW h \in Host, NEW info \in HostInfo, NEW S \in SUBSET Vm,
           Balanced(info, h)
    PROVE  Balanced(Allocate(info, S), h)
  BY OccupyBalanced DEF Allocate

(* release keeps the books balanced if what is released is there: it does   *)
(* not check that itself.                                                   *)
LEMMA ReleaseBalanced ==
    ASSUME NEW h \in Host, NEW info \in HostInfo,
           NEW S \in SUBSET info.allocations, Balanced(info, h)
    PROVE  Balanced(Release(info, S), h)
  <1> DEFINE given == Give(info, Demand(S))
  <1>1. info.allocations \in SUBSET Vm /\ S \in SUBSET Vm
    BY DEF HostInfo
  <1>2. Demand(S) \in [Resource -> Nat]
    BY <1>1, DemandTyped
  <1>3. /\ Release(info, S).available = given.available
        /\ Release(info, S).overcommit = given.overcommit
        /\ Release(info, S).allocations = info.allocations \ S
    BY <1>2, GiveTyped DEF Release, HostInfo
  <1> SUFFICES ASSUME NEW r \in Resource
               PROVE  /\ Net(given, r)
                           = Capacity[h][r] - Usage[r][info.allocations \ S]
                      /\ given.available[r] = 0 \/ given.overcommit[r] = 0
    BY <1>3 DEF Balanced, Net
  <1>4. /\ Net(given, r) = Net(info, r) + Usage[r][S]
        /\ given.available[r] = 0 \/ given.overcommit[r] = 0
    BY <1>2, GiveNet DEF Balanced, Demand
  <1>5. Usage[r][info.allocations] = Usage[r][S] + Usage[r][info.allocations \ S]
    BY <1>1, UsageSplits
  <1>6. Net(info, r) = Capacity[h][r] - Usage[r][info.allocations]
    BY DEF Balanced
  <1> QED BY <1>1, <1>4, <1>5, <1>6, UsageTyped, CapacityAssumption

\* What a balanced entry of a pool lists determines it.
LEMMA BalancedDetermined ==
    ASSUME NEW h \in Host, NEW info \in HostInfo, NEW other \in HostInfo,
           Balanced(info, h), Balanced(other, h), info.allocations = other.allocations
    PROVE  info = other
  <1>1. ASSUME NEW r \in Resource
        PROVE  info.available[r] = other.available[r] /\ info.overcommit[r] = other.overcommit[r]
    <2>1. /\ info.available[r] \in Nat /\ info.overcommit[r] \in Nat
          /\ other.available[r] \in Nat /\ other.overcommit[r] \in Nat
      BY DEF HostInfo
    <2>2. /\ info.available[r] - info.overcommit[r] = other.available[r] - other.overcommit[r]
          /\ info.available[r] = 0 \/ info.overcommit[r] = 0
          /\ other.available[r] = 0 \/ other.overcommit[r] = 0
      BY DEF Balanced, Net
    <2> QED BY <2>1, <2>2
  <1>2. info.available = other.available /\ info.overcommit = other.overcommit
    BY <1>1 DEF HostInfo
  <1> QED BY <1>2 DEF HostInfo

-----------------------------------------------------------------------------

(* One update for a set of VMs is the updates for its members, one after   *)
(* the other: taking (giving back) two amounts is taking (giving back)     *)
(* their sum, as long as nothing is both available and overcommitted.      *)
LEMMA TakeSplits ==
    ASSUME NEW info \in HostInfo, NEW c \in [Resource -> Nat],
           NEW d \in [Resource -> Nat],
           \A r \in Resource : info.available[r] = 0 \/ info.overcommit[r] = 0
    PROVE  Take(Take(info, c), d) = Take(info, [r \in Resource |-> c[r] + d[r]])
  <1>1. ASSUME NEW r \in Resource, NEW a \in Nat, NEW o \in Nat,
               a = 0 \/ o = 0
        PROVE  /\ AvailableAfterTake(AvailableAfterTake(a, c[r]), d[r])
                    = AvailableAfterTake(a, c[r] + d[r])
               /\ OvercommitAfterTake(AvailableAfterTake(a, c[r]),
                                      OvercommitAfterTake(a, o, c[r]), d[r])
                    = OvercommitAfterTake(a, o, c[r] + d[r])
    BY <1>1 DEF AvailableAfterTake, OvercommitAfterTake
  <1>2. \A r \in Resource : info.available[r] \in Nat /\ info.overcommit[r] \in Nat
    BY DEF HostInfo
  <1> QED BY <1>1, <1>2 DEF Take

LEMMA GiveSplits ==
    ASSUME NEW info \in HostInfo, NEW c \in [Resource -> Nat],
           NEW d \in [Resource -> Nat],
           \A r \in Resource : info.available[r] = 0 \/ info.overcommit[r] = 0
    PROVE  Give(Give(info, c), d) = Give(info, [r \in Resource |-> c[r] + d[r]])
  <1>1. ASSUME NEW r \in Resource, NEW a \in Nat, NEW o \in Nat,
               a = 0 \/ o = 0
        PROVE  /\ AvailableAfterGive(AvailableAfterGive(a, o, c[r]),
                                     OvercommitAfterGive(o, c[r]), d[r])
                    = AvailableAfterGive(a, o, c[r] + d[r])
               /\ OvercommitAfterGive(OvercommitAfterGive(o, c[r]), d[r])
                    = OvercommitAfterGive(o, c[r] + d[r])
    BY <1>1 DEF AvailableAfterGive, OvercommitAfterGive
  <1>2. \A r \in Resource : info.available[r] \in Nat /\ info.overcommit[r] \in Nat
    BY DEF HostInfo
  <1> QED BY <1>1, <1>2 DEF Give

-----------------------------------------------------------------------------
(* The allocation of VMs.                                                  *)

(* What a placement is: it places VMs, on hosts.                            *)
LEMMA PlacementTyped ==
    ASSUME NEW p \in Placement
    PROVE  /\ DOMAIN p \in Batch
           /\ DOMAIN p \subseteq Vm
           /\ \A v \in DOMAIN p : p[v] \in Host
           /\ \A h \in Host : PlacedOn(p, h) \in SUBSET Vm
  BY BatchAssumption DEF Placement, PlacedOn

LEMMA PlacementDomain ==
    ASSUME NEW p \in Placement \cup UNION {[{v} -> Host] : v \in Vm}
    PROVE  DOMAIN p \subseteq Vm
  <1>1. CASE p \in Placement
    BY <1>1, PlacementTyped
  <1>2. ASSUME NEW v \in Vm, p \in [{v} -> Host]
        PROVE  DOMAIN p \subseteq Vm
    BY <1>2
  <1> QED BY <1>1, <1>2

LEMMA SinglePlacementTyped ==
    ASSUME NEW v \in Vm, NEW h \in Host
    PROVE  /\ [w \in {v} |-> h] \in UNION {[{w} -> Host] : w \in Vm}
           /\ DOMAIN [w \in {v} |-> h] = {v}
           /\ \A g \in Host : PlacedOn([w \in {v} |-> h], g) = IF g = h THEN {v} ELSE {}
  <1>1. [w \in {v} |-> h] \in [{v} -> Host]
    OBVIOUS
  <1>2. [w \in {v} |-> h] \in UNION {[{w} -> Host] : w \in Vm}
    BY <1>1
  <1> QED BY <1>2 DEF PlacedOn

LEMMA MessageTyped ==
    ASSUME NEW s \in Sched,
           toSched \in [Sched -> Seq(SchedulerMessage)], toSched[s] # <<>>
    PROVE  /\ Head(toSched[s]) \in SchedulerMessage
           /\ Tail(toSched[s]) \in Seq(SchedulerMessage)
           /\ DOMAIN Head(toSched[s]).placement \subseteq Vm
  <1>1. Head(toSched[s]) \in SchedulerMessage /\ Tail(toSched[s]) \in Seq(SchedulerMessage)
    BY HeadTailProperties
  <1>2. Head(toSched[s]).placement \in Placement \cup UNION {[{v} -> Host] : v \in Vm}
    BY <1>1 DEF SchedulerMessage
  <1> QED BY <1>1, <1>2, PlacementDomain

-----------------------------------------------------------------------------

LEMMA EmptyReportTyped == EmptyReport \in Report
  <1>1. <<>> \in [{} -> Status]
    OBVIOUS
  <1>2. <<>> \in UNION {[S -> Status] : S \in SUBSET Vm}
    BY <1>1
  <1> QED BY <1>2 DEF EmptyReport, Report

LEMMA InitTyped == Init => TypeOK
  <1> SUFFICES ASSUME Init PROVE TypeOK
    OBVIOUS
  <1> USE DEF Init
  <1>1. FullPool \in [Host -> HostInfo]
    BY NewHostInfoTyped DEF FullPool
  <1>2. EventsTypeOK
    BY SetupAssumption DEF EventsTypeOK, EventsInit
  <1>3. ApiTypeOK
    BY DEF ApiTypeOK, ApiInit, Deadline
  <1>4. HostsTypeOK
    BY EmptyReportTyped, NewHostInfoTyped DEF HostsTypeOK, HostsInit
  <1> QED BY <1>1, <1>2, <1>3, <1>4 DEF TypeOK

-----------------------------------------------------------------------------
(* The user's calls.                                                       *)

LEMMA NewVmsTyped ==
    ASSUME TypeOK, NEW S, RegisterNewVms(S)
    PROVE  ApiTypeOK'
  BY DEF RegisterNewVms, TypeOK, ApiTypeOK, Status

LEMMA NotifyAllTyped ==
    ASSUME TypeOK, NEW m \in SchedulerMessage, NotifyAll(scheds, m)
    PROVE  toSched' \in [Sched -> Seq(SchedulerMessage)]
  <1>1. \A s \in Sched : Append(toSched[s], m) \in Seq(SchedulerMessage)
    BY AppendProperties DEF TypeOK, EventsTypeOK
  <1> QED BY <1>1 DEF NotifyAll, TypeOK, EventsTypeOK

LEMMA CommitTyped ==
    ASSUME TypeOK, NEW p \in Placement \cup UNION {[{v} -> Host] : v \in Vm},
           Commit(p)
    PROVE  /\ storePool' \in [Host -> HostInfo]
           /\ creating' \in [Host -> SUBSET Vm]
           /\ toSched' \in [Sched -> Seq(SchedulerMessage)]
  <1>1. DOMAIN p \subseteq Vm /\ \A h \in Host : PlacedOn(p, h) \in SUBSET Vm
    BY PlacementDomain DEF PlacedOn
  <1>2. storePool' \in [Host -> HostInfo]
    BY <1>1, AllocateAllTyped DEF Commit, TypeOK
  <1>3. creating' \in [Host -> SUBSET Vm]
    BY <1>1 DEF Commit, TypeOK, EventsTypeOK
  <1>4. [type |-> "AllocationCommitSucceeded", placement |-> p] \in SchedulerMessage
    BY DEF SchedulerMessage
  <1>5. toSched' \in [Sched -> Seq(SchedulerMessage)]
    BY <1>4, NotifyAllTyped DEF Commit
  <1> QED BY <1>2, <1>3, <1>5

LEMMA UserStepTyped ==
    ASSUME TypeOK, UserStep
    PROVE  TypeOK'
  <1>1. ASSUME NEW s \in Sched, NEW b \in Batch, SpawnVms(s, b)
        PROVE  TypeOK'
    <2>1. ApiTypeOK'
      BY <1>1, NewVmsTyped DEF SpawnVms
    <2>2. requests' \in [Sched -> SUBSET Batch]
      BY <1>1 DEF SpawnVms, TypeOK, EventsTypeOK
    <2> QED BY <1>1, <2>1, <2>2 DEF SpawnVms, TypeOK, EventsTypeOK, HostsTypeOK,
              registrations, hostVars
  <1>2. ASSUME NEW v \in DirectVm, NEW h \in Host, SpawnVmOnHost(v, h)
        PROVE  TypeOK'
    <2>1. ApiTypeOK'
      BY <1>2, NewVmsTyped DEF SpawnVmOnHost
    <2>2. v \in Vm
      BY SetupAssumption
    <2>3. [w \in {v} |-> h] \in UNION {[{w} -> Host] : w \in Vm}
      BY <2>2, SinglePlacementTyped
    <2>4. /\ storePool' \in [Host -> HostInfo]
          /\ creating' \in [Host -> SUBSET Vm]
          /\ toSched' \in [Sched -> Seq(SchedulerMessage)]
      <3>1. CASE Commit([w \in {v} |-> h])
        BY <2>3, <3>1, CommitTyped
      <3>2. CASE UNCHANGED <<storePool, creating, toSched>>
        BY <3>2 DEF TypeOK, EventsTypeOK
      <3> QED BY <1>2, <3>1, <3>2 DEF SpawnVmOnHost, DirectCommit
    <2> QED BY <1>2, <2>1, <2>4
            DEF SpawnVmOnHost, DirectCommit, TypeOK, EventsTypeOK, HostsTypeOK,
                registrations, hostVars
  <1>3. ASSUME NEW h \in LateHosts, AddHost(h)
        PROVE  TypeOK'
    <2>1. hosts' \subseteq Host
      BY <1>3, SetupAssumption DEF AddHost, TypeOK, EventsTypeOK
    <2> QED BY <1>3, <2>1 DEF AddHost, TypeOK, EventsTypeOK, ApiTypeOK, HostsTypeOK,
              inboxes, apiVars, hostVars
  <1>4. ASSUME NEW s \in Sched, AddScheduler(s)
        PROVE  TypeOK'
    BY <1>4 DEF AddScheduler, TypeOK, EventsTypeOK, ApiTypeOK, HostsTypeOK,
                inboxes, apiVars, hostVars
  <1> QED BY <1>1, <1>2, <1>3, <1>4 DEF UserStep

-----------------------------------------------------------------------------
(* The schedulers.                                                         *)

LEMMA ViewAfterTyped ==
    ASSUME NEW pool \in [Host -> HostInfo], NEW m \in SchedulerMessage
    PROVE  ViewAfter(pool, m) \in [Host -> HostInfo]
  <1>1. m.placement \in Placement \cup UNION {[{v} -> Host] : v \in Vm}
    BY DEF SchedulerMessage
  <1>2. DOMAIN m.placement \subseteq Vm
    BY <1>1, PlacementDomain
  <1> QED BY <1>2, AllocateAllTyped, ReleaseAllTyped DEF ViewAfter

LEMMA StatusesTyped ==
    ASSUME TypeOK, NEW src, NEW statuses, EmitStatuses(src, statuses),
           [statuses |-> statuses, src |-> src] \in StatusUpdate
    PROVE  toApi' \in Seq(StatusUpdate)
  BY AppendProperties DEF EmitStatuses, TypeOK, EventsTypeOK

LEMMA SchedulerStepTyped ==
    ASSUME TypeOK, NEW s \in Sched, SchedulerStep(s)
    PROVE  TypeOK'
  <1>1. ASSUME NEW b \in Batch, TimeOutRequest(s, b)
        PROVE  TypeOK'
    <2>1. requests' \in [Sched -> SUBSET Batch]
      BY <1>1 DEF TimeOutRequest, TypeOK, EventsTypeOK
    <2>2. [statuses |-> [v \in b |-> "FailedToAllocate"], src |-> s] \in StatusUpdate
      <3>1. [v \in b |-> "FailedToAllocate"]
              \in UNION {[c -> {"FailedToAllocate"}] : c \in Batch}
        OBVIOUS
      <3> QED BY <3>1 DEF StatusUpdate
    <2>3. toApi' \in Seq(StatusUpdate)
      BY <1>1, <2>2, StatusesTyped DEF TimeOutRequest
    <2> QED BY <1>1, <2>1, <2>3 DEF TimeOutRequest, SchedulerStep, TypeOK,
              EventsTypeOK, ApiTypeOK, HostsTypeOK, registrations, hostVars
  <1>2. ASSUME NEW b \in Batch, PlaceRequest(s, b)
        PROVE  TypeOK'
    <2>1. PICK p \in [b -> Host] :
            /\ schedPool' = [schedPool EXCEPT ![s] = AllocateAll(@, hosts, p)]
            /\ commitRequests' =
                 commitRequests \cup {[placement |-> p, from |-> s]}
      BY <1>2 DEF PlaceRequest
    <2>2. p \in Placement
      BY DEF Placement
    <2>3. commitRequests' \subseteq CommitRequest
      BY <2>1, <2>2 DEF TypeOK, EventsTypeOK, CommitRequest
    <2>4. schedPool' \in [Sched -> [Host -> HostInfo]]
      <3>1. AllocateAll(schedPool[s], hosts, p) \in [Host -> HostInfo]
        BY <2>2, PlacementTyped, AllocateAllTyped DEF TypeOK
      <3> QED BY <2>1, <3>1 DEF TypeOK
    <2>5. requests' \in [Sched -> SUBSET Batch]
      BY <1>2 DEF PlaceRequest, TypeOK, EventsTypeOK
    <2>6. deadline' \in [Batch -> Deadline]
      BY <1>2 DEF PlaceRequest, StartDeadline, TypeOK, ApiTypeOK, Deadline
    <2> QED BY <1>2, <2>3, <2>4, <2>5, <2>6 DEF PlaceRequest, SchedulerStep, TypeOK,
              EventsTypeOK, ApiTypeOK, HostsTypeOK, registrations, hostVars
  <1>3. ASSUME NEW b \in Batch, RetryRequest(s, b)
        PROVE  TypeOK'
    <2>1. deadline' \in [Batch -> Deadline]
      BY <1>3 DEF RetryRequest, StartDeadline, TypeOK, ApiTypeOK, Deadline
    <2> QED BY <1>3, <2>1 DEF RetryRequest, SchedulerStep, TypeOK, EventsTypeOK,
              ApiTypeOK, HostsTypeOK, registrations, inboxes, hostVars
  <1>4. ASSUME OnStoreNotification(s)
        PROVE  TypeOK'
    <2>1. /\ Head(toSched[s]) \in SchedulerMessage
          /\ Tail(toSched[s]) \in Seq(SchedulerMessage)
      BY <1>4, MessageTyped DEF OnStoreNotification, TypeOK, EventsTypeOK
    <2>2. ViewAfter(schedPool[s], Head(toSched[s])) \in [Host -> HostInfo]
      BY <2>1, ViewAfterTyped DEF TypeOK
    <2>3. schedPool' \in [Sched -> [Host -> HostInfo]]
      BY <1>4, <2>2 DEF OnStoreNotification, TypeOK
    <2>4. toSched' \in [Sched -> Seq(SchedulerMessage)]
      BY <1>4, <2>1 DEF OnStoreNotification, TypeOK, EventsTypeOK
    <2> QED BY <1>4, <2>3, <2>4 DEF OnStoreNotification, SchedulerStep, TypeOK,
              EventsTypeOK, ApiTypeOK, HostsTypeOK, registrations, hostVars
  <1> QED BY <1>1, <1>2, <1>3, <1>4 DEF SchedulerStep, OnAllocationRequest

-----------------------------------------------------------------------------
(* The placement store.                                                    *)

LEMMA StoreStepTyped ==
    ASSUME TypeOK, StoreStep
    PROVE  TypeOK'
  <1>1. ASSUME NEW m \in commitRequests, OnCommitRequest(m)
        PROVE  TypeOK'
    <2>1. m \in CommitRequest /\ m.placement \in Placement /\ m.from \in Sched
      BY DEF TypeOK, EventsTypeOK, CommitRequest
    <2>2. /\ storePool' \in [Host -> HostInfo]
          /\ creating' \in [Host -> SUBSET Vm]
          /\ toSched' \in [Sched -> Seq(SchedulerMessage)]
          /\ requests' \in [Sched -> SUBSET Batch]
      <3>1. CASE Commit(m.placement) /\ UNCHANGED requests
        BY <2>1, <3>1, CommitTyped DEF TypeOK, EventsTypeOK
      <3>2. CASE Reject(m.placement, m.from)
        <4>1. [type |-> "AllocationCommitFailed", placement |-> m.placement]
                \in SchedulerMessage
          BY <2>1 DEF SchedulerMessage
        <4>2. Append(toSched[m.from],
                     [type |-> "AllocationCommitFailed", placement |-> m.placement])
                \in Seq(SchedulerMessage)
          BY <2>1, <4>1, AppendProperties DEF TypeOK, EventsTypeOK
        <4>3. DOMAIN m.placement \in Batch
          BY <2>1, PlacementTyped
        <4> QED BY <2>1, <3>2, <4>2, <4>3 DEF Reject, TypeOK, EventsTypeOK
      <3> QED BY <1>1, <3>1, <3>2 DEF OnCommitRequest
    <2>3. commitRequests' \subseteq CommitRequest
      BY <1>1 DEF OnCommitRequest, TypeOK, EventsTypeOK
    <2> QED BY <1>1, <2>2, <2>3 DEF OnCommitRequest, StoreStep, TypeOK, EventsTypeOK,
              ApiTypeOK, HostsTypeOK, registrations, apiVars, hostVars
  <1>2. ASSUME NEW n \in hostNotices, OnHostNotice(n)
        PROVE  TypeOK'
    <2> DEFINE p == [v \in {n.vm} |-> n.host]
    <2>1. n.vm \in Vm /\ n.host \in Host
          /\ n.type \in {"AllocationFailed", "AllocationReleased"}
      BY DEF TypeOK, EventsTypeOK, HostNotice
    <2>2. p \in UNION {[{v} -> Host] : v \in Vm} /\ DOMAIN p \subseteq Vm
      BY <2>1, SinglePlacementTyped
    <2>3. storePool' \in [Host -> HostInfo]
      BY <1>2, <2>2, ReleaseAllTyped DEF OnHostNotice, TypeOK
    <2>4. [type |-> n.type, placement |-> p] \in SchedulerMessage
      BY <2>1, <2>2 DEF SchedulerMessage
    <2>5. toSched' \in [Sched -> Seq(SchedulerMessage)]
      BY <1>2, <2>4, NotifyAllTyped DEF OnHostNotice
    <2>6. hostNotices' \subseteq HostNotice
      BY <1>2 DEF OnHostNotice, TypeOK, EventsTypeOK
    <2> QED BY <1>2, <2>3, <2>5, <2>6 DEF OnHostNotice, StoreStep, TypeOK, EventsTypeOK,
              ApiTypeOK, HostsTypeOK, registrations, apiVars, hostVars
  <1> QED BY <1>1, <1>2 DEF StoreStep, OnAllocationFailed, OnAllocationReleased

-----------------------------------------------------------------------------
(* The hosts.                                                              *)

LEMMA TimersTyped ==
    ASSUME TypeOK, NEW h \in Host, NEW v \in Vm, NEW t \in TimerType,
           NEW u \in TimerType,
           \/ SetTimer(h, t, v)
           \/ TimerFires(h, t, v)
           \/ TimerFiresAndSets(h, t, u, v) /\ t # u
    PROVE  timers' \in [Host -> [TimerType -> [Vm -> Nat]]]
  <1> USE DEF TypeOK, EventsTypeOK
  <1>1. CASE SetTimer(h, t, v)
    BY <1>1 DEF SetTimer
  <1>2. CASE TimerFires(h, t, v)
    BY <1>2 DEF TimerFires
  <1>3. CASE TimerFiresAndSets(h, t, u, v) /\ t # u
    BY <1>3 DEF TimerFiresAndSets
  <1> QED BY <1>1, <1>2, <1>3

LEMMA ReportTyped ==
    ASSUME NEW report \in Report, NEW v \in Vm, NEW status \in Status
    PROVE  /\ WithStatus(report, v, status) \in Report
           /\ WithAdded(report, v) \in Report
           /\ WithRemoved(report, v) \in Report
  <1>1. PICK S \in SUBSET Vm : report.statuses \in [S -> Status]
    BY DEF Report
  <1>2. [w \in DOMAIN report.statuses \cup {v} |->
           IF w = v THEN status ELSE report.statuses[w]] \in [S \cup {v} -> Status]
    BY <1>1
  <1>3. [w \in DOMAIN report.statuses \cup {v} |->
           IF w = v THEN status ELSE report.statuses[w]]
          \in UNION {[T -> Status] : T \in SUBSET Vm}
    <2>1. S \cup {v} \in SUBSET Vm
      OBVIOUS
    <2> QED BY <1>2, <2>1
  <1> QED BY <1>3 DEF WithStatus, WithAdded, WithRemoved, Report

LEMMA HostAllocateTyped ==
    ASSUME TypeOK, NEW h \in Host, NEW v \in Vm, HostAllocate(h, v)
    PROVE  /\ hostPool' \in [Host -> HostInfo]
           /\ hostAllocated' \in [Host -> [Resource -> Int]]
  <1> DEFINE amount(r) == IF hostPool[h].available[r] < Usage[r][{v}]
                          THEN Capacity[h][r]
                          ELSE hostAllocated[h][r] + Usage[r][{v}]
  <1>1. Occupy(hostPool[h], {v}) \in HostInfo
    BY OccupyTyped DEF TypeOK, HostsTypeOK
  <1>2. \A r \in Resource : amount(r) \in Int
    <2> TAKE r \in Resource
    <2>1. /\ Usage[r][{v}] \in Int
          /\ Capacity[h][r] \in Int
          /\ hostAllocated[h][r] \in Int
      BY UsageTyped, CapacityAssumption DEF TypeOK, HostsTypeOK
    <2> QED BY <2>1
  <1>3. /\ hostPool' = [hostPool EXCEPT ![h] = Occupy(@, {v})]
        /\ hostAllocated' = [hostAllocated EXCEPT ![h] = [r \in Resource |-> amount(r)]]
    BY DEF HostAllocate
  <1> HIDE DEF amount
  <1> QED BY <1>1, <1>2, <1>3 DEF TypeOK, HostsTypeOK

LEMMA HostReleaseTyped ==
    ASSUME TypeOK, NEW h \in Host, NEW v \in Vm, HostRelease(h, v)
    PROVE  /\ hostPool' \in [Host -> HostInfo]
           /\ hostAllocated' \in [Host -> [Resource -> Int]]
  <1> DEFINE amount(r) == IF hostPool[h].overcommit[r] >= Usage[r][{v}]
                          THEN hostAllocated[h][r]
                          ELSE hostAllocated[h][r]
                                 - (Usage[r][{v}] - hostPool[h].overcommit[r])
  <1>1. Release(hostPool[h], {v}) \in HostInfo
    BY ReleaseTyped DEF TypeOK, HostsTypeOK
  <1>2. \A r \in Resource : amount(r) \in Int
    <2> TAKE r \in Resource
    <2>1. /\ Usage[r][{v}] \in Int
          /\ hostPool[h].overcommit[r] \in Int
          /\ hostAllocated[h][r] \in Int
      BY UsageTyped DEF TypeOK, HostsTypeOK, HostInfo
    <2> QED BY <2>1
  <1>3. /\ hostPool' = [hostPool EXCEPT ![h] = Release(@, {v})]
        /\ hostAllocated' = [hostAllocated EXCEPT ![h] = [r \in Resource |-> amount(r)]]
    BY DEF HostRelease
  <1> HIDE DEF amount
  <1> QED BY <1>1, <1>2, <1>3 DEF TypeOK, HostsTypeOK

LEMMA VmStepTyped ==
    ASSUME TypeOK, NEW h \in Host, NEW v \in Vm, VmStep(h, v),
           UNCHANGED registrations
    PROVE  EventsTypeOK' /\ HostsTypeOK'
  <1> USE DEF registrations
  <1> DEFINE reported(status) == WithStatus(hostReport[h], v, status)
  <1>0. /\ hostReport[h] \in Report /\ hostReport \in [Host -> Report]
        /\ \A status \in Status : reported(status) \in Report
    BY ReportTyped DEF TypeOK, HostsTypeOK
  <1> HIDE DEF reported
  <1>1. CASE OnVmCreateRequest(h, v)
    <2>1. creating' \in [Host -> SUBSET Vm]
      BY <1>1 DEF OnVmCreateRequest, TypeOK, EventsTypeOK
    <2>2. CASE /\ HostAllocate(h, v)
               /\ hostReport' = [hostReport EXCEPT ![h] =
                    WithStatus(WithAdded(@, v), v, "Initializing")]
               /\ SetTimer(h, "VMStarted", v)
               /\ UNCHANGED hostNotices
      <3>1. hostReport' \in [Host -> Report]
        <4>1. WithStatus(WithAdded(hostReport[h], v), v, "Initializing") \in Report
          BY <1>0, ReportTyped DEF Status
        <4> QED BY <1>0, <2>2, <4>1
      <3>2. timers' \in [Host -> [TimerType -> [Vm -> Nat]]]
        BY <2>2, TimersTyped DEF TimerType
      <3> QED BY <1>1, <2>1, <2>2, <3>1, <3>2, HostAllocateTyped
              DEF OnVmCreateRequest, TypeOK, EventsTypeOK, HostsTypeOK
    <2>3. CASE /\ hostNotices' = hostNotices \cup
                    {[type |-> "AllocationFailed", vm |-> v, host |-> h]}
               /\ UNCHANGED <<hostVars, timers>>
      <3>1. hostNotices' \subseteq HostNotice
        BY <2>3 DEF TypeOK, EventsTypeOK, HostNotice
      <3> QED BY <1>1, <2>1, <2>3, <3>1
              DEF OnVmCreateRequest, TypeOK, EventsTypeOK, HostsTypeOK, hostVars
    <2> QED BY <1>1, <2>2, <2>3 DEF OnVmCreateRequest
  <1>2. CASE OnVmStarted(h, v)
    <2>1. hostReport' \in [Host -> Report]
      BY <1>0, <1>2 DEF OnVmStarted, Status, reported
    <2>2. timers' \in [Host -> [TimerType -> [Vm -> Nat]]]
      BY <1>2, TimersTyped DEF OnVmStarted, TimerType, ReleaseType
    <2> QED BY <1>2, <2>1, <2>2 DEF OnVmStarted, TypeOK, EventsTypeOK, HostsTypeOK
  <1>3. ASSUME NEW t \in ReleaseType, OnAllocationReleaseRequest(h, v, t)
        PROVE  EventsTypeOK' /\ HostsTypeOK'
    <2>1. hostReport' \in [Host -> Report]
      BY <1>0, <1>3 DEF OnAllocationReleaseRequest, Status, reported
    <2>2. timers' \in [Host -> [TimerType -> [Vm -> Nat]]]
      BY <1>3, TimersTyped DEF OnAllocationReleaseRequest, TimerType, ReleaseType
    <2> QED BY <1>3, <2>1, <2>2
            DEF OnAllocationReleaseRequest, TypeOK, EventsTypeOK, HostsTypeOK
  <1>4. CASE OnVmDeleted(h, v)
    <2>1. timers' \in [Host -> [TimerType -> [Vm -> Nat]]]
      BY <1>4, TimersTyped DEF OnVmDeleted, TimerType
    <2>2. CASE /\ HostRelease(h, v)
               /\ hostReport' = [hostReport EXCEPT ![h] = WithRemoved(@, v)]
               /\ hostNotices' = hostNotices \cup
                    {[type |-> "AllocationReleased", vm |-> v, host |-> h]}
      <3>1. hostReport' \in [Host -> Report]
        BY <2>2, ReportTyped DEF TypeOK, HostsTypeOK, Status
      <3>2. hostNotices' \subseteq HostNotice
        BY <2>2 DEF TypeOK, EventsTypeOK, HostNotice
      <3> QED BY <1>4, <2>1, <2>2, <3>1, <3>2, HostReleaseTyped
              DEF OnVmDeleted, TypeOK, EventsTypeOK, HostsTypeOK
    <2>3. CASE UNCHANGED <<hostVars, hostNotices>>
      BY <1>4, <2>1, <2>3
         DEF OnVmDeleted, TypeOK, EventsTypeOK, HostsTypeOK, hostVars
    <2> QED BY <1>4, <2>2, <2>3 DEF OnVmDeleted
  <1> QED BY <1>1, <1>2, <1>3, <1>4 DEF VmStep

LEMMA HostStepTyped ==
    ASSUME TypeOK, NEW h \in Host, HostStep(h)
    PROVE  TypeOK'
  <1>1. ASSUME NEW v \in Vm, VmStep(h, v)
        PROVE  EventsTypeOK' /\ HostsTypeOK'
    BY <1>1, VmStepTyped DEF HostStep
  <1>2. ASSUME SendHostState(h)
        PROVE  EventsTypeOK' /\ HostsTypeOK'
    <2> DEFINE m == [host |-> h, added |-> hostReport[h].added,
                     removed |-> hostReport[h].removed]
    <2>1. /\ hostReport[h] \in Report
          /\ hostReport[h].statuses \in UNION {[S -> Status] : S \in SUBSET Vm}
          /\ m \in HostStateUpdate
      BY DEF TypeOK, HostsTypeOK, Report, HostStateUpdate
    <2>2. toMonitoring' \in Seq(HostStateUpdate)
      BY <1>2, <2>1, AppendProperties DEF SendHostState, TypeOK, EventsTypeOK
    <2>3. toApi' \in Seq(StatusUpdate)
      <3>1. [statuses |-> hostReport[h].statuses, src |-> h] \in StatusUpdate
        BY <2>1 DEF StatusUpdate
      <3> QED BY <1>2, <3>1, StatusesTyped DEF SendHostState, TypeOK, EventsTypeOK
    <2>4. hostReport' \in [Host -> Report]
      <3>1. EmptyReport \in Report
        BY EmptyReportTyped
      <3> QED BY <1>2, <3>1 DEF SendHostState, TypeOK, HostsTypeOK
    <2> QED BY <1>2, <2>2, <2>3, <2>4 DEF SendHostState, HostStep, TypeOK, EventsTypeOK,
              HostsTypeOK, registrations
  <1>3. EventsTypeOK' /\ HostsTypeOK'
    BY <1>1, <1>2 DEF HostStep
  <1> QED BY <1>3 DEF HostStep, TypeOK, ApiTypeOK, apiVars

-----------------------------------------------------------------------------
(* The VM API and the monitoring.                                          *)

LEMMA StatusUpdateTyped ==
    ASSUME NEW update \in StatusUpdate
    PROVE  \A v \in DOMAIN update.statuses :
             /\ update.statuses[v] \in Status
             /\ update.statuses[v] = "Running" => update.src \in Host
  <1>1. CASE update \in [statuses : UNION {[S -> Status] : S \in SUBSET Vm},
                         src : Host]
    <2>1. PICK S \in SUBSET Vm : update.statuses \in [S -> Status]
      BY <1>1
    <2> QED BY <1>1, <2>1
  <1>2. CASE update \in [statuses : UNION {[b -> {"FailedToAllocate"}] : b \in Batch},
                         src : Sched]
    <2>1. PICK b \in Batch : update.statuses \in [b -> {"FailedToAllocate"}]
      BY <1>2
    <2> QED BY <2>1 DEF Status
  <1> QED BY <1>1, <1>2 DEF StatusUpdate

LEMMA ApiStepTyped ==
    ASSUME TypeOK, ApiStep
    PROVE  TypeOK'
  <1>1. ASSUME OnVmStatusChanged
        PROVE  TypeOK'
    <2> DEFINE update == Head(toApi)
    <2>1. update \in StatusUpdate /\ toApi' \in Seq(StatusUpdate)
      BY <1>1, HeadTailProperties DEF OnVmStatusChanged, TypeOK, EventsTypeOK
    <2>2. \A v \in DOMAIN update.statuses :
            /\ update.statuses[v] \in Status
            /\ update.statuses[v] = "Running" => update.src \in Host
      BY <2>1, StatusUpdateTyped
    <2>3. vmStatus' \in [Vm -> Status \cup {"Unregistered"}]
      BY <1>1, <2>2 DEF OnVmStatusChanged, TypeOK, ApiTypeOK
    <2>4. vmLocation' \in [Vm -> Host \cup {"none"}]
      BY <1>1, <2>2 DEF OnVmStatusChanged, TypeOK, ApiTypeOK
    <2> QED BY <1>1, <2>1, <2>3, <2>4 DEF OnVmStatusChanged, ApiStep, TypeOK,
              EventsTypeOK, ApiTypeOK, HostsTypeOK, registrations, hostVars
  <1>2. ASSUME NEW b \in Batch, DeadlinePasses(b)
        PROVE  TypeOK'
    <2>1. deadline' \in [Batch -> Deadline]
      BY <1>2 DEF DeadlinePasses, TypeOK, ApiTypeOK, Deadline
    <2> QED BY <1>2, <2>1 DEF DeadlinePasses, ApiStep, TypeOK, EventsTypeOK,
              ApiTypeOK, HostsTypeOK, registrations, inboxes, hostVars
  <1> QED BY <1>1, <1>2 DEF ApiStep

LEMMA MonitoringStepTyped ==
    ASSUME TypeOK, MonitoringStep
    PROVE  TypeOK'
  <1> DEFINE m == Head(toMonitoring)
  <1>1. m \in HostStateUpdate /\ toMonitoring' \in Seq(HostStateUpdate)
    BY HeadTailProperties
       DEF MonitoringStep, OnHostStateUpdate, TypeOK, EventsTypeOK
  <1>2. monitored' \in [Host -> SUBSET Vm]
    <2>1. AfterUpdate(monitored[m.host], m) \in SUBSET Vm /\ m.host \in Host
      BY <1>1 DEF AfterUpdate, HostStateUpdate, TypeOK
    <2>2. monitored' = [monitored EXCEPT ![m.host] = AfterUpdate(@, m)]
      BY DEF MonitoringStep, OnHostStateUpdate, MonitoredAfter
    <2> QED BY <2>1, <2>2 DEF TypeOK
  <1> QED BY <1>1, <1>2 DEF MonitoringStep, OnHostStateUpdate, TypeOK, EventsTypeOK,
            ApiTypeOK, HostsTypeOK, registrations, apiVars, hostVars

-----------------------------------------------------------------------------

LEMMA StutterTyped ==
    ASSUME TypeOK, UNCHANGED vars
    PROVE  TypeOK'
  BY DEF vars, registrations, inboxes, apiVars, hostVars, TypeOK, EventsTypeOK,
         ApiTypeOK, HostsTypeOK

LEMMA NextTyped ==
    ASSUME TypeOK, [Next]_vars
    PROVE  TypeOK'
  BY UserStepTyped, SchedulerStepTyped, StoreStepTyped, HostStepTyped, ApiStepTyped,
     MonitoringStepTyped, StutterTyped DEF Next

(* Every message, pool and counter keeps its type: available and overcommit *)
(* amounts never go below zero, no component addresses an unknown one, and  *)
(* only hosts become the location of a VM.                                  *)
THEOREM TypeCorrect == Spec => []TypeOK
  <1>1. Init => TypeOK
    BY InitTyped
  <1>2. TypeOK /\ [Next]_vars => TypeOK'
    BY NextTyped
  <1> QED BY <1>1, <1>2, PTL DEF Spec

-----------------------------------------------------------------------------
(* Safety: AllocationInv is inductive (together with TypeOK), and with it the *)
(* resource accounting is.                                                    *)

(* Steps that move no VM from one component to another.                     *)
LEMMA NothingMoves ==
    ASSUME AllocationInv, hosts \subseteq hosts', Registered \subseteq Registered',
           UNCHANGED <<requests, commitRequests, hostNotices, creating, storePool>>,
           hostPool' = hostPool
    PROVE  AllocationInv'
  <1> USE DEF AllocationInv
  <1>1. \A v \in Vm : /\ Requested(v)' = Requested(v)
                      /\ Committing(v)' = Committing(v)
                      /\ Allocated(v)' <=> Allocated(v)
    BY DEF Requested, Committing, Allocated
  <1>2. OneHolder'
    BY <1>1 DEF OneHolder
  <1>3. \A h \in Host : InNotices(h)' = InNotices(h)
    BY DEF InNotices
  <1>4. StoreHostAgreement'
    BY <1>3 DEF StoreHostAgreement
  <1>5. NewVmsAreNowhere'
    BY <1>1 DEF NewVmsAreNowhere
  <1>6. OnKnownHosts' /\ OneNotice'
    BY DEF OnKnownHosts, OneNotice
  <1> QED BY <1>2, <1>4, <1>5, <1>6

LEMMA RegisteredStays ==
    ASSUME UNCHANGED vmStatus
    PROVE  Registered' = Registered
  BY DEF Registered

-----------------------------------------------------------------------------
(* The user's calls.                                                       *)

LEMMA SpawnVmsSafe ==
    ASSUME TypeOK, AllocationInv, NEW s \in Sched, NEW b \in Batch, SpawnVms(s, b)
    PROVE  AllocationInv'
  <1> USE DEF AllocationInv
  <1>1. b \subseteq Vm /\ \A v \in b : v \notin Registered
    BY BatchAssumption DEF SpawnVms, RegisterNewVms
  <1>2. Registered' = Registered \cup b
    BY <1>1 DEF SpawnVms, RegisterNewVms, Registered
  <1>3. requests' = [requests EXCEPT ![s] = @ \cup {b}]
    BY DEF SpawnVms
  <1>4. \A v \in Vm : /\ v \notin b => Requested(v)' = Requested(v)
                      /\ v \in b => Requested(v)' \subseteq Requested(v) \cup {<<s, b>>}
    BY <1>3 DEF Requested, TypeOK, EventsTypeOK
  <1>5. \A v \in Vm : /\ Committing(v)' = Committing(v)
                      /\ Allocated(v)' <=> Allocated(v)
    BY DEF SpawnVms, Committing, Allocated
  <1>6. \A v \in b : Requested(v) = {} /\ Committing(v) = {} /\ ~ Allocated(v)
    BY <1>1 DEF NewVmsAreNowhere
  <1>7. OneHolder'
    BY <1>4, <1>5, <1>6 DEF OneHolder, SpawnVms
  <1>8. StoreHostAgreement'
    <2>1. \A h \in Host : InNotices(h)' = InNotices(h)
      BY DEF InNotices, SpawnVms
    <2> QED BY <2>1 DEF StoreHostAgreement, SpawnVms, hostVars
  <1>9. NewVmsAreNowhere'
    BY <1>2, <1>4, <1>5 DEF NewVmsAreNowhere
  <1>10. OnKnownHosts' /\ OneNotice'
    BY DEF OnKnownHosts, OneNotice, SpawnVms, registrations
  <1> QED BY <1>7, <1>8, <1>9, <1>10

(* A commitment allocates VMs that were nowhere else.                       *)
LEMMA CommitSafe ==
    ASSUME TypeOK, AllocationInv, NEW p, DOMAIN p \subseteq Vm,
           CanCommit(p), Commit(p),
           \A v \in DOMAIN p :
             /\ ~ Allocated(v)
             /\ Requested(v)' = {} /\ Committing(v)' = {},
           \A v \in Vm \ DOMAIN p :
             Requested(v)' = Requested(v) /\ Committing(v)' = Committing(v),
           Registered \subseteq Registered', DOMAIN p \subseteq Registered',
           UNCHANGED <<hosts, hostNotices>>, hostPool' = hostPool
    PROVE  AllocationInv'
  <1> USE DEF AllocationInv
  <1>1. \A h \in Host : PlacedOn(p, h) \in SUBSET Vm /\ (h \notin hosts => PlacedOn(p, h) = {})
    BY DEF PlacedOn, CanCommit
  <1>2. \A h \in Host :
          storePool'[h].allocations = storePool[h].allocations \cup PlacedOn(p, h)
    <2> TAKE h \in Host
    <2>1. storePool'[h] = IF h \in hosts THEN Allocate(storePool[h], PlacedOn(p, h))
                                          ELSE storePool[h]
      BY DEF Commit, AllocateAll
    <2>2. storePool[h] \in HostInfo
      BY DEF TypeOK
    <2> QED BY <1>1, <2>1, <2>2, AllocateTyped
  <1>3. \A h \in Host : creating'[h] = creating[h] \cup PlacedOn(p, h)
    BY DEF Commit
  <1>4. \A h \in Host, v \in Vm :
          v \in storePool'[h].allocations
            <=> v \in storePool[h].allocations \/ (v \in DOMAIN p /\ p[v] = h)
    BY <1>2 DEF PlacedOn
  <1>5. \A v \in DOMAIN p, h \in Host : v \notin storePool[h].allocations
    BY DEF Allocated
  <1>6. \A v \in Vm \ DOMAIN p : Allocated(v)' <=> Allocated(v)
    BY <1>4 DEF Allocated
  <1>7. OneHolder'
    <2> SUFFICES ASSUME NEW v \in Vm
                 PROVE  /\ \A x, y \in Requested(v)' : x = y
                        /\ \A x, y \in Committing(v)' : x = y
                        /\ \A g, h \in Host :
                             v \in storePool'[g].allocations
                             /\ v \in storePool'[h].allocations => g = h
                        /\ Requested(v)' # {} => Committing(v)' = {} /\ ~ Allocated(v)'
                        /\ Committing(v)' # {} => ~ Allocated(v)'
      BY DEF OneHolder
    <2>1. CASE v \in DOMAIN p
      BY <1>4, <1>5, <2>1
    <2>2. CASE v \notin DOMAIN p
      BY <1>4, <1>6, <2>2 DEF OneHolder
    <2> QED BY <2>1, <2>2
  <1>8. StoreHostAgreement'
    <2> SUFFICES ASSUME NEW h \in Host
                 PROVE  /\ storePool'[h].allocations =
                             creating'[h] \cup hostPool'[h].allocations \cup InNotices(h)'
                        /\ creating'[h] \cap hostPool'[h].allocations = {}
                        /\ creating'[h] \cap InNotices(h)' = {}
                        /\ hostPool'[h].allocations \cap InNotices(h)' = {}
      BY DEF StoreHostAgreement
    <2>1. InNotices(h)' = InNotices(h)
      BY DEF InNotices
    <2>2. PlacedOn(p, h) \cap storePool[h].allocations = {}
      BY <1>5 DEF PlacedOn
    <2> QED BY <1>2, <1>3, <2>1, <2>2 DEF StoreHostAgreement
  <1>9. NewVmsAreNowhere'
    BY <1>6 DEF NewVmsAreNowhere
  <1>10. OnKnownHosts'
    BY <1>1, <1>2 DEF OnKnownHosts
  <1>11. OneNotice'
    BY DEF OneNotice
  <1> QED BY <1>7, <1>8, <1>9, <1>10, <1>11

LEMMA SpawnVmOnHostSafe ==
    ASSUME TypeOK, AllocationInv, NEW v \in DirectVm, NEW h \in Host,
           SpawnVmOnHost(v, h)
    PROVE  AllocationInv'
  <1> DEFINE p == [w \in {v} |-> h]
  <1>1. v \in Vm /\ v \notin Registered /\ Registered' = Registered \cup {v}
    BY SetupAssumption DEF SpawnVmOnHost, RegisterNewVms, Registered
  <1>2. \A w \in Vm : Requested(w)' = Requested(w) /\ Committing(w)' = Committing(w)
    BY DEF SpawnVmOnHost, DirectCommit, Requested, Committing
  <1>3. Requested(v) = {} /\ Committing(v) = {} /\ ~ Allocated(v)
    BY <1>1 DEF AllocationInv, NewVmsAreNowhere
  <1>4. CASE CanCommit(p) /\ Commit(p)
    BY <1>1, <1>2, <1>3, <1>4, CommitSafe
       DEF SpawnVmOnHost, DirectCommit, registrations, hostVars
  <1>5. CASE UNCHANGED <<storePool, creating, toSched>>
    BY <1>1, <1>5, NothingMoves
       DEF SpawnVmOnHost, DirectCommit, registrations, hostVars
  <1> QED BY <1>4, <1>5 DEF SpawnVmOnHost, DirectCommit

LEMMA UserStepSafe ==
    ASSUME TypeOK, AllocationInv, UserStep
    PROVE  AllocationInv'
  <1>1. ASSUME NEW h \in LateHosts, AddHost(h)
        PROVE  AllocationInv'
    BY <1>1, NothingMoves, RegisteredStays DEF AddHost, inboxes, apiVars, hostVars
  <1>2. ASSUME NEW s \in Sched, AddScheduler(s)
        PROVE  AllocationInv'
    BY <1>2, NothingMoves, RegisteredStays DEF AddScheduler, inboxes, apiVars, hostVars
  <1> QED BY <1>1, <1>2, SpawnVmsSafe, SpawnVmOnHostSafe DEF UserStep

-----------------------------------------------------------------------------
(* The schedulers.                                                         *)

LEMMA PlaceRequestSafe ==
    ASSUME TypeOK, AllocationInv, NEW s \in Sched, NEW b \in Batch,
           PlaceRequest(s, b), SchedulerStep(s)
    PROVE  AllocationInv'
  <1> USE DEF AllocationInv
  <1>1. PICK p \in [b -> Host] :
          commitRequests' = commitRequests \cup {[placement |-> p, from |-> s]}
    BY DEF PlaceRequest
  <1> DEFINE m == [placement |-> p, from |-> s]
  <1>2. /\ b \in requests[s]
        /\ requests' = [requests EXCEPT ![s] = @ \ {b}]
    BY DEF PlaceRequest, RequestDelivered
  <1>3. b \subseteq Vm
    BY BatchAssumption
  <1>4. \A v \in Vm :
          /\ v \notin b => Requested(v)' = Requested(v) /\ Committing(v)' = Committing(v)
          /\ v \in b => /\ <<s, b>> \in Requested(v)
                        /\ Requested(v)' = Requested(v) \ {<<s, b>>}
                        /\ Committing(v)' = Committing(v) \cup {m}
    BY <1>1, <1>2 DEF Requested, Committing, TypeOK, EventsTypeOK
  <1>5. UNCHANGED <<hosts, hostNotices, creating, storePool, hostPool, vmStatus>>
    BY DEF PlaceRequest, SchedulerStep, registrations, hostVars
  <1>6. \A v \in Vm : Allocated(v)' <=> Allocated(v)
    BY <1>5 DEF Allocated
  <1>7. OneHolder'
    <2> SUFFICES ASSUME NEW v \in Vm
                 PROVE  /\ \A x, y \in Requested(v)' : x = y
                        /\ \A x, y \in Committing(v)' : x = y
                        /\ Requested(v)' # {} => Committing(v)' = {} /\ ~ Allocated(v)'
                        /\ Committing(v)' # {} => ~ Allocated(v)'
      BY <1>5 DEF OneHolder
    <2>1. CASE v \in b
      BY <1>4, <1>6, <2>1 DEF OneHolder
    <2>2. CASE v \notin b
      BY <1>4, <1>6, <2>2 DEF OneHolder
    <2> QED BY <2>1, <2>2
  <1>8. StoreHostAgreement'
    BY <1>5 DEF StoreHostAgreement, InNotices
  <1>9. NewVmsAreNowhere'
    <2>1. Registered' = Registered
      BY <1>5, RegisteredStays
    <2>2. \A v \in b : v \in Registered
      BY <1>3, <1>4 DEF NewVmsAreNowhere
    <2> QED BY <1>4, <1>6, <2>1, <2>2 DEF NewVmsAreNowhere
  <1>10. OnKnownHosts' /\ OneNotice'
    BY <1>5 DEF OnKnownHosts, OneNotice
  <1> QED BY <1>7, <1>8, <1>9, <1>10

LEMMA TimeOutRequestSafe ==
    ASSUME TypeOK, AllocationInv, NEW s \in Sched, NEW b \in Batch,
           TimeOutRequest(s, b), SchedulerStep(s)
    PROVE  AllocationInv'
  <1> USE DEF AllocationInv
  <1>1. \A v \in Vm : /\ Requested(v)' \subseteq Requested(v)
                      /\ Committing(v)' = Committing(v)
    BY DEF TimeOutRequest, Requested, Committing, TypeOK, EventsTypeOK
  <1>2. UNCHANGED <<hosts, hostNotices, creating, storePool, hostPool, vmStatus>>
    BY DEF TimeOutRequest, SchedulerStep, registrations, hostVars
  <1>3. \A v \in Vm : Allocated(v)' <=> Allocated(v)
    BY <1>2 DEF Allocated
  <1>4. OneHolder'
    BY <1>1, <1>2, <1>3 DEF OneHolder
  <1>5. StoreHostAgreement'
    BY <1>2 DEF StoreHostAgreement, InNotices
  <1>6. NewVmsAreNowhere'
    BY <1>1, <1>2, <1>3, RegisteredStays DEF NewVmsAreNowhere
  <1>7. OnKnownHosts' /\ OneNotice'
    BY <1>2 DEF OnKnownHosts, OneNotice
  <1> QED BY <1>4, <1>5, <1>6, <1>7

LEMMA SchedulerStepSafe ==
    ASSUME TypeOK, AllocationInv, NEW s \in Sched, SchedulerStep(s)
    PROVE  AllocationInv'
  <1>1. ASSUME NEW b \in Batch, RetryRequest(s, b)
        PROVE  AllocationInv'
    BY <1>1, NothingMoves, RegisteredStays
       DEF RetryRequest, SchedulerStep, inboxes, registrations, hostVars
  <1>2. ASSUME OnStoreNotification(s)
        PROVE  AllocationInv'
    BY <1>2, NothingMoves, RegisteredStays
       DEF OnStoreNotification, SchedulerStep, registrations, hostVars
  <1> QED BY <1>1, <1>2, PlaceRequestSafe, TimeOutRequestSafe
          DEF SchedulerStep, OnAllocationRequest

-----------------------------------------------------------------------------
(* The placement store.                                                    *)

LEMMA OnCommitRequestSafe ==
    ASSUME TypeOK, AllocationInv, NEW m \in commitRequests, OnCommitRequest(m),
           UNCHANGED <<registrations, apiVars, hostVars>>
    PROVE  AllocationInv'
  <1> DEFINE p == m.placement
             b == DOMAIN p
  <1>1. m.from \in Sched /\ p \in Placement /\ b \in Batch /\ b \subseteq Vm
    BY PlacementTyped DEF TypeOK, EventsTypeOK, CommitRequest
  <1>2. commitRequests' = commitRequests \ {m}
    BY DEF OnCommitRequest
  <1>3. \A v \in Vm :
          /\ v \notin b => Committing(v)' = Committing(v)
          /\ v \in b => m \in Committing(v) /\ Committing(v)' = Committing(v) \ {m}
    BY <1>2 DEF Committing
  <1>4. \A v \in b : /\ Committing(v)' = {}
                     /\ Requested(v) = {}
                     /\ ~ Allocated(v)
    BY <1>1, <1>3 DEF AllocationInv, OneHolder
  <1>5. Registered' = Registered /\ b \subseteq Registered
    <2>1. Registered' = Registered
      BY RegisteredStays DEF apiVars
    <2> QED BY <1>1, <1>3, <2>1 DEF AllocationInv, NewVmsAreNowhere
  <1>6. ASSUME CanCommit(p), Commit(p), UNCHANGED requests
        PROVE  AllocationInv'
    <2>1. \A v \in Vm : Requested(v)' = Requested(v)
      BY <1>6 DEF Requested
    <2> QED BY <1>1, <1>3, <1>4, <1>5, <1>6, <2>1, CommitSafe
            DEF OnCommitRequest, registrations, hostVars
  <1>7. ASSUME Reject(p, m.from)
        PROVE  AllocationInv'
    <2> USE DEF AllocationInv
    <2>1. \A v \in Vm :
            /\ v \notin b => Requested(v)' = Requested(v)
            /\ v \in b => Requested(v)' \subseteq Requested(v) \cup {<<m.from, b>>}
      BY <1>1, <1>7 DEF Reject, Requested, TypeOK, EventsTypeOK
    <2>2. UNCHANGED <<hosts, hostNotices, creating, storePool, hostPool>>
      BY <1>7 DEF Reject, OnCommitRequest, registrations, hostVars
    <2>3. \A v \in Vm : Allocated(v)' <=> Allocated(v)
      BY <2>2 DEF Allocated
    <2>4. OneHolder'
      <3> SUFFICES ASSUME NEW v \in Vm
                   PROVE  /\ \A x, y \in Requested(v)' : x = y
                          /\ \A x, y \in Committing(v)' : x = y
                          /\ Requested(v)' # {} => Committing(v)' = {} /\ ~ Allocated(v)'
                          /\ Committing(v)' # {} => ~ Allocated(v)'
        BY <2>2 DEF OneHolder
      <3>1. CASE v \in b
        BY <1>4, <2>1, <2>3, <3>1
      <3>2. CASE v \notin b
        BY <1>3, <2>1, <2>3, <3>2 DEF OneHolder
      <3> QED BY <3>1, <3>2
    <2>5. StoreHostAgreement'
      BY <2>2 DEF StoreHostAgreement, InNotices
    <2>6. NewVmsAreNowhere'
      BY <1>3, <1>5, <2>1, <2>3 DEF NewVmsAreNowhere
    <2>7. OnKnownHosts' /\ OneNotice'
      BY <2>2 DEF OnKnownHosts, OneNotice
    <2> QED BY <2>4, <2>5, <2>6, <2>7
  <1> QED BY <1>6, <1>7 DEF OnCommitRequest

LEMMA OnHostNoticeSafe ==
    ASSUME TypeOK, AllocationInv, NEW n \in hostNotices, OnHostNotice(n),
           UNCHANGED <<registrations, apiVars, hostVars>>
    PROVE  AllocationInv'
  <1> USE DEF AllocationInv
  <1> DEFINE p == [v \in {n.vm} |-> n.host]
  <1>1. n.vm \in Vm /\ n.host \in Host
    BY DEF TypeOK, EventsTypeOK, HostNotice
  <1>2. n.vm \in storePool[n.host].allocations /\ n.host \in hosts
    BY <1>1 DEF StoreHostAgreement, InNotices, OnKnownHosts
  <1>3. \A h \in Host : storePool'[h].allocations =
          IF h = n.host THEN storePool[h].allocations \ {n.vm}
                        ELSE storePool[h].allocations
    <2> TAKE h \in Host
    <2>1. storePool'[h] = IF h \in hosts THEN Release(storePool[h], PlacedOn(p, h))
                                          ELSE storePool[h]
      BY DEF OnHostNotice, ReleaseAll
    <2>2. PlacedOn(p, h) = IF h = n.host THEN {n.vm} ELSE {}
      BY <1>1, SinglePlacementTyped
    <2>3. storePool[h] \in HostInfo /\ PlacedOn(p, h) \in SUBSET Vm
      BY <1>1, <2>2 DEF TypeOK
    <2>4. Release(storePool[h], PlacedOn(p, h)).allocations
            = storePool[h].allocations \ PlacedOn(p, h)
      BY <2>3, ReleaseTyped
    <2>5. CASE h = n.host
      BY <1>2, <2>1, <2>2, <2>4, <2>5
    <2>6. CASE h # n.host
      <3>1. storePool[h].allocations \ {} = storePool[h].allocations
        OBVIOUS
      <3> QED BY <2>1, <2>2, <2>4, <2>6, <3>1
    <2> QED BY <2>5, <2>6
  <1>4. \A h \in Host : InNotices(h)' =
          IF h = n.host THEN InNotices(h) \ {n.vm} ELSE InNotices(h)
    BY DEF OnHostNotice, InNotices, OneNotice
  <1>5. UNCHANGED <<hosts, requests, commitRequests, creating, hostPool, vmStatus>>
    BY DEF OnHostNotice, registrations, apiVars, hostVars
  <1>6. \A v \in Vm : /\ Requested(v)' = Requested(v)
                      /\ Committing(v)' = Committing(v)
                      /\ Allocated(v)' => Allocated(v)
    BY <1>3, <1>5 DEF Requested, Committing, Allocated
  <1>7. OneHolder'
    <2> SUFFICES ASSUME NEW v \in Vm
                 PROVE  /\ \A x, y \in Requested(v)' : x = y
                        /\ \A x, y \in Committing(v)' : x = y
                        /\ \A g, h \in Host :
                             v \in storePool'[g].allocations
                             /\ v \in storePool'[h].allocations => g = h
                        /\ Requested(v)' # {} => Committing(v)' = {} /\ ~ Allocated(v)'
                        /\ Committing(v)' # {} => ~ Allocated(v)'
      BY DEF OneHolder
    <2>1. \A h \in Host :
            v \in storePool'[h].allocations => v \in storePool[h].allocations
      BY <1>3
    <2> QED BY <1>6, <2>1 DEF OneHolder
  <1>8. StoreHostAgreement'
    <2> SUFFICES ASSUME NEW h \in Host
                 PROVE  /\ storePool'[h].allocations =
                             creating'[h] \cup hostPool'[h].allocations \cup InNotices(h)'
                        /\ creating'[h] \cap hostPool'[h].allocations = {}
                        /\ creating'[h] \cap InNotices(h)' = {}
                        /\ hostPool'[h].allocations \cap InNotices(h)' = {}
      BY DEF StoreHostAgreement
    <2>1. /\ storePool[h].allocations =
               creating[h] \cup hostPool[h].allocations \cup InNotices(h)
          /\ creating[h] \cap hostPool[h].allocations = {}
          /\ creating[h] \cap InNotices(h) = {}
          /\ hostPool[h].allocations \cap InNotices(h) = {}
      BY DEF StoreHostAgreement
    <2>2. creating'[h] = creating[h] /\ hostPool'[h] = hostPool[h]
      BY <1>5
    <2>3. CASE h = n.host
      <3>1. n.vm \in InNotices(h)
        BY <2>3 DEF InNotices
      <3>2. /\ storePool'[h].allocations = storePool[h].allocations \ {n.vm}
            /\ InNotices(h)' = InNotices(h) \ {n.vm}
        BY <1>3, <1>4, <2>3
      <3> QED BY <2>1, <2>2, <3>1, <3>2
    <2>4. CASE h # n.host
      <3>1. /\ storePool'[h].allocations = storePool[h].allocations
            /\ InNotices(h)' = InNotices(h)
        BY <1>3, <1>4, <2>4
      <3> QED BY <2>1, <2>2, <3>1
    <2> QED BY <2>3, <2>4
  <1>9. NewVmsAreNowhere'
    BY <1>5, <1>6, RegisteredStays DEF NewVmsAreNowhere
  <1>10. OnKnownHosts' /\ OneNotice'
    BY <1>3, <1>5 DEF OnKnownHosts, OneNotice, OnHostNotice
  <1> QED BY <1>7, <1>8, <1>9, <1>10

LEMMA StoreStepSafe ==
    ASSUME TypeOK, AllocationInv, StoreStep
    PROVE  AllocationInv'
  BY OnCommitRequestSafe, OnHostNoticeSafe
     DEF StoreStep, OnAllocationFailed, OnAllocationReleased

-----------------------------------------------------------------------------
(* The hosts.                                                              *)

(* A host's step moves at most one VM: from creating to the host's pool or  *)
(* to a notice, or from the pool to a notice.                               *)
LEMMA HostMovesVm ==
    ASSUME TypeOK, AllocationInv, NEW h \in Host, NEW v \in Vm,
           v \in creating[h] \cup hostPool[h].allocations,
           UNCHANGED <<requests, commitRequests, storePool, vmStatus, hosts>>,
           \A g \in Host \ {h} :
             /\ creating'[g] = creating[g]
             /\ hostPool'[g].allocations = hostPool[g].allocations,
           creating'[h] = creating[h] \ {v},
           \/ /\ hostPool'[h].allocations = hostPool[h].allocations \cup {v}
              /\ hostNotices' = hostNotices
           \/ /\ hostPool'[h].allocations = hostPool[h].allocations \ {v}
              /\ \E type \in {"AllocationFailed", "AllocationReleased"} :
                   hostNotices' = hostNotices \cup
                     {[type |-> type, vm |-> v, host |-> h]}
    PROVE  AllocationInv'
  <1> USE DEF AllocationInv
  <1>1. \A w \in Vm : /\ Requested(w)' = Requested(w)
                      /\ Committing(w)' = Committing(w)
                      /\ Allocated(w)' <=> Allocated(w)
    BY DEF Requested, Committing, Allocated
  <1>2. OneHolder'
    BY <1>1 DEF OneHolder
  <1>3. NewVmsAreNowhere'
    BY <1>1, RegisteredStays DEF NewVmsAreNowhere
  <1>4. OnKnownHosts'
    BY DEF OnKnownHosts
  <1>5. \A g \in Host : hostPool[g].allocations \subseteq Vm
    BY DEF TypeOK, HostsTypeOK, HostInfo
  <1>6. v \notin InNotices(h)
    BY DEF StoreHostAgreement
  <1>7. CASE /\ hostPool'[h].allocations = hostPool[h].allocations \cup {v}
             /\ hostNotices' = hostNotices
    <2>1. \A g \in Host : InNotices(g)' = InNotices(g)
      BY <1>7 DEF InNotices
    <2>2. StoreHostAgreement'
      <3> SUFFICES ASSUME NEW g \in Host
                   PROVE  /\ storePool'[g].allocations =
                               creating'[g] \cup hostPool'[g].allocations \cup InNotices(g)'
                          /\ creating'[g] \cap hostPool'[g].allocations = {}
                          /\ creating'[g] \cap InNotices(g)' = {}
                          /\ hostPool'[g].allocations \cap InNotices(g)' = {}
        BY DEF StoreHostAgreement
      <3>1. CASE g = h
        BY <1>6, <1>7, <2>1, <3>1 DEF StoreHostAgreement
      <3>2. CASE g # h
        BY <2>1, <3>2 DEF StoreHostAgreement
      <3> QED BY <3>1, <3>2
    <2>3. OneNotice'
      BY <1>7 DEF OneNotice
    <2> QED BY <1>2, <1>3, <1>4, <2>2, <2>3
  <1>8. ASSUME NEW type, hostPool'[h].allocations = hostPool[h].allocations \ {v},
               hostNotices' = hostNotices \cup {[type |-> type, vm |-> v, host |-> h]}
        PROVE  AllocationInv'
    <2>1. \A g \in Host : InNotices(g)' =
            IF g = h THEN InNotices(g) \cup {v} ELSE InNotices(g)
      <3> DEFINE n == [type |-> type, vm |-> v, host |-> h]
      <3>1. n.vm = v /\ n.host = h
        OBVIOUS
      <3>2. hostNotices' = hostNotices \cup {n}
        BY <1>8
      <3> HIDE DEF n
      <3>3. InNotices(h)' = InNotices(h) \cup {v}
        BY <3>1, <3>2 DEF InNotices
      <3>4. \A g \in Host \ {h} : InNotices(g)' = InNotices(g)
        BY <3>1, <3>2 DEF InNotices
      <3> QED BY <3>3, <3>4
    <2>2. StoreHostAgreement'
      <3> SUFFICES ASSUME NEW g \in Host
                   PROVE  /\ storePool'[g].allocations =
                               creating'[g] \cup hostPool'[g].allocations \cup InNotices(g)'
                          /\ creating'[g] \cap hostPool'[g].allocations = {}
                          /\ creating'[g] \cap InNotices(g)' = {}
                          /\ hostPool'[g].allocations \cap InNotices(g)' = {}
        BY DEF StoreHostAgreement
      <3>1. CASE g = h
        BY <1>8, <2>1, <3>1 DEF StoreHostAgreement
      <3>2. CASE g # h
        BY <2>1, <3>2 DEF StoreHostAgreement
      <3> QED BY <3>1, <3>2
    <2>3. OneNotice'
      <3>1. \A n \in hostNotices : ~ (n.vm = v /\ n.host = h)
        BY <1>6 DEF InNotices
      <3> QED BY <1>8, <3>1 DEF OneNotice
    <2> QED BY <1>2, <1>3, <1>4, <2>2, <2>3
  <1> QED BY <1>7, <1>8

LEMMA HostStepSafe ==
    ASSUME TypeOK, AllocationInv, NEW h \in Host, HostStep(h)
    PROVE  AllocationInv'
  <1> USE DEF HostStep, registrations, apiVars, hostVars
  <1>1. hostPool \in [Host -> HostInfo] /\ creating \in [Host -> SUBSET Vm]
    BY DEF TypeOK, EventsTypeOK, HostsTypeOK
  <1>2. ASSUME NEW v \in Vm, OnVmCreateRequest(h, v)
        PROVE  AllocationInv'
    <2>1. /\ v \in creating[h] /\ v \notin hostPool[h].allocations
          /\ creating' = [creating EXCEPT ![h] = @ \ {v}]
          /\ UNCHANGED <<requests, commitRequests, storePool, vmStatus, hosts>>
      BY <1>2 DEF OnVmCreateRequest, AllocationInv, StoreHostAgreement
    <2>2. CASE HostAllocate(h, v) /\ UNCHANGED hostNotices
      <3>1. hostPool' = [hostPool EXCEPT ![h] = Occupy(@, {v})]
        BY <2>2 DEF HostAllocate
      <3>2. Occupy(hostPool[h], {v}).allocations = hostPool[h].allocations \cup {v}
        BY <1>1, OccupyTyped
      <3> QED BY <1>1, <2>1, <2>2, <3>1, <3>2, HostMovesVm
    <2>3. CASE /\ hostNotices' = hostNotices \cup
                    {[type |-> "AllocationFailed", vm |-> v, host |-> h]}
               /\ UNCHANGED hostPool
      <3>1. hostPool'[h].allocations = hostPool[h].allocations \ {v}
        BY <2>1, <2>3
      <3> QED BY <1>1, <2>1, <2>3, <3>1, HostMovesVm
    <2> QED BY <1>2, <2>2, <2>3 DEF OnVmCreateRequest
  <1>3. ASSUME NEW v \in Vm, OnVmDeleted(h, v), v \in hostPool[h].allocations
        PROVE  AllocationInv'
    <2>1. /\ v \notin creating[h]
          /\ hostNotices' = hostNotices \cup
               {[type |-> "AllocationReleased", vm |-> v, host |-> h]}
          /\ HostRelease(h, v)
          /\ UNCHANGED <<requests, commitRequests, storePool, vmStatus, hosts, creating>>
      BY <1>3 DEF OnVmDeleted, AllocationInv, StoreHostAgreement
    <2>2. Release(hostPool[h], {v}).allocations = hostPool[h].allocations \ {v}
      BY <1>1, ReleaseTyped
    <2>3. hostPool' = [hostPool EXCEPT ![h] = Release(@, {v})]
      BY <2>1 DEF HostRelease
    <2>4. /\ hostPool'[h].allocations = hostPool[h].allocations \ {v}
          /\ \A g \in Host \ {h} : hostPool'[g].allocations = hostPool[g].allocations
          /\ \A g \in Host \ {h} : creating'[g] = creating[g]
          /\ creating'[h] = creating[h] \ {v}
      BY <1>1, <2>1, <2>2, <2>3
    <2> QED BY <1>3, <2>1, <2>4, HostMovesVm
  <1>4. ASSUME UNCHANGED <<hostPool, requests, commitRequests, hostNotices, creating>>
        PROVE  AllocationInv'
    BY <1>4, NothingMoves, RegisteredStays
  <1>5. ASSUME NEW v \in Vm, OnVmDeleted(h, v), v \notin hostPool[h].allocations
        PROVE  AllocationInv'
    BY <1>4, <1>5 DEF OnVmDeleted
  <1>6. ASSUME NEW v \in Vm, OnVmStarted(h, v)
        PROVE  AllocationInv'
    BY <1>4, <1>6 DEF OnVmStarted
  <1>7. ASSUME NEW v \in Vm, NEW t \in ReleaseType, OnAllocationReleaseRequest(h, v, t)
        PROVE  AllocationInv'
    BY <1>4, <1>7 DEF OnAllocationReleaseRequest
  <1>8. ASSUME SendHostState(h)
        PROVE  AllocationInv'
    BY <1>4, <1>8 DEF SendHostState
  <1> QED BY <1>2, <1>3, <1>5, <1>6, <1>7, <1>8 DEF VmStep

-----------------------------------------------------------------------------

LEMMA ApiStepRegisters ==
    ASSUME TypeOK, ApiStep
    PROVE  Registered \subseteq Registered'
  <1>1. CASE OnVmStatusChanged
    <2>1. TypeOK'
      BY ApiStepTyped
    <2>2. \A v \in Vm : vmStatus'[v] = "Unregistered" => vmStatus[v] = "Unregistered"
      <3>1. Head(toApi) \in StatusUpdate
        BY <1>1, HeadTailProperties DEF OnVmStatusChanged, TypeOK, EventsTypeOK
      <3>2. \A v \in DOMAIN Head(toApi).statuses : Head(toApi).statuses[v] # "Unregistered"
        BY <3>1, StatusUpdateTyped DEF Status
      <3> QED BY <1>1, <3>2 DEF OnVmStatusChanged
    <2> QED BY <2>2 DEF Registered
  <1>2. CASE \E b \in Batch : DeadlinePasses(b)
    BY <1>2 DEF DeadlinePasses, Registered
  <1> QED BY <1>1, <1>2 DEF ApiStep

LEMMA ApiStepSafe ==
    ASSUME TypeOK, AllocationInv, ApiStep
    PROVE  AllocationInv'
  <1>1. UNCHANGED <<hosts, requests, commitRequests, hostNotices, creating, storePool,
                    hostPool>>
    BY DEF ApiStep, OnVmStatusChanged, DeadlinePasses, registrations, inboxes, hostVars
  <1>2. Registered \subseteq Registered'
    BY ApiStepRegisters
  <1> QED BY <1>1, <1>2, NothingMoves

LEMMA InitSafe == Init => AllocationInv
  <1> SUFFICES ASSUME Init PROVE AllocationInv
    OBVIOUS
  <1>1. \A v \in Vm : Requested(v) = {} /\ Committing(v) = {} /\ ~ Allocated(v)
    BY DEF Init, EventsInit, Requested, Committing, Allocated, FullPool, NewHostInfo
  <1>2. OneHolder
    BY <1>1 DEF OneHolder, Init, FullPool, NewHostInfo
  <1>3. StoreHostAgreement
    BY DEF StoreHostAgreement, Init, EventsInit, HostsInit, InNotices, FullPool,
           NewHostInfo
  <1>4. NewVmsAreNowhere
    BY <1>1 DEF NewVmsAreNowhere
  <1>5. OnKnownHosts /\ OneNotice
    BY DEF OnKnownHosts, OneNotice, Init, EventsInit, FullPool, NewHostInfo
  <1> QED BY <1>2, <1>3, <1>4, <1>5 DEF AllocationInv

LEMMA NextSafe ==
    ASSUME TypeOK, AllocationInv, [Next]_vars
    PROVE  AllocationInv'
  <1>1. CASE MonitoringStep
    BY <1>1, NothingMoves, RegisteredStays
       DEF MonitoringStep, OnHostStateUpdate, registrations, apiVars, hostVars
  <1>2. CASE UNCHANGED vars
    BY <1>2, NothingMoves, RegisteredStays
       DEF vars, registrations, inboxes, apiVars, hostVars
  <1> QED BY <1>1, <1>2, UserStepSafe, SchedulerStepSafe, StoreStepSafe, HostStepSafe,
             ApiStepSafe DEF Next

(* The invariant of allocation: with any number of schedulers deciding on   *)
(* outdated views, a VM has one holder, and the store and the hosts agree   *)
(* on what runs where.                                                      *)
THEOREM AllocationCorrect == Spec => []AllocationInv
  <1>1. Init => TypeOK /\ AllocationInv
    BY InitTyped, InitSafe
  <1>2. TypeOK /\ AllocationInv /\ [Next]_vars => (TypeOK /\ AllocationInv)'
    BY NextTyped, NextSafe
  <1> QED BY <1>1, <1>2, PTL DEF Spec

(* No VM is ever in the hands of two components, on two hosts, or requested *)
(* twice: a rejected or failed placement does not fork it.                  *)
THEOREM VmsHaveOneHolder == Spec => []OneHolder
  <1>1. AllocationInv => OneHolder
    BY DEF AllocationInv
  <1> QED BY <1>1, AllocationCorrect, PTL

(* The store's pool and the hosts never disagree on the VMs of a host.      *)
THEOREM StoreAndHostsAgree == Spec => []StoreHostAgreement
  <1>1. AllocationInv => StoreHostAgreement
    BY DEF AllocationInv
  <1> QED BY <1>1, AllocationCorrect, PTL

-----------------------------------------------------------------------------
(* The books of the store and of the hosts.                                *)

LEMMA BooksUntouched ==
    ASSUME BooksBalanced, UNCHANGED <<storePool, hostPool, hostAllocated>>
    PROVE  BooksBalanced'
  BY DEF BooksBalanced, Balanced, Net

LEMMA StoreBooks ==
    ASSUME BooksBalanced, UNCHANGED <<hostPool, hostAllocated>>,
           \A h \in Host : Balanced(storePool'[h], h)
    PROVE  BooksBalanced'
  <1>1. \A h \in Host :
          /\ Balanced(hostPool'[h], h)
          /\ \A r \in Resource :
               hostAllocated'[h][r] = Capacity[h][r] - hostPool'[h].available[r]
    BY DEF BooksBalanced
  <1> QED BY <1>1 DEF BooksBalanced, Balanced, Net

LEMMA CommitBooks ==
    ASSUME TypeOK, BooksBalanced, NEW p, DOMAIN p \subseteq Vm, Commit(p),
           UNCHANGED <<hostPool, hostAllocated>>
    PROVE  BooksBalanced'
  <1>1. ASSUME NEW h \in Host
        PROVE  Balanced(storePool'[h], h)
    <2>1. storePool'[h] = IF h \in hosts THEN Allocate(storePool[h], PlacedOn(p, h))
                                          ELSE storePool[h]
      BY DEF Commit, AllocateAll
    <2>2. /\ storePool[h] \in HostInfo
          /\ PlacedOn(p, h) \in SUBSET Vm
          /\ Balanced(storePool[h], h)
      BY DEF TypeOK, PlacedOn, BooksBalanced
    <2> QED BY <2>1, <2>2, AllocateBalanced
  <1> QED BY <1>1, StoreBooks

LEMMA NoticeBooks ==
    ASSUME TypeOK, AllocationInv, BooksBalanced, NEW n \in hostNotices,
           OnHostNotice(n), UNCHANGED <<hostPool, hostAllocated>>
    PROVE  BooksBalanced'
  <1> DEFINE p == [v \in {n.vm} |-> n.host]
  <1>1. n.vm \in Vm /\ n.host \in Host
    BY DEF TypeOK, EventsTypeOK, HostNotice
  <1>2. n.vm \in storePool[n.host].allocations
    BY <1>1 DEF AllocationInv, StoreHostAgreement, InNotices
  <1>3. ASSUME NEW h \in Host
        PROVE  Balanced(storePool'[h], h)
    <2>1. storePool'[h] = IF h \in hosts THEN Release(storePool[h], PlacedOn(p, h))
                                          ELSE storePool[h]
      BY DEF OnHostNotice, ReleaseAll
    <2>2. PlacedOn(p, h) \in SUBSET storePool[h].allocations
      <3>1. PlacedOn(p, h) = IF h = n.host THEN {n.vm} ELSE {}
        BY <1>1, SinglePlacementTyped
      <3> QED BY <1>2, <3>1
    <2>3. storePool[h] \in HostInfo /\ Balanced(storePool[h], h)
      BY DEF TypeOK, BooksBalanced
    <2> QED BY <2>1, <2>2, <2>3, ReleaseBalanced
  <1> QED BY <1>3, StoreBooks

LEMMA HostBooks ==
    ASSUME BooksBalanced, NEW h \in Host, UNCHANGED storePool,
           \A g \in Host \ {h} : /\ hostPool'[g] = hostPool[g]
                                 /\ hostAllocated'[g] = hostAllocated[g],
           Balanced(hostPool'[h], h),
           \A r \in Resource :
             hostAllocated'[h][r] = Capacity[h][r] - hostPool'[h].available[r]
    PROVE  BooksBalanced'
  <1>1. \A g \in Host :
          /\ Balanced(storePool'[g], g)
          /\ Balanced(hostPool'[g], g)
          /\ \A r \in Resource :
               hostAllocated'[g][r] = Capacity[g][r] - hostPool'[g].available[r]
    BY DEF BooksBalanced
  <1> QED BY <1>1 DEF BooksBalanced, Balanced, Net

LEMMA HostAllocateBooks ==
    ASSUME TypeOK, BooksBalanced, NEW h \in Host, NEW v \in Vm,
           v \notin hostPool[h].allocations, HostAllocate(h, v), UNCHANGED storePool
    PROVE  BooksBalanced'
  <1> DEFINE info == Occupy(hostPool[h], {v})
             amounts == [r \in Resource |-> IF hostPool[h].available[r] < Usage[r][{v}]
                                            THEN Capacity[h][r]
                                            ELSE hostAllocated[h][r] + Usage[r][{v}]]
  <1>1. /\ hostPool \in [Host -> HostInfo] /\ DOMAIN hostAllocated = Host
        /\ hostPool[h] \in HostInfo /\ Balanced(hostPool[h], h)
    BY DEF TypeOK, HostsTypeOK, BooksBalanced
  <1>2. Balanced(info, h)
    BY <1>1, OccupyBalanced
  <1>3. ASSUME NEW r \in Resource
        PROVE  amounts[r] = Capacity[h][r] - info.available[r]
    <2>1. info.available[r] = AvailableAfterTake(hostPool[h].available[r], Usage[r][{v}])
      BY DEF Occupy, Take, Demand
    <2>2. /\ hostPool[h].available[r] \in Nat
          /\ Usage[r][{v}] \in Nat
          /\ Capacity[h][r] \in Nat
          /\ hostAllocated[h][r] = Capacity[h][r] - hostPool[h].available[r]
      BY <1>1, UsageTyped, CapacityAssumption DEF HostInfo, BooksBalanced
    <2> QED BY <2>1, <2>2 DEF AvailableAfterTake
  <1>4. /\ hostPool' = [hostPool EXCEPT ![h] = info]
        /\ hostAllocated' = [hostAllocated EXCEPT ![h] = amounts]
    BY DEF HostAllocate
  <1> HIDE DEF info, amounts
  <1>5. /\ hostPool'[h] = info /\ hostAllocated'[h] = amounts
        /\ \A g \in Host \ {h} : /\ hostPool'[g] = hostPool[g]
                                 /\ hostAllocated'[g] = hostAllocated[g]
    BY <1>1, <1>4
  <1> QED BY <1>2, <1>3, <1>5, HostBooks

LEMMA HostReleaseBooks ==
    ASSUME TypeOK, BooksBalanced, NEW h \in Host, NEW v \in Vm,
           v \in hostPool[h].allocations, HostRelease(h, v), UNCHANGED storePool
    PROVE  BooksBalanced'
  <1> DEFINE info == Release(hostPool[h], {v})
             amounts == [r \in Resource |->
                           IF hostPool[h].overcommit[r] >= Usage[r][{v}]
                           THEN hostAllocated[h][r]
                           ELSE hostAllocated[h][r]
                                  - (Usage[r][{v}] - hostPool[h].overcommit[r])]
  <1>1. /\ hostPool \in [Host -> HostInfo] /\ DOMAIN hostAllocated = Host
        /\ hostPool[h] \in HostInfo /\ Balanced(hostPool[h], h)
    BY DEF TypeOK, HostsTypeOK, BooksBalanced
  <1>2. Balanced(info, h)
    BY <1>1, ReleaseBalanced
  <1>3. ASSUME NEW r \in Resource
        PROVE  amounts[r] = Capacity[h][r] - info.available[r]
    <2>1. info.available[r] = AvailableAfterGive(hostPool[h].available[r],
                                                 hostPool[h].overcommit[r],
                                                 Usage[r][{v}])
      BY DEF Release, Give, Demand
    <2>2. /\ hostPool[h].available[r] \in Nat
          /\ hostPool[h].overcommit[r] \in Nat
          /\ Usage[r][{v}] \in Nat
          /\ Capacity[h][r] \in Nat
          /\ hostAllocated[h][r] = Capacity[h][r] - hostPool[h].available[r]
      BY <1>1, UsageTyped, CapacityAssumption DEF HostInfo, BooksBalanced
    <2> QED BY <2>1, <2>2 DEF AvailableAfterGive
  <1>4. /\ hostPool' = [hostPool EXCEPT ![h] = info]
        /\ hostAllocated' = [hostAllocated EXCEPT ![h] = amounts]
    BY DEF HostRelease
  <1> HIDE DEF info, amounts
  <1>5. /\ hostPool'[h] = info /\ hostAllocated'[h] = amounts
        /\ \A g \in Host \ {h} : /\ hostPool'[g] = hostPool[g]
                                 /\ hostAllocated'[g] = hostAllocated[g]
    BY <1>1, <1>4
  <1> QED BY <1>2, <1>3, <1>5, HostBooks

LEMMA HostStepBooks ==
    ASSUME TypeOK, AllocationInv, BooksBalanced, NEW h \in Host, HostStep(h)
    PROVE  BooksBalanced'
  <1> USE DEF HostStep, hostVars
  <1>1. ASSUME NEW v \in Vm, OnVmCreateRequest(h, v)
        PROVE  BooksBalanced'
    <2>1. v \notin hostPool[h].allocations
      BY <1>1 DEF OnVmCreateRequest, AllocationInv, StoreHostAgreement
    <2> QED BY <1>1, <2>1, HostAllocateBooks, BooksUntouched DEF OnVmCreateRequest
  <1>2. ASSUME NEW v \in Vm, OnVmDeleted(h, v)
        PROVE  BooksBalanced'
    BY <1>2, HostReleaseBooks, BooksUntouched DEF OnVmDeleted
  <1>3. ASSUME \/ \E v \in Vm : OnVmStarted(h, v)
               \/ \E v \in Vm, t \in ReleaseType : OnAllocationReleaseRequest(h, v, t)
               \/ SendHostState(h)
        PROVE  BooksBalanced'
    BY <1>3, BooksUntouched
       DEF OnVmStarted, OnAllocationReleaseRequest, SendHostState
  <1> QED BY <1>1, <1>2, <1>3 DEF VmStep

LEMMA NextBooks ==
    ASSUME TypeOK, AllocationInv, BooksBalanced, [Next]_vars
    PROVE  BooksBalanced'
  <1> USE DEF hostVars
  <1>1. CASE UserStep
    <2>1. ASSUME NEW v \in DirectVm, NEW h \in Host, SpawnVmOnHost(v, h)
          PROVE  BooksBalanced'
      <3>1. DOMAIN [w \in {v} |-> h] \subseteq Vm
        BY SetupAssumption
      <3> QED BY <2>1, <3>1, CommitBooks, BooksUntouched DEF SpawnVmOnHost, DirectCommit
    <2>2. ASSUME \/ \E s \in Sched, b \in Batch : SpawnVms(s, b)
                 \/ \E h \in LateHosts : AddHost(h)
                 \/ \E s \in Sched : AddScheduler(s)
          PROVE  BooksBalanced'
      BY <2>2, BooksUntouched DEF SpawnVms, AddHost, AddScheduler
    <2> QED BY <1>1, <2>1, <2>2 DEF UserStep
  <1>2. ASSUME NEW s \in Sched, SchedulerStep(s)
        PROVE  BooksBalanced'
    BY <1>2, BooksUntouched DEF SchedulerStep
  <1>3. CASE StoreStep
    <2>1. ASSUME NEW m \in commitRequests, OnCommitRequest(m)
          PROVE  BooksBalanced'
      <3>1. DOMAIN m.placement \subseteq Vm
        BY PlacementDomain DEF TypeOK, EventsTypeOK, CommitRequest
      <3>2. UNCHANGED <<hostPool, hostAllocated>>
        BY <1>3 DEF StoreStep
      <3>3. CASE Commit(m.placement)
        BY <3>1, <3>2, <3>3, CommitBooks
      <3>4. CASE Reject(m.placement, m.from)
        BY <3>2, <3>4, BooksUntouched DEF Reject
      <3> QED BY <2>1, <3>3, <3>4 DEF OnCommitRequest
    <2>2. ASSUME NEW n \in hostNotices, OnHostNotice(n)
          PROVE  BooksBalanced'
      BY <1>3, <2>2, NoticeBooks DEF StoreStep
    <2> QED BY <1>3, <2>1, <2>2 DEF StoreStep, OnAllocationFailed, OnAllocationReleased
  <1>4. CASE ApiStep \/ MonitoringStep \/ UNCHANGED vars
    BY <1>4, BooksUntouched DEF ApiStep, MonitoringStep, vars
  <1> QED BY <1>1, <1>2, <1>3, <1>4, HostStepBooks DEF Next

LEMMA InitBooks == Init => BooksBalanced
  <1> SUFFICES ASSUME Init, NEW h \in Host
               PROVE  /\ Balanced(storePool[h], h)
                      /\ Balanced(hostPool[h], h)
                      /\ \A r \in Resource :
                           hostAllocated[h][r] = Capacity[h][r] - hostPool[h].available[r]
    BY DEF BooksBalanced
  <1>1. storePool[h] = NewHostInfo(h) /\ hostPool[h] = NewHostInfo(h)
    BY DEF Init, FullPool, HostsInit
  <1>2. \A r \in Resource : hostAllocated[h][r] = 0
    BY DEF Init, HostsInit
  <1>3. \A r \in Resource : NewHostInfo(h).available[r] = Capacity[h][r]
    BY DEF NewHostInfo
  <1> QED BY <1>1, <1>2, <1>3, NewHostInfoBalanced, CapacityAssumption

(* The store and the hosts always account for exactly the VMs they list, in *)
(* every resource, through any overcommitment: the unchecked releases only  *)
(* ever give back what is there.                                            *)
THEOREM BooksStayBalanced == Spec => []BooksBalanced
  <1>1. Init => TypeOK /\ AllocationInv /\ BooksBalanced
    BY InitTyped, InitSafe, InitBooks
  <1>2. TypeOK /\ AllocationInv /\ BooksBalanced /\ [Next]_vars
          => (TypeOK /\ AllocationInv /\ BooksBalanced)'
    BY NextTyped, NextSafe, NextBooks
  <1> QED BY <1>1, <1>2, PTL DEF Spec

-----------------------------------------------------------------------------
(* Capacity, when every request is for a single VM.                        *)

(* What is checked against the pool it is allocated from overcommits        *)
(* nothing.                                                                 *)
LEMMA CheckedAllocationFits ==
    ASSUME NEW info \in HostInfo, NEW S \in SUBSET Vm, NEW allow \in BOOLEAN,
           CanAllocate(info, S, allow)
    PROVE  /\ Allocate(info, S).overcommit["memory"] = info.overcommit["memory"]
           /\ ~ allow => Allocate(info, S).overcommit["cpu"] = info.overcommit["cpu"]
  <1> DEFINE new == S \ info.allocations
  <1>1. ASSUME NEW r \in Resource, info.available[r] >= Usage[r][S]
        PROVE  Allocate(info, S).overcommit[r] = info.overcommit[r]
    <2>1. Usage[r][new] <= Usage[r][S] /\ Usage[r][new] \in Nat /\ Usage[r][S] \in Nat
      BY UsageMonotone, UsageTyped
    <2>2. Allocate(info, S).overcommit[r] =
            OvercommitAfterTake(info.available[r], info.overcommit[r], Usage[r][new])
      BY DEF Allocate, Occupy, Take, Demand
    <2>3. info.available[r] \in Nat
      BY DEF HostInfo
    <2> QED BY <1>1, <2>1, <2>2, <2>3 DEF OvercommitAfterTake
  <1>2. info.available["cpu"] \in Nat /\ Usage["cpu"][S] \in Nat
    BY UsageTyped DEF HostInfo, Resource
  <1> QED BY <1>1, <1>2 DEF CanAllocate, Resource

LEMMA ReleaseKeepsZero ==
    ASSUME NEW info \in HostInfo, NEW S \in SUBSET Vm, NEW r \in Resource,
           info.overcommit[r] = 0
    PROVE  Release(info, S).overcommit[r] = 0
  <1>1. Release(info, S).overcommit[r] = OvercommitAfterGive(0, Usage[r][S])
    BY DEF Release, Give, Demand
  <1>2. Usage[r][S] \in Nat
    BY UsageTyped
  <1> QED BY <1>1, <1>2 DEF OvercommitAfterGive

LEMMA SingleCommitFits ==
    ASSUME TypeOK, StoreWithinCapacity, NEW v \in Vm, NEW h \in Host, NEW p,
           p = [w \in {v} |-> h], CanCommit(p), Commit(p)
    PROVE  StoreWithinCapacity'
  <1> SUFFICES ASSUME NEW g \in Host
               PROVE  /\ storePool'[g].overcommit["memory"] = 0
                      /\ AllowVmOvercommit \/ storePool'[g].overcommit["cpu"] = 0
    BY DEF StoreWithinCapacity
  <1>1. storePool'[g] = IF g \in hosts THEN Allocate(storePool[g], PlacedOn(p, g))
                                        ELSE storePool[g]
    BY DEF Commit, AllocateAll
  <1>2. PlacedOn(p, g) = IF g = h THEN {v} ELSE {}
    BY SinglePlacementTyped
  <1>3. storePool[g] \in HostInfo /\ PlacedOn(p, g) \in SUBSET Vm
    BY <1>2 DEF TypeOK
  <1>4. CanAllocate(storePool[g], PlacedOn(p, g), AllowVmOvercommit)
    <2>1. CASE g = h
      BY <1>2, <2>1 DEF CanCommit
    <2>2. CASE g # h
      <3>1. \A r \in Resource : storePool[g].available[r] \in Nat /\ Usage[r][{}] = 0
        BY <1>3, UsageAssumption DEF HostInfo
      <3>2. \A r \in Resource : storePool[g].available[r] >= Usage[r][{}]
        BY <3>1
      <3>3. CanAllocate(storePool[g], {}, AllowVmOvercommit)
        BY <3>1, <3>2 DEF CanAllocate, Resource
      <3> QED BY <1>2, <2>2, <3>3
    <2> QED BY <2>1, <2>2
  <1> QED BY <1>1, <1>3, <1>4, CheckedAllocationFits, OvercommitAssumption
          DEF StoreWithinCapacity

LEMMA NextWithinCapacity ==
    ASSUME SingleRequests, TypeOK, StoreWithinCapacity, [Next]_vars
    PROVE  StoreWithinCapacity'
  <1>1. ASSUME UNCHANGED storePool
        PROVE  StoreWithinCapacity'
    BY <1>1 DEF StoreWithinCapacity
  <1>2. ASSUME NEW v \in DirectVm, NEW h \in Host, SpawnVmOnHost(v, h)
        PROVE  StoreWithinCapacity'
    <2>1. v \in Vm
      BY SetupAssumption
    <2> QED BY <1>1, <1>2, <2>1, SingleCommitFits DEF SpawnVmOnHost, DirectCommit
  <1>3. ASSUME NEW m \in commitRequests, OnCommitRequest(m)
        PROVE  StoreWithinCapacity'
    <2> DEFINE p == m.placement
    <2>1. p \in Placement
      BY DEF TypeOK, EventsTypeOK, CommitRequest
    <2>2. PICK v \in Vm : p \in [{v} -> Host]
      BY <2>1 DEF Placement, SingleRequests
    <2>3. p = [w \in {v} |-> p[v]] /\ p[v] \in Host
      BY <2>2
    <2>4. CASE CanCommit(p) /\ Commit(p)
      BY <2>3, <2>4, SingleCommitFits
    <2>5. CASE Reject(p, m.from)
      BY <1>1, <2>5 DEF Reject
    <2> QED BY <1>3, <2>4, <2>5 DEF OnCommitRequest
  <1>4. ASSUME NEW n \in hostNotices, OnHostNotice(n)
        PROVE  StoreWithinCapacity'
    <2> DEFINE p == [v \in {n.vm} |-> n.host]
    <2> SUFFICES ASSUME NEW g \in Host
                 PROVE  /\ storePool'[g].overcommit["memory"] = 0
                        /\ AllowVmOvercommit \/ storePool'[g].overcommit["cpu"] = 0
      BY DEF StoreWithinCapacity
    <2>1. storePool'[g] = IF g \in hosts THEN Release(storePool[g], PlacedOn(p, g))
                                          ELSE storePool[g]
      BY <1>4 DEF OnHostNotice, ReleaseAll
    <2>2. storePool[g] \in HostInfo /\ PlacedOn(p, g) \in SUBSET Vm
      BY DEF TypeOK, EventsTypeOK, HostNotice, PlacedOn
    <2>3. "cpu" \in Resource /\ "memory" \in Resource
      BY DEF Resource
    <2> QED BY <2>1, <2>2, <2>3, ReleaseKeepsZero DEF StoreWithinCapacity
  <1>5. CASE UserStep
    BY <1>1, <1>2, <1>5 DEF UserStep, SpawnVms, AddHost, AddScheduler
  <1>6. CASE StoreStep
    BY <1>3, <1>4, <1>6 DEF StoreStep, OnAllocationFailed, OnAllocationReleased
  <1>7. ASSUME \/ \E s \in Sched : SchedulerStep(s)
               \/ \E h \in Host : HostStep(h)
               \/ ApiStep \/ MonitoringStep \/ UNCHANGED vars
        PROVE  StoreWithinCapacity'
    BY <1>1, <1>7 DEF SchedulerStep, HostStep, ApiStep, MonitoringStep, vars
  <1> QED BY <1>5, <1>6, <1>7 DEF Next

(* A host that agrees with a store within its capacity has room for what    *)
(* the store sends.                                                         *)
LEMMA HostHasRoom ==
    ASSUME TypeOK, AllocationInv, BooksBalanced, StoreWithinCapacity,
           NEW h \in Host, NEW v \in creating[h]
    PROVE  HostCanAllocate(h, v)
  <1> SUFFICES ASSUME ~ AllowVmOvercommit
               PROVE  CanAllocate(hostPool[h], {v}, FALSE)
    BY DEF HostCanAllocate
  <1> DEFINE S == storePool[h].allocations
             A == hostPool[h].allocations
  <1>1. /\ v \in Vm /\ v \notin A
        /\ S \in SUBSET Vm /\ A \in SUBSET Vm /\ A \cup {v} \in SUBSET S
    BY DEF TypeOK, EventsTypeOK, HostsTypeOK, HostInfo, AllocationInv, StoreHostAgreement
  <1>2. ASSUME NEW r \in Resource
        PROVE  hostPool[h].available[r] >= Usage[r][{v}]
    <2>1. /\ storePool[h].available[r] \in Nat
          /\ hostPool[h].available[r] \in Nat
          /\ hostPool[h].overcommit[r] \in Nat
          /\ Capacity[h][r] \in Nat
      BY CapacityAssumption DEF TypeOK, HostsTypeOK, HostInfo
    <2>2. storePool[h].overcommit[r] = 0
      BY DEF StoreWithinCapacity, Resource
    <2>3. /\ storePool[h].available[r] - 0 = Capacity[h][r] - Usage[r][S]
          /\ hostPool[h].available[r] - hostPool[h].overcommit[r]
               = Capacity[h][r] - Usage[r][A]
      BY <2>2 DEF BooksBalanced, Balanced, Net
    <2>4. Usage[r][A \cup {v}] = Usage[r][A] + Usage[r][{v}]
      BY <1>1, UsageAssumption
    <2>5. Usage[r][A \cup {v}] <= Usage[r][S]
      BY <1>1, UsageMonotone
    <2>6. /\ Usage[r][S] \in Nat
          /\ Usage[r][A] \in Nat
          /\ Usage[r][{v}] \in Nat
      BY <1>1, UsageTyped
    <2> QED BY <2>1, <2>3, <2>4, <2>5, <2>6
  <1>3. /\ hostPool[h].available["cpu"] \in Nat
        /\ Usage["cpu"][{v}] \in Nat
        /\ hostPool[h].available["cpu"] >= Usage["cpu"][{v}]
        /\ hostPool[h].available["memory"] >= Usage["memory"][{v}]
    BY <1>1, <1>2, UsageTyped DEF Resource, TypeOK, HostsTypeOK, HostInfo
  <1> QED BY <1>3 DEF CanAllocate

LEMMA NextNoRejection ==
    ASSUME TypeOK, AllocationInv, BooksBalanced, StoreWithinCapacity,
           NoHostRejection, [Next]_vars
    PROVE  NoHostRejection'
  <1>1. ASSUME hostNotices' \subseteq hostNotices
        PROVE  NoHostRejection'
    BY <1>1 DEF NoHostRejection
  <1>2. ASSUME NEW h \in Host, HostStep(h)
        PROVE  NoHostRejection'
    <2>1. ASSUME NEW v \in Vm, OnVmCreateRequest(h, v)
          PROVE  NoHostRejection'
      BY <1>1, <2>1, HostHasRoom DEF OnVmCreateRequest
    <2>2. ASSUME NEW v \in Vm, OnVmDeleted(h, v)
          PROVE  NoHostRejection'
      <3>1. CASE hostNotices' = hostNotices \cup
                   {[type |-> "AllocationReleased", vm |-> v, host |-> h]}
        BY <3>1 DEF NoHostRejection
      <3> QED BY <1>1, <2>2, <3>1 DEF OnVmDeleted
    <2>3. ASSUME \/ \E v \in Vm : OnVmStarted(h, v)
                 \/ \E v \in Vm, t \in ReleaseType : OnAllocationReleaseRequest(h, v, t)
                 \/ SendHostState(h)
          PROVE  NoHostRejection'
      BY <1>1, <2>3 DEF OnVmStarted, OnAllocationReleaseRequest, SendHostState
    <2> QED BY <1>2, <2>1, <2>2, <2>3 DEF HostStep, VmStep
  <1>3. CASE UserStep
    BY <1>1, <1>3
       DEF UserStep, SpawnVms, SpawnVmOnHost, DirectCommit, AddHost, AddScheduler, inboxes
  <1>4. ASSUME NEW s \in Sched, SchedulerStep(s)
        PROVE  NoHostRejection'
    BY <1>1, <1>4 DEF SchedulerStep, OnAllocationRequest, TimeOutRequest, PlaceRequest,
       RetryRequest, OnStoreNotification, inboxes
  <1>5. CASE StoreStep
    BY <1>1, <1>5 DEF StoreStep, OnCommitRequest, OnHostNotice, OnAllocationFailed,
       OnAllocationReleased
  <1>6. CASE ApiStep \/ MonitoringStep \/ UNCHANGED vars
    BY <1>1, <1>6 DEF ApiStep, OnVmStatusChanged, DeadlinePasses, MonitoringStep,
       OnHostStateUpdate, vars, inboxes
  <1> QED BY <1>2, <1>3, <1>4, <1>5, <1>6 DEF Next

LEMMA InitWithinCapacity == Init => StoreWithinCapacity /\ NoHostRejection
  BY DEF Init, FullPool, NewHostInfo, EventsInit, StoreWithinCapacity, NoHostRejection,
         Resource

(* With one VM per request, the store never commits more than a host has.  *)
(* (With several it does: see the run batch_commit.)                        *)
THEOREM SingleRequestsFit ==
    ASSUME SingleRequests
    PROVE  Spec => []StoreWithinCapacity
  <1>1. Init => TypeOK /\ StoreWithinCapacity
    BY InitTyped, InitWithinCapacity
  <1>2. TypeOK /\ StoreWithinCapacity /\ [Next]_vars => (TypeOK /\ StoreWithinCapacity)'
    BY NextTyped, NextWithinCapacity
  <1> QED BY <1>1, <1>2, PTL DEF Spec

(* And then no VM is refused by the host it was committed to, with or       *)
(* without overcommit: the store's answer is final.                         *)
THEOREM SingleRequestsAreNotRefused ==
    ASSUME SingleRequests
    PROVE  Spec => []NoHostRejection
  <1> DEFINE Inv == TypeOK /\ AllocationInv /\ BooksBalanced /\ StoreWithinCapacity
                    /\ NoHostRejection
  <1>1. Init => Inv
    BY InitTyped, InitSafe, InitBooks, InitWithinCapacity
  <1>2. Inv /\ [Next]_vars => Inv'
    BY NextTyped, NextSafe, NextBooks, NextWithinCapacity, NextNoRejection
  <1>3. Inv => NoHostRejection
    OBVIOUS
  <1> HIDE DEF Inv
  <1> QED BY <1>1, <1>2, <1>3, PTL DEF Spec
-----------------------------------------------------------------------------
(* The copies of the schedulers.  Release does not check that a VM is in    *)
(* the pool, so each message that gives a VM back has to find it in the     *)
(* copy, at the moment it is handled.                                       *)

Allocates(m, v) == m.type = "AllocationCommitSucceeded" /\ v \in DOMAIN m.placement
Withdraws(m, v) == m.type # "AllocationCommitSucceeded" /\ v \in DOMAIN m.placement
Names(m, v, h)  == m.placement[v] = h
FailureOf(m, b) == m.type = "AllocationCommitFailed" /\ DOMAIN m.placement = b

Grants(q, v)      == {i \in DOMAIN q : Allocates(q[i], v)}
Withdrawals(q, v) == {i \in DOMAIN q : Withdraws(q[i], v)}

GrantedOn(q, v, h)     == \E i \in Grants(q, v) : Names(q[i], v, h)
WithdrawnFrom(q, v, h) == \E i \in Withdrawals(q, v) : Names(q[i], v, h)

\* Of the messages about a VM the last one at most gives it back.
GivenBackLast(q, v) ==
    \A i \in Withdrawals(q, v) :
      /\ \A j \in Withdrawals(q, v) : i = j
      /\ \A j \in Grants(q, v) : j < i

\* Unless it is to be requested again, such a VM is nowhere any more.
GivenBackOnce(s, v) ==
    \A i \in Withdrawals(toSched[s], v) :
      /\ v \in Registered
      /\ Committing(v) = {}
      /\ ~ Allocated(v)
      /\ \A x \in Requested(v) : x[1] = s /\ FailureOf(toSched[s][i], x[2])

Decided(s, v, h) == \E m \in Committing(v) : m.from = s /\ Names(m, v, h)

Listed(s, v, h) ==
    v \in schedPool[s][h].allocations \/ GrantedOn(toSched[s], v, h)

\* What the copy lists, now or once it has heard of it, is what the store
\* has allocated, what the scheduler will hear was given back, and what it has
\* decided itself.
Follows(s, v, h) ==
    Listed(s, v, h) <=>
      h \in hosts /\ \/ v \in storePool[h].allocations
                     \/ WithdrawnFrom(toSched[s], v, h)
                     \/ Decided(s, v, h)

\* A scheduler that was not added yet has nothing to do with the store.
Strangers ==
    \A s \in Sched \ scheds :
      toSched[s] = <<>> /\ requests[s] = {} /\ \A m \in commitRequests : m.from # s

\* No host is named that may be added later.
HostsExist ==
    \A v \in Vm, h \in Host :
      /\ (\E m \in Committing(v) : Names(m, v, h)) => h \in hosts
      /\ \A s \in Sched : WithdrawnFrom(toSched[s], v, h) => h \in hosts

ViewInv ==
    /\ \A s \in Sched, v \in Vm : GivenBackLast(toSched[s], v) /\ GivenBackOnce(s, v)
    /\ \A s \in scheds, v \in Vm, h \in Host : Follows(s, v, h)
    /\ Strangers
    /\ Selection # "any" => HostsExist

-----------------------------------------------------------------------------
(* Queues of messages: one is appended, the first one is taken.            *)

LEMMA KindsOfMessages ==
    ASSUME NEW m, NEW v
    PROVE  /\ ~ (Allocates(m, v) /\ Withdraws(m, v))
           /\ Allocates(m, v) \/ Withdraws(m, v) <=> v \in DOMAIN m.placement
  BY DEF Allocates, Withdraws

Appended(q, m, r) ==
    \E n : /\ DOMAIN r = DOMAIN q \cup {n} /\ n \notin DOMAIN q
           /\ r[n] = m
           /\ \A i \in DOMAIN q : r[i] = q[i] /\ i < n

LEMMA AppendAppends ==
    ASSUME NEW S, NEW q \in Seq(S), NEW m \in S
    PROVE  Appended(q, m, Append(q, m))
  <1>1. /\ DOMAIN Append(q, m) = DOMAIN q \cup {Len(q) + 1} /\ Len(q) + 1 \notin DOMAIN q
        /\ Append(q, m)[Len(q) + 1] = m
        /\ \A i \in DOMAIN q : Append(q, m)[i] = q[i] /\ i < Len(q) + 1
    OBVIOUS
  <1> QED BY <1>1 DEF Appended

LEMMA OtherMessage ==
    ASSUME NEW q, NEW m, NEW r, NEW v, Appended(q, m, r),
           ~ Allocates(m, v), ~ Withdraws(m, v)
    PROVE  /\ Withdrawals(r, v) = Withdrawals(q, v)
           /\ \A i \in Withdrawals(q, v) : r[i] = q[i]
           /\ GivenBackLast(q, v) => GivenBackLast(r, v)
           /\ \A h : GrantedOn(r, v, h) <=> GrantedOn(q, v, h)
           /\ \A h : WithdrawnFrom(r, v, h) <=> WithdrawnFrom(q, v, h)
  <1>1. /\ Grants(r, v) = Grants(q, v) /\ Withdrawals(r, v) = Withdrawals(q, v)
        /\ \A i \in DOMAIN q : r[i] = q[i]
    BY DEF Appended, Grants, Withdrawals
  <1>2. /\ \A i \in Grants(q, v) : r[i] = q[i]
        /\ \A i \in Withdrawals(q, v) : r[i] = q[i]
    BY <1>1 DEF Grants, Withdrawals
  <1>3. GivenBackLast(q, v) => GivenBackLast(r, v)
    BY <1>1 DEF GivenBackLast
  <1>4. \A h : GrantedOn(r, v, h) <=> GrantedOn(q, v, h)
    BY <1>1, <1>2 DEF GrantedOn
  <1>5. \A h : WithdrawnFrom(r, v, h) <=> WithdrawnFrom(q, v, h)
    BY <1>1, <1>2 DEF WithdrawnFrom
  <1> QED BY <1>1, <1>2, <1>3, <1>4, <1>5

LEMMA GrantAdded ==
    ASSUME NEW q, NEW m, NEW r, NEW v, Appended(q, m, r),
           Allocates(m, v), Withdrawals(q, v) = {}
    PROVE  /\ Withdrawals(r, v) = {}
           /\ \A h : GrantedOn(r, v, h) <=> GrantedOn(q, v, h) \/ Names(m, v, h)
  <1>1. ~ Withdraws(m, v)
    BY KindsOfMessages
  <1>2. PICK n : /\ DOMAIN r = DOMAIN q \cup {n} /\ n \notin DOMAIN q
                 /\ r[n] = m
                 /\ \A i \in DOMAIN q : r[i] = q[i]
    BY DEF Appended
  <1>3. /\ Withdrawals(r, v) = {}
        /\ Grants(r, v) = Grants(q, v) \cup {n}
    BY <1>1, <1>2 DEF Withdrawals, Grants
  <1>4. \A i \in Grants(q, v) : r[i] = q[i]
    BY <1>2 DEF Grants
  <1>5. \A h : GrantedOn(r, v, h) <=> GrantedOn(q, v, h) \/ Names(m, v, h)
    BY <1>2, <1>3, <1>4 DEF GrantedOn
  <1> QED BY <1>3, <1>5

LEMMA WithdrawalAdded ==
    ASSUME NEW q, NEW m, NEW r, NEW v, Appended(q, m, r),
           Withdraws(m, v), Withdrawals(q, v) = {}
    PROVE  /\ GivenBackLast(r, v)
           /\ \A i \in Withdrawals(r, v) : r[i] = m
           /\ \A h : GrantedOn(r, v, h) <=> GrantedOn(q, v, h)
           /\ \A h : WithdrawnFrom(r, v, h) <=> Names(m, v, h)
  <1>1. ~ Allocates(m, v)
    BY KindsOfMessages
  <1>2. PICK n : /\ DOMAIN r = DOMAIN q \cup {n} /\ n \notin DOMAIN q
                 /\ r[n] = m
                 /\ \A i \in DOMAIN q : r[i] = q[i] /\ i < n
    BY DEF Appended
  <1>3. /\ Withdrawals(r, v) = {n}
        /\ Grants(r, v) = Grants(q, v)
    BY <1>1, <1>2 DEF Withdrawals, Grants
  <1>4. \A i \in Grants(q, v) : r[i] = q[i] /\ i < n
    BY <1>2 DEF Grants
  <1>5. GivenBackLast(r, v)
    BY <1>3, <1>4 DEF GivenBackLast
  <1>6. \A h : GrantedOn(r, v, h) <=> GrantedOn(q, v, h)
    BY <1>3, <1>4 DEF GrantedOn
  <1>7. \A h : WithdrawnFrom(r, v, h) <=> Names(m, v, h)
    <2> SUFFICES ASSUME NEW h PROVE WithdrawnFrom(r, v, h) <=> Names(m, v, h)
      OBVIOUS
    <2>1. WithdrawnFrom(r, v, h) <=> \E i \in {n} : Names(r[i], v, h)
      BY <1>3 DEF WithdrawnFrom
    <2>2. (\E i \in {n} : Names(r[i], v, h)) <=> Names(r[n], v, h)
      BY Zenon
    <2>3. r[n] = m
      BY <1>2, Zenon
    <2> QED BY ONLY <2>1, <2>2, <2>3
  <1> QED BY <1>2, <1>3, <1>5, <1>6, <1>7

Beheaded(q, m, r) ==
    \E n \in Nat :
      /\ DOMAIN q = 1..(n + 1) /\ q[1] = m
      /\ DOMAIN r = 1..n /\ \A i \in DOMAIN r : r[i] = q[i + 1]

LEMMA TailBeheads ==
    ASSUME NEW S, NEW q \in Seq(S), q # <<>>
    PROVE  Beheaded(q, Head(q), Tail(q))
  <1>1. Len(q) \in Nat /\ Len(q) # 0 /\ Len(q) - 1 \in Nat
    OBVIOUS
  <1>2. /\ DOMAIN q = 1..((Len(q) - 1) + 1) /\ q[1] = Head(q)
        /\ DOMAIN Tail(q) = 1..(Len(q) - 1)
        /\ \A i \in DOMAIN Tail(q) : Tail(q)[i] = q[i + 1]
    BY <1>1
  <1> QED BY <1>1, <1>2, Zenon DEF Beheaded

LEMMA HeadTaken ==
    ASSUME NEW q, NEW m, NEW r, NEW v, Beheaded(q, m, r)
    PROVE  /\ \A i : i \in Grants(r, v) <=> i \in Nat /\ i # 0 /\ i + 1 \in Grants(q, v)
           /\ \A i : i \in Withdrawals(r, v) <=>
                       i \in Nat /\ i # 0 /\ i + 1 \in Withdrawals(q, v)
           /\ \A i \in Grants(r, v) : r[i] = q[i + 1]
           /\ \A i \in Withdrawals(r, v) : r[i] = q[i + 1]
           /\ \A i \in Grants(q, v) : i = 1 \/ i - 1 \in Grants(r, v)
           /\ \A i \in Withdrawals(q, v) : i = 1 \/ i - 1 \in Withdrawals(r, v)
           /\ 1 \in Grants(q, v) <=> Allocates(m, v)
           /\ 1 \in Withdrawals(q, v) <=> Withdraws(m, v)
           /\ q[1] = m
           /\ Grants(q, v) \subseteq Nat \ {0} /\ Withdrawals(q, v) \subseteq Nat \ {0}
           /\ Grants(r, v) \subseteq Nat \ {0} /\ Withdrawals(r, v) \subseteq Nat \ {0}
  <1>1. PICK n \in Nat :
          /\ DOMAIN q = 1..(n + 1) /\ q[1] = m
          /\ DOMAIN r = 1..n /\ \A i \in DOMAIN r : r[i] = q[i + 1]
    BY DEF Beheaded
  <1>2. \A i : i \in DOMAIN r <=> i \in Nat /\ i # 0 /\ i + 1 \in DOMAIN q
    BY <1>1
  <1>3. \A i \in DOMAIN q : i = 1 \/ (i - 1 \in DOMAIN r /\ i = (i - 1) + 1)
    BY <1>1
  <1>4. DOMAIN q \subseteq Nat \ {0} /\ DOMAIN r \subseteq Nat \ {0} /\ 1 \in DOMAIN q
    BY <1>1
  <1>5. /\ \A i : i \in Grants(r, v) <=> i \in Nat /\ i # 0 /\ i + 1 \in Grants(q, v)
        /\ \A i \in Grants(r, v) : r[i] = q[i + 1]
        /\ \A i \in Grants(q, v) : i = 1 \/ i - 1 \in Grants(r, v)
        /\ 1 \in Grants(q, v) <=> Allocates(m, v)
        /\ Grants(q, v) \subseteq Nat \ {0} /\ Grants(r, v) \subseteq Nat \ {0}
    BY <1>1, <1>2, <1>3, <1>4 DEF Grants
  <1>6. /\ \A i : i \in Withdrawals(r, v) <=>
                    i \in Nat /\ i # 0 /\ i + 1 \in Withdrawals(q, v)
        /\ \A i \in Withdrawals(r, v) : r[i] = q[i + 1]
        /\ \A i \in Withdrawals(q, v) : i = 1 \/ i - 1 \in Withdrawals(r, v)
        /\ 1 \in Withdrawals(q, v) <=> Withdraws(m, v)
        /\ Withdrawals(q, v) \subseteq Nat \ {0} /\ Withdrawals(r, v) \subseteq Nat \ {0}
    BY <1>1, <1>2, <1>3, <1>4 DEF Withdrawals
  <1> QED BY ONLY <1>1, <1>5, <1>6

LEMMA MessageTaken ==
    ASSUME NEW q, NEW m, NEW r, NEW v, Beheaded(q, m, r), GivenBackLast(q, v)
    PROVE  /\ GivenBackLast(r, v)
           /\ \A i \in Withdrawals(r, v) : \E j \in Withdrawals(q, v) : r[i] = q[j]
           /\ ~ Withdraws(m, v) => \A h : WithdrawnFrom(r, v, h) <=> WithdrawnFrom(q, v, h)
           /\ ~ Allocates(m, v) => \A h : GrantedOn(r, v, h) <=> GrantedOn(q, v, h)
           /\ Allocates(m, v) =>
                \A h : GrantedOn(q, v, h) <=> GrantedOn(r, v, h) \/ Names(m, v, h)
           /\ Withdraws(m, v) =>
                /\ \A h : WithdrawnFrom(q, v, h) <=> Names(m, v, h)
                /\ \A h : ~ GrantedOn(r, v, h) /\ ~ WithdrawnFrom(r, v, h)
  <1>1. /\ \A i : i \in Grants(r, v) <=> i \in Nat /\ i # 0 /\ i + 1 \in Grants(q, v)
        /\ \A i : i \in Withdrawals(r, v) <=>
                    i \in Nat /\ i # 0 /\ i + 1 \in Withdrawals(q, v)
        /\ \A i \in Grants(r, v) : r[i] = q[i + 1]
        /\ \A i \in Withdrawals(r, v) : r[i] = q[i + 1]
        /\ \A i \in Grants(q, v) : i = 1 \/ i - 1 \in Grants(r, v)
        /\ \A i \in Withdrawals(q, v) : i = 1 \/ i - 1 \in Withdrawals(r, v)
        /\ 1 \in Grants(q, v) <=> Allocates(m, v)
        /\ 1 \in Withdrawals(q, v) <=> Withdraws(m, v)
        /\ q[1] = m
        /\ Grants(q, v) \subseteq Nat \ {0} /\ Withdrawals(q, v) \subseteq Nat \ {0}
        /\ Grants(r, v) \subseteq Nat \ {0} /\ Withdrawals(r, v) \subseteq Nat \ {0}
    BY HeadTaken
  <1>2. /\ \A i, j \in Withdrawals(q, v) : i = j
        /\ \A i \in Withdrawals(q, v), j \in Grants(q, v) : j < i
    BY DEF GivenBackLast
  <1>3. GivenBackLast(r, v)
    <2>1. \A i, j \in Withdrawals(r, v) : i = j
      BY <1>1, <1>2
    <2>2. \A i \in Withdrawals(r, v), j \in Grants(r, v) : j < i
      BY <1>1, <1>2
    <2> QED BY <2>1, <2>2 DEF GivenBackLast
  <1>4. \A i \in Withdrawals(r, v) : \E j \in Withdrawals(q, v) : r[i] = q[j]
    BY <1>1
  <1>5. \A i \in Grants(q, v) : i # 1 => i - 1 \in Grants(r, v) /\ r[i - 1] = q[i]
    BY <1>1
  <1>6. \A i \in Withdrawals(q, v) : i # 1 => i - 1 \in Withdrawals(r, v) /\ r[i - 1] = q[i]
    BY <1>1
  <1>7. ASSUME NEW h
        PROVE  /\ WithdrawnFrom(r, v, h) => WithdrawnFrom(q, v, h)
               /\ GrantedOn(r, v, h) => GrantedOn(q, v, h)
    BY <1>1 DEF WithdrawnFrom, GrantedOn
  <1>8. ASSUME NEW h, ~ Withdraws(m, v), WithdrawnFrom(q, v, h)
        PROVE  WithdrawnFrom(r, v, h)
    BY <1>1, <1>6, <1>8 DEF WithdrawnFrom
  <1>9. ASSUME NEW h, GrantedOn(q, v, h)
        PROVE  GrantedOn(r, v, h) \/ (Allocates(m, v) /\ Names(m, v, h))
    BY <1>1, <1>5, <1>9 DEF GrantedOn
  <1>10. ASSUME NEW h, Allocates(m, v), Names(m, v, h)
         PROVE  GrantedOn(q, v, h)
    BY <1>1, <1>10 DEF GrantedOn
  <1>11. ASSUME Withdraws(m, v)
         PROVE  /\ \A h : WithdrawnFrom(q, v, h) <=> Names(m, v, h)
                /\ \A h : ~ GrantedOn(r, v, h) /\ ~ WithdrawnFrom(r, v, h)
    <2>1. Withdrawals(q, v) = {1}
      BY <1>1, <1>2, <1>11
    <2>2. Grants(q, v) = {}
      <3>1. \A j \in Grants(q, v) : j < 1 /\ j \in Nat /\ j # 0
        BY <1>1, <1>2, <2>1
      <3> QED BY <3>1
    <2>3. Withdrawals(r, v) = {} /\ Grants(r, v) = {}
      BY <1>1, <2>1, <2>2
    <2> QED BY <1>1, <2>1, <2>3 DEF WithdrawnFrom, GrantedOn
  <1> QED BY ONLY <1>3, <1>4, <1>7, <1>8, <1>9, <1>10, <1>11

-----------------------------------------------------------------------------
(* The steps.                                                              *)

LEMMA GivenBackStays ==
    ASSUME ViewInv, NEW s \in Sched, NEW v \in Vm, toSched'[s] = toSched[s],
           Registered \subseteq Registered', Committing(v)' \subseteq Committing(v),
           Allocated(v)' => Allocated(v),
           Requested(v)' \subseteq Requested(v) \/ v \notin Registered
    PROVE  GivenBackLast(toSched[s], v)' /\ GivenBackOnce(s, v)'
  <1>1. GivenBackLast(toSched[s], v) /\ GivenBackOnce(s, v)
    BY DEF ViewInv
  <1>2. GivenBackLast(toSched[s], v)'
    BY <1>1
  <1>3. Withdrawals(toSched[s], v)' = Withdrawals(toSched[s], v)
    OBVIOUS
  <1>4. GivenBackOnce(s, v)'
    BY <1>1, <1>3 DEF GivenBackOnce
  <1> QED BY <1>2, <1>4

\* Nothing is sent to a scheduler, and no VM is decided on or moved.
LEMMA ViewsUntouched ==
    ASSUME ViewInv, Registered \subseteq Registered',
           \A v \in Vm : Requested(v)' \subseteq Requested(v) \/ v \notin Registered,
           \A s \in Sched \ scheds : requests[s] = {} => requests'[s] = {},
           UNCHANGED <<hosts, scheds, commitRequests, toSched, schedPool, storePool>>
    PROVE  ViewInv'
  <1>1. \A v \in Vm : Committing(v)' = Committing(v) /\ (Allocated(v)' <=> Allocated(v))
    BY DEF Committing, Allocated
  <1>2. ASSUME NEW s \in Sched, NEW v \in Vm
        PROVE  GivenBackLast(toSched[s], v)' /\ GivenBackOnce(s, v)'
    BY <1>1, GivenBackStays
  <1>3. ASSUME NEW s \in scheds', NEW v \in Vm, NEW h \in Host
        PROVE  Follows(s, v, h)'
    <2>1. Follows(s, v, h)
      BY DEF ViewInv
    <2> QED BY <1>1, <2>1 DEF Follows, Listed, Decided
  <1>4. Strangers'
    BY DEF Strangers, ViewInv
  <1>5. HostsExist => HostsExist'
    BY <1>1 DEF HostsExist
  <1> QED BY <1>2, <1>3, <1>4, <1>5 DEF ViewInv

LEMMA SpawnVmsViews ==
    ASSUME TypeOK, ViewInv, NEW s \in Sched, NEW b \in Batch, SpawnVms(s, b)
    PROVE  ViewInv'
  <1>1. b \subseteq Vm /\ \A v \in b : v \notin Registered
    BY BatchAssumption DEF SpawnVms, RegisterNewVms
  <1>2. Registered \subseteq Registered'
    BY <1>1 DEF SpawnVms, RegisterNewVms, Registered
  <1>3. requests' = [requests EXCEPT ![s] = @ \cup {b}] /\ s \in scheds
    BY DEF SpawnVms
  <1>4. \A v \in Vm : Requested(v)' \subseteq Requested(v) \/ v \notin Registered
    BY <1>1, <1>3 DEF Requested, TypeOK, EventsTypeOK
  <1>5. \A t \in Sched \ scheds : requests[t] = {} => requests'[t] = {}
    BY <1>3 DEF TypeOK, EventsTypeOK
  <1> QED BY <1>2, <1>4, <1>5, ViewsUntouched DEF SpawnVms, registrations

LEMMA AddHostViews ==
    ASSUME Selection = "any" => LateHosts = {}, TypeOK, AllocationInv, ViewInv,
           NEW g \in LateHosts, AddHost(g)
    PROVE  ViewInv'
  <1>1. hosts' = hosts \cup {g} /\ g \notin hosts /\ Registered' = Registered
    BY RegisteredStays DEF AddHost, apiVars
  <1>2. UNCHANGED <<scheds, requests, commitRequests, toSched, schedPool, storePool>>
    BY DEF AddHost, inboxes
  <1>3. HostsExist
    BY DEF ViewInv
  <1>4. \A v \in Vm : /\ Committing(v)' = Committing(v) /\ (Allocated(v)' <=> Allocated(v))
                      /\ Requested(v)' = Requested(v)
    BY <1>2 DEF Committing, Allocated, Requested
  <1>5. ASSUME NEW s \in Sched, NEW v \in Vm
        PROVE  GivenBackLast(toSched[s], v)' /\ GivenBackOnce(s, v)'
    BY <1>1, <1>2, <1>4, GivenBackStays
  <1>6. ASSUME NEW s \in scheds', NEW v \in Vm, NEW h \in Host
        PROVE  Follows(s, v, h)'
    <2>1. Follows(s, v, h) /\ s \in Sched
      BY <1>2 DEF ViewInv, TypeOK, EventsTypeOK
    <2>2. /\ Listed(s, v, h)' <=> Listed(s, v, h)
          /\ Decided(s, v, h)' <=> Decided(s, v, h)
          /\ WithdrawnFrom(toSched[s], v, h)' <=> WithdrawnFrom(toSched[s], v, h)
      BY <1>2, <1>4 DEF Listed, Decided
    <2>3. /\ v \in storePool[h].allocations => h \in hosts
          /\ WithdrawnFrom(toSched[s], v, h) => h \in hosts
          /\ Decided(s, v, h) => h \in hosts
      BY <1>3, <2>1 DEF HostsExist, AllocationInv, OnKnownHosts, Decided
    <2> QED BY <1>1, <1>2, <2>1, <2>2, <2>3 DEF Follows
  <1>7. Strangers'
    BY <1>2 DEF Strangers, ViewInv
  <1>8. HostsExist'
    BY <1>1, <1>2, <1>3, <1>4 DEF HostsExist
  <1> QED BY <1>5, <1>6, <1>7, <1>8 DEF ViewInv

LEMMA AddSchedulerViews ==
    ASSUME TypeOK, AllocationInv, ViewInv, NEW t \in Sched, AddScheduler(t)
    PROVE  ViewInv'
  <1>1. scheds' = scheds \cup {t} /\ t \notin scheds /\ Registered' = Registered
    BY RegisteredStays DEF AddScheduler, apiVars
  <1>2. /\ UNCHANGED <<hosts, requests, commitRequests, toSched, storePool>>
        /\ schedPool' = [schedPool EXCEPT ![t] = storePool]
    BY DEF AddScheduler, inboxes
  <1>3. \A v \in Vm : /\ Committing(v)' = Committing(v) /\ (Allocated(v)' <=> Allocated(v))
                      /\ Requested(v)' = Requested(v)
    BY <1>2 DEF Committing, Allocated, Requested
  <1>4. ASSUME NEW s \in Sched, NEW v \in Vm
        PROVE  GivenBackLast(toSched[s], v)' /\ GivenBackOnce(s, v)'
    BY <1>1, <1>2, <1>3, GivenBackStays
  <1>5. ASSUME NEW s \in scheds', NEW v \in Vm, NEW h \in Host
        PROVE  Follows(s, v, h)'
    <2>1. schedPool'[s] = IF s = t THEN storePool ELSE schedPool[s]
      BY <1>1, <1>2 DEF TypeOK, EventsTypeOK
    <2>2. CASE s = t
      <3>1. toSched[s] = <<>> /\ \A m \in commitRequests : m.from # s
        BY <1>1, <2>2 DEF ViewInv, Strangers
      <3>2. Grants(toSched[s], v) = {} /\ Withdrawals(toSched[s], v) = {}
        BY <3>1 DEF Grants, Withdrawals
      <3>3. ~ GrantedOn(toSched'[s], v, h) /\ ~ WithdrawnFrom(toSched'[s], v, h)
        BY <1>2, <3>2 DEF GrantedOn, WithdrawnFrom
      <3>4. ~ Decided(s, v, h)'
        BY <1>2, <3>1 DEF Decided, Committing
      <3>5. v \in storePool[h].allocations => h \in hosts
        BY DEF AllocationInv, OnKnownHosts
      <3> QED BY <1>2, <2>1, <2>2, <3>3, <3>4, <3>5 DEF Follows, Listed
    <2>3. CASE s # t
      <3>1. Follows(s, v, h) /\ schedPool'[s] = schedPool[s]
        BY <1>1, <2>1, <2>3 DEF ViewInv
      <3> QED BY <1>2, <1>3, <3>1 DEF Follows, Listed, Decided
    <2> QED BY <2>2, <2>3
  <1>6. Strangers'
    BY <1>1, <1>2 DEF Strangers, ViewInv
  <1>7. HostsExist => HostsExist'
    BY <1>2, <1>3 DEF HostsExist
  <1> QED BY <1>4, <1>5, <1>6, <1>7 DEF ViewInv

LEMMA PlaceRequestViews ==
    ASSUME TypeOK, AllocationInv, ViewInv, NEW s \in Sched, NEW b \in Batch,
           PlaceRequest(s, b), SchedulerStep(s)
    PROVE  ViewInv'
  <1>1. PICK p \in [b -> Host] :
          /\ MaySelect(schedPool[s], p)
          /\ schedPool' = [schedPool EXCEPT ![s] = AllocateAll(@, hosts, p)]
          /\ commitRequests' = commitRequests \cup {[placement |-> p, from |-> s]}
    BY DEF PlaceRequest
  <1> DEFINE m == [placement |-> p, from |-> s]
  <1>2. /\ RequestDelivered(s, b) /\ b \in requests[s]
        /\ requests' = [requests EXCEPT ![s] = @ \ {b}]
        /\ UNCHANGED <<hosts, scheds, toSched, storePool, vmStatus>>
    BY DEF PlaceRequest, RequestDelivered, SchedulerStep, registrations
  <1>3. Registered' = Registered
    BY <1>2, RegisteredStays
  <1>4. \A v \in Vm :
          /\ v \notin b => Requested(v)' = Requested(v) /\ Committing(v)' = Committing(v)
          /\ v \in b => /\ <<s, b>> \in Requested(v)
                        /\ Committing(v)' = Committing(v) \cup {m}
    BY <1>1, <1>2 DEF Requested, Committing, TypeOK, EventsTypeOK
  <1>5. \A v \in Vm : Allocated(v)' <=> Allocated(v)
    BY <1>2 DEF Allocated
  <1>6. \A v \in Vm, t \in Sched : v \in b => Withdrawals(toSched[t], v) = {}
    <2> SUFFICES ASSUME NEW v \in Vm, NEW t \in Sched, v \in b,
                        NEW i \in Withdrawals(toSched[t], v)
                 PROVE  FALSE
      OBVIOUS
    <2>1. t = s /\ FailureOf(toSched[t][i], b)
      BY <1>4 DEF ViewInv, GivenBackOnce
    <2>2. i \in DOMAIN toSched[t]
      BY DEF Withdrawals
    <2> QED BY <1>2, <2>1, <2>2 DEF RequestDelivered, FailureOf
  <1>7. ASSUME NEW t \in Sched, NEW v \in Vm
        PROVE  GivenBackLast(toSched[t], v)' /\ GivenBackOnce(t, v)'
    <2>1. CASE v \in b
      <3>1. Withdrawals(toSched'[t], v) = {}
        BY <1>2, <1>6, <2>1
      <3> QED BY <3>1 DEF GivenBackLast, GivenBackOnce
    <2>2. CASE v \notin b
      BY <1>2, <1>3, <1>4, <1>5, <2>2, GivenBackStays
    <2> QED BY <2>1, <2>2
  <1>8. s \in scheds
    BY <1>2 DEF ViewInv, Strangers
  <1>9. ASSUME NEW t \in scheds', NEW v \in Vm, NEW h \in Host
        PROVE  Follows(t, v, h)'
    <2>1. Follows(t, v, h) /\ t \in Sched
      BY <1>2 DEF ViewInv, TypeOK, EventsTypeOK
    <2>2. CASE t # s
      <3>1. schedPool'[t] = schedPool[t]
        BY <1>1, <2>1, <2>2 DEF TypeOK
      <3>2. Decided(t, v, h)' <=> Decided(t, v, h)
        BY <1>4, <2>2 DEF Decided
      <3> QED BY <1>2, <2>1, <3>1, <3>2 DEF Follows, Listed
    <2>3. CASE t = s
      <3>1. v \in schedPool'[t][h].allocations <=>
              \/ v \in schedPool[t][h].allocations
              \/ h \in hosts /\ v \in b /\ p[v] = h
        <4>1. schedPool'[t][h] =
                IF h \in hosts THEN Allocate(schedPool[t][h], PlacedOn(p, h))
                               ELSE schedPool[t][h]
          BY <1>1, <2>3 DEF TypeOK, AllocateAll
        <4>2. schedPool[t][h] \in HostInfo /\ PlacedOn(p, h) \in SUBSET Vm
          BY <2>1, BatchAssumption DEF TypeOK, PlacedOn
        <4>3. h \in hosts => schedPool'[t][h].allocations
                               = schedPool[t][h].allocations \cup PlacedOn(p, h)
          BY <4>1, <4>2, AllocateTyped
        <4> QED BY <4>1, <4>3 DEF PlacedOn
      <3>2. Decided(t, v, h)' <=> Decided(t, v, h) \/ (v \in b /\ p[v] = h)
        <4>1. m.from = s /\ (Names(m, v, h) <=> p[v] = h)
          BY DEF Names
        <4> HIDE DEF m
        <4> QED BY <1>4, <2>3, <4>1 DEF Decided
      <3> QED BY <1>2, <2>1, <3>1, <3>2 DEF Follows, Listed
    <2> QED BY <2>2, <2>3
  <1>10. Strangers'
    BY <1>1, <1>2, <1>8 DEF Strangers, ViewInv, TypeOK, EventsTypeOK
  <1>11. ASSUME Selection # "any" PROVE HostsExist'
    <2>1. HostsExist
      BY <1>11 DEF ViewInv
    <2>2. ASSUME NEW v \in Vm, NEW h \in Host, Names(m, v, h), v \in b PROVE h \in hosts
      BY <1>1, <1>11, <2>2 DEF Names, MaySelect, PlacedOn
    <2> HIDE DEF m
    <2> QED BY <1>2, <1>4, <2>1, <2>2 DEF HostsExist
  <1> QED BY <1>7, <1>9, <1>10, <1>11 DEF ViewInv

LEMMA NotificationViews ==
    ASSUME TypeOK, AllocationInv, ViewInv, NEW s \in Sched,
           OnStoreNotification(s), SchedulerStep(s)
    PROVE  ViewInv'
  <1> DEFINE m == Head(toSched[s])
  <1>1. /\ toSched[s] # <<>>
        /\ schedPool' = [schedPool EXCEPT ![s] = ViewAfter(@, m)]
        /\ toSched' = [toSched EXCEPT ![s] = Tail(@)]
        /\ UNCHANGED <<hosts, scheds, requests, commitRequests, storePool, vmStatus>>
    BY DEF OnStoreNotification, SchedulerStep, registrations
  <1>2. /\ toSched[s] \in Seq(SchedulerMessage) /\ m \in SchedulerMessage
        /\ \A t \in Sched : toSched'[t] = IF t = s THEN Tail(toSched[s]) ELSE toSched[t]
        /\ \A t \in Sched : schedPool'[t] = IF t = s THEN ViewAfter(schedPool[s], m)
                                                     ELSE schedPool[t]
    BY <1>1 DEF TypeOK, EventsTypeOK
  <1>3. DOMAIN m.placement \subseteq Vm
    BY <1>1, MessageTyped DEF TypeOK, EventsTypeOK
  <1>4. Beheaded(toSched[s], m, toSched'[s])
    BY <1>1, <1>2, TailBeheads
  <1>5. Registered' = Registered /\ s \in scheds
    BY <1>1, RegisteredStays DEF ViewInv, Strangers
  <1>6. \A v \in Vm : /\ Committing(v)' = Committing(v) /\ (Allocated(v)' <=> Allocated(v))
                      /\ Requested(v)' = Requested(v)
    BY <1>1 DEF Committing, Allocated, Requested
  <1> HIDE DEF m
  <1>7. ASSUME NEW v \in Vm
        PROVE  /\ GivenBackLast(toSched[s], v)'
               /\ \A i \in Withdrawals(toSched'[s], v) :
                    \E j \in Withdrawals(toSched[s], v) : toSched'[s][i] = toSched[s][j]
    BY <1>4, MessageTaken DEF ViewInv
  <1>8. ASSUME NEW t \in Sched, NEW v \in Vm
        PROVE  GivenBackLast(toSched[t], v)' /\ GivenBackOnce(t, v)'
    <2>1. CASE t = s
      <3>1. GivenBackOnce(s, v)
        BY DEF ViewInv
      <3>2. GivenBackOnce(s, v)'
        BY <1>5, <1>6, <1>7, <3>1 DEF GivenBackOnce
      <3> QED BY <1>7, <2>1, <3>2
    <2>2. CASE t # s
      BY <1>2, <1>5, <1>6, <2>2, GivenBackStays
    <2> QED BY <2>1, <2>2
  <1>9. ASSUME NEW v \in Vm, NEW h \in Host
        PROVE  v \in schedPool'[s][h].allocations <=>
                 \/ v \in schedPool[s][h].allocations
                    /\ ~ (h \in hosts /\ Withdraws(m, v) /\ Names(m, v, h))
                 \/ h \in hosts /\ Allocates(m, v) /\ Names(m, v, h)
    <2>1. schedPool[s][h] \in HostInfo /\ PlacedOn(m.placement, h) \in SUBSET Vm
      BY <1>3 DEF TypeOK, PlacedOn
    <2>2. v \in PlacedOn(m.placement, h) <=> v \in DOMAIN m.placement /\ Names(m, v, h)
      BY DEF PlacedOn, Names
    <2>3. CASE h \notin hosts
      BY <1>2, <2>3 DEF ViewAfter, AllocateAll, ReleaseAll
    <2>4. CASE h \in hosts /\ m.type = "AllocationCommitSucceeded"
      <3>1. schedPool'[s][h] = Allocate(schedPool[s][h], PlacedOn(m.placement, h))
        BY <1>2, <2>4 DEF ViewAfter, AllocateAll
      <3>2. schedPool'[s][h].allocations
              = schedPool[s][h].allocations \cup PlacedOn(m.placement, h)
        BY <2>1, <3>1, AllocateTyped
      <3> QED BY <2>2, <2>4, <3>2 DEF Allocates, Withdraws
    <2>5. CASE h \in hosts /\ m.type # "AllocationCommitSucceeded"
      <3>1. schedPool'[s][h] = Release(schedPool[s][h], PlacedOn(m.placement, h))
        BY <1>2, <2>5 DEF ViewAfter, ReleaseAll
      <3>2. schedPool'[s][h].allocations
              = schedPool[s][h].allocations \ PlacedOn(m.placement, h)
        BY <2>1, <3>1, ReleaseTyped
      <3> QED BY <2>2, <2>5, <3>2 DEF Allocates, Withdraws
    <2> QED BY <2>3, <2>4, <2>5
  <1>10. ASSUME NEW t \in scheds', NEW v \in Vm, NEW h \in Host
        PROVE  Follows(t, v, h)'
    <2>1. Follows(t, v, h) /\ t \in Sched
      BY <1>1 DEF ViewInv, TypeOK, EventsTypeOK
    <2>2. Decided(t, v, h)' <=> Decided(t, v, h)
      BY <1>6 DEF Decided
    <2>3. CASE t # s
      BY <1>1, <1>2, <2>1, <2>2, <2>3 DEF Follows, Listed
    <2>4. CASE t = s
      <3>1. GivenBackLast(toSched[s], v)
        BY DEF ViewInv
      <3>2. CASE Withdraws(m, v)
        <4>1. /\ WithdrawnFrom(toSched[s], v, h) <=> Names(m, v, h)
              /\ ~ GrantedOn(toSched'[s], v, h) /\ ~ WithdrawnFrom(toSched'[s], v, h)
          BY <1>4, <3>1, <3>2, MessageTaken
        <4>2. 1 \in Withdrawals(toSched[s], v)
          BY <1>4, <3>2, HeadTaken
        <4>3. Committing(v) = {} /\ ~ Allocated(v)
          BY <4>2 DEF ViewInv, GivenBackOnce
        <4>4. ~ Decided(s, v, h) /\ v \notin storePool[h].allocations
          BY <4>3 DEF Decided, Allocated
        <4>5. ~ Allocates(m, v)
          BY <3>2, KindsOfMessages
        <4>6. v \in schedPool[s][h].allocations => h \in hosts /\ Names(m, v, h)
          BY <2>1, <2>4, <4>1, <4>4 DEF Follows, Listed
        <4>7. v \notin schedPool'[s][h].allocations
          BY <1>9, <3>2, <4>5, <4>6
        <4> QED BY <1>1, <2>2, <2>4, <4>1, <4>4, <4>7 DEF Follows, Listed
      <3>3. CASE Allocates(m, v)
        <4>1. ~ Withdraws(m, v)
          BY <3>3, KindsOfMessages
        <4>2. /\ WithdrawnFrom(toSched'[s], v, h) <=> WithdrawnFrom(toSched[s], v, h)
              /\ GrantedOn(toSched[s], v, h) <=>
                   GrantedOn(toSched'[s], v, h) \/ Names(m, v, h)
          BY <1>4, <3>1, <3>3, <4>1, MessageTaken
        <4>3. Listed(s, v, h) => h \in hosts
          BY <2>1, <2>4 DEF Follows
        <4>4. Listed(s, v, h)' <=> Listed(s, v, h)
          BY <1>9, <3>3, <4>1, <4>2, <4>3 DEF Listed
        <4> QED BY <1>1, <2>1, <2>2, <2>4, <4>2, <4>4 DEF Follows
      <3>4. CASE ~ Allocates(m, v) /\ ~ Withdraws(m, v)
        <4>1. /\ WithdrawnFrom(toSched'[s], v, h) <=> WithdrawnFrom(toSched[s], v, h)
              /\ GrantedOn(toSched'[s], v, h) <=> GrantedOn(toSched[s], v, h)
          BY <1>4, <3>1, <3>4, MessageTaken
        <4> QED BY <1>1, <1>9, <2>1, <2>2, <2>4, <3>4, <4>1 DEF Follows, Listed
      <3> QED BY <3>2, <3>3, <3>4
    <2> QED BY <2>3, <2>4
  <1>11. Strangers'
    BY <1>1, <1>2, <1>5 DEF Strangers, ViewInv
  <1>12. ASSUME Selection # "any" PROVE HostsExist'
    <2>1. HostsExist
      BY <1>12 DEF ViewInv
    <2>2. ASSUME NEW t \in Sched, NEW v \in Vm, NEW h \in Host,
                 WithdrawnFrom(toSched'[t], v, h)
          PROVE  WithdrawnFrom(toSched[t], v, h)
      <3>1. CASE t # s
        BY <1>2, <2>2, <3>1
      <3>2. CASE t = s /\ Withdraws(m, v)
        BY <1>4, <2>2, <3>2, MessageTaken DEF ViewInv
      <3>3. CASE t = s /\ ~ Withdraws(m, v)
        BY <1>4, <2>2, <3>3, MessageTaken DEF ViewInv
      <3> QED BY <3>1, <3>2, <3>3
    <2> QED BY <1>1, <1>6, <2>1, <2>2 DEF HostsExist
  <1> QED BY <1>8, <1>10, <1>11, <1>12 DEF ViewInv

(* What a message about the VMs of p, sent to every scheduler, leaves.      *)
LEMMA Notified ==
    ASSUME TypeOK, NEW m \in SchedulerMessage, NotifyAll(scheds, m), NEW s \in Sched
    PROVE  /\ s \in scheds => Appended(toSched[s], m, toSched'[s])
           /\ s \notin scheds => toSched'[s] = toSched[s]
  <1>1. toSched[s] \in Seq(SchedulerMessage)
    BY DEF TypeOK, EventsTypeOK
  <1> QED BY <1>1, AppendAppends DEF NotifyAll

\* A VM the message does not mention, nor the step.
LEMMA NotMentioned ==
    ASSUME TypeOK, ViewInv, NEW s \in Sched, NEW v \in Vm, NEW m,
           Appended(toSched[s], m, toSched'[s]) \/ toSched'[s] = toSched[s],
           ~ Allocates(m, v), ~ Withdraws(m, v),
           UNCHANGED <<hosts, schedPool>>,
           Registered \subseteq Registered', Committing(v)' = Committing(v),
           Requested(v)' = Requested(v),
           \A h \in Host : v \in storePool'[h].allocations <=> v \in storePool[h].allocations
    PROVE  /\ GivenBackLast(toSched[s], v)' /\ GivenBackOnce(s, v)'
           /\ \A h \in Host : Follows(s, v, h) => Follows(s, v, h)'
           /\ \A h \in Host : WithdrawnFrom(toSched'[s], v, h)
                                <=> WithdrawnFrom(toSched[s], v, h)
  <1>1. GivenBackLast(toSched[s], v) /\ GivenBackOnce(s, v)
    BY DEF ViewInv
  <1>2. /\ Withdrawals(toSched'[s], v) = Withdrawals(toSched[s], v)
        /\ \A i \in Withdrawals(toSched[s], v) : toSched'[s][i] = toSched[s][i]
        /\ GivenBackLast(toSched'[s], v)
        /\ \A h : GrantedOn(toSched'[s], v, h) <=> GrantedOn(toSched[s], v, h)
        /\ \A h : WithdrawnFrom(toSched'[s], v, h) <=> WithdrawnFrom(toSched[s], v, h)
    BY <1>1, OtherMessage
  <1>3. Allocated(v)' <=> Allocated(v)
    BY DEF Allocated
  <1>4. GivenBackOnce(s, v)'
    BY <1>1, <1>2, <1>3 DEF GivenBackOnce
  <1>5. ASSUME NEW h \in Host, Follows(s, v, h)
        PROVE  Follows(s, v, h)'
    BY <1>2, <1>5 DEF Follows, Listed, Decided
  <1> QED BY <1>2, <1>4, <1>5

LEMMA CommitViews ==
    ASSUME TypeOK, AllocationInv, ViewInv, NEW p, CanCommit(p), Commit(p),
           DOMAIN p \subseteq Vm,
           [type |-> "AllocationCommitSucceeded", placement |-> p] \in SchedulerMessage,
           \A v \in DOMAIN p :
             /\ ~ Allocated(v) /\ Committing(v)' = {}
             /\ \A s \in Sched : Withdrawals(toSched[s], v) = {}
             /\ \A s \in Sched, h \in Host : Decided(s, v, h) => p[v] = h,
           \A v \in Vm \ DOMAIN p : Committing(v)' = Committing(v),
           commitRequests' \subseteq commitRequests,
           \A v \in Vm : Requested(v)' = Requested(v),
           Registered \subseteq Registered',
           UNCHANGED <<hosts, scheds, requests, schedPool>>
    PROVE  ViewInv'
  <1> DEFINE m == [type |-> "AllocationCommitSucceeded", placement |-> p]
  <1>1. \A v, h : /\ Allocates(m, v) <=> v \in DOMAIN p
                  /\ ~ Withdraws(m, v)
                  /\ Names(m, v, h) <=> p[v] = h
    BY DEF Allocates, Withdraws, Names
  <1>2. \A s \in Sched : /\ s \in scheds => Appended(toSched[s], m, toSched'[s])
                         /\ s \notin scheds => toSched'[s] = toSched[s]
    BY Notified DEF Commit
  <1> HIDE DEF m
  <1>3. \A h \in Host, v \in Vm :
          v \in storePool'[h].allocations
            <=> v \in storePool[h].allocations \/ (v \in DOMAIN p /\ p[v] = h)
    <2> TAKE h \in Host, v \in Vm
    <2>1. storePool'[h] = IF h \in hosts THEN Allocate(storePool[h], PlacedOn(p, h))
                                          ELSE storePool[h]
      BY DEF Commit, AllocateAll
    <2>2. storePool[h] \in HostInfo /\ PlacedOn(p, h) \in SUBSET Vm
      BY DEF TypeOK, PlacedOn
    <2>3. h \in hosts => storePool'[h].allocations
                           = storePool[h].allocations \cup PlacedOn(p, h)
      BY <2>1, <2>2, AllocateTyped
    <2>4. h \notin hosts => PlacedOn(p, h) = {}
      BY DEF PlacedOn, CanCommit
    <2> QED BY <2>1, <2>3, <2>4 DEF PlacedOn
  <1>4. ASSUME NEW v \in Vm, v \notin DOMAIN p, NEW s \in Sched
        PROVE  /\ GivenBackLast(toSched[s], v)' /\ GivenBackOnce(s, v)'
               /\ \A h \in Host : Follows(s, v, h) => Follows(s, v, h)'
               /\ \A h \in Host : WithdrawnFrom(toSched'[s], v, h)
                                    <=> WithdrawnFrom(toSched[s], v, h)
    BY <1>1, <1>2, <1>3, <1>4, NotMentioned
  <1>5. ASSUME NEW v \in Vm, v \in DOMAIN p, NEW s \in Sched
        PROVE  /\ Withdrawals(toSched'[s], v) = {}
               /\ s \in scheds => \A h : GrantedOn(toSched'[s], v, h)
                                           <=> GrantedOn(toSched[s], v, h) \/ p[v] = h
    BY <1>1, <1>2, <1>5, GrantAdded
  <1>6. ASSUME NEW s \in Sched, NEW v \in Vm
        PROVE  GivenBackLast(toSched[s], v)' /\ GivenBackOnce(s, v)'
    <2>1. CASE v \in DOMAIN p
      BY <1>5, <2>1 DEF GivenBackLast, GivenBackOnce
    <2> QED BY <1>4, <2>1
  <1>7. ASSUME NEW s \in scheds', NEW v \in Vm, NEW h \in Host
        PROVE  Follows(s, v, h)'
    <2>1. Follows(s, v, h) /\ s \in Sched /\ s \in scheds
      BY DEF ViewInv, TypeOK, EventsTypeOK
    <2>2. CASE v \in DOMAIN p
      <3>1. /\ ~ WithdrawnFrom(toSched[s], v, h) /\ ~ WithdrawnFrom(toSched'[s], v, h)
            /\ v \notin storePool[h].allocations
        BY <1>5, <2>1, <2>2 DEF WithdrawnFrom, Allocated
      <3>2. ~ Decided(s, v, h)'
        BY <2>2 DEF Decided
      <3>3. Listed(s, v, h) => p[v] = h
        BY <2>1, <2>2, <3>1 DEF Follows
      <3>4. Listed(s, v, h)' <=> p[v] = h
        BY <1>5, <2>1, <2>2, <3>3 DEF Listed
      <3>5. p[v] \in hosts
        BY <2>2 DEF CanCommit
      <3> QED BY <1>3, <2>2, <3>1, <3>2, <3>4, <3>5 DEF Follows
    <2> QED BY <1>4, <2>1, <2>2
  <1>8. Strangers'
    BY <1>2 DEF Strangers, ViewInv
  <1>9. HostsExist => HostsExist'
    <2>1. ASSUME NEW v \in Vm, NEW s \in Sched, NEW h \in Host,
                 WithdrawnFrom(toSched'[s], v, h)
          PROVE  WithdrawnFrom(toSched[s], v, h)
      <3>1. CASE v \in DOMAIN p
        BY <1>5, <2>1, <3>1 DEF WithdrawnFrom
      <3> QED BY <1>4, <2>1, <3>1
    <2>2. \A v \in Vm : Committing(v)' \subseteq Committing(v)
      BY DEF Committing
    <2> QED BY <2>1, <2>2 DEF HostsExist
  <1> QED BY <1>6, <1>7, <1>8, <1>9 DEF ViewInv

LEMMA RejectViews ==
    ASSUME TypeOK, AllocationInv, ViewInv, NEW c \in commitRequests,
           Reject(c.placement, c.from), commitRequests' = commitRequests \ {c},
           UNCHANGED <<hosts, scheds, schedPool, vmStatus>>
    PROVE  ViewInv'
  <1> DEFINE p == c.placement
             b == DOMAIN p
             m == [type |-> "AllocationCommitFailed", placement |-> p]
  <1>1. c.from \in Sched /\ p \in Placement /\ b \in Batch /\ b \subseteq Vm
    BY PlacementTyped DEF TypeOK, EventsTypeOK, CommitRequest
  <1>2. /\ toSched' = [toSched EXCEPT ![c.from] = Append(@, m)]
        /\ requests' = [requests EXCEPT ![c.from] = @ \cup {b}]
        /\ storePool' = storePool
    BY DEF Reject
  <1>3. Registered' = Registered
    BY RegisteredStays
  <1>4. \A s \in Sched : /\ s = c.from => Appended(toSched[s], m, toSched'[s])
                         /\ s # c.from => toSched'[s] = toSched[s]
    <2>1. m \in SchedulerMessage
      BY <1>1 DEF SchedulerMessage
    <2>2. \A s \in Sched : /\ toSched[s] \in Seq(SchedulerMessage)
                           /\ toSched'[s] = IF s = c.from THEN Append(toSched[s], m)
                                                          ELSE toSched[s]
      BY <1>2 DEF TypeOK, EventsTypeOK
    <2> HIDE DEF m
    <2> QED BY <2>1, <2>2, AppendAppends
  <1>5. \A v, h : /\ Withdraws(m, v) <=> v \in b
                  /\ ~ Allocates(m, v)
                  /\ Names(m, v, h) <=> p[v] = h
    BY DEF Allocates, Withdraws, Names
  <1>6. FailureOf(m, b)
    BY DEF FailureOf
  <1> HIDE DEF m
  <1>7. \A v \in Vm :
          /\ v \notin b => Requested(v)' = Requested(v) /\ Committing(v)' = Committing(v)
          /\ v \in b => /\ c \in Committing(v)
                        /\ Committing(v)' = Committing(v) \ {c}
                        /\ Requested(v)' \subseteq Requested(v) \cup {<<c.from, b>>}
    BY <1>1, <1>2 DEF Committing, Requested, TypeOK, EventsTypeOK
  <1>8. ASSUME NEW v \in Vm, v \in b
        PROVE  /\ Committing(v) = {c} /\ Committing(v)' = {}
               /\ Requested(v)' \subseteq {<<c.from, b>>}
               /\ ~ Allocated(v) /\ ~ Allocated(v)' /\ v \in Registered
               /\ \A s \in Sched : Withdrawals(toSched[s], v) = {}
    <2>1. Committing(v) = {c} /\ Requested(v) = {} /\ ~ Allocated(v) /\ v \in Registered
      BY <1>7, <1>8 DEF AllocationInv, OneHolder, NewVmsAreNowhere
    <2>2. \A s \in Sched : Withdrawals(toSched[s], v) = {}
      BY <2>1 DEF ViewInv, GivenBackOnce
    <2>3. ~ Allocated(v)'
      BY <1>2, <2>1 DEF Allocated
    <2> QED BY <1>7, <1>8, <2>1, <2>2, <2>3
  <1>9. ASSUME NEW v \in Vm, v \notin b, NEW s \in Sched
        PROVE  /\ GivenBackLast(toSched[s], v)' /\ GivenBackOnce(s, v)'
               /\ \A h \in Host : Follows(s, v, h) => Follows(s, v, h)'
               /\ \A h \in Host : WithdrawnFrom(toSched'[s], v, h)
                                    <=> WithdrawnFrom(toSched[s], v, h)
    BY <1>2, <1>3, <1>4, <1>5, <1>7, <1>9, NotMentioned
  <1>10. ASSUME NEW v \in Vm, v \in b, NEW s \in Sched, s = c.from
         PROVE  /\ GivenBackLast(toSched'[s], v)
                /\ \A i \in Withdrawals(toSched'[s], v) : toSched'[s][i] = m
                /\ \A h : GrantedOn(toSched'[s], v, h) <=> GrantedOn(toSched[s], v, h)
                /\ \A h : WithdrawnFrom(toSched'[s], v, h) <=> p[v] = h
    BY <1>4, <1>5, <1>8, <1>10, WithdrawalAdded
  <1>11. ASSUME NEW s \in Sched, NEW v \in Vm
         PROVE  GivenBackLast(toSched[s], v)' /\ GivenBackOnce(s, v)'
    <2>1. CASE v \notin b
      BY <1>9, <2>1
    <2>2. CASE v \in b /\ s # c.from
      <3>1. Withdrawals(toSched'[s], v) = {}
        BY <1>4, <1>8, <2>2
      <3> QED BY <3>1 DEF GivenBackLast, GivenBackOnce
    <2>3. CASE v \in b /\ s = c.from
      BY <1>3, <1>6, <1>8, <1>10, <2>3 DEF GivenBackOnce
    <2> QED BY <2>1, <2>2, <2>3
  <1>12. ASSUME NEW s \in scheds', NEW v \in Vm, NEW h \in Host
         PROVE  Follows(s, v, h)'
    <2>1. Follows(s, v, h) /\ s \in Sched
      BY DEF ViewInv, TypeOK, EventsTypeOK
    <2>2. CASE v \notin b
      BY <1>9, <2>1, <2>2
    <2>3. CASE v \in b
      <3>1. /\ ~ Decided(s, v, h)'
            /\ Decided(s, v, h) <=> s = c.from /\ p[v] = h
        BY <1>8, <2>3 DEF Decided, Names
      <3>2. ~ WithdrawnFrom(toSched[s], v, h)
        BY <1>8, <2>1, <2>3 DEF WithdrawnFrom
      <3>3. /\ GrantedOn(toSched'[s], v, h) <=> GrantedOn(toSched[s], v, h)
            /\ WithdrawnFrom(toSched'[s], v, h) <=> s = c.from /\ p[v] = h
        BY <1>4, <1>10, <2>1, <2>3, <3>2
      <3> QED BY <1>2, <2>1, <3>1, <3>2, <3>3 DEF Follows, Listed
    <2> QED BY <2>2, <2>3
  <1>13. Strangers'
    <2>1. c.from \in scheds
      BY <1>1 DEF ViewInv, Strangers
    <2> QED BY <1>2, <1>4, <2>1 DEF ViewInv, Strangers, TypeOK, EventsTypeOK
  <1>14. HostsExist => HostsExist'
    <2>1. ASSUME NEW v \in Vm, NEW s \in Sched, NEW h \in Host,
                 WithdrawnFrom(toSched'[s], v, h)
          PROVE  \/ WithdrawnFrom(toSched[s], v, h)
                 \/ \E d \in Committing(v) : Names(d, v, h)
      <3>1. CASE v \notin b
        BY <1>9, <2>1, <3>1
      <3>2. CASE v \in b /\ s = c.from
        <4>1. c \in Committing(v) /\ Names(c, v, h)
          BY <1>7, <1>10, <2>1, <3>2 DEF Names
        <4> QED BY <4>1
      <3>3. CASE v \in b /\ s # c.from
        BY <1>4, <2>1, <3>3
      <3> QED BY <3>1, <3>2, <3>3
    <2>2. \A v \in Vm : Committing(v)' \subseteq Committing(v)
      BY DEF Committing
    <2> QED BY <2>1, <2>2 DEF HostsExist
  <1> QED BY <1>11, <1>12, <1>13, <1>14 DEF ViewInv

LEMMA HostNoticeViews ==
    ASSUME TypeOK, AllocationInv, ViewInv, NEW n \in hostNotices, OnHostNotice(n),
           UNCHANGED <<hosts, scheds, schedPool, vmStatus>>
    PROVE  ViewInv'
  <1> DEFINE p == [v \in {n.vm} |-> n.host]
             m == [type |-> n.type, placement |-> p]
  <1>1. /\ n.vm \in Vm /\ n.host \in Host
        /\ n.type \in {"AllocationFailed", "AllocationReleased"}
    BY DEF TypeOK, EventsTypeOK, HostNotice
  <1>2. n.vm \in storePool[n.host].allocations /\ n.host \in hosts
    BY <1>1 DEF AllocationInv, StoreHostAgreement, InNotices, OnKnownHosts
  <1>3. \A h \in Host : storePool'[h].allocations =
          IF h = n.host THEN storePool[h].allocations \ {n.vm}
                        ELSE storePool[h].allocations
    <2> TAKE h \in Host
    <2>1. storePool'[h] = IF h \in hosts THEN Release(storePool[h], PlacedOn(p, h))
                                          ELSE storePool[h]
      BY DEF OnHostNotice, ReleaseAll
    <2>2. PlacedOn(p, h) = IF h = n.host THEN {n.vm} ELSE {}
      BY <1>1, SinglePlacementTyped
    <2>3. storePool[h] \in HostInfo /\ PlacedOn(p, h) \in SUBSET Vm
      BY <1>1, <2>2 DEF TypeOK
    <2>4. Release(storePool[h], PlacedOn(p, h)).allocations
            = storePool[h].allocations \ PlacedOn(p, h)
      BY <2>3, ReleaseTyped
    <2> QED BY <1>2, <2>1, <2>2, <2>4
  <1>4. \A s \in Sched : /\ s \in scheds => Appended(toSched[s], m, toSched'[s])
                         /\ s \notin scheds => toSched'[s] = toSched[s]
    <2>1. m \in SchedulerMessage
      BY <1>1, SinglePlacementTyped DEF SchedulerMessage
    <2>2. NotifyAll(scheds, m)
      BY DEF OnHostNotice
    <2> HIDE DEF m
    <2> QED BY <2>1, <2>2, Notified
  <1>5. \A v, h : /\ Withdraws(m, v) <=> v = n.vm
                  /\ ~ Allocates(m, v)
                  /\ v = n.vm => (Names(m, v, h) <=> h = n.host)
    BY <1>1 DEF Allocates, Withdraws, Names
  <1> HIDE DEF m
  <1>6. UNCHANGED <<requests, commitRequests>> /\ Registered' = Registered
    BY RegisteredStays DEF OnHostNotice
  <1>7. \A v \in Vm : Committing(v)' = Committing(v) /\ Requested(v)' = Requested(v)
    BY <1>6 DEF Committing, Requested
  <1>8. /\ Committing(n.vm) = {} /\ Requested(n.vm) = {} /\ n.vm \in Registered
        /\ \A h \in Host : n.vm \in storePool[h].allocations <=> h = n.host
        /\ \A h \in Host : n.vm \notin storePool'[h].allocations
        /\ \A s \in Sched : Withdrawals(toSched[s], n.vm) = {}
    <2>1. Allocated(n.vm)
      BY <1>1, <1>2 DEF Allocated
    <2>2. /\ Committing(n.vm) = {} /\ Requested(n.vm) = {} /\ n.vm \in Registered
          /\ \A h \in Host : n.vm \in storePool[h].allocations <=> h = n.host
      BY <1>1, <1>2, <2>1 DEF AllocationInv, OneHolder, NewVmsAreNowhere
    <2>3. \A s \in Sched : Withdrawals(toSched[s], n.vm) = {}
      BY <1>1, <2>1 DEF ViewInv, GivenBackOnce
    <2> QED BY <1>3, <2>2, <2>3
  <1>9. ASSUME NEW v \in Vm, v # n.vm, NEW s \in Sched
        PROVE  /\ GivenBackLast(toSched[s], v)' /\ GivenBackOnce(s, v)'
               /\ \A h \in Host : Follows(s, v, h) => Follows(s, v, h)'
               /\ \A h \in Host : WithdrawnFrom(toSched'[s], v, h)
                                    <=> WithdrawnFrom(toSched[s], v, h)
    <2>1. \A h \in Host : v \in storePool'[h].allocations <=> v \in storePool[h].allocations
      BY <1>3, <1>9
    <2> QED BY <1>4, <1>5, <1>6, <1>7, <1>9, <2>1, NotMentioned
  <1>10. ASSUME NEW s \in scheds
         PROVE  /\ GivenBackLast(toSched'[s], n.vm)
                /\ \A h : GrantedOn(toSched'[s], n.vm, h) <=> GrantedOn(toSched[s], n.vm, h)
                /\ \A h : WithdrawnFrom(toSched'[s], n.vm, h) <=> h = n.host
    <2>1. s \in Sched
      BY DEF TypeOK, EventsTypeOK
    <2>2. Appended(toSched[s], m, toSched'[s]) /\ Withdraws(m, n.vm)
          /\ Withdrawals(toSched[s], n.vm) = {}
      BY <1>4, <1>5, <1>8, <2>1
    <2> QED BY <1>5, <2>2, WithdrawalAdded
  <1>11. ASSUME NEW s \in Sched, NEW v \in Vm
         PROVE  GivenBackLast(toSched[s], v)' /\ GivenBackOnce(s, v)'
    <2>1. CASE v # n.vm
      BY <1>9, <2>1
    <2>2. CASE v = n.vm
      <3>1. GivenBackOnce(s, v)'
        BY <1>6, <1>7, <1>8, <2>2 DEF GivenBackOnce, Allocated
      <3>2. GivenBackLast(toSched'[s], v)
        <4>1. CASE s \notin scheds
          <5>1. Withdrawals(toSched'[s], v) = {}
            BY <1>4, <1>8, <2>2, <4>1
          <5> QED BY <5>1 DEF GivenBackLast
        <4> QED BY <1>10, <2>2, <4>1
      <3> QED BY <3>1, <3>2
    <2> QED BY <2>1, <2>2
  <1>12. ASSUME NEW s \in scheds', NEW v \in Vm, NEW h \in Host
         PROVE  Follows(s, v, h)'
    <2>1. Follows(s, v, h) /\ s \in Sched /\ s \in scheds
      BY DEF ViewInv, TypeOK, EventsTypeOK
    <2>2. CASE v # n.vm
      BY <1>9, <2>1, <2>2
    <2>3. CASE v = n.vm
      <3>1. ~ Decided(s, v, h) /\ ~ Decided(s, v, h)'
        BY <1>7, <1>8, <2>3 DEF Decided
      <3>2. ~ WithdrawnFrom(toSched[s], v, h)
        BY <1>8, <2>1, <2>3 DEF WithdrawnFrom
      <3>3. Listed(s, v, h)' <=> Listed(s, v, h)
        BY <1>10, <2>1, <2>3 DEF Listed
      <3> QED BY <1>2, <1>8, <1>10, <2>1, <2>3, <3>1, <3>2, <3>3 DEF Follows
    <2> QED BY <2>2, <2>3
  <1>13. Strangers'
    BY <1>4, <1>6 DEF ViewInv, Strangers
  <1>14. HostsExist => HostsExist'
    <2>1. ASSUME NEW v \in Vm, NEW s \in Sched, NEW h \in Host,
                 WithdrawnFrom(toSched'[s], v, h)
          PROVE  WithdrawnFrom(toSched[s], v, h) \/ h \in hosts
      <3>1. CASE v # n.vm
        BY <1>9, <2>1, <3>1
      <3>2. CASE v = n.vm
        BY <1>2, <1>4, <1>10, <2>1, <3>2
      <3> QED BY <3>1, <3>2
    <2> QED BY <1>6, <1>7, <2>1 DEF HostsExist
  <1> QED BY <1>11, <1>12, <1>13, <1>14 DEF ViewInv

-----------------------------------------------------------------------------
(* Every step, and the balance of the copies.                              *)

LEMMA UserStepViews ==
    ASSUME Selection = "any" => LateHosts = {}, TypeOK, AllocationInv, ViewInv, UserStep
    PROVE  ViewInv'
  <1>1. ASSUME NEW v \in DirectVm, NEW h \in Host, SpawnVmOnHost(v, h)
        PROVE  ViewInv'
    <2> DEFINE p == [w \in {v} |-> h]
    <2>1. v \in Vm /\ v \notin Registered /\ Registered' = Registered \cup {v}
      BY <1>1, SetupAssumption DEF SpawnVmOnHost, RegisterNewVms, Registered
    <2>2. UNCHANGED <<hosts, scheds, requests, commitRequests, schedPool>>
      BY <1>1 DEF SpawnVmOnHost, DirectCommit, registrations
    <2>3. \A w \in Vm : Requested(w)' = Requested(w) /\ Committing(w)' = Committing(w)
      BY <2>2 DEF Requested, Committing
    <2>4. Committing(v) = {} /\ ~ Allocated(v)
      BY <2>1 DEF AllocationInv, NewVmsAreNowhere
    <2>5. CASE CanCommit(p) /\ Commit(p)
      <3>1. \A s \in Sched : Withdrawals(toSched[s], v) = {}
        BY <2>1 DEF ViewInv, GivenBackOnce
      <3>2. [type |-> "AllocationCommitSucceeded", placement |-> p] \in SchedulerMessage
        BY <2>1, SinglePlacementTyped DEF SchedulerMessage
      <3>3. \A s \in Sched, g \in Host : ~ Decided(s, v, g)
        BY <2>4 DEF Decided
      <3>4. DOMAIN p = {v} /\ {v} \subseteq Vm
        BY <2>1
      <3> HIDE DEF p
      <3> QED BY <2>1, <2>2, <2>3, <2>4, <2>5, <3>1, <3>2, <3>3, <3>4, CommitViews
    <2>6. CASE UNCHANGED <<storePool, creating, toSched>>
      BY <2>1, <2>2, <2>3, <2>6, ViewsUntouched
    <2> QED BY <1>1, <2>5, <2>6 DEF SpawnVmOnHost, DirectCommit
  <1> QED BY <1>1, SpawnVmsViews, AddHostViews, AddSchedulerViews DEF UserStep

LEMMA SchedulerStepViews ==
    ASSUME TypeOK, AllocationInv, ViewInv, NEW s \in Sched, SchedulerStep(s)
    PROVE  ViewInv'
  <1>1. ASSUME NEW b \in Batch, RetryRequest(s, b)
        PROVE  ViewInv'
    <2>1. UNCHANGED <<hosts, scheds, requests, commitRequests, toSched, schedPool,
                      storePool, vmStatus>>
      BY <1>1 DEF RetryRequest, SchedulerStep, inboxes, registrations
    <2>2. \A v \in Vm : Requested(v)' = Requested(v)
      BY <2>1 DEF Requested
    <2> QED BY <2>1, <2>2, ViewsUntouched, RegisteredStays
  <1>2. ASSUME NEW b \in Batch, TimeOutRequest(s, b)
        PROVE  ViewInv'
    <2>1. /\ UNCHANGED <<hosts, scheds, commitRequests, toSched, schedPool, storePool,
                         vmStatus>>
          /\ requests' = [requests EXCEPT ![s] = @ \ {b}]
      BY <1>2 DEF TimeOutRequest, SchedulerStep, registrations
    <2>2. /\ \A v \in Vm : Requested(v)' \subseteq Requested(v)
          /\ \A t \in Sched \ scheds : requests[t] = {} => requests'[t] = {}
      BY <2>1 DEF Requested, TypeOK, EventsTypeOK
    <2> QED BY <2>1, <2>2, ViewsUntouched, RegisteredStays
  <1> QED BY <1>1, <1>2, PlaceRequestViews, NotificationViews
          DEF SchedulerStep, OnAllocationRequest

LEMMA StoreStepViews ==
    ASSUME TypeOK, AllocationInv, ViewInv, StoreStep
    PROVE  ViewInv'
  <1>1. UNCHANGED <<hosts, scheds, schedPool, vmStatus>>
    BY DEF StoreStep, registrations, apiVars
  <1>2. ASSUME NEW m \in commitRequests, OnCommitRequest(m)
        PROVE  ViewInv'
    <2> DEFINE p == m.placement
    <2>1. p \in Placement /\ DOMAIN p \subseteq Vm /\ m.from \in Sched
      BY PlacementTyped DEF TypeOK, EventsTypeOK, CommitRequest
    <2>2. commitRequests' = commitRequests \ {m}
      BY <1>2 DEF OnCommitRequest
    <2>3. CASE CanCommit(p) /\ Commit(p) /\ UNCHANGED requests
      <3>1. [type |-> "AllocationCommitSucceeded", placement |-> p] \in SchedulerMessage
        BY <2>1 DEF SchedulerMessage
      <3>2. \A v \in Vm : /\ Requested(v)' = Requested(v)
                          /\ v \notin DOMAIN p => Committing(v)' = Committing(v)
        BY <2>2, <2>3 DEF Requested, Committing
      <3>3. ASSUME NEW v \in DOMAIN p
            PROVE  /\ ~ Allocated(v) /\ Committing(v)' = {}
                   /\ \A s \in Sched : Withdrawals(toSched[s], v) = {}
                   /\ \A s \in Sched, h \in Host : Decided(s, v, h) => p[v] = h
        <4>1. v \in Vm /\ m \in Committing(v)
          BY <2>1 DEF Committing
        <4>2. Committing(v) = {m} /\ ~ Allocated(v)
          BY <4>1 DEF AllocationInv, OneHolder
        <4>3. Committing(v)' = {}
          BY <2>2, <4>2 DEF Committing
        <4>4. \A s \in Sched : Withdrawals(toSched[s], v) = {}
          BY <4>1, <4>2 DEF ViewInv, GivenBackOnce
        <4>5. \A s \in Sched, h \in Host : Decided(s, v, h) => p[v] = h
          BY <4>2 DEF Decided, Names
        <4> QED BY <4>2, <4>3, <4>4, <4>5
      <3>4. Registered' = Registered /\ commitRequests' \subseteq commitRequests
        BY <1>1, <2>2, RegisteredStays
      <3> HIDE DEF p
      <3> QED BY <1>1, <2>1, <2>3, <3>1, <3>2, <3>3, <3>4, CommitViews
    <2>4. CASE Reject(p, m.from)
      BY <1>1, <2>2, <2>4, RejectViews
    <2> QED BY <1>2, <2>3, <2>4 DEF OnCommitRequest
  <1>3. ASSUME NEW n \in hostNotices, OnHostNotice(n)
        PROVE  ViewInv'
    BY <1>1, <1>3, HostNoticeViews
  <1> QED BY <1>2, <1>3 DEF StoreStep, OnAllocationFailed, OnAllocationReleased

LEMMA QuietViews ==
    ASSUME ViewInv, Registered \subseteq Registered',
           UNCHANGED <<hosts, scheds, requests, commitRequests, toSched, schedPool, storePool>>
    PROVE  ViewInv'
  <1>1. \A v \in Vm : Requested(v)' = Requested(v)
    BY DEF Requested
  <1> QED BY <1>1, ViewsUntouched

LEMMA NextViews ==
    ASSUME Selection = "any" => LateHosts = {}, TypeOK, AllocationInv, ViewInv, [Next]_vars
    PROVE  ViewInv'
  <1>1. CASE \E h \in Host : HostStep(h)
    <2>1. UNCHANGED <<hosts, scheds, requests, commitRequests, toSched, schedPool, storePool,
                      vmStatus>>
      BY <1>1 DEF HostStep, VmStep, OnVmCreateRequest, OnVmStarted,
                  OnAllocationReleaseRequest, OnVmDeleted, SendHostState,
                  registrations, apiVars
    <2> QED BY <2>1, RegisteredStays, QuietViews
  <1>2. CASE ApiStep
    <2>1. UNCHANGED <<hosts, scheds, requests, commitRequests, toSched, schedPool, storePool>>
      BY <1>2 DEF ApiStep, OnVmStatusChanged, DeadlinePasses, registrations, inboxes
    <2> QED BY <1>2, <2>1, ApiStepRegisters, QuietViews
  <1>3. CASE MonitoringStep \/ UNCHANGED vars
    <2>1. UNCHANGED <<hosts, scheds, requests, commitRequests, toSched, schedPool, storePool,
                      vmStatus>>
      BY <1>3 DEF MonitoringStep, OnHostStateUpdate, vars, registrations, inboxes, apiVars
    <2> QED BY <2>1, RegisteredStays, QuietViews
  <1> QED BY <1>1, <1>2, <1>3, UserStepViews, SchedulerStepViews, StoreStepViews DEF Next

LEMMA InitViews == Init => ViewInv
  <1> SUFFICES ASSUME Init PROVE ViewInv
    OBVIOUS
  <1>1. \A s \in Sched : toSched[s] = <<>> /\ requests[s] = {}
    BY DEF Init, EventsInit
  <1>2. commitRequests = {}
    BY DEF Init, EventsInit
  <1>3. \A s \in Sched, v \in Vm :
          Withdrawals(toSched[s], v) = {} /\ Grants(toSched[s], v) = {}
    BY <1>1 DEF Withdrawals, Grants
  <1>4. \A v \in Vm : Committing(v) = {}
    BY <1>2 DEF Committing
  <1>5. \A s \in Sched, v \in Vm : GivenBackLast(toSched[s], v) /\ GivenBackOnce(s, v)
    BY <1>3 DEF GivenBackLast, GivenBackOnce
  <1>6. ASSUME NEW s \in scheds, NEW v \in Vm, NEW h \in Host
        PROVE  Follows(s, v, h)
    <2>1. s \in Sched
      BY SetupAssumption DEF Init
    <2>2. v \notin schedPool[s][h].allocations /\ v \notin storePool[h].allocations
      BY <2>1 DEF Init, FullPool, NewHostInfo
    <2> QED BY <1>3, <1>4, <2>1, <2>2 DEF Follows, Listed, GrantedOn, WithdrawnFrom, Decided
  <1>7. Strangers
    BY <1>1, <1>2 DEF Strangers
  <1>8. HostsExist
    BY <1>3, <1>4 DEF HostsExist, WithdrawnFrom
  <1> QED BY <1>5, <1>6, <1>7, <1>8 DEF ViewInv

\* What a message gives back is in the copy when it is handled.
LEMMA GivenBackIsListed ==
    ASSUME TypeOK, ViewInv, NEW s \in scheds, toSched[s] # <<>>, NEW h \in hosts,
           NEW v \in Vm, Withdraws(Head(toSched[s]), v), Names(Head(toSched[s]), v, h)
    PROVE  v \in schedPool[s][h].allocations
  <1> DEFINE m == Head(toSched[s])
  <1>1. s \in Sched /\ h \in Host /\ toSched[s] \in Seq(SchedulerMessage)
    BY DEF TypeOK, EventsTypeOK
  <1>2. Beheaded(toSched[s], m, Tail(toSched[s]))
    BY <1>1, TailBeheads
  <1> HIDE DEF m
  <1>3. GivenBackLast(toSched[s], v) /\ Follows(s, v, h)
    BY <1>1 DEF ViewInv
  <1>4. Withdraws(m, v) /\ Names(m, v, h)
    BY DEF m
  <1>5. WithdrawnFrom(toSched[s], v, h)
    BY <1>2, <1>3, <1>4, MessageTaken
  <1>6. ~ GrantedOn(toSched[s], v, h)
    <2>1. ~ GrantedOn(Tail(toSched[s]), v, h)
      BY <1>2, <1>3, <1>4, MessageTaken
    <2>2. ~ Allocates(m, v)
      BY <1>4, KindsOfMessages
    <2> QED BY <1>2, <1>3, <2>1, <2>2, MessageTaken
  <1> QED BY <1>3, <1>5, <1>6 DEF Follows, Listed

LEMMA NextViewsBalanced ==
    ASSUME TypeOK, AllocationInv, BooksBalanced, ViewInv, ViewsBalanced, [Next]_vars
    PROVE  ViewsBalanced'
  <1>1. ASSUME \A s \in Sched, h \in Host :
                 \/ schedPool'[s][h] = schedPool[s][h]
                 \/ schedPool'[s][h] = storePool[h]
                 \/ \E S \in SUBSET Vm : schedPool'[s][h] = Allocate(schedPool[s][h], S)
                 \/ \E S \in SUBSET schedPool[s][h].allocations :
                      schedPool'[s][h] = Release(schedPool[s][h], S)
        PROVE  ViewsBalanced'
    <2> SUFFICES ASSUME NEW s \in Sched, NEW h \in Host
                 PROVE  Balanced(schedPool'[s][h], h)
      BY DEF ViewsBalanced, Balanced, Net
    <2>1. schedPool[s][h] \in HostInfo /\ Balanced(schedPool[s][h], h)
      BY DEF TypeOK, ViewsBalanced
    <2>2. Balanced(storePool[h], h)
      BY DEF BooksBalanced
    <2> QED BY <1>1, <2>1, <2>2, AllocateBalanced, ReleaseBalanced
  <1>2. ASSUME UNCHANGED schedPool
        PROVE  ViewsBalanced'
    BY <1>1, <1>2
  <1>3. ASSUME NEW s \in Sched, AddScheduler(s)
        PROVE  ViewsBalanced'
    BY <1>1, <1>3 DEF AddScheduler, TypeOK
  <1>4. ASSUME NEW s \in Sched, NEW b \in Batch, PlaceRequest(s, b)
        PROVE  ViewsBalanced'
    <2>1. PICK p \in [b -> Host] :
            schedPool' = [schedPool EXCEPT ![s] = AllocateAll(@, hosts, p)]
      BY <1>4 DEF PlaceRequest
    <2>2. \A t \in Sched, h \in Host :
            \/ schedPool'[t][h] = schedPool[t][h]
            \/ schedPool'[t][h] = Allocate(schedPool[t][h], PlacedOn(p, h))
      BY <2>1 DEF AllocateAll, TypeOK
    <2>3. \A h \in Host : PlacedOn(p, h) \in SUBSET Vm
      BY BatchAssumption DEF PlacedOn
    <2> QED BY <1>1, <2>2, <2>3
  <1>5. ASSUME NEW s \in Sched, OnStoreNotification(s)
        PROVE  ViewsBalanced'
    <2> DEFINE m == Head(toSched[s])
    <2>1. /\ toSched[s] # <<>>
          /\ schedPool' = [schedPool EXCEPT ![s] = ViewAfter(@, m)]
      BY <1>5 DEF OnStoreNotification
    <2>2. s \in scheds
      BY <2>1 DEF ViewInv, Strangers
    <2>3. DOMAIN m.placement \subseteq Vm
      BY <2>1, MessageTyped DEF TypeOK, EventsTypeOK
    <2>4. \A h \in Host : PlacedOn(m.placement, h) \in SUBSET Vm
      BY <2>3 DEF PlacedOn
    <2>5. ASSUME NEW h \in hosts, m.type # "AllocationCommitSucceeded"
          PROVE  PlacedOn(m.placement, h) \in SUBSET schedPool[s][h].allocations
      <3>1. \A v \in PlacedOn(m.placement, h) : v \in Vm /\ Withdraws(m, v) /\ Names(m, v, h)
        BY <2>3, <2>5 DEF PlacedOn, Withdraws, Names
      <3> QED BY <2>1, <2>2, <3>1, GivenBackIsListed
    <2>6. ASSUME NEW t \in Sched, NEW h \in Host
          PROVE  \/ schedPool'[t][h] = schedPool[t][h]
                 \/ \E S \in SUBSET Vm : schedPool'[t][h] = Allocate(schedPool[t][h], S)
                 \/ \E S \in SUBSET schedPool[t][h].allocations :
                      schedPool'[t][h] = Release(schedPool[t][h], S)
      <3>1. CASE t # s
        BY <2>1, <3>1 DEF TypeOK
      <3>2. CASE t = s
        <4>1. schedPool'[t] = ViewAfter(schedPool[s], m)
          BY <2>1, <3>2 DEF TypeOK
        <4>2. CASE h \notin hosts
          BY <3>2, <4>1, <4>2 DEF ViewAfter, AllocateAll, ReleaseAll
        <4>3. CASE h \in hosts /\ m.type = "AllocationCommitSucceeded"
          <5>1. schedPool'[t][h] = Allocate(schedPool[t][h], PlacedOn(m.placement, h))
            BY <3>2, <4>1, <4>3 DEF ViewAfter, AllocateAll
          <5> QED BY <2>4, <5>1
        <4>4. CASE h \in hosts /\ m.type # "AllocationCommitSucceeded"
          <5>1. schedPool'[t][h] = Release(schedPool[t][h], PlacedOn(m.placement, h))
            BY <3>2, <4>1, <4>4 DEF ViewAfter, ReleaseAll
          <5> QED BY <2>5, <3>2, <4>4, <5>1
        <4> QED BY <4>2, <4>3, <4>4
      <3> QED BY <3>1, <3>2
    <2> QED BY <1>1, <2>6
  <1>6. CASE UserStep
    BY <1>2, <1>3, <1>6 DEF UserStep, SpawnVms, SpawnVmOnHost, AddHost
  <1>7. CASE \E s \in Sched : SchedulerStep(s)
    BY <1>2, <1>4, <1>5, <1>7
       DEF SchedulerStep, OnAllocationRequest, TimeOutRequest, RetryRequest
  <1>8. CASE \/ StoreStep \/ ApiStep \/ MonitoringStep \/ UNCHANGED vars
             \/ \E h \in Host : HostStep(h)
    BY <1>2, <1>8 DEF StoreStep, ApiStep, MonitoringStep, HostStep, vars
  <1> QED BY <1>6, <1>7, <1>8 DEF Next

LEMMA InitViewsBalanced == Init => ViewsBalanced
  <1> SUFFICES ASSUME Init, NEW s \in Sched, NEW h \in Host
               PROVE  Balanced(schedPool[s][h], h)
    BY DEF ViewsBalanced
  <1>1. schedPool[s][h] = NewHostInfo(h)
    BY DEF Init, FullPool
  <1> QED BY <1>1, NewHostInfoBalanced

(* The copies of the schedulers, which decide on them while messages are on *)
(* their way, account for exactly the VMs they list: every message that     *)
(* gives a VM back finds it in the copy.  An algorithm that names hosts     *)
(* which are only added later is excluded: it decides on a VM its copy does *)
(* not take, and the rejection would give it back.                          *)
THEOREM ViewsStayBalanced ==
    ASSUME Selection = "any" => LateHosts = {}
    PROVE  Spec => [](ViewInv /\ ViewsBalanced)
  <1> DEFINE Inv == TypeOK /\ AllocationInv /\ BooksBalanced /\ ViewInv /\ ViewsBalanced
  <1>1. Init => Inv
    BY InitTyped, InitSafe, InitBooks, InitViews, InitViewsBalanced
  <1>2. Inv /\ [Next]_vars => Inv'
    BY NextTyped, NextSafe, NextBooks, NextViews, NextViewsBalanced
  <1> QED BY <1>1, <1>2, PTL DEF Spec

-----------------------------------------------------------------------------
\* Folding the messages of a queue into a copy goes through one copy after each.
LEMMA CopiesFold ==
    ASSUME NEW pool \in [Host -> HostInfo], NEW q \in Seq(SchedulerMessage)
    PROVE  \E p : /\ p[0] = pool
                  /\ \A k \in 1..Len(q) : p[k] = ViewAfter(p[k - 1], q[k])
                  /\ FoldLeft(ViewAfter, pool, q) = p[Len(q)]
  <1> DEFINE D == DOMAIN q
             c == [T \in SUBSET D |-> Max(T)]
             op == [a \in [Host -> HostInfo] |-> [k \in D |-> ViewAfter(a, q[k])]]
             Step(g) == [T \in SUBSET D |->
                           IF T = {} THEN pool
                                     ELSE ViewAfter(g[T \ {Max(T)}], q[Max(T)])]
             fold == CHOOSE g : g = Step(g)
  <1>1. Len(q) \in Nat /\ D = 1..Len(q) /\ IsFiniteSet(D)
    BY FS_Interval
  <1>2. ASSUME NEW T \in SUBSET D, T # {}
        PROVE  Max(T) \in T
    BY <1>1, <1>2, MaxOfSome
  <1>3. Picks(c, D)
    BY <1>2 DEF Picks
  <1>4. op \in [[Host -> HostInfo] -> [D -> [Host -> HostInfo]]]
    BY ViewAfterTyped
  <1> HIDE DEF c, op
  <1>5. PICK g \in [SUBSET D -> [Host -> HostInfo]] : FoldsSubsets(g, c, op, pool, D)
    BY <1>1, <1>3, <1>4, FoldExists
  <1>6. ASSUME NEW T \in SUBSET D, T # {}
        PROVE  g[T] = ViewAfter(g[T \ {Max(T)}], q[Max(T)])
    <2>1. g[T] = op[g[T \ {c[T]}]][c[T]] /\ c[T] = Max(T)
      BY <1>5, <1>6 DEF FoldsSubsets, c
    <2>2. Max(T) \in D /\ T \ {Max(T)} \in SUBSET D
      BY <1>2, <1>6
    <2> QED BY <2>1, <2>2 DEF op
  <1>7. g[{}] = pool
    BY <1>5 DEF FoldsSubsets
  <1>8. g = Step(g)
    BY <1>6, <1>7
  <1>9. fold = Step(fold)
    BY <1>8
  <1>10. FoldLeft(ViewAfter, pool, q) = fold[D]
    BY DEF FoldLeft, MapThenFoldSet
  <1> DEFINE p == [k \in 0..Len(q) |-> fold[1..k]]
  <1> HIDE DEF fold
  <1>11. p[0] = pool
    BY <1>9
  <1>12. ASSUME NEW k \in 1..Len(q)
         PROVE  p[k] = ViewAfter(p[k - 1], q[k])
    <2>1. k \in Nat /\ k > 0 /\ k <= Len(q) /\ k - 1 \in 0..Len(q) /\ k \in 0..Len(q)
      BY <1>1, <1>12
    <2>2. 1..k \in SUBSET D /\ 1..k # {}
      <3>1. k \in 1..k /\ 1..k \subseteq 1..Len(q)
        BY <1>1, <2>1
      <3> QED BY <1>1, <3>1
    <2>3. fold[1..k] = ViewAfter(fold[(1..k) \ {Max(1..k)}], q[Max(1..k)])
      BY <1>9, <2>2
    <2>4. Max(1..k) = k /\ (1..k) \ {Max(1..k)} = 1..(k - 1)
      BY <2>1, MaxOfPrefix
    <2>5. fold[1..k] = ViewAfter(fold[1..(k - 1)], q[k])
      BY <2>3, <2>4
    <2> QED BY <2>1, <2>5
  <1>13. FoldLeft(ViewAfter, pool, q) = p[Len(q)]
    BY <1>1, <1>10
  <1> HIDE DEF p
  <1> QED BY <1>11, <1>12, <1>13

\* VM v is on host h in a copy after the first k messages of q.
ListedAfter(pool, q, k, v, h) ==
    /\ v \in pool[h].allocations \/ \E i \in Grants(q, v) : i <= k /\ Names(q[i], v, h)
    /\ \A i \in Withdrawals(q, v) : i <= k => ~ Names(q[i], v, h)

\* One message more.
LEMMA ListedAfterGrant ==
    ASSUME NEW pool, NEW q, NEW v, NEW h, DOMAIN q \subseteq Nat, NEW k \in DOMAIN q,
           GivenBackLast(q, v), q[k].type = "AllocationCommitSucceeded"
    PROVE  ListedAfter(pool, q, k, v, h) <=>
             ListedAfter(pool, q, k - 1, v, h) \/ v \in PlacedOn(q[k].placement, h)
  <1>1. k \notin Withdrawals(q, v)
    BY DEF Withdrawals, Withdraws
  <1>2. \A i \in DOMAIN q : i <= k <=> i <= k - 1 \/ i = k
    OBVIOUS
  <1>3. v \in PlacedOn(q[k].placement, h) <=> k \in Grants(q, v) /\ Names(q[k], v, h)
    BY DEF PlacedOn, Grants, Allocates, Names
  <1>4. ASSUME k \in Grants(q, v), NEW i \in Withdrawals(q, v)
        PROVE  ~ (i <= k)
    <2>1. k < i
      BY <1>4 DEF GivenBackLast
    <2>2. i \in Nat /\ k \in Nat
      BY DEF Withdrawals
    <2> QED BY <2>1, <2>2
  <1>5. Grants(q, v) \subseteq DOMAIN q /\ Withdrawals(q, v) \subseteq DOMAIN q
    BY DEF Grants, Withdrawals
  <1> QED BY <1>1, <1>2, <1>3, <1>4, <1>5 DEF ListedAfter

LEMMA ListedAfterWithdrawal ==
    ASSUME NEW pool, NEW q, NEW v, NEW h, DOMAIN q \subseteq Nat, NEW k \in DOMAIN q,
           q[k].type # "AllocationCommitSucceeded"
    PROVE  ListedAfter(pool, q, k, v, h) <=>
             ListedAfter(pool, q, k - 1, v, h) /\ v \notin PlacedOn(q[k].placement, h)
  <1>1. k \notin Grants(q, v)
    BY DEF Grants, Allocates
  <1>2. \A i \in DOMAIN q : i <= k <=> i <= k - 1 \/ i = k
    OBVIOUS
  <1>3. v \in PlacedOn(q[k].placement, h) <=> k \in Withdrawals(q, v) /\ Names(q[k], v, h)
    BY DEF PlacedOn, Withdrawals, Withdraws, Names
  <1>4. Grants(q, v) \subseteq DOMAIN q /\ Withdrawals(q, v) \subseteq DOMAIN q
    BY DEF Grants, Withdrawals
  <1> QED BY <1>1, <1>2, <1>3, <1>4 DEF ListedAfter

\* What is withdrawn next is listed, if it is listed once all is granted.
LEMMA WithdrawnWasListed ==
    ASSUME NEW pool, NEW q, NEW v, NEW h, DOMAIN q \subseteq Nat, NEW k \in DOMAIN q,
           GivenBackLast(q, v), q[k].type # "AllocationCommitSucceeded",
           v \in PlacedOn(q[k].placement, h),
           v \in pool[h].allocations \/ GrantedOn(q, v, h)
    PROVE  ListedAfter(pool, q, k - 1, v, h)
  <1>1. k \in Withdrawals(q, v) /\ k \in Nat
    BY DEF PlacedOn, Withdrawals, Withdraws
  <1>2. ASSUME NEW i \in Grants(q, v) PROVE i <= k - 1
    <2>1. i < k
      BY <1>1, <1>2 DEF GivenBackLast
    <2>2. i \in Nat
      BY DEF Grants
    <2> QED BY <1>1, <2>1, <2>2
  <1>3. ASSUME NEW i \in Withdrawals(q, v) PROVE ~ (i <= k - 1)
    <2>1. i = k
      BY <1>1, <1>3 DEF GivenBackLast
    <2> QED BY <1>1, <2>1
  <1> QED BY <1>2, <1>3 DEF ListedAfter, GrantedOn

\* A copy after k of the messages that are on their way to it.
CopyAccounts(s, k, pool) ==
    /\ pool \in [Host -> HostInfo]
    /\ \A h \in Host :
         /\ Balanced(pool[h], h)
         /\ \A v \in Vm : v \in pool[h].allocations <=>
                            ListedAfter(schedPool[s], toSched[s], k, v, h)

LEMMA CopyStepAccounts ==
    ASSUME TypeOK, ViewInv, NEW s \in scheds, NEW k \in DOMAIN toSched[s],
           NEW pool, CopyAccounts(s, k - 1, pool)
    PROVE  CopyAccounts(s, k, ViewAfter(pool, toSched[s][k]))
  <1> DEFINE q == toSched[s]
             m == toSched[s][k]
             next == ViewAfter(pool, m)
  <1>1. /\ s \in Sched /\ q \in Seq(SchedulerMessage) /\ m \in SchedulerMessage
        /\ DOMAIN q \subseteq Nat
    BY DEF TypeOK, EventsTypeOK
  <1>2. pool \in [Host -> HostInfo]
    BY DEF CopyAccounts
  <1>3. next \in [Host -> HostInfo]
    BY <1>1, <1>2, ViewAfterTyped
  <1>4. DOMAIN m.placement \subseteq Vm
    <2>1. m.placement \in Placement \cup UNION {[{v} -> Host] : v \in Vm}
      BY <1>1 DEF SchedulerMessage
    <2> QED BY <2>1, PlacementDomain
  <1> SUFFICES ASSUME NEW h \in Host
               PROVE  /\ Balanced(next[h], h)
                      /\ \A v \in Vm : v \in next[h].allocations <=>
                                         ListedAfter(schedPool[s], q, k, v, h)
    BY <1>3 DEF CopyAccounts
  <1> DEFINE moved == PlacedOn(m.placement, h)
  <1>5. moved \in SUBSET Vm
    BY <1>4 DEF PlacedOn
  <1>6. /\ pool[h] \in HostInfo /\ Balanced(pool[h], h)
        /\ \A v \in Vm : v \in pool[h].allocations <=>
                           ListedAfter(schedPool[s], q, k - 1, v, h)
    BY <1>2 DEF CopyAccounts
  <1>7. \A v \in Vm : GivenBackLast(q, v) /\ Follows(s, v, h)
    BY <1>1 DEF ViewInv
  <1>8. \A v \in Vm :
          Follows(s, v, h) /\ (v \in schedPool[s][h].allocations \/ GrantedOn(q, v, h))
            => h \in hosts
    BY DEF Follows, Listed
  <1>9. CASE h \notin hosts
    <2>1. next[h] = pool[h]
      BY <1>9 DEF ViewAfter, AllocateAll, ReleaseAll
    <2>2. \A v \in Vm : /\ ~ ListedAfter(schedPool[s], q, k - 1, v, h)
                        /\ ~ ListedAfter(schedPool[s], q, k, v, h)
      BY <1>7, <1>8, <1>9 DEF ListedAfter, GrantedOn
    <2> QED BY <1>6, <2>1, <2>2
  <1>10. CASE h \in hosts /\ m.type = "AllocationCommitSucceeded"
    <2>1. next[h] = Allocate(pool[h], moved)
      BY <1>10 DEF ViewAfter, AllocateAll
    <2>2. next[h].allocations = pool[h].allocations \cup moved /\ Balanced(next[h], h)
      BY <1>5, <1>6, <2>1, AllocateTyped, AllocateBalanced
    <2>3. \A v \in Vm : ListedAfter(schedPool[s], q, k, v, h) <=>
                          ListedAfter(schedPool[s], q, k - 1, v, h) \/ v \in moved
      BY <1>1, <1>7, <1>10, ListedAfterGrant
    <2> QED BY <1>6, <2>2, <2>3
  <1>11. CASE h \in hosts /\ m.type # "AllocationCommitSucceeded"
    <2>1. next[h] = Release(pool[h], moved)
      BY <1>11 DEF ViewAfter, ReleaseAll
    <2>2. moved \subseteq pool[h].allocations
      <3> SUFFICES ASSUME NEW v \in moved PROVE v \in pool[h].allocations
        OBVIOUS
      <3>1. v \in Vm /\ k \in Withdrawals(q, v) /\ Names(q[k], v, h)
        BY <1>5, <1>11 DEF PlacedOn, Withdrawals, Withdraws, Names
      <3>2. v \in schedPool[s][h].allocations \/ GrantedOn(q, v, h)
        BY <1>7, <1>11, <3>1 DEF Follows, Listed, WithdrawnFrom
      <3>3. ListedAfter(schedPool[s], q, k - 1, v, h)
        BY <1>1, <1>7, <1>11, <3>1, <3>2, WithdrawnWasListed
      <3> QED BY <1>6, <3>1, <3>3
    <2>3. next[h].allocations = pool[h].allocations \ moved /\ Balanced(next[h], h)
      BY <1>5, <1>6, <2>1, <2>2, ReleaseTyped, ReleaseBalanced
    <2>4. \A v \in Vm : ListedAfter(schedPool[s], q, k, v, h) <=>
                          ListedAfter(schedPool[s], q, k - 1, v, h) /\ v \notin moved
      BY <1>1, <1>11, ListedAfterWithdrawal
    <2> QED BY <1>6, <2>3, <2>4
  <1> QED BY <1>9, <1>10, <1>11

LEMMA CopyAtFirst ==
    ASSUME TypeOK, ViewsBalanced, NEW s \in scheds
    PROVE  CopyAccounts(s, 0, schedPool[s])
  <1>1. /\ s \in Sched /\ schedPool[s] \in [Host -> HostInfo]
        /\ toSched[s] \in Seq(SchedulerMessage)
    BY DEF TypeOK, EventsTypeOK
  <1>2. \A i \in DOMAIN toSched[s] : ~ (i <= 0)
    BY <1>1
  <1>3. \A v \in Vm, h \in Host : v \in schedPool[s][h].allocations <=>
                                    ListedAfter(schedPool[s], toSched[s], 0, v, h)
    BY <1>2 DEF ListedAfter, Grants, Withdrawals
  <1> QED BY <1>1, <1>3 DEF CopyAccounts, ViewsBalanced

LEMMA CopyAtLast ==
    ASSUME TypeOK, ViewInv, ViewsBalanced, NEW s \in scheds
    PROVE  CopyAccounts(s, Len(toSched[s]), FoldLeft(ViewAfter, schedPool[s], toSched[s]))
  <1>1. /\ s \in Sched /\ schedPool[s] \in [Host -> HostInfo]
        /\ toSched[s] \in Seq(SchedulerMessage)
    BY DEF TypeOK, EventsTypeOK
  <1>2. Len(toSched[s]) \in Nat /\ DOMAIN toSched[s] = 1..Len(toSched[s])
    BY <1>1
  <1>3. PICK p : /\ p[0] = schedPool[s]
                 /\ \A k \in 1..Len(toSched[s]) : p[k] = ViewAfter(p[k - 1], toSched[s][k])
                 /\ FoldLeft(ViewAfter, schedPool[s], toSched[s]) = p[Len(toSched[s])]
    BY <1>1, CopiesFold
  <1> DEFINE F == {k \in 0..Len(toSched[s]) : CopyAccounts(s, k, p[k])}
  <1>4. 0 \in F
    BY <1>2, <1>3, CopyAtFirst
  <1>5. \A k \in 1..Len(toSched[s]) : k - 1 \in F => k \in F
    <2> SUFFICES ASSUME NEW k \in 1..Len(toSched[s]), CopyAccounts(s, k - 1, p[k - 1])
                 PROVE  k \in 0..Len(toSched[s]) /\ CopyAccounts(s, k, p[k])
      OBVIOUS
    <2>1. k \in 0..Len(toSched[s])
      BY <1>2
    <2>2. CopyAccounts(s, k, ViewAfter(p[k - 1], toSched[s][k]))
      BY <1>2, CopyStepAccounts
    <2> QED BY <1>3, <2>1, <2>2
  <1> HIDE DEF F
  <1>6. \A k \in 0..Len(toSched[s]) : k \in F
    BY <1>2, <1>4, <1>5, PrefixInduction
  <1>7. Len(toSched[s]) \in F
    BY <1>2, <1>6
  <1> QED BY <1>3, <1>7 DEF F

\* The decisions of a scheduler that are on their way to the store.
DecidedBy(s) == {m \in commitRequests : m.from = s}

\* What g[T] is: the pool without the placements T.
TakesOut(g, D, pool) ==
    /\ g[{}] = pool
    /\ \A T \in SUBSET D : T # {} =>
         \E m \in T : g[T] = ReleaseAll(g[T \ {m}], hosts, m.placement)

\* Taking out the undecided placements goes through one pool for each set of them.
LEMMA UndecidedFold ==
    ASSUME NEW pool \in [Host -> HostInfo], NEW s,
           commitRequests \subseteq CommitRequest, IsFiniteSet(commitRequests)
    PROVE  \E g : /\ TakesOut(g, DecidedBy(s), pool)
                  /\ WithoutUndecided(pool, s) = g[DecidedBy(s)]
  <1> DEFINE D == {m \in commitRequests : m.from = s}
             c == [T \in SUBSET D |-> CHOOSE m \in T : TRUE]
             op == [a \in [Host -> HostInfo] |->
                      [m \in D |-> ReleaseAll(a, hosts, m.placement)]]
             Step(g) == [T \in SUBSET D |->
                           IF T = {} THEN pool
                           ELSE ReleaseAll(g[T \ {CHOOSE m \in T : TRUE}], hosts,
                                           (CHOOSE m \in T : TRUE).placement)]
             fold == CHOOSE g : g = Step(g)
  <1>1. IsFiniteSet(D)
    BY FS_Subset
  <1>2. ASSUME NEW T \in SUBSET D, T # {}
        PROVE  (CHOOSE m \in T : TRUE) \in T
    BY <1>2
  <1>3. Picks(c, D)
    BY <1>2 DEF Picks
  <1>4. op \in [[Host -> HostInfo] -> [D -> [Host -> HostInfo]]]
    <2>1. \A m \in D : DOMAIN m.placement \subseteq Vm
      BY PlacementTyped DEF CommitRequest
    <2> QED BY <2>1, ReleaseAllTyped
  <1> HIDE DEF c, op
  <1>5. PICK g \in [SUBSET D -> [Host -> HostInfo]] : FoldsSubsets(g, c, op, pool, D)
    BY <1>1, <1>3, <1>4, FoldExists
  <1>6. ASSUME NEW T \in SUBSET D, T # {}
        PROVE  g[T] = ReleaseAll(g[T \ {CHOOSE m \in T : TRUE}], hosts,
                                 (CHOOSE m \in T : TRUE).placement)
    <2>1. g[T] = op[g[T \ {c[T]}]][c[T]] /\ c[T] = CHOOSE m \in T : TRUE
      BY <1>5, <1>6 DEF FoldsSubsets, c
    <2>2. c[T] \in D /\ T \ {c[T]} \in SUBSET D
      BY <1>2, <1>6, <2>1
    <2> QED BY <2>1, <2>2 DEF op
  <1>7. g[{}] = pool
    BY <1>5 DEF FoldsSubsets
  <1>8. g = Step(g)
    BY <1>6, <1>7
  <1>9. fold = Step(fold)
    BY <1>8
  <1>10. WithoutUndecided(pool, s) = fold[D]
    BY DEF WithoutUndecided, FoldSet, MapThenFoldSet
  <1> HIDE DEF fold
  <1>11. fold[{}] = pool
    BY <1>9
  <1>12. ASSUME NEW T \in SUBSET D, T # {}
         PROVE  \E m \in T : fold[T] = ReleaseAll(fold[T \ {m}], hosts, m.placement)
    <2> DEFINE m == CHOOSE m \in T : TRUE
    <2>1. fold[T] = ReleaseAll(fold[T \ {m}], hosts, m.placement)
      BY <1>9, <1>12
    <2>2. m \in T
      BY <1>2, <1>12
    <2> HIDE DEF m
    <2> QED BY <2>1, <2>2
  <1> QED BY <1>10, <1>11, <1>12 DEF TakesOut, DecidedBy

\* What is listed once all messages are heard.
LEMMA ListedAtLast ==
    ASSUME TypeOK, NEW s \in scheds, NEW v \in Vm, NEW h \in Host
    PROVE  ListedAfter(schedPool[s], toSched[s], Len(toSched[s]), v, h) <=>
             Listed(s, v, h) /\ ~ WithdrawnFrom(toSched[s], v, h)
  <1>1. \A i \in DOMAIN toSched[s] : i <= Len(toSched[s])
    BY DEF TypeOK, EventsTypeOK
  <1>2. /\ Grants(toSched[s], v) \subseteq DOMAIN toSched[s]
        /\ Withdrawals(toSched[s], v) \subseteq DOMAIN toSched[s]
    BY DEF Grants, Withdrawals
  <1> QED BY <1>1, <1>2 DEF ListedAfter, Listed, GrantedOn, WithdrawnFrom

\* A copy that has heard everything, once the placements T are taken out.
CopyWithout(s, T, pool) ==
    /\ pool \in [Host -> HostInfo]
    /\ \A h \in Host :
         /\ Balanced(pool[h], h)
         /\ \A v \in Vm : v \in pool[h].allocations <=>
              /\ Listed(s, v, h) /\ ~ WithdrawnFrom(toSched[s], v, h)
              /\ h \notin hosts \/ \A m \in T : v \notin PlacedOn(m.placement, h)

LEMMA TakeOutOne ==
    ASSUME TypeOK, AllocationInv, ViewInv, NEW s \in scheds,
           NEW T \in SUBSET DecidedBy(s), NEW m \in T,
           NEW pool, CopyWithout(s, T \ {m}, pool)
    PROVE  CopyWithout(s, T, ReleaseAll(pool, hosts, m.placement))
  <1> DEFINE next == ReleaseAll(pool, hosts, m.placement)
  <1>1. s \in Sched /\ m \in commitRequests /\ m.from = s /\ m.placement \in Placement
    BY DEF TypeOK, EventsTypeOK, CommitRequest, DecidedBy
  <1>2. DOMAIN m.placement \subseteq Vm
    BY <1>1, PlacementTyped
  <1>3. pool \in [Host -> HostInfo] /\ next \in [Host -> HostInfo]
    BY <1>2, ReleaseAllTyped DEF CopyWithout
  <1> SUFFICES ASSUME NEW h \in Host
               PROVE  /\ Balanced(next[h], h)
                      /\ \A v \in Vm : v \in next[h].allocations <=>
                           /\ Listed(s, v, h) /\ ~ WithdrawnFrom(toSched[s], v, h)
                           /\ h \notin hosts \/ \A n \in T : v \notin PlacedOn(n.placement, h)
    BY <1>3 DEF CopyWithout
  <1>4. /\ pool[h] \in HostInfo /\ Balanced(pool[h], h)
        /\ \A v \in Vm : v \in pool[h].allocations <=>
             /\ Listed(s, v, h) /\ ~ WithdrawnFrom(toSched[s], v, h)
             /\ h \notin hosts \/ \A n \in T \ {m} : v \notin PlacedOn(n.placement, h)
    BY <1>3 DEF CopyWithout
  <1>5. CASE h \notin hosts
    <2>1. next[h] = pool[h]
      BY <1>5 DEF ReleaseAll
    <2> QED BY <1>4, <1>5, <2>1
  <1>6. CASE h \in hosts
    <2> DEFINE moved == PlacedOn(m.placement, h)
    <2>1. next[h] = Release(pool[h], moved)
      BY <1>6 DEF ReleaseAll
    <2>2. ASSUME NEW v \in moved
          PROVE  /\ v \in Vm /\ Listed(s, v, h) /\ ~ WithdrawnFrom(toSched[s], v, h)
                 /\ \A n \in T \ {m} : v \notin PlacedOn(n.placement, h)
      <3>1. v \in Vm /\ m \in Committing(v) /\ Names(m, v, h)
        BY <1>1, <1>2, <2>2 DEF PlacedOn, Committing, Names
      <3>2. Listed(s, v, h)
        BY <1>1, <1>6, <3>1 DEF ViewInv, Follows, Decided
      <3>3. ~ WithdrawnFrom(toSched[s], v, h)
        BY <1>1, <3>1 DEF ViewInv, GivenBackOnce, WithdrawnFrom
      <3>4. ASSUME NEW n \in T, v \in PlacedOn(n.placement, h)
            PROVE  n = m
        <4>1. n \in Committing(v)
          BY <3>4 DEF Committing, PlacedOn, DecidedBy
        <4> QED BY <3>1, <4>1 DEF AllocationInv, OneHolder
      <3> QED BY <3>1, <3>2, <3>3, <3>4
    <2>3. moved \subseteq pool[h].allocations /\ moved \in SUBSET Vm
      BY <1>4, <2>2
    <2>4. next[h].allocations = pool[h].allocations \ moved /\ Balanced(next[h], h)
      BY <1>4, <2>1, <2>3, ReleaseTyped, ReleaseBalanced
    <2>5. \A v : /\ \A n \in T : v \notin PlacedOn(n.placement, h)
                 <=> v \notin moved /\ \A n \in T \ {m} : v \notin PlacedOn(n.placement, h)
      OBVIOUS
    <2> HIDE DEF moved
    <2> QED BY <1>4, <1>6, <2>4, <2>5
  <1> QED BY <1>5, <1>6

LEMMA TakeOutAll ==
    ASSUME TypeOK, AllocationInv, ViewInv, IsFiniteSet(commitRequests), NEW s \in scheds,
           NEW pool, CopyAccounts(s, Len(toSched[s]), pool)
    PROVE  CopyWithout(s, DecidedBy(s), WithoutUndecided(pool, s))
  <1>1. commitRequests \subseteq CommitRequest /\ pool \in [Host -> HostInfo]
    BY DEF TypeOK, EventsTypeOK, CopyAccounts
  <1>2. PICK g : TakesOut(g, DecidedBy(s), pool) /\ WithoutUndecided(pool, s) = g[DecidedBy(s)]
    BY <1>1, UndecidedFold
  <1>3. IsFiniteSet(DecidedBy(s))
    BY FS_Subset DEF DecidedBy
  <1>4. CopyWithout(s, {}, pool)
    BY ListedAtLast DEF CopyAccounts, CopyWithout
  <1> DEFINE F == {T \in SUBSET DecidedBy(s) : CopyWithout(s, T, g[T])}
  <1>5. ASSUME NEW T \in SUBSET DecidedBy(s), \A m \in T : T \ {m} \in F
        PROVE  T \in F
    <2>1. CASE T = {}
      BY <1>2, <1>4, <2>1 DEF TakesOut
    <2>2. CASE T # {}
      <3>1. PICK m \in T : g[T] = ReleaseAll(g[T \ {m}], hosts, m.placement)
        BY <1>2, <2>2 DEF TakesOut
      <3>2. CopyWithout(s, T \ {m}, g[T \ {m}])
        BY <1>5
      <3> QED BY <3>1, <3>2, TakeOutOne
    <2> QED BY <2>1, <2>2
  <1> HIDE DEF F
  <1>6. \A T \in SUBSET DecidedBy(s) : T \in F
    BY <1>3, <1>5, FiniteInduction
  <1>7. DecidedBy(s) \in F
    BY <1>6
  <1> QED BY <1>2, <1>7 DEF F

LEMMA ViewsCatchUpNow ==
    ASSUME TypeOK, AllocationInv, BooksBalanced, ViewInv, ViewsBalanced,
           IsFiniteSet(commitRequests)
    PROVE  ViewCatchesUp
  <1> SUFFICES ASSUME NEW s \in scheds
               PROVE  WithoutUndecided(FoldLeft(ViewAfter, schedPool[s], toSched[s]), s)
                        = storePool
    BY DEF ViewCatchesUp
  <1> DEFINE pool == WithoutUndecided(FoldLeft(ViewAfter, schedPool[s], toSched[s]), s)
  <1>1. CopyWithout(s, DecidedBy(s), pool)
    BY CopyAtLast, TakeOutAll
  <1> HIDE DEF pool
  <1>2. s \in Sched /\ storePool \in [Host -> HostInfo] /\ pool \in [Host -> HostInfo]
    BY <1>1 DEF TypeOK, EventsTypeOK, CopyWithout
  <1>3. ASSUME NEW h \in Host, NEW v \in Vm
        PROVE  v \in pool[h].allocations <=> v \in storePool[h].allocations
    <2>1. v \in pool[h].allocations <=>
            /\ Listed(s, v, h) /\ ~ WithdrawnFrom(toSched[s], v, h)
            /\ h \notin hosts \/ \A m \in DecidedBy(s) : v \notin PlacedOn(m.placement, h)
      BY <1>1 DEF CopyWithout
    <2>2. Decided(s, v, h) <=> \E m \in DecidedBy(s) : v \in PlacedOn(m.placement, h)
      BY DEF Decided, DecidedBy, Committing, PlacedOn, Names
    <2>3. Follows(s, v, h)
      BY DEF ViewInv
    <2>4. v \in storePool[h].allocations =>
            /\ h \in hosts
            /\ ~ WithdrawnFrom(toSched[s], v, h)
            /\ ~ Decided(s, v, h)
      <3> SUFFICES ASSUME v \in storePool[h].allocations
                   PROVE  /\ h \in hosts
                          /\ ~ WithdrawnFrom(toSched[s], v, h)
                          /\ ~ Decided(s, v, h)
        OBVIOUS
      <3>1. Allocated(v) /\ h \in hosts
        BY DEF Allocated, AllocationInv, OnKnownHosts
      <3>2. Committing(v) = {}
        BY <3>1 DEF AllocationInv, OneHolder
      <3>3. Withdrawals(toSched[s], v) = {}
        BY <1>2, <3>1 DEF ViewInv, GivenBackOnce
      <3> QED BY <3>1, <3>2, <3>3 DEF WithdrawnFrom, Decided
    <2> QED BY <2>1, <2>2, <2>3, <2>4 DEF Follows
  <1>4. ASSUME NEW h \in Host
        PROVE  pool[h] = storePool[h]
    <2>1. pool[h] \in HostInfo /\ storePool[h] \in HostInfo
      BY <1>2
    <2>2. pool[h].allocations = storePool[h].allocations
      BY <1>3, <2>1 DEF HostInfo
    <2>3. Balanced(pool[h], h) /\ Balanced(storePool[h], h)
      BY <1>1 DEF CopyWithout, BooksBalanced
    <2> QED BY <2>1, <2>2, <2>3, BalancedDetermined
  <1>5. pool = storePool
    BY <1>2, <1>4
  <1> QED BY <1>5 DEF pool

LEMMA CommitsStayFinite ==
    ASSUME IsFiniteSet(commitRequests), [Next]_vars
    PROVE  IsFiniteSet(commitRequests')
  <1> DEFINE Changed == \/ commitRequests' \subseteq commitRequests
                        \/ \E m : commitRequests' = commitRequests \cup {m}
  <1>1. Changed
    <2>1. CASE UserStep
      BY <2>1 DEF UserStep, SpawnVms, SpawnVmOnHost, AddHost, AddScheduler, DirectCommit,
                  inboxes
    <2>2. ASSUME NEW s \in Sched, SchedulerStep(s) PROVE Changed
      <3>1. ASSUME NEW b \in Batch, PlaceRequest(s, b) PROVE Changed
        BY <3>1, Zenon DEF PlaceRequest
      <3>2. ASSUME NEW b \in Batch, TimeOutRequest(s, b) \/ RetryRequest(s, b) PROVE Changed
        BY <3>2 DEF TimeOutRequest, RetryRequest, inboxes
      <3>3. CASE OnStoreNotification(s)
        BY <3>3 DEF OnStoreNotification
      <3> HIDE DEF Changed
      <3> QED BY <2>2, <3>1, <3>2, <3>3 DEF SchedulerStep, OnAllocationRequest
    <2>3. CASE StoreStep
      BY <2>3 DEF StoreStep, OnCommitRequest, OnAllocationFailed, OnAllocationReleased,
                  OnHostNotice
    <2>4. CASE \E h \in Host : HostStep(h)
      BY <2>4 DEF HostStep, VmStep, OnVmCreateRequest, OnVmStarted,
                  OnAllocationReleaseRequest, OnVmDeleted, SendHostState
    <2>5. CASE ApiStep \/ MonitoringStep \/ UNCHANGED vars
      BY <2>5 DEF ApiStep, OnVmStatusChanged, DeadlinePasses, MonitoringStep,
                  OnHostStateUpdate, vars, inboxes
    <2> QED BY <2>1, <2>2, <2>3, <2>4, <2>5 DEF Next
  <1> QED BY <1>1, FS_Subset, FS_AddElement

(* A copy that is behind is never wrong: once a scheduler has heard what is *)
(* on its way to it, its copy is the pool of the store and its own          *)
(* decisions on top.                                                        *)
THEOREM ViewsCatchUp ==
    ASSUME Selection = "any" => LateHosts = {}
    PROVE  Spec => []ViewCatchesUp
  <1> DEFINE Inv == TypeOK /\ AllocationInv /\ BooksBalanced /\ ViewInv /\ ViewsBalanced
                    /\ IsFiniteSet(commitRequests)
  <1>1. Init => Inv
    <2>1. Init => IsFiniteSet(commitRequests)
      BY FS_EmptySet DEF Init, EventsInit
    <2> QED BY <2>1, InitTyped, InitSafe, InitBooks, InitViews, InitViewsBalanced
  <1>2. Inv /\ [Next]_vars => Inv'
    BY NextTyped, NextSafe, NextBooks, NextViews, NextViewsBalanced, CommitsStayFinite
  <1>3. Inv => ViewCatchesUp
    BY ViewsCatchUpNow
  <1> QED BY <1>1, <1>2, <1>3, PTL DEF Spec

-----------------------------------------------------------------------------
(* The life of a VM.                                                      *)

(* What was said of a VM but not heard yet: VmStatusChanged events on their *)
(* way, and the reports the hosts gather.                                  *)
Coming(v)  == {i \in DOMAIN toApi : v \in DOMAIN toApi[i].statuses}
Said(v, i) == toApi[i].statuses[v]
Reports(v) == {h \in Host : v \in DOMAIN hostReport[h].statuses}
Gathered(v, h) == hostReport[h].statuses[v]

Undecided(v) == Requested(v) # {} \/ Committing(v) # {}

\* Status y may be reported after x.
Leads(x, y) ==
    \/ x = y
    \/ x = "Initializing" /\ y \in {"Running", "Finished", "FailedToAllocate"}
    \/ x = "Running" /\ y = "Finished"

\* Everything said of the VM may be followed by status x.
NotBeyond(v, x) ==
    /\ Leads(vmStatus[v], x)
    /\ \A i \in Coming(v) : Leads(Said(v, i), x)
    /\ \A h \in Reports(v) : Leads(Gathered(v, h), x)

\* The events on their way are in order, and a report comes after them.
HeardInOrder(v) ==
    /\ v \notin Registered => Coming(v) = {} /\ Reports(v) = {}
    /\ \A i \in Coming(v) : Leads(vmStatus[v], Said(v, i))
    /\ \A i, j \in Coming(v) : i < j => Leads(Said(v, i), Said(v, j))
    /\ \A h \in Reports(v) :
         /\ Leads(vmStatus[v], Gathered(v, h))
         /\ \A i \in Coming(v) : Leads(Said(v, i), Gathered(v, h))

\* One host at most gathers a report of the VM, the one that has or had it.
OneReporter(v) ==
    \A h \in Reports(v) :
      /\ ~ Undecided(v)
      /\ \A g \in Host : v \in storePool[g].allocations => g = h
      /\ Reports(v) = {h}

\* The VM has one timer at most, at its host.
OneTimer(v) ==
    \A h \in Host, t \in TimerType : timers[h][t][v] > 0 =>
      /\ v \in hostPool[h].allocations
      /\ t # "MigrationReleaseRequest"
      /\ timers[h][t][v] = 1
      /\ \A u \in TimerType : timers[h][u][v] > 0 => u = t

\* What is still to be said is not behind what was said.
NothingSaidTooEarly(v) ==
    /\ Undecided(v) => NotBeyond(v, "Initializing")
    /\ \A h \in Host :
         /\ v \in creating[h] => NotBeyond(v, "Initializing")
         /\ timers[h]["VMStarted"][v] > 0 => NotBeyond(v, "Initializing")
         /\ timers[h]["AllocationReleaseRequest"][v] > 0 => NotBeyond(v, "Running")

Life(v) ==
    HeardInOrder(v) /\ OneReporter(v) /\ OneTimer(v) /\ NothingSaidTooEarly(v)

LifeInv == \A v \in Vm : Life(v)

-----------------------------------------------------------------------------
(* What a step may change of one VM's life.                                *)

(* Nothing is said of the VM, and it gets no nearer to its end.             *)
LEMMA VmLeftAlone ==
    ASSUME NEW v \in Vm, Life(v),
           vmStatus'[v] = vmStatus[v],
           Coming(v)' = Coming(v), \A i \in Coming(v) : Said(v, i)' = Said(v, i),
           Reports(v)' = Reports(v),
           \A h \in Reports(v) : Gathered(v, h)' = Gathered(v, h),
           Undecided(v)' => Undecided(v),
           \A g \in Host :
             /\ v \in storePool'[g].allocations
                  => v \in storePool[g].allocations \/ Undecided(v)
             /\ v \in creating'[g] => v \in creating[g] \/ Undecided(v),
           \A h \in Host, t \in TimerType : timers'[h][t][v] > 0 =>
             timers'[h][t][v] = timers[h][t][v] /\ v \in hostPool'[h].allocations
    PROVE  Life(v)'
  <1> USE DEF Life
  <1>1. \A x : NotBeyond(v, x) => NotBeyond(v, x)'
    BY DEF NotBeyond
  <1>2. (v \in Registered)' <=> v \in Registered
    BY DEF Registered
  <1>3. HeardInOrder(v)'
    BY <1>2 DEF HeardInOrder
  <1>4. OneReporter(v)'
    BY DEF OneReporter
  <1>5. OneTimer(v)'
    BY DEF OneTimer
  <1>6. NothingSaidTooEarly(v)'
    BY <1>1 DEF NothingSaidTooEarly, TimerType, ReleaseType
  <1> QED BY <1>3, <1>4, <1>5, <1>6

(* Of a VM that is at a host, or on its way there, no one else decides.     *)
LEMMA AtOneHost ==
    ASSUME TypeOK, AllocationInv, NEW h \in Host, NEW v \in Vm,
           v \in creating[h] \cup hostPool[h].allocations
    PROVE  /\ v \in storePool[h].allocations
           /\ ~ Undecided(v)
           /\ v \in Registered
           /\ \A g \in Host : v \in storePool[g].allocations => g = h
           /\ \A g \in Host \ {h} : v \notin creating[g] /\ v \notin hostPool[g].allocations
  <1>1. \A g \in Host : v \in creating[g] \cup hostPool[g].allocations
                          => v \in storePool[g].allocations
    BY DEF AllocationInv, StoreHostAgreement
  <1>2. Allocated(v)
    BY <1>1 DEF Allocated
  <1>3. /\ ~ Undecided(v)
        /\ \A g \in Host : v \in storePool[g].allocations => g = h
    BY <1>1, <1>2 DEF AllocationInv, OneHolder, Undecided
  <1>4. v \in Registered
    BY <1>2 DEF AllocationInv, NewVmsAreNowhere
  <1> QED BY <1>1, <1>3, <1>4

(* Events on their way stay as they are when another is emitted.            *)
LEMMA EmittedLast ==
    ASSUME TypeOK, NEW u \in StatusUpdate, toApi' = Append(toApi, u), NEW v
    PROVE  /\ \A i \in Coming(v) : Said(v, i)' = Said(v, i) /\ i < Len(toApi) + 1
           /\ Coming(v) \subseteq Nat
           /\ v \notin DOMAIN u.statuses => Coming(v)' = Coming(v)
           /\ v \in DOMAIN u.statuses =>
                /\ Coming(v)' = Coming(v) \cup {Len(toApi) + 1}
                /\ \A i : i = Len(toApi) + 1 => Said(v, i)' = u.statuses[v]
  <1>1. toApi \in Seq(StatusUpdate)
    BY DEF TypeOK, EventsTypeOK
  <1>2. /\ DOMAIN toApi = 1..Len(toApi) /\ Len(toApi) \in Nat
        /\ DOMAIN toApi' = 1..(Len(toApi) + 1)
        /\ \A i \in 1..Len(toApi) : toApi'[i] = toApi[i]
        /\ toApi'[Len(toApi) + 1] = u
    BY <1>1, AppendProperties
  <1>3. \A i \in Coming(v) : Said(v, i)' = Said(v, i) /\ i < Len(toApi) + 1
    BY <1>2 DEF Coming, Said
  <1>4. Coming(v) \subseteq Nat
    BY <1>2 DEF Coming
  <1>5. \A i : i \in DOMAIN toApi' <=> i \in DOMAIN toApi \/ i = Len(toApi) + 1
    BY <1>2
  <1>6. \A i : i \in Coming(v)' <=>
          i \in Coming(v) \/ (i = Len(toApi) + 1 /\ v \in DOMAIN u.statuses)
    BY <1>2, <1>5 DEF Coming
  <1>7. \A i : i = Len(toApi) + 1 => Said(v, i)' = u.statuses[v]
    BY <1>2 DEF Said
  <1> QED BY <1>3, <1>4, <1>6, <1>7

(* The first event is handled: the others move up.                          *)
LEMMA HandledFirst ==
    ASSUME TypeOK, toApi # <<>>, toApi' = Tail(toApi), NEW v
    PROVE  /\ \A i \in Coming(v)' : i + 1 \in Coming(v) /\ Said(v, i)' = Said(v, i + 1)
           /\ 1 \in Coming(v) <=> v \in DOMAIN Head(toApi).statuses
           /\ Said(v, 1) = Head(toApi).statuses[v]
           /\ Coming(v) \subseteq Nat \ {0} /\ Coming(v)' \subseteq Nat \ {0}
  <1>1. toApi \in Seq(StatusUpdate)
    BY DEF TypeOK, EventsTypeOK
  <1>2. /\ DOMAIN toApi = 1..Len(toApi) /\ Len(toApi) \in Nat \ {0}
        /\ DOMAIN Tail(toApi) = 1..(Len(toApi) - 1)
        /\ \A i \in 1..(Len(toApi) - 1) : Tail(toApi)[i] = toApi[i + 1]
        /\ Head(toApi) = toApi[1]
    <2>1. Len(toApi) \in Nat /\ DOMAIN toApi = 1..Len(toApi) /\ Len(toApi) # 0
      BY <1>1, EmptySeq, LenProperties
    <2>2. Tail(toApi) \in Seq(StatusUpdate) /\ Len(Tail(toApi)) = Len(toApi) - 1
      BY <1>1, HeadTailProperties
    <2>3. \A i \in 1..Len(Tail(toApi)) : Tail(toApi)[i] = toApi[i + 1]
      BY <1>1, HeadTailProperties
    <2>4. DOMAIN Tail(toApi) = 1..Len(Tail(toApi))
      BY <2>2, LenProperties
    <2>5. Head(toApi) = toApi[1]
      BY <1>1
    <2> QED BY <2>1, <2>2, <2>3, <2>4, <2>5
  <1> DEFINE n == Len(toApi)
  <1>3. \A i \in Coming(v)' : /\ i \in 1..(n - 1)
                              /\ v \in DOMAIN toApi[i + 1].statuses
                              /\ Said(v, i)' = toApi[i + 1].statuses[v]
    BY <1>2 DEF Coming, Said
  <1>4. \A i \in 1..(n - 1) : i + 1 \in 1..n
    BY <1>2
  <1>5. \A i \in Coming(v)' : i + 1 \in Coming(v) /\ Said(v, i)' = Said(v, i + 1)
    BY <1>2, <1>3, <1>4 DEF Coming, Said
  <1>6. 1 \in DOMAIN toApi
    BY <1>2
  <1>7. /\ 1 \in Coming(v) <=> v \in DOMAIN Head(toApi).statuses
        /\ Said(v, 1) = Head(toApi).statuses[v]
    BY <1>2, <1>6 DEF Coming, Said
  <1>8. Coming(v) \subseteq Nat \ {0} /\ Coming(v)' \subseteq Nat \ {0}
    BY <1>2 DEF Coming
  <1> QED BY <1>5, <1>7, <1>8

(* A host gathers status x of a VM that is there.                           *)
LEMMA StatusGathered ==
    ASSUME NEW v \in Vm, Life(v), NEW h \in Host, NEW x, NotBeyond(v, x),
           v \in Registered, ~ Undecided(v), ~ Undecided(v)',
           v \in storePool[h].allocations,
           \A g \in Host : v \in storePool[g].allocations => g = h,
           UNCHANGED <<vmStatus, toApi, storePool>>,
           \A g \in Host \ {h} : hostReport'[g] = hostReport[g],
           v \in DOMAIN hostReport'[h].statuses,
           hostReport'[h].statuses[v] = x
    PROVE  HeardInOrder(v)' /\ OneReporter(v)' /\ NotBeyond(v, x)'
  <1>1. Reports(v) \subseteq {h}
    BY DEF Life, OneReporter, Reports
  <1>2. Reports(v)' = {h} /\ Gathered(v, h)' = x
    BY <1>1 DEF Reports, Gathered
  <1>3. Coming(v)' = Coming(v) /\ \A i \in Coming(v) : Said(v, i)' = Said(v, i)
    BY DEF Coming, Said
  <1>4. (v \in Registered)'
    BY DEF Registered
  <1>5. HeardInOrder(v)'
    BY <1>2, <1>3, <1>4 DEF Life, HeardInOrder, NotBeyond
  <1>6. OneReporter(v)'
    BY <1>2 DEF OneReporter
  <1>7. NotBeyond(v, x)'
    BY <1>2, <1>3 DEF NotBeyond, Leads
  <1> QED BY <1>5, <1>6, <1>7

-----------------------------------------------------------------------------
(* The user's calls.                                                       *)

LEMMA NewVmsLive ==
    ASSUME LifeInv, NEW S \in SUBSET Vm, RegisterNewVms(S),
           UNCHANGED <<toApi, hostReport, timers, hostPool>>,
           \A v \in Vm \ S :
             /\ Undecided(v)' => Undecided(v)
             /\ \A g \in Host :
                  /\ v \in storePool'[g].allocations => v \in storePool[g].allocations
                  /\ v \in creating'[g] => v \in creating[g]
    PROVE  LifeInv'
  <1> SUFFICES ASSUME NEW v \in Vm PROVE Life(v)'
    BY DEF LifeInv
  <1>1. /\ Coming(v)' = Coming(v) /\ \A i \in Coming(v) : Said(v, i)' = Said(v, i)
        /\ Reports(v)' = Reports(v)
        /\ \A h \in Reports(v) : Gathered(v, h)' = Gathered(v, h)
    BY DEF Coming, Said, Reports, Gathered
  <1>2. CASE v \in S
    <2>1. v \notin Registered /\ vmStatus'[v] = "Initializing"
      BY <1>2 DEF RegisterNewVms
    <2>2. Coming(v)' = {} /\ Reports(v)' = {}
      BY <1>1, <2>1 DEF LifeInv, Life, HeardInOrder
    <2>3. NotBeyond(v, "Initializing")' /\ NotBeyond(v, "Running")'
      BY <2>1, <2>2 DEF NotBeyond, Leads
    <2>4. HeardInOrder(v)' /\ OneReporter(v)' /\ NothingSaidTooEarly(v)'
      BY <2>2, <2>3 DEF HeardInOrder, OneReporter, NothingSaidTooEarly
    <2>5. OneTimer(v)'
      BY DEF LifeInv, Life, OneTimer
    <2> QED BY <2>4, <2>5 DEF Life
  <1>3. CASE v \notin S
    <2>1. vmStatus'[v] = vmStatus[v]
      BY <1>3 DEF RegisterNewVms
    <2>2. \A h \in Host, t \in TimerType : timers'[h][t][v] > 0 =>
            timers'[h][t][v] = timers[h][t][v] /\ v \in hostPool'[h].allocations
      BY DEF LifeInv, Life, OneTimer
    <2>3. Life(v)
      BY DEF LifeInv
    <2> QED BY <1>1, <1>3, <2>1, <2>2, <2>3, VmLeftAlone
  <1> QED BY <1>2, <1>3

(* Nothing is said of any VM, and none changes hands.                       *)
LEMMA AllLeftAlone ==
    ASSUME LifeInv,
           UNCHANGED <<vmStatus, toApi, requests, commitRequests, creating, storePool,
                       timers, hostPool, hostReport>>
    PROVE  LifeInv'
  <1> SUFFICES ASSUME NEW v \in Vm PROVE Life(v)'
    BY DEF LifeInv
  <1>1. /\ Coming(v)' = Coming(v) /\ \A i \in Coming(v) : Said(v, i)' = Said(v, i)
        /\ Reports(v)' = Reports(v)
        /\ \A h \in Reports(v) : Gathered(v, h)' = Gathered(v, h)
        /\ Undecided(v)' => Undecided(v)
    BY DEF Coming, Said, Reports, Gathered, Undecided, Requested, Committing
  <1>2. Life(v)
    BY DEF LifeInv
  <1>3. \A h \in Host, t \in TimerType : timers'[h][t][v] > 0 =>
          timers'[h][t][v] = timers[h][t][v] /\ v \in hostPool'[h].allocations
    BY <1>2 DEF Life, OneTimer
  <1> QED BY <1>1, <1>2, <1>3, VmLeftAlone

LEMMA UserStepLife ==
    ASSUME TypeOK, LifeInv, UserStep
    PROVE  LifeInv'
  <1>1. ASSUME NEW s \in Sched, NEW b \in Batch, SpawnVms(s, b)
        PROVE  LifeInv'
    <2>1. b \in SUBSET Vm /\ RegisterNewVms(b)
      BY <1>1, BatchAssumption DEF SpawnVms
    <2>2. UNCHANGED <<toApi, hostReport, timers, hostPool, storePool, creating,
                      commitRequests>>
      BY <1>1 DEF SpawnVms, hostVars
    <2>3. \A v \in Vm \ b : Undecided(v)' => Undecided(v)
      <3>1. requests' = [requests EXCEPT ![s] = @ \cup {b}]
        BY <1>1 DEF SpawnVms
      <3> QED BY <2>2, <3>1 DEF Undecided, Requested, Committing, TypeOK, EventsTypeOK
    <2> QED BY <2>1, <2>2, <2>3, NewVmsLive
  <1>2. ASSUME NEW v \in DirectVm, NEW h \in Host, SpawnVmOnHost(v, h)
        PROVE  LifeInv'
    <2> DEFINE p == [w \in {v} |-> h]
    <2>1. {v} \in SUBSET Vm /\ RegisterNewVms({v})
      BY <1>2, SetupAssumption DEF SpawnVmOnHost
    <2>2. UNCHANGED <<toApi, hostReport, timers, hostPool, requests, commitRequests>>
      BY <1>2 DEF SpawnVmOnHost, DirectCommit, hostVars
    <2>3. ASSUME NEW w \in Vm \ {v}, NEW g \in Host
          PROVE  /\ w \in storePool'[g].allocations => w \in storePool[g].allocations
                 /\ w \in creating'[g] => w \in creating[g]
      <3>1. PlacedOn(p, g) \subseteq {v} /\ PlacedOn(p, g) \in SUBSET Vm
        BY <2>1 DEF PlacedOn
      <3>2. CASE Commit(p)
        <4>1. storePool'[g] = IF g \in hosts THEN Allocate(storePool[g], PlacedOn(p, g))
                                              ELSE storePool[g]
          BY <3>2 DEF Commit, AllocateAll
        <4>2. Allocate(storePool[g], PlacedOn(p, g)).allocations
                = storePool[g].allocations \cup PlacedOn(p, g)
          BY <3>1, AllocateTyped DEF TypeOK
        <4>3. creating'[g] = creating[g] \cup PlacedOn(p, g)
          BY <3>2 DEF Commit
        <4> QED BY <3>1, <4>1, <4>2, <4>3
      <3>3. CASE UNCHANGED <<storePool, creating, toSched>>
        BY <3>3
      <3> QED BY <1>2, <3>2, <3>3 DEF SpawnVmOnHost, DirectCommit
    <2>4. \A w \in Vm \ {v} : Undecided(w)' => Undecided(w)
      BY <2>2 DEF Undecided, Requested, Committing
    <2> QED BY <2>1, <2>2, <2>3, <2>4, NewVmsLive
  <1>3. ASSUME \/ \E h \in LateHosts : AddHost(h)
               \/ \E s \in Sched : AddScheduler(s)
        PROVE  LifeInv'
    BY <1>3, AllLeftAlone DEF AddHost, AddScheduler, inboxes, apiVars, hostVars
  <1> QED BY <1>1, <1>2, <1>3 DEF UserStep

-----------------------------------------------------------------------------
(* The schedulers and the store.                                           *)

(* A request that times out: no host reports its VMs.                       *)
LEMMA TimeOutRequestLife ==
    ASSUME TypeOK, AllocationInv, LifeInv, NEW s \in Sched, NEW b \in Batch,
           TimeOutRequest(s, b), SchedulerStep(s)
    PROVE  LifeInv'
  <1> DEFINE u == [statuses |-> [v \in b |-> "FailedToAllocate"], src |-> s]
  <1>1. u \in StatusUpdate /\ toApi' = Append(toApi, u)
    <2>1. [v \in b |-> "FailedToAllocate"]
            \in UNION {[c -> {"FailedToAllocate"}] : c \in Batch}
      OBVIOUS
    <2> QED BY <2>1 DEF TimeOutRequest, EmitStatuses, StatusUpdate
  <1>2. DOMAIN u.statuses = b /\ \A v \in b : u.statuses[v] = "FailedToAllocate"
    OBVIOUS
  <1> HIDE DEF u
  <1>3. /\ b \in requests[s]
        /\ requests' = [requests EXCEPT ![s] = @ \ {b}]
        /\ UNCHANGED <<vmStatus, commitRequests, creating, storePool, timers, hostPool,
                       hostReport>>
    BY DEF TimeOutRequest, RequestDelivered, SchedulerStep, hostVars
  <1> SUFFICES ASSUME NEW v \in Vm PROVE Life(v)'
    BY DEF LifeInv
  <1>4. Life(v)
    BY DEF LifeInv
  <1>5. /\ Requested(v)' \subseteq Requested(v) /\ Committing(v)' = Committing(v)
        /\ v \in b => <<s, b>> \in Requested(v) /\ <<s, b>> \notin Requested(v)'
    BY <1>3 DEF Requested, Committing, TypeOK, EventsTypeOK
  <1>6. Reports(v)' = Reports(v) /\ \A h \in Reports(v) : Gathered(v, h)' = Gathered(v, h)
    BY <1>3 DEF Reports, Gathered
  <1>7. \A h \in Host, t \in TimerType : timers'[h][t][v] > 0 =>
          timers'[h][t][v] = timers[h][t][v] /\ v \in hostPool'[h].allocations
    BY <1>3, <1>4 DEF Life, OneTimer
  <1>8. CASE v \notin b
    <2>1. Coming(v)' = Coming(v) /\ \A i \in Coming(v) : Said(v, i)' = Said(v, i)
      BY <1>1, <1>2, <1>8, EmittedLast
    <2>2. Undecided(v)' => Undecided(v)
      BY <1>5 DEF Undecided
    <2> QED BY <1>3, <1>4, <1>6, <1>7, <2>1, <2>2, VmLeftAlone
  <1>9. CASE v \in b
    <2>1. Undecided(v) /\ ~ Undecided(v)' /\ ~ Allocated(v)
      BY <1>5, <1>9 DEF Undecided, AllocationInv, OneHolder
    <2>2. v \in Registered /\ (v \in Registered)'
      <3>1. v \in Registered
        BY <2>1 DEF AllocationInv, NewVmsAreNowhere, Undecided
      <3> QED BY <1>3, <3>1 DEF Registered
    <2>3. NotBeyond(v, "Initializing") /\ Reports(v)' = {}
      BY <1>4, <1>6, <2>1 DEF Life, NothingSaidTooEarly, OneReporter
    <2>4. \A h \in Host : v \notin creating[h] /\ v \notin hostPool[h].allocations
      BY <2>1 DEF Allocated, AllocationInv, StoreHostAgreement
    <2>5. \A h \in Host, t \in TimerType : ~ (timers[h][t][v] > 0)
      BY <1>4, <2>4 DEF Life, OneTimer
    <2>6. /\ Coming(v)' = Coming(v) \cup {Len(toApi) + 1}
          /\ \A i \in Coming(v) : Said(v, i)' = Said(v, i) /\ i < Len(toApi) + 1
          /\ \A i : i = Len(toApi) + 1 => Said(v, i)' = "FailedToAllocate"
          /\ Coming(v) \subseteq Nat /\ Len(toApi) \in Nat
      BY <1>1, <1>2, <1>9, EmittedLast DEF TypeOK, EventsTypeOK
    <2>7. HeardInOrder(v)'
      <3>1. \A i \in Coming(v)' : Leads(vmStatus[v], Said(v, i)')
        BY <1>4, <2>3, <2>6 DEF Life, HeardInOrder, NotBeyond, Leads
      <3>2. ASSUME NEW i \in Coming(v)', NEW j \in Coming(v)', i < j
            PROVE  Leads(Said(v, i)', Said(v, j)')
        <4>1. i \in Coming(v)
          BY <2>6, <3>2
        <4>2. CASE j \in Coming(v)
          BY <1>4, <2>6, <3>2, <4>1, <4>2 DEF Life, HeardInOrder
        <4>3. CASE j = Len(toApi) + 1
          BY <2>3, <2>6, <4>1, <4>3 DEF NotBeyond, Leads
        <4> QED BY <2>6, <4>2, <4>3
      <3> QED BY <1>3, <2>2, <2>3, <3>1, <3>2 DEF HeardInOrder
    <2>8. OneReporter(v)'
      BY <2>3 DEF OneReporter
    <2>9. OneTimer(v)' /\ NothingSaidTooEarly(v)'
      BY <1>3, <2>1, <2>4, <2>5 DEF OneTimer, NothingSaidTooEarly, TimerType, ReleaseType
    <2> QED BY <2>7, <2>8, <2>9 DEF Life
  <1> QED BY <1>8, <1>9

LEMMA SchedulerStepLife ==
    ASSUME TypeOK, AllocationInv, LifeInv, NEW s \in Sched, SchedulerStep(s)
    PROVE  LifeInv'
  <1>1. ASSUME NEW b \in Batch, PlaceRequest(s, b)
        PROVE  LifeInv'
    <2>1. PICK p \in [b -> Host] :
            commitRequests' = commitRequests \cup {[placement |-> p, from |-> s]}
      BY <1>1 DEF PlaceRequest
    <2>2. /\ b \in requests[s]
          /\ requests' = [requests EXCEPT ![s] = @ \ {b}]
          /\ UNCHANGED <<vmStatus, toApi, creating, storePool, timers, hostPool,
                         hostReport>>
      BY <1>1 DEF PlaceRequest, RequestDelivered, SchedulerStep, hostVars
    <2> SUFFICES ASSUME NEW v \in Vm PROVE Life(v)'
      BY DEF LifeInv
    <2>3. Life(v)
      BY DEF LifeInv
    <2>4. /\ Requested(v)' \subseteq Requested(v)
          /\ v \in b => <<s, b>> \in Requested(v)
      BY <2>2 DEF Requested, TypeOK, EventsTypeOK
    <2>5. v \notin b => Committing(v)' = Committing(v)
      <3> DEFINE m == [placement |-> p, from |-> s]
      <3>1. DOMAIN m.placement = b /\ commitRequests' = commitRequests \cup {m}
        BY <2>1
      <3> HIDE DEF m
      <3> QED BY <3>1 DEF Committing
    <2>6. Undecided(v)' => Undecided(v)
      BY <2>4, <2>5 DEF Undecided
    <2>7. /\ Coming(v)' = Coming(v) /\ \A i \in Coming(v) : Said(v, i)' = Said(v, i)
          /\ Reports(v)' = Reports(v)
          /\ \A h \in Reports(v) : Gathered(v, h)' = Gathered(v, h)
      BY <2>2 DEF Coming, Said, Reports, Gathered
    <2>8. \A h \in Host, t \in TimerType : timers'[h][t][v] > 0 =>
            timers'[h][t][v] = timers[h][t][v] /\ v \in hostPool'[h].allocations
      BY <2>2, <2>3 DEF Life, OneTimer
    <2> QED BY <2>2, <2>3, <2>6, <2>7, <2>8, VmLeftAlone
  <1>2. ASSUME \/ \E b \in Batch : RetryRequest(s, b)
               \/ OnStoreNotification(s)
        PROVE  LifeInv'
    BY <1>2, AllLeftAlone
       DEF RetryRequest, OnStoreNotification, SchedulerStep, inboxes, hostVars
  <1> QED BY <1>1, <1>2, TimeOutRequestLife DEF SchedulerStep, OnAllocationRequest

LEMMA StoreStepLife ==
    ASSUME TypeOK, AllocationInv, LifeInv, StoreStep
    PROVE  LifeInv'
  <1> SUFFICES ASSUME NEW v \in Vm PROVE Life(v)'
    BY DEF LifeInv
  <1>1. UNCHANGED <<vmStatus, toApi, timers, hostPool, hostReport>>
    BY DEF StoreStep, OnCommitRequest, OnAllocationFailed, OnAllocationReleased,
           OnHostNotice, apiVars, hostVars
  <1>2. /\ Life(v)
        /\ Coming(v)' = Coming(v) /\ \A i \in Coming(v) : Said(v, i)' = Said(v, i)
        /\ Reports(v)' = Reports(v)
        /\ \A h \in Reports(v) : Gathered(v, h)' = Gathered(v, h)
    BY <1>1 DEF LifeInv, Coming, Said, Reports, Gathered
  <1>3. \A h \in Host, t \in TimerType : timers'[h][t][v] > 0 =>
          timers'[h][t][v] = timers[h][t][v] /\ v \in hostPool'[h].allocations
    BY <1>1, <1>2 DEF Life, OneTimer
  <1>4. ASSUME NEW m \in commitRequests, OnCommitRequest(m)
        PROVE  Life(v)'
    <2> DEFINE p == m.placement
    <2>1. /\ p \in Placement /\ DOMAIN p \in Batch /\ m.from \in Sched
          /\ commitRequests' = commitRequests \ {m}
      BY <1>4, PlacementTyped DEF OnCommitRequest, TypeOK, EventsTypeOK, CommitRequest
    <2>2. Committing(v)' \subseteq Committing(v) /\ (v \in DOMAIN p => Committing(v) # {})
      BY <2>1 DEF Committing
    <2>3. CASE Commit(p) /\ UNCHANGED requests
      <3>1. Undecided(v)' => Undecided(v)
        BY <2>2, <2>3 DEF Undecided, Requested
      <3>2. ASSUME NEW g \in Host
            PROVE  /\ v \in storePool'[g].allocations
                        => v \in storePool[g].allocations \/ Undecided(v)
                   /\ v \in creating'[g] => v \in creating[g] \/ Undecided(v)
        <4>1. PlacedOn(p, g) \in SUBSET Vm
          BY <2>1, PlacementTyped
        <4>2. v \in PlacedOn(p, g) => Undecided(v)
          BY <2>2 DEF PlacedOn, Undecided
        <4>3. storePool'[g] = IF g \in hosts THEN Allocate(storePool[g], PlacedOn(p, g))
                                              ELSE storePool[g]
          BY <2>3 DEF Commit, AllocateAll
        <4>4. Allocate(storePool[g], PlacedOn(p, g)).allocations
                = storePool[g].allocations \cup PlacedOn(p, g)
          BY <4>1, AllocateTyped DEF TypeOK
        <4>5. creating'[g] = creating[g] \cup PlacedOn(p, g)
          BY <2>3 DEF Commit
        <4> QED BY <4>2, <4>3, <4>4, <4>5
      <3> QED BY <1>1, <1>2, <1>3, <3>1, <3>2, VmLeftAlone
    <2>4. CASE Reject(p, m.from)
      <3>1. requests' = [requests EXCEPT ![m.from] = @ \cup {DOMAIN p}]
            /\ UNCHANGED <<storePool, creating>>
        BY <2>4 DEF Reject
      <3>2. v \notin DOMAIN p => Requested(v)' \subseteq Requested(v)
        BY <2>1, <3>1 DEF Requested, TypeOK, EventsTypeOK
      <3>3. Undecided(v)' => Undecided(v)
        BY <2>2, <3>2 DEF Undecided
      <3> QED BY <1>1, <1>2, <1>3, <3>1, <3>3, VmLeftAlone
    <2> QED BY <1>4, <2>3, <2>4 DEF OnCommitRequest
  <1>5. ASSUME NEW n \in hostNotices, OnHostNotice(n)
        PROVE  Life(v)'
    <2> DEFINE p == [w \in {n.vm} |-> n.host]
    <2>1. UNCHANGED <<requests, commitRequests, creating>>
      BY <1>5 DEF OnHostNotice
    <2>2. ASSUME NEW g \in Host
          PROVE  v \in storePool'[g].allocations => v \in storePool[g].allocations
      <3>1. storePool'[g] = IF g \in hosts THEN Release(storePool[g], PlacedOn(p, g))
                                            ELSE storePool[g]
        BY <1>5 DEF OnHostNotice, ReleaseAll
      <3>2. storePool[g] \in HostInfo /\ PlacedOn(p, g) \in SUBSET Vm
        BY DEF TypeOK, EventsTypeOK, HostNotice, PlacedOn
      <3>3. Release(storePool[g], PlacedOn(p, g)).allocations
              = storePool[g].allocations \ PlacedOn(p, g)
        BY <3>2, ReleaseTyped
      <3> QED BY <3>1, <3>3
    <2>3. Undecided(v)' => Undecided(v)
      BY <2>1 DEF Undecided, Requested, Committing
    <2> QED BY <1>1, <1>2, <1>3, <2>1, <2>2, <2>3, VmLeftAlone
  <1> QED BY <1>4, <1>5 DEF StoreStep, OnAllocationFailed, OnAllocationReleased

-----------------------------------------------------------------------------
(* The hosts.                                                              *)

(* A host's handler for one VM leaves the lives of the others alone.        *)
LEMMA OthersLeftAlone ==
    ASSUME LifeInv, NEW v \in Vm, NEW h \in Host,
           UNCHANGED <<vmStatus, toApi, requests, commitRequests, storePool>>,
           \A g \in Host \ {h} : hostReport'[g].statuses = hostReport[g].statuses,
           \A w \in Vm \ {v} :
             /\ w \in DOMAIN hostReport'[h].statuses
                  <=> w \in DOMAIN hostReport[h].statuses
             /\ w \in DOMAIN hostReport[h].statuses
                  => hostReport'[h].statuses[w] = hostReport[h].statuses[w]
             /\ \A g \in Host :
                  /\ w \in creating'[g] => w \in creating[g]
                  /\ w \in hostPool[g].allocations => w \in hostPool'[g].allocations
                  /\ \A t \in TimerType : timers'[g][t][w] = timers[g][t][w],
           Life(v)'
    PROVE  LifeInv'
  <1> SUFFICES ASSUME NEW w \in Vm \ {v} PROVE Life(w)'
    BY DEF LifeInv
  <1>1. Life(w)
    BY DEF LifeInv
  <1>2. /\ Coming(w)' = Coming(w) /\ \A i \in Coming(w) : Said(w, i)' = Said(w, i)
        /\ Undecided(w)' => Undecided(w)
    BY DEF Coming, Said, Undecided, Requested, Committing
  <1>3. /\ Reports(w)' = Reports(w)
        /\ \A g \in Reports(w) : Gathered(w, g)' = Gathered(w, g)
    BY DEF Reports, Gathered
  <1>4. \A g \in Host, t \in TimerType : timers'[g][t][w] > 0 =>
          timers'[g][t][w] = timers[g][t][w] /\ w \in hostPool'[g].allocations
    BY <1>1 DEF Life, OneTimer
  <1> QED BY <1>1, <1>2, <1>3, <1>4, VmLeftAlone

LEMMA StatusNoted ==
    ASSUME NEW report \in Report, NEW v, NEW status
    PROVE  /\ v \in DOMAIN WithStatus(report, v, status).statuses
           /\ WithStatus(report, v, status).statuses[v] = status
           /\ \A w : w # v =>
                /\ w \in DOMAIN WithStatus(report, v, status).statuses
                     <=> w \in DOMAIN report.statuses
                /\ w \in DOMAIN report.statuses =>
                     WithStatus(report, v, status).statuses[w] = report.statuses[w]
           /\ WithAdded(report, v).statuses = report.statuses
           /\ WithRemoved(report, v).statuses = report.statuses
  BY DEF WithStatus, WithAdded, WithRemoved, Report

LEMMA VmCreatedLife ==
    ASSUME TypeOK, AllocationInv, LifeInv, NEW h \in Host, NEW v \in Vm,
           OnVmCreateRequest(h, v), UNCHANGED <<storePool, vmStatus>>
    PROVE  LifeInv'
  <1>1. /\ v \in creating[h]
        /\ creating' = [creating EXCEPT ![h] = @ \ {v}]
        /\ creating \in [Host -> SUBSET Vm]
        /\ UNCHANGED <<toApi, requests, commitRequests>>
    BY DEF OnVmCreateRequest, TypeOK, EventsTypeOK
  <1>2. /\ Life(v)
        /\ v \in storePool[h].allocations /\ v \in Registered /\ ~ Undecided(v)
        /\ \A g \in Host : v \in storePool[g].allocations => g = h
        /\ \A g \in Host \ {h} : v \notin creating[g] /\ v \notin hostPool[g].allocations
    BY <1>1, AtOneHost DEF LifeInv
  <1>3. ~ Undecided(v)'
    BY <1>1, <1>2 DEF Undecided, Requested, Committing
  <1>4. /\ v \notin hostPool[h].allocations
        /\ \A g \in Host, t \in TimerType : timers[g][t][v] = 0
    <2>1. v \notin hostPool[h].allocations
      BY <1>1 DEF AllocationInv, StoreHostAgreement
    <2>2. \A g \in Host, t \in TimerType : timers[g][t][v] \in Nat
      BY DEF TypeOK, EventsTypeOK
    <2> QED BY <1>2, <2>1, <2>2 DEF Life, OneTimer
  <1>5. CASE UNCHANGED <<hostVars, timers>>
    <2>1. Reports(v)' = Reports(v) /\ \A g \in Reports(v) : Gathered(v, g)' = Gathered(v, g)
      BY <1>5 DEF Reports, Gathered, hostVars
    <2>2. Coming(v)' = Coming(v) /\ \A i \in Coming(v) : Said(v, i)' = Said(v, i)
      BY <1>1 DEF Coming, Said
    <2>3. \A g \in Host : v \in creating'[g] => v \in creating[g]
      BY <1>1
    <2>4. Life(v)'
      BY <1>1, <1>2, <1>3, <1>4, <1>5, <2>1, <2>2, <2>3, VmLeftAlone
    <2>5. \A g \in Host, w \in Vm : w \in creating'[g] => w \in creating[g]
      BY <1>1
    <2> QED BY <1>1, <1>5, <2>4, <2>5, OthersLeftAlone DEF hostVars
  <1>6. CASE /\ HostAllocate(h, v)
             /\ hostReport' = [hostReport EXCEPT ![h] =
                  WithStatus(WithAdded(@, v), v, "Initializing")]
             /\ SetTimer(h, "VMStarted", v)
    <2> DEFINE R == WithStatus(WithAdded(hostReport[h], v), v, "Initializing")
    <2>1. /\ v \in DOMAIN R.statuses /\ R.statuses[v] = "Initializing"
          /\ \A w \in Vm \ {v} :
               /\ w \in DOMAIN R.statuses <=> w \in DOMAIN hostReport[h].statuses
               /\ w \in DOMAIN hostReport[h].statuses
                    => R.statuses[w] = hostReport[h].statuses[w]
      <3>1. hostReport[h] \in Report /\ WithAdded(hostReport[h], v) \in Report
        BY ReportTyped DEF TypeOK, HostsTypeOK, Status
      <3> QED BY <3>1, StatusNoted
    <2>2. hostReport'[h] = R /\ \A g \in Host \ {h} : hostReport'[g] = hostReport[g]
      BY <1>6 DEF TypeOK, HostsTypeOK
    <2> HIDE DEF R
    <2>3. /\ timers'[h]["VMStarted"][v] = 1
          /\ \A g \in Host, t \in TimerType, w \in Vm :
               <<g, t, w>> # <<h, "VMStarted", v>> => timers'[g][t][w] = timers[g][t][w]
      BY <1>4, <1>6 DEF SetTimer, TypeOK, EventsTypeOK, TimerType
    <2>4. \A g \in Host : hostPool'[g].allocations =
            IF g = h THEN hostPool[g].allocations \cup {v} ELSE hostPool[g].allocations
      <3>1. hostPool' = [hostPool EXCEPT ![h] = Occupy(@, {v})]
        BY <1>6 DEF HostAllocate
      <3>2. Occupy(hostPool[h], {v}).allocations = hostPool[h].allocations \cup {v}
        BY OccupyTyped DEF TypeOK, HostsTypeOK
      <3> QED BY <3>1, <3>2 DEF TypeOK, HostsTypeOK
    <2>5. NotBeyond(v, "Initializing")
      BY <1>1, <1>2 DEF Life, NothingSaidTooEarly
    <2>6. HeardInOrder(v)' /\ OneReporter(v)' /\ NotBeyond(v, "Initializing")'
      BY <1>1, <1>2, <1>3, <2>1, <2>2, <2>5, StatusGathered
    <2>7. OneTimer(v)'
      <3>1. ASSUME NEW g \in Host, NEW t \in TimerType, timers'[g][t][v] > 0
            PROVE  g = h /\ t = "VMStarted"
        BY <1>4, <2>3, <3>1
      <3>2. v \in hostPool'[h].allocations
        BY <2>4
      <3> QED BY <2>3, <3>1, <3>2 DEF OneTimer
    <2>8. \A g \in Host : ~ (timers'[g]["AllocationReleaseRequest"][v] > 0)
      BY <1>4, <2>3 DEF TimerType, ReleaseType
    <2>9. NothingSaidTooEarly(v)'
      BY <2>6, <2>8 DEF NothingSaidTooEarly
    <2>10. Life(v)'
      BY <2>6, <2>7, <2>9 DEF Life
    <2>11. \A w \in Vm \ {v}, g \in Host :
             /\ w \in creating'[g] => w \in creating[g]
             /\ w \in hostPool[g].allocations => w \in hostPool'[g].allocations
             /\ \A t \in TimerType : timers'[g][t][w] = timers[g][t][w]
      BY <1>1, <2>3, <2>4
    <2> QED BY <1>1, <2>1, <2>2, <2>10, <2>11, OthersLeftAlone
  <1> QED BY <1>5, <1>6 DEF OnVmCreateRequest

(* A timer leads on to the next one, and the host reports where it got.     *)
LEMMA TimerLeadsOn ==
    ASSUME TypeOK, AllocationInv, LifeInv, NEW h \in Host, NEW v \in Vm,
           NEW t \in TimerType, NEW u \in TimerType, t # u,
           u \notin {"VMStarted", "MigrationReleaseRequest"},
           TimerFiresAndSets(h, t, u, v),
           NEW x, NotBeyond(v, x), u = "AllocationReleaseRequest" => x = "Running",
           hostReport' = [hostReport EXCEPT ![h] = WithStatus(@, v, x)],
           UNCHANGED <<vmStatus, toApi, requests, commitRequests, storePool, creating,
                       hostPool>>
    PROVE  LifeInv'
  <1> DEFINE R == WithStatus(hostReport[h], v, x)
  <1>1. /\ v \in DOMAIN R.statuses /\ R.statuses[v] = x
        /\ \A w \in Vm \ {v} :
             /\ w \in DOMAIN R.statuses <=> w \in DOMAIN hostReport[h].statuses
             /\ w \in DOMAIN hostReport[h].statuses
                  => R.statuses[w] = hostReport[h].statuses[w]
    <2>1. hostReport[h] \in Report
      BY DEF TypeOK, HostsTypeOK
    <2> QED BY <2>1, StatusNoted
  <1>2. hostReport'[h] = R /\ \A g \in Host \ {h} : hostReport'[g] = hostReport[g]
    BY DEF TypeOK, HostsTypeOK
  <1> HIDE DEF R
  <1>3. /\ Life(v)
        /\ timers[h][t][v] = 1 /\ v \in hostPool[h].allocations
        /\ \A w \in TimerType : timers[h][w][v] > 0 => w = t
    BY DEF LifeInv, Life, OneTimer, TimerFiresAndSets
  <1>4. /\ v \in storePool[h].allocations /\ v \in Registered
        /\ ~ Undecided(v)
        /\ \A g \in Host : v \in storePool[g].allocations => g = h
        /\ \A g \in Host \ {h} : v \notin creating[g] /\ v \notin hostPool[g].allocations
    BY <1>3, AtOneHost
  <1>5. ~ Undecided(v)' /\ \A g \in Host : v \notin creating'[g]
    <2>1. v \notin creating[h]
      BY <1>3 DEF AllocationInv, StoreHostAgreement
    <2> QED BY <1>4, <2>1 DEF Undecided, Requested, Committing
  <1>6. /\ timers'[h][t][v] = 0 /\ timers'[h][u][v] = 1
        /\ \A g \in Host, w \in TimerType, y \in Vm :
             (y # v \/ g # h \/ w \notin {t, u}) => timers'[g][w][y] = timers[g][w][y]
    <2>1. timers[h][u][v] = 0 /\ timers \in [Host -> [TimerType -> [Vm -> Nat]]]
      <3>1. timers \in [Host -> [TimerType -> [Vm -> Nat]]]
        BY DEF TypeOK, EventsTypeOK
      <3>2. timers[h][u][v] \in Nat
        BY <3>1
      <3> QED BY <1>3, <3>1, <3>2
    <2>2. timers' = [timers EXCEPT ![h][t][v] = @ - 1, ![h][u][v] = @ + 1]
      BY DEF TimerFiresAndSets
    <2> QED BY <1>3, <2>1, <2>2
  <1>7. ASSUME NEW g \in Host, NEW w \in TimerType, timers'[g][w][v] > 0
        PROVE  g = h /\ w = u
    <2>1. \A f \in Host \ {h}, y \in TimerType : ~ (timers[f][y][v] > 0)
      BY <1>3, <1>4 DEF Life, OneTimer
    <2>2. g = h
      BY <1>6, <1>7, <2>1
    <2> QED BY <1>3, <1>6, <1>7, <2>2
  <1>8. HeardInOrder(v)' /\ OneReporter(v)' /\ NotBeyond(v, x)'
    BY <1>1, <1>2, <1>3, <1>4, <1>5, StatusGathered
  <1>9. OneTimer(v)'
    BY <1>3, <1>6, <1>7 DEF OneTimer
  <1>10. NothingSaidTooEarly(v)'
    BY <1>5, <1>7, <1>8 DEF NothingSaidTooEarly, TimerType, ReleaseType
  <1>11. Life(v)'
    BY <1>8, <1>9, <1>10 DEF Life
  <1>12. \A w \in Vm \ {v}, g \in Host :
           /\ w \in creating'[g] => w \in creating[g]
           /\ w \in hostPool[g].allocations => w \in hostPool'[g].allocations
           /\ \A y \in TimerType : timers'[g][y][w] = timers[g][y][w]
    BY <1>6
  <1> QED BY <1>1, <1>2, <1>11, <1>12, OthersLeftAlone

LEMMA VmDeletedLife ==
    ASSUME TypeOK, AllocationInv, LifeInv, NEW h \in Host, NEW v \in Vm,
           OnVmDeleted(h, v), UNCHANGED <<storePool, vmStatus>>
    PROVE  LifeInv'
  <1>1. /\ timers[h]["VMDeleted"][v] > 0
        /\ timers' = [timers EXCEPT ![h]["VMDeleted"][v] = @ - 1]
        /\ timers \in [Host -> [TimerType -> [Vm -> Nat]]]
    BY DEF OnVmDeleted, TimerFires, TypeOK, EventsTypeOK
  <1>2. /\ Life(v)
        /\ timers[h]["VMDeleted"][v] = 1 /\ v \in hostPool[h].allocations
        /\ \A w \in TimerType : timers[h][w][v] > 0 => w = "VMDeleted"
    BY <1>1 DEF LifeInv, Life, OneTimer, TimerType
  <1>3. /\ HostRelease(h, v)
        /\ hostReport' = [hostReport EXCEPT ![h] = WithRemoved(@, v)]
        /\ UNCHANGED <<toApi, requests, commitRequests, creating>>
    BY <1>2 DEF OnVmDeleted
  <1>4. \A g \in Host : hostReport'[g].statuses = hostReport[g].statuses
    BY <1>3 DEF WithRemoved, TypeOK, HostsTypeOK, Report
  <1>5. \A g \in Host, t \in TimerType, w \in Vm :
          <<g, t, w>> # <<h, "VMDeleted", v>> => timers'[g][t][w] = timers[g][t][w]
    BY <1>1 DEF TimerType
  <1>6. \A g \in Host, t \in TimerType : ~ (timers'[g][t][v] > 0)
    <2> TAKE g \in Host, t \in TimerType
    <2>1. CASE g = h /\ t = "VMDeleted"
      BY <1>1, <1>2, <2>1 DEF TimerType
    <2>2. CASE g = h /\ t # "VMDeleted"
      BY <1>2, <1>5, <2>2
    <2>3. CASE g # h
      <3>1. v \notin hostPool[g].allocations
        BY <1>2, <2>3, AtOneHost
      <3> QED BY <1>2, <1>5, <2>3, <3>1 DEF Life, OneTimer
    <2> QED BY <2>1, <2>2, <2>3
  <1>7. \A w \in Vm \ {v}, g \in Host :
          w \in hostPool[g].allocations => w \in hostPool'[g].allocations
    <2>1. hostPool' = [hostPool EXCEPT ![h] = Release(@, {v})]
      BY <1>3 DEF HostRelease
    <2>2. Release(hostPool[h], {v}).allocations = hostPool[h].allocations \ {v}
      BY ReleaseTyped DEF TypeOK, HostsTypeOK
    <2> QED BY <2>1, <2>2 DEF TypeOK, HostsTypeOK
  <1>8. Life(v)'
    <2>1. /\ Reports(v)' = Reports(v)
          /\ \A g \in Reports(v) : Gathered(v, g)' = Gathered(v, g)
      BY <1>4 DEF Reports, Gathered
    <2>2. /\ Coming(v)' = Coming(v) /\ \A i \in Coming(v) : Said(v, i)' = Said(v, i)
          /\ Undecided(v)' => Undecided(v)
      BY <1>3 DEF Coming, Said, Undecided, Requested, Committing
    <2> QED BY <1>2, <1>3, <1>6, <2>1, <2>2, VmLeftAlone
  <1> QED BY <1>3, <1>4, <1>5, <1>7, <1>8, OthersLeftAlone

(* What a host gathered is put on its way: after all that was said before.  *)
LEMMA SendHostStateLife ==
    ASSUME TypeOK, LifeInv, NEW h \in Host, SendHostState(h),
           UNCHANGED <<storePool, vmStatus>>
    PROVE  LifeInv'
  <1> SUFFICES ASSUME NEW v \in Vm PROVE Life(v)'
    BY DEF LifeInv
  <1> DEFINE u == [statuses |-> hostReport[h].statuses, src |-> h]
  <1>1. UNCHANGED <<requests, commitRequests, creating, timers, hostPool>>
    BY DEF SendHostState
  <1>2. Life(v) /\ (Undecided(v)' <=> Undecided(v))
    BY <1>1 DEF LifeInv, Undecided, Requested, Committing
  <1>3. \A g \in Host, t \in TimerType : timers'[g][t][v] > 0 =>
          timers'[g][t][v] = timers[g][t][v] /\ v \in hostPool'[g].allocations
    BY <1>1, <1>2 DEF Life, OneTimer
  <1>4. /\ hostReport'[h].statuses = <<>>
        /\ \A g \in Host \ {h} : hostReport'[g] = hostReport[g]
    BY DEF SendHostState, EmptyReport, TypeOK, HostsTypeOK
  <1>5. u \in StatusUpdate
    <2>1. hostReport[h].statuses \in UNION {[S -> Status] : S \in SUBSET Vm}
      BY DEF TypeOK, HostsTypeOK, Report
    <2> QED BY <2>1 DEF StatusUpdate
  <1>6. \/ toApi' = Append(toApi, u)
        \/ toApi' = toApi /\ DOMAIN hostReport[h].statuses = {}
    BY DEF SendHostState, EmitStatuses
  <1>7. CASE v \notin DOMAIN hostReport[h].statuses
    <2>1. Coming(v)' = Coming(v) /\ \A i \in Coming(v) : Said(v, i)' = Said(v, i)
      <3>1. CASE toApi' = toApi
        BY <3>1 DEF Coming, Said
      <3>2. CASE toApi' = Append(toApi, u)
        BY <1>5, <1>7, <3>2, EmittedLast
      <3> QED BY <1>6, <3>1, <3>2
    <2>2. v \notin DOMAIN hostReport'[h].statuses
      BY <1>4
    <2>3. /\ Reports(v)' = Reports(v)
          /\ \A g \in Reports(v) : Gathered(v, g)' = Gathered(v, g)
      BY <1>4, <1>7, <2>2 DEF Reports, Gathered
    <2> QED BY <1>1, <1>2, <1>3, <2>1, <2>3, VmLeftAlone
  <1>8. CASE v \in DOMAIN hostReport[h].statuses
    <2> DEFINE y == Gathered(v, h)
    <2>1. toApi' = Append(toApi, u)
      BY <1>6, <1>8
    <2>2. h \in Reports(v) /\ Reports(v) = {h} /\ Reports(v)' = {}
      <3>1. h \in Reports(v)
        BY <1>8 DEF Reports
      <3>2. Reports(v) = {h}
        BY <1>2, <3>1 DEF Life, OneReporter
      <3>3. DOMAIN hostReport'[h].statuses = {}
        BY <1>4
      <3> QED BY <1>4, <3>1, <3>2, <3>3 DEF Reports
    <2>3. /\ Coming(v)' = Coming(v) \cup {Len(toApi) + 1}
          /\ \A i \in Coming(v) : Said(v, i)' = Said(v, i) /\ i < Len(toApi) + 1
          /\ \A i : i = Len(toApi) + 1 => Said(v, i)' = y
          /\ Coming(v) \subseteq Nat /\ Len(toApi) \in Nat
      <3>1. v \in DOMAIN u.statuses /\ u.statuses[v] = y
        BY <1>8 DEF Gathered
      <3>2. Len(toApi) \in Nat
        BY LenProperties DEF TypeOK, EventsTypeOK
      <3> HIDE DEF u, y
      <3> QED BY <1>5, <2>1, <3>1, <3>2, EmittedLast
    <2>4. /\ v \in Registered /\ (v \in Registered)'
          /\ Leads(vmStatus[v], y) /\ \A i \in Coming(v) : Leads(Said(v, i), y)
      BY <1>2, <2>2 DEF Life, HeardInOrder, Registered
    <2> HIDE DEF y
    <2>5. HeardInOrder(v)'
      <3>1. \A i \in Coming(v)' : Leads(vmStatus[v], Said(v, i)')
        BY <1>2, <2>3, <2>4 DEF Life, HeardInOrder
      <3>2. ASSUME NEW i \in Coming(v)', NEW j \in Coming(v)', i < j
            PROVE  Leads(Said(v, i)', Said(v, j)')
        <4>1. i \in Coming(v)
          BY <2>3, <3>2
        <4>2. CASE j \in Coming(v)
          BY <1>2, <2>3, <3>2, <4>1, <4>2 DEF Life, HeardInOrder
        <4>3. CASE j = Len(toApi) + 1
          BY <2>3, <2>4, <4>1, <4>3
        <4> QED BY <2>3, <4>2, <4>3
      <3> QED BY <2>2, <2>4, <3>1, <3>2 DEF HeardInOrder
    <2>6. OneReporter(v)' /\ OneTimer(v)'
      BY <1>1, <1>2, <2>2 DEF OneReporter, Life, OneTimer
    <2>7. \A x : NotBeyond(v, x) => NotBeyond(v, x)'
      BY <2>2, <2>3 DEF NotBeyond, y
    <2>8. NothingSaidTooEarly(v)'
      BY <1>1, <1>2, <2>7 DEF Life, NothingSaidTooEarly
    <2> QED BY <2>5, <2>6, <2>8 DEF Life
  <1> QED BY <1>7, <1>8

LEMMA HostStepLife ==
    ASSUME TypeOK, AllocationInv, LifeInv, NEW h \in Host, HostStep(h)
    PROVE  LifeInv'
  <1> USE DEF HostStep, apiVars
  <1>1. ASSUME NEW v \in Vm, OnVmStarted(h, v)
        PROVE  LifeInv'
    <2>1. NotBeyond(v, "Initializing")
      BY <1>1 DEF OnVmStarted, TimerFiresAndSets, LifeInv, Life, NothingSaidTooEarly
    <2>2. NotBeyond(v, "Running")
      BY <2>1 DEF NotBeyond, Leads
    <2> QED BY <1>1, <2>2, TimerLeadsOn DEF OnVmStarted, TimerType, ReleaseType
  <1>2. ASSUME NEW v \in Vm, NEW t \in ReleaseType, OnAllocationReleaseRequest(h, v, t)
        PROVE  LifeInv'
    <2>1. timers[h][t][v] > 0
      BY <1>2 DEF OnAllocationReleaseRequest, TimerFires, TimerFiresAndSets
    <2>2. v \in hostPool[h].allocations /\ t = "AllocationReleaseRequest"
      BY <2>1 DEF LifeInv, Life, OneTimer, TimerType, ReleaseType
    <2>3. NotBeyond(v, "Running")
      BY <2>1, <2>2 DEF LifeInv, Life, NothingSaidTooEarly
    <2>4. NotBeyond(v, "Finished")
      BY <2>3 DEF NotBeyond, Leads
    <2> QED BY <1>2, <2>2, <2>4, TimerLeadsOn
            DEF OnAllocationReleaseRequest, TimerType, ReleaseType
  <1>3. ASSUME SendHostState(h)
        PROVE  LifeInv'
    BY <1>3, SendHostStateLife
  <1> QED BY <1>1, <1>2, <1>3, VmCreatedLife, VmDeletedLife DEF VmStep

-----------------------------------------------------------------------------
(* The VM API.                                                             *)

LEMMA StatusHeardLife ==
    ASSUME TypeOK, LifeInv, OnVmStatusChanged,
           UNCHANGED <<storePool, hostPool, hostReport>>
    PROVE  LifeInv'
  <1> SUFFICES ASSUME NEW v \in Vm PROVE Life(v)'
    BY DEF LifeInv
  <1>1. UNCHANGED <<requests, commitRequests, creating, timers>>
    BY DEF OnVmStatusChanged
  <1>2. Life(v) /\ (Undecided(v)' <=> Undecided(v))
    BY <1>1 DEF LifeInv, Undecided, Requested, Committing
  <1>3. /\ Reports(v)' = Reports(v)
        /\ \A g \in Reports(v) : Gathered(v, g)' = Gathered(v, g)
    BY DEF Reports, Gathered
  <1>4. /\ \A i \in Coming(v)' : i + 1 \in Coming(v) /\ Said(v, i)' = Said(v, i + 1)
        /\ vmStatus'[v] = IF 1 \in Coming(v) THEN Said(v, 1) ELSE vmStatus[v]
        /\ Coming(v) \subseteq Nat \ {0} /\ Coming(v)' \subseteq Nat \ {0}
    BY HandledFirst DEF OnVmStatusChanged
  <1>5. Leads(vmStatus[v], vmStatus'[v])
    BY <1>2, <1>4 DEF Life, HeardInOrder, Leads
  <1>6. (v \in Registered)' <=> v \in Registered
    <2>1. Head(toApi) \in StatusUpdate
      BY HeadTailProperties DEF OnVmStatusChanged, TypeOK, EventsTypeOK
    <2>2. 1 \in Coming(v) => v \in Registered /\ Said(v, 1) \in Status
      <3>1. v \in DOMAIN Head(toApi).statuses => Head(toApi).statuses[v] \in Status
        BY <2>1, StatusUpdateTyped
      <3> QED BY <1>2, <3>1, HandledFirst DEF OnVmStatusChanged, Life, HeardInOrder
    <2> QED BY <1>4, <2>2 DEF Registered, Status
  <1>7. HeardInOrder(v)'
    <2>1. v \notin Registered => Coming(v)' = {} /\ Reports(v)' = {}
      BY <1>2, <1>3, <1>4 DEF Life, HeardInOrder
    <2>2. ASSUME NEW i \in Coming(v)'
          PROVE  Leads(vmStatus'[v], Said(v, i)')
      <3>1. 1 \in Coming(v) => 1 < i + 1
        BY <1>4
      <3> QED BY <1>2, <1>4, <3>1 DEF Life, HeardInOrder
    <2>3. ASSUME NEW i \in Coming(v)', NEW j \in Coming(v)', i < j
          PROVE  Leads(Said(v, i)', Said(v, j)')
      <3>1. i + 1 < j + 1
        BY <1>4, <2>3
      <3> QED BY <1>2, <1>4, <3>1 DEF Life, HeardInOrder
    <2>4. ASSUME NEW h \in Reports(v)'
          PROVE  /\ Leads(vmStatus'[v], Gathered(v, h)')
                 /\ \A i \in Coming(v)' : Leads(Said(v, i)', Gathered(v, h)')
      BY <1>2, <1>3, <1>4 DEF Life, HeardInOrder
    <2> QED BY <1>6, <2>1, <2>2, <2>3, <2>4 DEF HeardInOrder
  <1>8. OneReporter(v)' /\ OneTimer(v)'
    BY <1>1, <1>2, <1>3 DEF Life, OneReporter, OneTimer
  <1>9. \A x : NotBeyond(v, x) => NotBeyond(v, x)'
    BY <1>3, <1>4 DEF NotBeyond
  <1>10. NothingSaidTooEarly(v)'
    BY <1>1, <1>2, <1>9 DEF Life, NothingSaidTooEarly
  <1> QED BY <1>7, <1>8, <1>10 DEF Life

-----------------------------------------------------------------------------

LEMMA InitLife == Init => LifeInv
  <1> SUFFICES ASSUME Init, NEW v \in Vm PROVE Life(v)
    BY DEF LifeInv
  <1>1. Coming(v) = {} /\ Reports(v) = {}
    BY DEF Init, EventsInit, HostsInit, EmptyReport, Coming, Reports
  <1>2. ~ Undecided(v)
    BY DEF Init, EventsInit, Undecided, Requested, Committing
  <1>3. \A h \in Host : /\ v \notin creating[h]
                        /\ \A t \in TimerType : ~ (timers[h][t][v] > 0)
    <2>1. \A h \in Host, t \in TimerType : timers[h][t][v] = 0
      BY DEF Init, EventsInit
    <2>2. \A h \in Host : v \notin creating[h]
      BY DEF Init, EventsInit
    <2>3. ~ (0 > 0)
      OBVIOUS
    <2> QED BY <2>1, <2>2, <2>3, Zenon
  <1>4. HeardInOrder(v) /\ OneReporter(v) /\ OneTimer(v)
    BY <1>1, <1>3 DEF HeardInOrder, OneReporter, OneTimer
  <1>5. NothingSaidTooEarly(v)
    BY <1>2, <1>3 DEF NothingSaidTooEarly, TimerType, ReleaseType
  <1> QED BY <1>4, <1>5 DEF Life

LEMMA NextLife ==
    ASSUME TypeOK, AllocationInv, LifeInv, [Next]_vars
    PROVE  LifeInv'
  <1>1. CASE ApiStep
    <2>1. CASE OnVmStatusChanged
      BY <1>1, <2>1, StatusHeardLife DEF ApiStep, hostVars
    <2>2. CASE \E b \in Batch : DeadlinePasses(b)
      BY <1>1, <2>2, AllLeftAlone DEF ApiStep, DeadlinePasses, inboxes, hostVars
    <2> QED BY <1>1, <2>1, <2>2 DEF ApiStep
  <1>2. CASE MonitoringStep
    BY <1>2, AllLeftAlone DEF MonitoringStep, OnHostStateUpdate, apiVars, hostVars
  <1>3. CASE UNCHANGED vars
    BY <1>3, AllLeftAlone DEF vars, inboxes, apiVars, hostVars
  <1> QED BY <1>1, <1>2, <1>3, UserStepLife, SchedulerStepLife, StoreStepLife,
             HostStepLife DEF Next

(* What is said of each VM is in order: nothing is reported of a VM that    *)
(* was not created, one host at most reports it, each event on its way may  *)
(* follow those before it, and the VM has one timer at most, at its host.   *)
THEOREM LivesInOrder == Spec => [](TypeOK /\ AllocationInv /\ LifeInv)
  <1>1. Init => TypeOK /\ AllocationInv /\ LifeInv
    BY InitTyped, InitSafe, InitLife
  <1>2. TypeOK /\ AllocationInv /\ LifeInv /\ [Next]_vars
          => (TypeOK /\ AllocationInv /\ LifeInv)'
    BY NextTyped, NextSafe, NextLife
  <1> QED BY <1>1, <1>2, PTL DEF Spec

LEMMA StatusesFollow ==
    ASSUME TypeOK, AllocationInv, LifeInv, [Next]_vars, NEW v \in Vm
    PROVE  StatusMayFollow(v)
  <1>1. vmStatus[v] \in Status \cup {"Unregistered"}
    BY DEF TypeOK, ApiTypeOK
  <1>2. CASE vmStatus'[v] = vmStatus[v]
    BY <1>1, <1>2 DEF StatusMayFollow
  <1>3. ASSUME NEW S, RegisterNewVms(S)
        PROVE  StatusMayFollow(v)
    <2>1. CASE v \in S
      <3>1. vmStatus[v] = "Unregistered" /\ vmStatus'[v] = "Initializing"
        BY <1>3, <2>1 DEF RegisterNewVms, Registered
      <3> QED BY <3>1 DEF StatusMayFollow
    <2>2. CASE v \notin S
      BY <1>2, <1>3, <2>2 DEF RegisterNewVms
    <2> QED BY <2>1, <2>2
  <1>4. ASSUME OnVmStatusChanged
        PROVE  StatusMayFollow(v)
    <2>1. vmStatus'[v] = IF 1 \in Coming(v) THEN Said(v, 1) ELSE vmStatus[v]
      BY <1>4, HandledFirst DEF OnVmStatusChanged
    <2>2. 1 \in Coming(v) => Leads(vmStatus[v], Said(v, 1))
      BY DEF LifeInv, Life, HeardInOrder
    <2> QED BY <1>2, <2>1, <2>2 DEF StatusMayFollow, Leads
  <1>5. CASE UserStep
    BY <1>2, <1>3, <1>5
       DEF UserStep, SpawnVms, SpawnVmOnHost, AddHost, AddScheduler, apiVars
  <1>6. CASE ApiStep
    BY <1>2, <1>4, <1>6 DEF ApiStep, DeadlinePasses
  <1>7. ASSUME \/ \E s \in Sched : SchedulerStep(s)
               \/ StoreStep \/ MonitoringStep \/ UNCHANGED vars
               \/ \E h \in Host : HostStep(h)
        PROVE  StatusMayFollow(v)
    BY <1>2, <1>7 DEF SchedulerStep, StoreStep, MonitoringStep, HostStep, vars, apiVars
  <1> QED BY <1>5, <1>6, <1>7 DEF Next

(* The reported status of a VM only moves forward, and Finished and         *)
(* FailedToAllocate are final, although hosts and schedulers report it      *)
(* independently and with a delay.                                          *)
THEOREM StatusesMoveForward == Spec => StatusMovesForward
  <1>1. TypeOK /\ AllocationInv /\ LifeInv /\ [Next]_vars
          => [\A v \in Vm : StatusMayFollow(v)]_vars
    BY StatusesFollow
  <1> QED BY <1>1, LivesInOrder, PTL DEF Spec, StatusMovesForward

-----------------------------------------------------------------------------
(* Allocation implements VmPlacement, when every request is for one VM and  *)
(* nothing may be overcommitted.                                            *)

\* The mapping, case by case.
PhasesAre ==
    \A v \in Vm :
      PhaseOf[v] = IF v \notin Registered THEN "new"
                   ELSE IF Undecided(v) THEN "pending"
                   ELSE IF Allocated(v) THEN "placed" ELSE "done"

PlacesAre ==
    \A v \in Vm :
      /\ \A h \in Host : v \in storePool[h].allocations => PlaceOf[v] = h
      /\ ~ Allocated(v) => PlaceOf[v] = "none"

LEMMA MappingValue == AllocationInv => PhasesAre /\ PlacesAre
  <1> SUFFICES ASSUME AllocationInv PROVE PhasesAre /\ PlacesAre
    OBVIOUS
  <1>1. PhasesAre
    <2> SUFFICES ASSUME NEW v \in Vm
                 PROVE  PhaseOf[v] = IF v \notin Registered THEN "new"
                                     ELSE IF Undecided(v) THEN "pending"
                                     ELSE IF Allocated(v) THEN "placed" ELSE "done"
      BY DEF PhasesAre
    <2>1. v \notin Registered => ~ Undecided(v) /\ ~ Allocated(v)
      BY DEF AllocationInv, NewVmsAreNowhere, Undecided
    <2>2. Undecided(v) => ~ Allocated(v)
      BY DEF AllocationInv, OneHolder, Undecided
    <2>3. Requested(v) \cup Committing(v) # {} <=> Undecided(v)
      BY DEF Undecided
    <2> QED BY <2>1, <2>2, <2>3 DEF PhaseOf
  <1>2. PlacesAre
    BY DEF AllocationInv, OneHolder, Allocated, PlaceOf, PlacesAre
  <1> QED BY <1>1, <1>2

LEMMA MappingValueNext == AllocationInv' => PhasesAre' /\ PlacesAre'
  BY MappingValue, PTL

LEMMA MappingFunctions ==
    /\ PhaseOf = [v \in Vm |-> PhaseOf[v]] /\ PlaceOf = [v \in Vm |-> PlaceOf[v]]
    /\ PhaseOf' = [v \in Vm |-> PhaseOf'[v]] /\ PlaceOf' = [v \in Vm |-> PlaceOf'[v]]
  BY DEF PhaseOf, PlaceOf

(* The place of a VM whose allocation does not change.                      *)
LEMMA PlaceStays ==
    ASSUME AllocationInv, AllocationInv', NEW v \in Vm,
           \A h \in Host :
             v \in storePool'[h].allocations <=> v \in storePool[h].allocations
    PROVE  PlaceOf'[v] = PlaceOf[v] /\ (Allocated(v)' <=> Allocated(v))
  <1>1. PlacesAre /\ PlacesAre'
    BY MappingValue, MappingValueNext
  <1>2. Allocated(v)' <=> Allocated(v)
    BY DEF Allocated
  <1>3. CASE Allocated(v)
    <2>1. PICK h \in Host : v \in storePool[h].allocations
      BY <1>3 DEF Allocated
    <2> QED BY <1>1, <1>2, <2>1 DEF PlacesAre
  <1>4. CASE ~ Allocated(v)
    BY <1>1, <1>2, <1>4 DEF PlacesAre
  <1> QED BY <1>2, <1>3, <1>4

(* A step that submits, decides and places nothing.                         *)
LEMMA PlacementStutters ==
    ASSUME AllocationInv, AllocationInv',
           \A v \in Vm : /\ (v \in Registered)' <=> v \in Registered
                         /\ Undecided(v)' <=> Undecided(v)
                         /\ \A h \in Host : v \in storePool'[h].allocations
                                              <=> v \in storePool[h].allocations
    PROVE  UNCHANGED <<PhaseOf, PlaceOf>>
  <1>1. PhasesAre /\ PhasesAre'
    BY MappingValue, MappingValueNext
  <1>2. \A v \in Vm : PlaceOf'[v] = PlaceOf[v] /\ (Allocated(v)' <=> Allocated(v))
    BY PlaceStays
  <1>3. \A v \in Vm : PhaseOf'[v] = PhaseOf[v]
    BY <1>1, <1>2 DEF PhasesAre
  <1> QED BY <1>2, <1>3, MappingFunctions

(* A step after which the VMs of S are in phase x, and the rest where they  *)
(* were.                                                                    *)
LEMMA PhasesOfSome ==
    ASSUME AllocationInv, AllocationInv', NEW S \in SUBSET Vm, NEW x,
           \A v \in S : PhaseOf'[v] = x,
           \A v \in Vm : \A h \in Host : v \in storePool'[h].allocations
                                           <=> v \in storePool[h].allocations,
           \A v \in Vm \ S : /\ (v \in Registered)' <=> v \in Registered
                             /\ Undecided(v)' <=> Undecided(v)
    PROVE  /\ PhaseOf' = [v \in Vm |-> IF v \in S THEN x ELSE PhaseOf[v]]
           /\ PlaceOf' = PlaceOf
  <1>1. PhasesAre /\ PhasesAre'
    BY MappingValue, MappingValueNext
  <1>2. \A v \in Vm : PlaceOf'[v] = PlaceOf[v] /\ (Allocated(v)' <=> Allocated(v))
    BY PlaceStays
  <1>3. \A v \in Vm \ S : PhaseOf'[v] = PhaseOf[v]
    BY <1>1, <1>2 DEF PhasesAre
  <1> QED BY <1>2, <1>3, MappingFunctions

(* A step after which VMs not placed before are done for good.              *)
LEMMA PlacementRefuses ==
    ASSUME AllocationInv, AllocationInv', NEW S \in SUBSET Vm,
           \A v \in S : PhaseOf[v] \in {"new", "pending"} /\ PhaseOf'[v] = "done",
           UNCHANGED storePool,
           \A v \in Vm \ S : /\ (v \in Registered)' <=> v \in Registered
                             /\ Undecided(v)' <=> Undecided(v)
    PROVE  Placements!Refuse(S)
  <1>1. /\ PhaseOf' = [v \in Vm |-> IF v \in S THEN "done" ELSE PhaseOf[v]]
        /\ PlaceOf' = PlaceOf
    BY PhasesOfSome
  <1>2. \A v \in S : PhaseOf[v] \in {"new", "pending"}
    OBVIOUS
  <1> QED BY <1>1, <1>2 DEF Placements!Refuse

(* A VM that the store allocates on a host, which then has no more than its *)
(* capacity.                                                                *)
LEMMA PlacementPlaces ==
    ASSUME ~ AllowVmOvercommit, TypeOK, TypeOK', AllocationInv, AllocationInv',
           BooksBalanced', StoreWithinCapacity', NEW v \in Vm, NEW h \in Host,
           PhaseOf[v] \in {"new", "pending"},
           (v \in Registered)', ~ Undecided(v)', ~ Allocated(v),
           \A w \in Vm : \A g \in Host : w \in storePool'[g].allocations
             <=> w \in storePool[g].allocations \/ (w = v /\ g = h),
           \A w \in Vm \ {v} : /\ (w \in Registered)' <=> w \in Registered
                               /\ Undecided(w)' <=> Undecided(w)
    PROVE  Placements!Place({v}, h)
  <1>1. PhasesAre /\ PhasesAre' /\ PlacesAre /\ PlacesAre'
    BY MappingValue, MappingValueNext
  <1>2. v \in storePool'[h].allocations /\ Allocated(v)'
    BY DEF Allocated
  <1>3. \A w \in Vm \ {v} : PlaceOf'[w] = PlaceOf[w] /\ (Allocated(w)' <=> Allocated(w))
    BY PlaceStays
  <1>4. PhaseOf' = [w \in Vm |-> IF w \in {v} THEN "placed" ELSE PhaseOf[w]]
    <2>1. PhaseOf'[v] = "placed" /\ \A w \in Vm \ {v} : PhaseOf'[w] = PhaseOf[w]
      BY <1>1, <1>2, <1>3 DEF PhasesAre
    <2> QED BY <2>1, MappingFunctions
  <1>5. PlaceOf' = [w \in Vm |-> IF w \in {v} THEN h ELSE PlaceOf[w]]
    <2>1. PlaceOf'[v] = h
      BY <1>1, <1>2 DEF PlacesAre
    <2> QED BY <1>3, <2>1, MappingFunctions
  <1>6. Placements!VmsOn(h) \cup {v} = storePool'[h].allocations
    <2>1. storePool[h].allocations \subseteq Vm /\ storePool'[h].allocations \subseteq Vm
      BY DEF TypeOK, AllocationInv, StoreHostAgreement, HostInfo
    <2>2. \A w \in Vm : PlaceOf[w] = h <=> w \in storePool[h].allocations
      BY <1>1, NoneAssumption DEF PlacesAre, Allocated
    <2> QED BY <2>1, <2>2 DEF Placements!VmsOn
  <1>7. ASSUME NEW r \in Resource
        PROVE  Usage[r][Placements!VmsOn(h) \cup {v}] <= Capacity[h][r]
    <2>1. /\ storePool'[h].available[r] \in Nat
          /\ Capacity[h][r] \in Nat
          /\ storePool'[h].allocations \in SUBSET Vm
      BY CapacityAssumption DEF TypeOK, HostInfo
    <2>2. storePool'[h].overcommit[r] = 0
      BY DEF StoreWithinCapacity, Resource
    <2>3. storePool'[h].available[r] - 0
            = Capacity[h][r] - Usage[r][storePool'[h].allocations]
      BY <2>2 DEF BooksBalanced, Balanced, Net
    <2>4. Usage[r][storePool'[h].allocations] \in Nat
      BY <2>1, UsageTyped
    <2>5. Usage[r][storePool'[h].allocations] <= Capacity[h][r]
      BY <2>1, <2>3, <2>4
    <2> QED BY <1>6, <2>5
  <1>8. \A w \in {v} : PhaseOf[w] \in {"new", "pending"}
    OBVIOUS
  <1> QED BY <1>4, <1>5, <1>7, <1>8 DEF Placements!Place, Placements!Resource, Resource

PlacementInv ==
    TypeOK /\ AllocationInv /\ BooksBalanced /\ StoreWithinCapacity /\ LifeInv

LEMMA UserStepPlaces ==
    ASSUME ~ AllowVmOvercommit, PlacementInv, PlacementInv', UserStep
    PROVE  Placements!PlacementNext \/ UNCHANGED <<PhaseOf, PlaceOf>>
  <1> USE DEF PlacementInv
  <1>0. PhasesAre /\ PhasesAre'
    BY MappingValue, MappingValueNext
  <1>1. ASSUME NEW s \in Sched, NEW b \in Batch, SpawnVms(s, b)
        PROVE  Placements!Submit(b) /\ b \in SUBSET Vm
    <2>1. /\ b \in SUBSET Vm /\ \A v \in b : v \notin Registered
          /\ \A v \in Vm : (v \in Registered)' <=> v \in Registered \/ v \in b
      BY <1>1, BatchAssumption DEF SpawnVms, RegisterNewVms, Registered
    <2>2. /\ requests' = [requests EXCEPT ![s] = @ \cup {b}]
          /\ UNCHANGED <<commitRequests, storePool>>
      BY <1>1 DEF SpawnVms
    <2>3. /\ \A v \in b : <<s, b>> \in Requested(v)'
          /\ \A v \in Vm \ b : Requested(v)' = Requested(v)
      BY <2>1, <2>2 DEF Requested, TypeOK, EventsTypeOK
    <2>4. /\ \A v \in b : Undecided(v)'
          /\ \A v \in Vm \ b : Undecided(v)' <=> Undecided(v)
      BY <2>2, <2>3 DEF Undecided, Committing
    <2>5. \A v \in b : PhaseOf[v] = "new" /\ PhaseOf'[v] = "pending"
      BY <1>0, <2>1, <2>4 DEF PhasesAre
    <2>6. /\ PhaseOf' = [v \in Vm |-> IF v \in b THEN "pending" ELSE PhaseOf[v]]
          /\ PlaceOf' = PlaceOf
      BY <2>1, <2>2, <2>4, <2>5, PhasesOfSome
    <2> QED BY <2>1, <2>5, <2>6 DEF Placements!Submit
  <1>2. ASSUME NEW v \in DirectVm, NEW h \in Host, SpawnVmOnHost(v, h)
        PROVE  v \in Vm /\ (Placements!Place({v}, h) \/ Placements!Refuse({v}))
    <2> DEFINE p == [w \in {v} |-> h]
    <2>1. /\ v \in Vm /\ v \notin Registered
          /\ \A w \in Vm : (w \in Registered)' <=> w \in Registered \/ w = v
      BY <1>2, SetupAssumption DEF SpawnVmOnHost, RegisterNewVms, Registered
    <2>2. \A w \in Vm : Undecided(w)' <=> Undecided(w)
      BY <1>2 DEF SpawnVmOnHost, DirectCommit, Undecided, Requested, Committing
    <2>3. PhaseOf[v] = "new" /\ ~ Undecided(v) /\ ~ Allocated(v)
      BY <1>0, <2>1 DEF PhasesAre, AllocationInv, NewVmsAreNowhere, Undecided
    <2>4. CASE CanCommit(p) /\ Commit(p)
      <3>1. ASSUME NEW w \in Vm, NEW g \in Host
            PROVE  w \in storePool'[g].allocations
                     <=> w \in storePool[g].allocations \/ (w = v /\ g = h)
        <4>1. PlacedOn(p, g) = IF g = h THEN {v} ELSE {}
          BY <2>1, SinglePlacementTyped
        <4>2. storePool'[g] = IF g \in hosts THEN Allocate(storePool[g], PlacedOn(p, g))
                                              ELSE storePool[g]
          BY <2>4 DEF Commit, AllocateAll
        <4>3. h \in hosts
          BY <2>4 DEF CanCommit
        <4>4. Allocate(storePool[g], PlacedOn(p, g)).allocations
                = storePool[g].allocations \cup PlacedOn(p, g)
          BY <2>1, <4>1, AllocateTyped DEF TypeOK
        <4> QED BY <4>1, <4>2, <4>3, <4>4
      <3> QED BY <2>1, <2>2, <2>3, <3>1, PlacementPlaces
    <2>5. CASE UNCHANGED <<storePool, creating, toSched>>
      <3> DEFINE S == {v}
      <3>1. S \in SUBSET Vm
        BY <2>1
      <3>2. \A w \in S : PhaseOf[w] = "new" /\ PhaseOf'[w] = "done"
        BY <1>0, <2>1, <2>2, <2>3, <2>5 DEF PhasesAre, Allocated
      <3>3. \A w \in Vm \ S : /\ (w \in Registered)' <=> w \in Registered
                              /\ Undecided(w)' <=> Undecided(w)
        BY <2>1, <2>2
      <3> HIDE DEF S
      <3>4. Placements!Refuse(S)
        BY <2>5, <3>1, <3>2, <3>3, PlacementRefuses
      <3> QED BY <2>1, <3>4 DEF S
    <2> QED BY <1>2, <2>1, <2>4, <2>5 DEF SpawnVmOnHost, DirectCommit
  <1>3. ASSUME \/ \E h \in LateHosts : AddHost(h)
               \/ \E s \in Sched : AddScheduler(s)
        PROVE  UNCHANGED <<PhaseOf, PlaceOf>>
    <2>1. UNCHANGED <<vmStatus, requests, commitRequests, storePool>>
      BY <1>3 DEF AddHost, AddScheduler, inboxes, apiVars
    <2> QED BY <2>1, PlacementStutters
            DEF Registered, Undecided, Requested, Committing
  <1> QED BY <1>1, <1>2, <1>3 DEF UserStep, Placements!PlacementNext

LEMMA SchedulerStepPlaces ==
    ASSUME PlacementInv, PlacementInv', NEW s \in Sched, SchedulerStep(s)
    PROVE  Placements!PlacementNext \/ UNCHANGED <<PhaseOf, PlaceOf>>
  <1> USE DEF PlacementInv
  <1>0. PhasesAre /\ PhasesAre'
    BY MappingValue, MappingValueNext
  <1>1. ASSUME NEW b \in Batch, TimeOutRequest(s, b)
        PROVE  Placements!Refuse(b) /\ b \in SUBSET Vm
    <2>1. /\ b \in SUBSET Vm /\ b \in requests[s]
          /\ requests' = [requests EXCEPT ![s] = @ \ {b}]
          /\ UNCHANGED <<vmStatus, commitRequests, storePool>>
      BY <1>1, BatchAssumption DEF TimeOutRequest, RequestDelivered, SchedulerStep
    <2>2. \A v \in Vm :
            /\ Committing(v)' = Committing(v) /\ Requested(v)' \subseteq Requested(v)
            /\ v \in b => <<s, b>> \in Requested(v) /\ <<s, b>> \notin Requested(v)'
            /\ v \notin b => Requested(v)' = Requested(v)
      BY <2>1 DEF Requested, Committing, TypeOK, EventsTypeOK
    <2>3. \A v \in b : v \in Vm /\ Undecided(v) /\ v \in Registered /\ ~ Allocated(v)
      BY <2>1, <2>2 DEF Undecided, AllocationInv, OneHolder, NewVmsAreNowhere
    <2>4. \A v \in b : Requested(v)' = {} /\ Committing(v)' = {}
      BY <2>2, <2>3 DEF AllocationInv, OneHolder
    <2>5. \A v \in Vm : (v \in Registered)' <=> v \in Registered
      BY <2>1 DEF Registered
    <2>6. \A v \in b : PhaseOf[v] \in {"new", "pending"} /\ PhaseOf'[v] = "done"
      BY <1>0, <2>1, <2>3, <2>4, <2>5 DEF PhasesAre, Undecided, Allocated
    <2>7. \A v \in Vm \ b : Undecided(v)' <=> Undecided(v)
      BY <2>2 DEF Undecided
    <2> QED BY <2>1, <2>5, <2>6, <2>7, PlacementRefuses
  <1>2. ASSUME NEW b \in Batch, PlaceRequest(s, b)
        PROVE  UNCHANGED <<PhaseOf, PlaceOf>>
    <2>1. PICK p \in [b -> Host] :
            commitRequests' = commitRequests \cup {[placement |-> p, from |-> s]}
      BY <1>2 DEF PlaceRequest
    <2>2. /\ b \in requests[s]
          /\ requests' = [requests EXCEPT ![s] = @ \ {b}]
          /\ UNCHANGED <<vmStatus, storePool>>
      BY <1>2 DEF PlaceRequest, RequestDelivered, SchedulerStep
    <2> DEFINE m == [placement |-> p, from |-> s]
    <2>3. DOMAIN m.placement = b /\ commitRequests' = commitRequests \cup {m}
      BY <2>1
    <2> HIDE DEF m
    <2>4. ASSUME NEW v \in Vm
          PROVE  Undecided(v)' <=> Undecided(v)
      <3>1. CASE v \in b
        <4>1. <<s, b>> \in Requested(v)
          BY <2>2, <3>1 DEF Requested
        <4>2. m \in Committing(v)'
          BY <2>3, <3>1 DEF Committing
        <4> QED BY <4>1, <4>2 DEF Undecided
      <3>2. CASE v \notin b
        <4>1. Requested(v)' = Requested(v)
          BY <2>2, <3>2 DEF Requested, TypeOK, EventsTypeOK
        <4>2. Committing(v)' = Committing(v)
          BY <2>3, <3>2 DEF Committing
        <4> QED BY <4>1, <4>2 DEF Undecided
      <3> QED BY <3>1, <3>2
    <2> QED BY <2>2, <2>4, PlacementStutters DEF Registered
  <1>3. ASSUME \/ \E b \in Batch : RetryRequest(s, b)
               \/ OnStoreNotification(s)
        PROVE  UNCHANGED <<PhaseOf, PlaceOf>>
    <2>1. UNCHANGED <<vmStatus, requests, commitRequests, storePool>>
      BY <1>3 DEF RetryRequest, OnStoreNotification, SchedulerStep, inboxes
    <2> QED BY <2>1, PlacementStutters
            DEF Registered, Undecided, Requested, Committing
  <1> QED BY <1>1, <1>2, <1>3
          DEF SchedulerStep, OnAllocationRequest, Placements!PlacementNext

LEMMA StoreStepPlaces ==
    ASSUME SingleRequests, ~ AllowVmOvercommit, PlacementInv, PlacementInv', StoreStep
    PROVE  Placements!PlacementNext \/ UNCHANGED <<PhaseOf, PlaceOf>>
  <1> USE DEF PlacementInv
  <1>0. PhasesAre /\ PhasesAre' /\ UNCHANGED vmStatus
    BY MappingValue, MappingValueNext
       DEF StoreStep, OnCommitRequest, OnAllocationFailed, OnAllocationReleased,
           OnHostNotice, apiVars
  <1>1. \A v \in Vm : (v \in Registered)' <=> v \in Registered
    BY <1>0 DEF Registered
  <1>2. ASSUME NEW m \in commitRequests, OnCommitRequest(m)
        PROVE  Placements!PlacementNext \/ UNCHANGED <<PhaseOf, PlaceOf>>
    <2> DEFINE p == m.placement
    <2>1. /\ p \in Placement /\ DOMAIN p \in Batch /\ m.from \in Sched
          /\ commitRequests' = commitRequests \ {m}
      BY <1>2, PlacementTyped DEF OnCommitRequest, TypeOK, EventsTypeOK, CommitRequest
    <2>2. PICK v \in Vm : DOMAIN p = {v}
      BY <2>1, BatchAssumption DEF SingleRequests
    <2>3. /\ m \in Committing(v) /\ m \notin Committing(v)'
          /\ Committing(v)' \subseteq Committing(v)
          /\ \A w \in Vm \ {v} : Committing(w)' = Committing(w)
      BY <2>1, <2>2 DEF Committing
    <2>4. v \in Registered /\ Undecided(v) /\ ~ Allocated(v)
      BY <2>3 DEF Undecided, AllocationInv, OneHolder, NewVmsAreNowhere
    <2>5. Requested(v) = {} /\ Committing(v)' = {}
      BY <2>3 DEF AllocationInv, OneHolder
    <2>6. CASE CanCommit(p) /\ Commit(p) /\ UNCHANGED requests
      <3>1. \A w \in Vm : Requested(w)' = Requested(w)
        BY <2>6 DEF Requested
      <3>2. /\ ~ Undecided(v)'
            /\ \A w \in Vm \ {v} : Undecided(w)' <=> Undecided(w)
        BY <2>3, <2>5, <3>1 DEF Undecided
      <3>3. PhaseOf[v] = "pending" /\ p[v] \in Host
        BY <1>0, <2>1, <2>2, <2>4 DEF PhasesAre, Placement
      <3>4. ASSUME NEW w \in Vm, NEW g \in Host
            PROVE  w \in storePool'[g].allocations
                     <=> w \in storePool[g].allocations \/ (w = v /\ g = p[v])
        <4>1. PlacedOn(p, g) = IF g = p[v] THEN {v} ELSE {}
          BY <2>2 DEF PlacedOn
        <4>2. storePool'[g] = IF g \in hosts THEN Allocate(storePool[g], PlacedOn(p, g))
                                              ELSE storePool[g]
          BY <2>6 DEF Commit, AllocateAll
        <4>3. p[v] \in hosts
          BY <2>2, <2>6 DEF CanCommit
        <4>4. Allocate(storePool[g], PlacedOn(p, g)).allocations
                = storePool[g].allocations \cup PlacedOn(p, g)
          BY <4>1, AllocateTyped DEF TypeOK
        <4> QED BY <4>1, <4>2, <4>3, <4>4
      <3>5. Placements!Place({v}, p[v])
        BY <1>1, <2>4, <3>2, <3>3, <3>4, PlacementPlaces
      <3> QED BY <3>3, <3>5 DEF Placements!PlacementNext
    <2>7. CASE Reject(p, m.from)
      <3>1. requests' = [requests EXCEPT ![m.from] = @ \cup {DOMAIN p}]
            /\ UNCHANGED storePool
        BY <2>7 DEF Reject
      <3>2. <<m.from, DOMAIN p>> \in Requested(v)'
        BY <2>1, <2>2, <3>1 DEF Requested, TypeOK, EventsTypeOK
      <3>3. \A w \in Vm \ {v} : Requested(w)' = Requested(w)
        BY <2>1, <2>2, <3>1 DEF Requested, TypeOK, EventsTypeOK
      <3>4. \A w \in Vm : Undecided(w)' <=> Undecided(w)
        BY <2>3, <2>4, <3>2, <3>3 DEF Undecided
      <3> QED BY <1>1, <3>1, <3>4, PlacementStutters
    <2> QED BY <1>2, <2>6, <2>7 DEF OnCommitRequest
  <1>3. ASSUME NEW n \in hostNotices, OnHostNotice(n)
        PROVE  Placements!Free(n.vm) /\ n.vm \in Vm
    <2> DEFINE p == [w \in {n.vm} |-> n.host]
               v == n.vm
    <2>1. v \in Vm /\ n.host \in Host
      BY DEF TypeOK, EventsTypeOK, HostNotice
    <2>2. v \in InNotices(n.host) /\ v \in storePool[n.host].allocations
      BY <2>1 DEF InNotices, AllocationInv, StoreHostAgreement
    <2>3. Allocated(v) /\ v \in Registered /\ ~ Undecided(v)
      BY <2>1, <2>2 DEF Allocated, Undecided, AllocationInv, OneHolder, NewVmsAreNowhere
    <2>4. n.host \in hosts
      BY <2>1, <2>2 DEF AllocationInv, OnKnownHosts
    <2>5. ASSUME NEW w \in Vm, NEW g \in Host
          PROVE  w \in storePool'[g].allocations
                   <=> w \in storePool[g].allocations /\ ~ (w = v /\ g = n.host)
      <3>1. storePool'[g] = IF g \in hosts THEN Release(storePool[g], PlacedOn(p, g))
                                            ELSE storePool[g]
        BY <1>3 DEF OnHostNotice, ReleaseAll
      <3>2. PlacedOn(p, g) = IF g = n.host THEN {v} ELSE {}
        BY <2>1, SinglePlacementTyped
      <3>3. Release(storePool[g], PlacedOn(p, g)).allocations
              = storePool[g].allocations \ PlacedOn(p, g)
        BY <2>1, <3>2, ReleaseTyped DEF TypeOK
      <3> QED BY <2>4, <3>1, <3>2, <3>3
    <2>6. \A w \in Vm : Undecided(w)' <=> Undecided(w)
      BY <1>3 DEF OnHostNotice, Undecided, Requested, Committing
    <2>7. ~ Allocated(v)'
      BY <2>1, <2>2, <2>5 DEF Allocated, AllocationInv, OneHolder
    <2>8. PhaseOf[v] = "placed" /\ PhaseOf'[v] = "done"
      BY <1>0, <1>1, <2>1, <2>3, <2>6, <2>7 DEF PhasesAre
    <2>9. PlaceOf'[v] = "none"
      BY <2>1, <2>7, MappingValueNext DEF PlacesAre
    <2>10. ASSUME NEW w \in Vm \ {v}
           PROVE  PlaceOf'[w] = PlaceOf[w] /\ PhaseOf'[w] = PhaseOf[w]
      <3>1. PlaceOf'[w] = PlaceOf[w] /\ (Allocated(w)' <=> Allocated(w))
        BY <2>5, PlaceStays
      <3> QED BY <1>0, <1>1, <2>6, <3>1 DEF PhasesAre
    <2>11. /\ PhaseOf' = [PhaseOf EXCEPT ![v] = "done"]
           /\ PlaceOf' = [PlaceOf EXCEPT ![v] = "none"]
      BY <2>1, <2>8, <2>9, <2>10, MappingFunctions
    <2> QED BY <2>1, <2>8, <2>11 DEF Placements!Free
  <1> QED BY <1>2, <1>3 DEF StoreStep, OnAllocationFailed, OnAllocationReleased,
                            Placements!PlacementNext

\* Hosts, monitoring and the API take no part in it.
LEMMA OthersPlaceNothing ==
    ASSUME PlacementInv, PlacementInv',
           (\E h \in Host : HostStep(h)) \/ ApiStep \/ MonitoringStep \/ UNCHANGED vars
    PROVE  UNCHANGED <<PhaseOf, PlaceOf>>
  <1> USE DEF PlacementInv
  <1>1. UNCHANGED <<requests, commitRequests, storePool>>
    BY DEF HostStep, VmStep, OnVmCreateRequest, OnVmStarted, OnAllocationReleaseRequest,
           OnVmDeleted, SendHostState, ApiStep, OnVmStatusChanged, DeadlinePasses,
           MonitoringStep, OnHostStateUpdate, vars, inboxes, apiVars
  <1>2. \A v \in Vm : Undecided(v)' <=> Undecided(v)
    BY <1>1 DEF Undecided, Requested, Committing
  <1>3. \A v \in Vm : (v \in Registered)' <=> v \in Registered
    <2>1. CASE OnVmStatusChanged
      <3> SUFFICES ASSUME NEW v \in Vm PROVE (v \in Registered)' <=> v \in Registered
        OBVIOUS
      <3>1. /\ vmStatus'[v] = IF 1 \in Coming(v) THEN Said(v, 1) ELSE vmStatus[v]
            /\ HeardInOrder(v)
        BY <2>1, HandledFirst DEF OnVmStatusChanged, LifeInv, Life
      <3>2. 1 \in Coming(v) => v \in Registered
        BY <3>1 DEF HeardInOrder
      <3>3. 1 \in Coming(v) => Said(v, 1) \in Status
        <4>1. Head(toApi) \in StatusUpdate
          BY <2>1, HeadTailProperties DEF OnVmStatusChanged, TypeOK, EventsTypeOK
        <4>2. v \in DOMAIN Head(toApi).statuses => Head(toApi).statuses[v] \in Status
          BY <4>1, StatusUpdateTyped
        <4> QED BY <2>1, <4>2, HandledFirst DEF OnVmStatusChanged
      <3> QED BY <3>1, <3>2, <3>3 DEF Registered, Status
    <2>2. CASE UNCHANGED vmStatus
      BY <2>2 DEF Registered
    <2> QED BY <2>1, <2>2 DEF HostStep, ApiStep, DeadlinePasses, MonitoringStep, vars,
                              apiVars
  <1> QED BY <1>1, <1>2, <1>3, PlacementStutters

LEMMA NextPlaces ==
    ASSUME SingleRequests, ~ AllowVmOvercommit, PlacementInv, PlacementInv', [Next]_vars
    PROVE  [Placements!PlacementNext]_<<PhaseOf, PlaceOf>>
  BY UserStepPlaces, SchedulerStepPlaces, StoreStepPlaces, OthersPlaceNothing DEF Next

LEMMA InitPlaces == Init => Placements!PlacementInit
  <1> SUFFICES ASSUME Init PROVE Placements!PlacementInit
    OBVIOUS
  <1>1. \A v \in Vm : v \notin Registered /\ ~ Allocated(v)
    BY DEF Init, ApiInit, Registered, Allocated, FullPool, NewHostInfo
  <1>2. PhasesAre /\ PlacesAre
    BY InitSafe, MappingValue
  <1>3. \A v \in Vm : PhaseOf[v] = "new" /\ PlaceOf[v] = "none"
    BY <1>1, <1>2 DEF PhasesAre, PlacesAre
  <1> QED BY <1>3, MappingFunctions DEF Placements!PlacementInit

(* When every request is for one VM and nothing may be overcommitted, the   *)
(* schedulers with their outdated copies, the store, the hosts and the      *)
(* messages between them do no more than VmPlacement: each VM is placed at  *)
(* most once, where there is room for it, and is never placed again.        *)
THEOREM AllocationImplementsVmPlacement ==
    ASSUME SingleRequests, ~ AllowVmOvercommit
    PROVE  Spec => ImplementsVmPlacement
  <1>1. Init => PlacementInv /\ Placements!PlacementInit
    BY InitTyped, InitSafe, InitBooks, InitWithinCapacity, InitLife, InitPlaces
       DEF PlacementInv
  <1>2. PlacementInv /\ [Next]_vars => PlacementInv'
    BY NextTyped, NextSafe, NextBooks, NextWithinCapacity, NextLife DEF PlacementInv
  <1>3. PlacementInv /\ PlacementInv' /\ [Next]_vars
          => [Placements!PlacementNext]_<<PhaseOf, PlaceOf>>
    BY NextPlaces
  <1> QED BY <1>1, <1>2, <1>3, PTL
          DEF Spec, ImplementsVmPlacement, Placements!PlacementSpec,
              Placements!placementVars

-----------------------------------------------------------------------------
(* What the monitoring is told.  A report says which VMs came and which     *)
(* left, not in which order, and what left is taken out last: that is right *)
(* only as a VM that left a host never comes back.                          *)

AddsOf(q, h, v)    == {i \in DOMAIN q : q[i].host = h /\ v \in q[i].added}
RemovesOf(q, h, v) == {i \in DOMAIN q : q[i].host = h /\ v \in q[i].removed}

ToldAdded(h, v) ==
    \/ v \in monitored[h]
    \/ AddsOf(toMonitoring, h, v) # {}
    \/ v \in hostReport[h].added

ToldRemoved(h, v) ==
    RemovesOf(toMonitoring, h, v) # {} \/ v \in hostReport[h].removed

\* The VM is at no host, and nobody will put it on one.
Gone(v) ==
    /\ v \in Registered
    /\ ~ Undecided(v)
    /\ \A h \in Host : v \notin creating[h] /\ v \notin hostPool[h].allocations

\* No report adds the VM after one that removes it.
RemovedLast(q, r, h, v) ==
    \A i \in RemovesOf(q, h, v) :
      /\ \A j \in AddsOf(q, h, v) : j <= i
      /\ v \notin r.added

ReportsAgree(h, v) ==
    /\ v \in hostPool[h].allocations <=> ToldAdded(h, v) /\ ~ ToldRemoved(h, v)
    /\ RemovedLast(toMonitoring, hostReport[h], h, v)
    /\ ToldRemoved(h, v) => Gone(v)

ReportInv == \A h \in Host, v \in Vm : ReportsAgree(h, v)

-----------------------------------------------------------------------------

LEMMA GoneLeftAlone ==
    ASSUME NEW v, Gone(v), Registered \subseteq Registered',
           Requested(v)' \subseteq Requested(v), Committing(v)' \subseteq Committing(v),
           \A h \in Host : /\ v \in creating'[h] => v \in creating[h]
                           /\ v \in hostPool'[h].allocations => v \in hostPool[h].allocations
    PROVE  Gone(v)'
  BY DEF Gone, Undecided

LEMMA GoneAfterUserStep ==
    ASSUME TypeOK, UserStep, NEW v \in Vm, Gone(v)
    PROVE  Gone(v)'
  <1>1. UNCHANGED <<commitRequests, hostPool>>
    BY DEF UserStep, SpawnVms, SpawnVmOnHost, DirectCommit, AddHost, AddScheduler,
           hostVars, inboxes
  <1>2. Committing(v)' = Committing(v)
    BY <1>1 DEF Committing
  <1>3. ASSUME NEW s \in Sched, NEW b \in Batch, SpawnVms(s, b)
        PROVE  Gone(v)'
    <2>1. Registered \subseteq Registered' /\ v \notin b
      BY <1>3 DEF SpawnVms, RegisterNewVms, Registered, Gone
    <2>2. Requested(v)' = Requested(v)
      BY <1>3, <2>1 DEF SpawnVms, Requested, TypeOK, EventsTypeOK
    <2> QED BY <1>1, <1>2, <1>3, <2>1, <2>2, GoneLeftAlone DEF SpawnVms
  <1>4. ASSUME NEW w \in DirectVm, NEW h \in Host, SpawnVmOnHost(w, h)
        PROVE  Gone(v)'
    <2>1. Registered \subseteq Registered' /\ v # w
      BY <1>4 DEF SpawnVmOnHost, RegisterNewVms, Registered, Gone
    <2>2. Requested(v)' = Requested(v)
      BY <1>4 DEF SpawnVmOnHost, DirectCommit, Requested
    <2>3. \A g \in Host : v \in creating'[g] => v \in creating[g]
      BY <1>4, <2>1 DEF SpawnVmOnHost, DirectCommit, Commit, PlacedOn
    <2> QED BY <1>1, <1>2, <2>1, <2>2, <2>3, GoneLeftAlone
  <1>5. ASSUME \/ \E h \in LateHosts : AddHost(h)
               \/ \E s \in Sched : AddScheduler(s)
        PROVE  Gone(v)'
    <2>1. UNCHANGED <<requests, creating, vmStatus>>
      BY <1>5 DEF AddHost, AddScheduler, inboxes, apiVars
    <2>2. Requested(v)' = Requested(v)
      BY <2>1 DEF Requested
    <2> QED BY <1>1, <1>2, <2>1, <2>2, RegisteredStays, GoneLeftAlone
  <1> QED BY <1>3, <1>4, <1>5 DEF UserStep

LEMMA GoneAfterSchedulerStep ==
    ASSUME TypeOK, NEW s \in Sched, SchedulerStep(s), NEW v \in Vm, Gone(v)
    PROVE  Gone(v)'
  <1>1. UNCHANGED <<creating, hostPool, vmStatus>>
    BY DEF SchedulerStep, OnAllocationRequest, TimeOutRequest, PlaceRequest, RetryRequest,
           OnStoreNotification, hostVars, inboxes
  <1>2. Registered' = Registered
    BY <1>1, RegisteredStays
  <1>3. ASSUME UNCHANGED <<requests, commitRequests>>
        PROVE  Gone(v)'
    BY <1>1, <1>2, <1>3, GoneLeftAlone DEF Requested, Committing
  <1>4. ASSUME NEW b \in Batch, TimeOutRequest(s, b)
        PROVE  Gone(v)'
    <2>1. Committing(v)' = Committing(v) /\ Requested(v)' \subseteq Requested(v)
      BY <1>4 DEF TimeOutRequest, Committing, Requested, TypeOK, EventsTypeOK
    <2> QED BY <1>1, <1>2, <2>1, GoneLeftAlone
  <1>5. ASSUME NEW b \in Batch, PlaceRequest(s, b)
        PROVE  Gone(v)'
    <2>1. PICK p \in [b -> Host] :
            commitRequests' = commitRequests \cup {[placement |-> p, from |-> s]}
      BY <1>5 DEF PlaceRequest
    <2>2. Requested(v)' \subseteq Requested(v)
      BY <1>5 DEF PlaceRequest, Requested, TypeOK, EventsTypeOK
    <2>3. v \notin b
      <3>1. v \in b => <<s, b>> \in Requested(v)
        BY <1>5 DEF PlaceRequest, RequestDelivered, Requested
      <3> QED BY <3>1 DEF Gone, Undecided
    <2>4. Committing(v)' = Committing(v)
      BY <2>1, <2>3 DEF Committing
    <2> QED BY <1>1, <1>2, <2>2, <2>4, GoneLeftAlone
  <1>6. ASSUME NEW b \in Batch, RetryRequest(s, b)
        PROVE  Gone(v)'
    BY <1>3, <1>6 DEF RetryRequest, inboxes
  <1>7. CASE OnStoreNotification(s)
    BY <1>3, <1>7 DEF OnStoreNotification
  <1> QED BY <1>4, <1>5, <1>6, <1>7 DEF SchedulerStep, OnAllocationRequest

LEMMA GoneAfterStoreStep ==
    ASSUME TypeOK, StoreStep, NEW v \in Vm, Gone(v)
    PROVE  Gone(v)'
  <1>1. UNCHANGED <<hostPool, vmStatus>>
    BY DEF StoreStep, hostVars, apiVars
  <1>2. Registered' = Registered
    BY <1>1, RegisteredStays
  <1>3. ASSUME NEW m \in commitRequests, OnCommitRequest(m)
        PROVE  Gone(v)'
    <2>1. v \notin DOMAIN m.placement
      BY DEF Gone, Undecided, Committing
    <2>2. Committing(v)' \subseteq Committing(v)
      BY <1>3 DEF OnCommitRequest, Committing
    <2>3. Requested(v)' \subseteq Requested(v)
      <3>1. \A t \in Sched : requests'[t] \subseteq requests[t] \cup {DOMAIN m.placement}
        BY <1>3 DEF OnCommitRequest, Reject, TypeOK, EventsTypeOK
      <3> QED BY <2>1, <3>1 DEF Requested
    <2>4. \A g \in Host : v \in creating'[g] => v \in creating[g]
      BY <1>3, <2>1 DEF OnCommitRequest, Commit, Reject, PlacedOn
    <2> QED BY <1>1, <1>2, <2>2, <2>3, <2>4, GoneLeftAlone
  <1>4. ASSUME NEW n \in hostNotices, OnHostNotice(n)
        PROVE  Gone(v)'
    BY <1>1, <1>2, <1>4, GoneLeftAlone DEF OnHostNotice, Requested, Committing
  <1> QED BY <1>3, <1>4 DEF StoreStep, OnAllocationFailed, OnAllocationReleased

-----------------------------------------------------------------------------
(* What each step does to the reports.                                      *)

LEMMA ReportsLeftAlone ==
    ASSUME ReportInv, UNCHANGED <<toMonitoring, hostPool, hostReport, monitored>>,
           \A v \in Vm : Gone(v) => Gone(v)'
    PROVE  ReportInv'
  BY DEF ReportInv, ReportsAgree, ToldAdded, ToldRemoved, AddsOf, RemovesOf, RemovedLast

\* A host's handler of an event of VM v changes what is reported of v only.
LEMMA OtherReports ==
    ASSUME ReportInv, NEW h \in Host, NEW v \in Vm,
           UNCHANGED <<toMonitoring, monitored, requests, commitRequests, vmStatus>>,
           \A g \in Host, w \in Vm : g # h \/ w # v =>
             /\ w \in hostPool'[g].allocations <=> w \in hostPool[g].allocations
             /\ w \in hostReport'[g].added <=> w \in hostReport[g].added
             /\ w \in hostReport'[g].removed <=> w \in hostReport[g].removed,
           \A g \in Host, w \in Vm : w \in creating'[g] => w \in creating[g],
           ReportsAgree(h, v)', 
           Gone(v) => Gone(v)'
    PROVE  ReportInv'
  <1> SUFFICES ASSUME NEW g \in Host, NEW w \in Vm, g # h \/ w # v
               PROVE  ReportsAgree(g, w)'
    BY DEF ReportInv
  <1>1. ReportsAgree(g, w)
    BY DEF ReportInv
  <1>2. Gone(w) => Gone(w)'
    <2>1. CASE w = v
      BY <2>1
    <2>2. CASE w # v
      BY <2>2, RegisteredStays, GoneLeftAlone DEF Requested, Committing
    <2> QED BY <2>1, <2>2
  <1> QED BY <1>1, <1>2 DEF ReportsAgree, ToldAdded, ToldRemoved, AddsOf, RemovesOf, RemovedLast

LEMMA CreatedIsReported ==
    ASSUME TypeOK, AllocationInv, ReportInv, NEW h \in Host, NEW v \in Vm,
           OnVmCreateRequest(h, v), UNCHANGED <<monitored, vmStatus>>
    PROVE  ReportInv'
  <1>1. ~ Gone(v)
    BY DEF OnVmCreateRequest, Gone
  <1>2. UNCHANGED <<toMonitoring, monitored, requests, commitRequests, vmStatus>>
    BY DEF OnVmCreateRequest
  <1>3. \A g \in Host, w \in Vm : w \in creating'[g] => w \in creating[g]
    BY DEF OnVmCreateRequest, TypeOK, EventsTypeOK
  <1>4. ReportsAgree(h, v) /\ hostReport[h] \in Report /\ hostPool[h] \in HostInfo
    BY DEF ReportInv, TypeOK, HostsTypeOK
  <1>5. CASE UNCHANGED hostVars
    <2>1. ReportsAgree(h, v)'
      BY <1>1, <1>2, <1>4, <1>5
         DEF ReportsAgree, ToldAdded, ToldRemoved, AddsOf, RemovesOf, RemovedLast, hostVars
    <2> QED BY <1>1, <1>2, <1>3, <1>5, <2>1, OtherReports DEF hostVars
  <1>6. CASE HostAllocate(h, v) /\ hostReport' =
               [hostReport EXCEPT ![h] = WithStatus(WithAdded(@, v), v, "Initializing")]
    <2>1. /\ hostPool' = [hostPool EXCEPT ![h] = Occupy(@, {v})]
          /\ hostPool'[h] = Occupy(hostPool[h], {v})
          /\ hostPool'[h].allocations = hostPool[h].allocations \cup {v}
      BY <1>4, <1>6, OccupyTyped DEF HostAllocate, TypeOK, HostsTypeOK
    <2>2. /\ hostReport'[h].added = hostReport[h].added \cup {v}
          /\ hostReport'[h].removed = hostReport[h].removed
      BY <1>4, <1>6 DEF WithStatus, WithAdded, Report, TypeOK, HostsTypeOK
    <2>3. \A g \in Host : g # h => hostPool'[g] = hostPool[g] /\ hostReport'[g] = hostReport[g]
      BY <1>6, <2>1 DEF TypeOK, HostsTypeOK
    <2>4. ReportsAgree(h, v)'
      BY <1>1, <1>2, <1>4, <2>1, <2>2
         DEF ReportsAgree, ToldAdded, ToldRemoved, AddsOf, RemovesOf, RemovedLast
    <2>5. \A g \in Host, w \in Vm : g # h \/ w # v =>
            /\ w \in hostPool'[g].allocations <=> w \in hostPool[g].allocations
            /\ w \in hostReport'[g].added <=> w \in hostReport[g].added
            /\ w \in hostReport'[g].removed <=> w \in hostReport[g].removed
      BY <2>1, <2>2, <2>3
    <2> QED BY <1>1, <1>2, <1>3, <2>4, <2>5, OtherReports
  <1> QED BY <1>5, <1>6 DEF OnVmCreateRequest

LEMMA DeletedIsReported ==
    ASSUME TypeOK, AllocationInv, ReportInv, NEW h \in Host, NEW v \in Vm,
           OnVmDeleted(h, v), UNCHANGED <<monitored, vmStatus>>
    PROVE  ReportInv'
  <1>1. UNCHANGED <<toMonitoring, monitored, requests, commitRequests, vmStatus, creating>>
    BY DEF OnVmDeleted
  <1>2. ReportsAgree(h, v) /\ hostReport[h] \in Report /\ hostPool[h] \in HostInfo
    BY DEF ReportInv, TypeOK, HostsTypeOK
  <1>3. Registered' = Registered /\ Undecided(v)' = Undecided(v)
    BY <1>1, RegisteredStays DEF Undecided, Requested, Committing
  <1>4. CASE v \notin hostPool[h].allocations
    <2>1. UNCHANGED <<hostPool, hostReport>>
      BY <1>4 DEF OnVmDeleted, hostVars
    <2> QED BY <1>1, <1>3, <2>1, ReportsLeftAlone DEF Gone, Undecided, Requested, Committing
  <1>5. CASE v \in hostPool[h].allocations
    <2>1. /\ hostPool' = [hostPool EXCEPT ![h] = Release(@, {v})]
          /\ hostPool'[h] = Release(hostPool[h], {v})
          /\ hostPool'[h].allocations = hostPool[h].allocations \ {v}
      BY <1>2, <1>5, ReleaseTyped DEF OnVmDeleted, HostRelease, TypeOK, HostsTypeOK
    <2>2. hostReport' = [hostReport EXCEPT ![h] = WithRemoved(@, v)]
      BY <1>5 DEF OnVmDeleted
    <2>3. /\ hostReport'[h].added = hostReport[h].added
          /\ hostReport'[h].removed = hostReport[h].removed \cup {v}
      BY <1>2, <2>2 DEF WithRemoved, Report, TypeOK, HostsTypeOK
    <2>4. \A g \in Host : g # h => hostPool'[g] = hostPool[g] /\ hostReport'[g] = hostReport[g]
      BY <2>1, <2>2 DEF TypeOK, HostsTypeOK
    <2>5. /\ ~ Undecided(v) /\ v \in Registered /\ v \notin creating[h]
          /\ \A g \in Host \ {h} : v \notin creating[g] /\ v \notin hostPool[g].allocations
      BY <1>5, AtOneHost DEF AllocationInv, StoreHostAgreement
    <2>6. Gone(v)'
      BY <1>1, <1>3, <2>1, <2>4, <2>5 DEF Gone
    <2>7. ReportsAgree(h, v)'
      BY <1>1, <1>2, <2>1, <2>3, <2>6
         DEF ReportsAgree, ToldAdded, ToldRemoved, AddsOf, RemovesOf, RemovedLast
    <2>8. \A g \in Host, w \in Vm : g # h \/ w # v =>
            /\ w \in hostPool'[g].allocations <=> w \in hostPool[g].allocations
            /\ w \in hostReport'[g].added <=> w \in hostReport[g].added
            /\ w \in hostReport'[g].removed <=> w \in hostReport[g].removed
      BY <2>1, <2>3, <2>4
    <2> QED BY <1>1, <2>6, <2>7, <2>8, OtherReports
  <1> QED BY <1>4, <1>5

\* A status that is noted is reported, but neither a VM that came nor one that left.
LEMMA StatusIsReported ==
    ASSUME TypeOK, ReportInv, NEW h \in Host,
           UNCHANGED <<toMonitoring, monitored, requests, commitRequests, vmStatus, creating,
                       hostPool>>,
           \/ UNCHANGED hostReport
           \/ \E v \in Vm, status \in Status : hostReport' = [hostReport EXCEPT ![h] = WithStatus(@, v, status)]
    PROVE  ReportInv'
  <1>1. \A g \in Host : /\ hostReport'[g].added = hostReport[g].added
                        /\ hostReport'[g].removed = hostReport[g].removed
    <2>1. hostReport[h] \in Report /\ DOMAIN hostReport = Host
      BY DEF TypeOK, HostsTypeOK
    <2>2. ASSUME NEW v \in Vm, NEW status \in Status
          PROVE  /\ WithStatus(hostReport[h], v, status).added = hostReport[h].added
                 /\ WithStatus(hostReport[h], v, status).removed = hostReport[h].removed
      BY <2>1 DEF WithStatus, Report
    <2> QED BY <2>1, <2>2
  <1>2. \A v \in Vm : Gone(v) => Gone(v)'
    BY RegisteredStays DEF Gone, Undecided, Requested, Committing
  <1> SUFFICES ASSUME NEW g \in Host, NEW w \in Vm PROVE ReportsAgree(g, w)'
    BY DEF ReportInv
  <1>3. ReportsAgree(g, w)
    BY DEF ReportInv
  <1> QED BY <1>1, <1>2, <1>3
             DEF ReportsAgree, ToldAdded, ToldRemoved, AddsOf, RemovesOf, RemovedLast

\* A report that is sent is the last one on its way.
LEMMA ReportSent ==
    ASSUME NEW q \in Seq(HostStateUpdate), NEW m \in HostStateUpdate, NEW h, NEW v
    PROVE  /\ AddsOf(Append(q, m), h, v) =
                AddsOf(q, h, v) \cup {i \in {Len(q) + 1} : m.host = h /\ v \in m.added}
           /\ RemovesOf(Append(q, m), h, v) =
                RemovesOf(q, h, v) \cup {i \in {Len(q) + 1} : m.host = h /\ v \in m.removed}
           /\ \A i \in AddsOf(q, h, v) \cup RemovesOf(q, h, v) : i \in 1..Len(q)
  <1>1. /\ DOMAIN Append(q, m) = DOMAIN q \cup {Len(q) + 1} /\ DOMAIN q = 1..Len(q)
        /\ Append(q, m)[Len(q) + 1] = m
        /\ \A i \in DOMAIN q : Append(q, m)[i] = q[i] /\ i # Len(q) + 1
    OBVIOUS
  <1>2. \A i \in AddsOf(q, h, v) \cup RemovesOf(q, h, v) : i \in 1..Len(q)
    BY <1>1 DEF AddsOf, RemovesOf
  <1>3. \A i : i \in AddsOf(Append(q, m), h, v) <=>
          i \in AddsOf(q, h, v) \/ (i = Len(q) + 1 /\ m.host = h /\ v \in m.added)
    BY <1>1 DEF AddsOf
  <1>4. \A i : i \in RemovesOf(Append(q, m), h, v) <=>
          i \in RemovesOf(q, h, v) \/ (i = Len(q) + 1 /\ m.host = h /\ v \in m.removed)
    BY <1>1 DEF RemovesOf
  <1> QED BY <1>2, <1>3, <1>4

LEMMA ReportIsSent ==
    ASSUME TypeOK, ReportInv, NEW h \in Host, SendHostState(h), UNCHANGED <<monitored, vmStatus>>
    PROVE  ReportInv'
  <1> DEFINE m == [host |-> h, added |-> hostReport[h].added, removed |-> hostReport[h].removed]
             q == toMonitoring
  <1>1. /\ toMonitoring' = Append(q, m) /\ hostReport' = [hostReport EXCEPT ![h] = EmptyReport]
        /\ UNCHANGED <<hostPool, requests, commitRequests, creating>>
    BY DEF SendHostState
  <1>2. m \in HostStateUpdate /\ q \in Seq(HostStateUpdate)
    BY DEF TypeOK, EventsTypeOK, HostsTypeOK, Report, HostStateUpdate
  <1>3. hostReport'[h] = EmptyReport /\ \A g \in Host : g # h => hostReport'[g] = hostReport[g]
    BY <1>1 DEF TypeOK, HostsTypeOK
  <1>4. \A v \in Vm : Gone(v) => Gone(v)'
    BY <1>1, RegisteredStays DEF Gone, Undecided, Requested, Committing
  <1> SUFFICES ASSUME NEW g \in Host, NEW v \in Vm PROVE ReportsAgree(g, v)'
    BY DEF ReportInv
  <1>5. ReportsAgree(g, v)
    BY DEF ReportInv
  <1> DEFINE A == AddsOf(q, g, v)
             R == RemovesOf(q, g, v)
             n == Len(q) + 1
  <1>6. /\ AddsOf(toMonitoring', g, v) = A \cup {i \in {n} : h = g /\ v \in hostReport[h].added}
        /\ RemovesOf(toMonitoring', g, v) =
             R \cup {i \in {n} : h = g /\ v \in hostReport[h].removed}
        /\ \A i \in A \cup R : i \in 1..Len(q)
    BY <1>1, <1>2, ReportSent
  <1>7. /\ n \in Nat
        /\ \A i \in A \cup R : i \in Nat /\ i < n
    BY <1>2, <1>6
  <1> HIDE DEF m, n, A, R
  <1>8. CASE g # h
    <2>1. AddsOf(toMonitoring', g, v) = A /\ RemovesOf(toMonitoring', g, v) = R
      BY <1>6, <1>8
    <2> QED BY <1>1, <1>3, <1>4, <1>5, <1>8, <2>1
               DEF ReportsAgree, ToldAdded, ToldRemoved, RemovedLast, A, R
  <1>9. CASE g = h
    <2>1. ToldAdded(g, v)' <=> ToldAdded(g, v)
      BY <1>1, <1>3, <1>6, <1>9 DEF ToldAdded, EmptyReport, A
    <2>2. ToldRemoved(g, v)' <=> ToldRemoved(g, v)
      BY <1>1, <1>3, <1>6, <1>9 DEF ToldRemoved, EmptyReport, R
    <2>3. RemovedLast(toMonitoring', hostReport'[g], g, v)
      <3>1. v \notin hostReport'[g].added
        BY <1>3, <1>9 DEF EmptyReport
      <3>2. ASSUME NEW i \in RemovesOf(toMonitoring', g, v),
                   NEW j \in AddsOf(toMonitoring', g, v)
            PROVE  j <= i
        <4>1. CASE i = n
          BY <1>6, <1>7, <4>1
        <4>2. CASE i # n
          <5>1. i \in R
            BY <1>6, <4>2
          <5>2. v \notin hostReport[g].added /\ \A k \in A : k <= i
            BY <1>5, <5>1 DEF ReportsAgree, RemovedLast, A, R
          <5>3. j \in A
            BY <1>6, <1>9, <5>2
          <5> QED BY <5>2, <5>3
        <4> QED BY <4>1, <4>2
      <3> QED BY <3>1, <3>2 DEF RemovedLast
    <2> QED BY <1>1, <1>4, <1>5, <2>1, <2>2, <2>3 DEF ReportsAgree
  <1> QED BY <1>8, <1>9

\* The report that is heard is the first one.
LEMMA ReportTaken ==
    ASSUME NEW q \in Seq(HostStateUpdate), q # <<>>, NEW h, NEW v
    PROVE  /\ \A i : i \in AddsOf(Tail(q), h, v) <=> i \in Nat \ {0} /\ i + 1 \in AddsOf(q, h, v)
           /\ \A i : i \in RemovesOf(Tail(q), h, v) <=>
                       i \in Nat \ {0} /\ i + 1 \in RemovesOf(q, h, v)
           /\ 1 \in AddsOf(q, h, v) <=> Head(q).host = h /\ v \in Head(q).added
           /\ 1 \in RemovesOf(q, h, v) <=> Head(q).host = h /\ v \in Head(q).removed
           /\ AddsOf(q, h, v) \subseteq Nat \ {0} /\ RemovesOf(q, h, v) \subseteq Nat \ {0}
  <1>1. PICK n \in Nat : /\ DOMAIN q = 1..(n + 1) /\ q[1] = Head(q)
                         /\ DOMAIN Tail(q) = 1..n /\ \A i \in DOMAIN Tail(q) : Tail(q)[i] = q[i + 1]
    BY TailBeheads DEF Beheaded
  <1>2. /\ 1 \in DOMAIN q /\ DOMAIN q \subseteq Nat \ {0}
        /\ \A i : i \in DOMAIN Tail(q) <=> i \in Nat \ {0} /\ i + 1 \in DOMAIN q
    BY <1>1
  <1> QED BY <1>1, <1>2 DEF AddsOf, RemovesOf

LEMMA ReportIsHeard ==
    ASSUME TypeOK, ReportInv, MonitoringStep
    PROVE  ReportInv'
  <1> DEFINE m == Head(toMonitoring)
             q == toMonitoring
  <1>1. /\ q # <<>> /\ toMonitoring' = Tail(q)
        /\ monitored' = [monitored EXCEPT ![m.host] = AfterUpdate(@, m)]
        /\ UNCHANGED <<hostPool, hostReport, requests, commitRequests, creating, vmStatus>>
    BY DEF MonitoringStep, OnHostStateUpdate, MonitoredAfter, hostVars, apiVars
  <1>2. q \in Seq(HostStateUpdate) /\ m \in HostStateUpdate
    BY <1>1, HeadTailProperties DEF TypeOK, EventsTypeOK
  <1>3. \A g \in Host : monitored'[g] = IF g = m.host THEN AfterUpdate(monitored[g], m)
                                                       ELSE monitored[g]
    BY <1>1 DEF TypeOK
  <1>4. \A v \in Vm : Gone(v) => Gone(v)'
    BY <1>1, RegisteredStays DEF Gone, Undecided, Requested, Committing
  <1> SUFFICES ASSUME NEW g \in Host, NEW v \in Vm PROVE ReportsAgree(g, v)'
    BY DEF ReportInv
  <1>5. ReportsAgree(g, v)
    BY DEF ReportInv
  <1> DEFINE A == AddsOf(q, g, v)
             R == RemovesOf(q, g, v)
             B == AddsOf(toMonitoring', g, v)
             S == RemovesOf(toMonitoring', g, v)
             come == m.host = g /\ v \in m.added
             left == m.host = g /\ v \in m.removed
  <1>6. /\ \A i : i \in B <=> i \in Nat \ {0} /\ i + 1 \in A
        /\ \A i : i \in S <=> i \in Nat \ {0} /\ i + 1 \in R
        /\ 1 \in A <=> come
        /\ 1 \in R <=> left
        /\ A \subseteq Nat \ {0} /\ R \subseteq Nat \ {0}
    BY <1>1, <1>2, ReportTaken
  <1>7. v \in monitored'[g] <=> (v \in monitored[g] \/ come) /\ ~ left
    BY <1>3 DEF AfterUpdate
  <1>8. /\ \A i \in R : (\A j \in A : j <= i) /\ v \notin hostReport[g].added
        /\ RemovedLast(toMonitoring', hostReport'[g], g, v) <=>
             \A i \in S : (\A j \in B : j <= i) /\ v \notin hostReport[g].added
    BY <1>1, <1>5 DEF ReportsAgree, RemovedLast
  <1>9. /\ ToldAdded(g, v) <=> v \in monitored[g] \/ A # {} \/ v \in hostReport[g].added
        /\ ToldAdded(g, v)' <=> v \in monitored'[g] \/ B # {} \/ v \in hostReport[g].added
        /\ ToldRemoved(g, v) <=> R # {} \/ v \in hostReport[g].removed
        /\ ToldRemoved(g, v)' <=> S # {} \/ v \in hostReport[g].removed
    BY <1>1 DEF ToldAdded, ToldRemoved
  <1> HIDE DEF m, A, R, B, S, come, left
  <1>10. A # {} <=> come \/ B # {}
    <2>1. ASSUME NEW i \in A, i # 1 PROVE i - 1 \in B
      <3>1. i \in Nat /\ i # 0 /\ (i - 1) + 1 = i /\ i - 1 \in Nat /\ i - 1 # 0
        BY <1>6, <2>1
      <3> QED BY <1>6, <3>1
    <2> QED BY <1>6, <2>1
  <1>11. R # {} <=> left \/ S # {}
    <2>1. ASSUME NEW i \in R, i # 1 PROVE i - 1 \in S
      <3>1. i \in Nat /\ i # 0 /\ (i - 1) + 1 = i /\ i - 1 \in Nat /\ i - 1 # 0
        BY <1>6, <2>1
      <3> QED BY <1>6, <3>1
    <2> QED BY <1>6, <2>1
  <1>12. RemovedLast(toMonitoring', hostReport'[g], g, v)
    <2> SUFFICES ASSUME NEW i \in S
                 PROVE  (\A j \in B : j <= i) /\ v \notin hostReport[g].added
      BY <1>8
    <2>1. i + 1 \in R /\ i \in Nat
      BY <1>6
    <2>2. ASSUME NEW j \in B PROVE j <= i
      <3>1. j \in Nat /\ j + 1 <= i + 1
        BY <1>6, <1>8, <2>1
      <3> QED BY <2>1, <3>1
    <2> QED BY <1>8, <2>1, <2>2
  <1>13. left => B = {} /\ v \notin hostReport[g].added
    <2> SUFFICES ASSUME left PROVE B = {} /\ v \notin hostReport[g].added
      OBVIOUS
    <2>1. 1 \in R
      BY <1>6
    <2>2. ASSUME NEW j \in B PROVE FALSE
      <3>1. j \in Nat /\ j # 0 /\ j + 1 <= 1
        BY <1>6, <1>8, <2>1
      <3> QED BY <3>1
    <2> QED BY <1>8, <2>1, <2>2
  <1>14. ToldRemoved(g, v)' => ToldRemoved(g, v)
    BY <1>9, <1>11
  <1>15. v \in hostPool[g].allocations <=> ToldAdded(g, v)' /\ ~ ToldRemoved(g, v)'
    BY <1>5, <1>7, <1>9, <1>10, <1>11, <1>13 DEF ReportsAgree
  <1> QED BY <1>1, <1>4, <1>5, <1>12, <1>14, <1>15 DEF ReportsAgree

LEMMA NextReports ==
    ASSUME TypeOK, AllocationInv, ReportInv, [Next]_vars
    PROVE  ReportInv'
  <1>1. CASE UserStep
    <2>1. UNCHANGED <<toMonitoring, hostPool, hostReport, monitored>>
      BY <1>1 DEF UserStep, SpawnVms, SpawnVmOnHost, DirectCommit, AddHost, AddScheduler,
                  hostVars, inboxes
    <2> QED BY <1>1, <2>1, GoneAfterUserStep, ReportsLeftAlone
  <1>2. ASSUME NEW s \in Sched, SchedulerStep(s)
        PROVE  ReportInv'
    <2>1. UNCHANGED <<toMonitoring, hostPool, hostReport, monitored>>
      BY <1>2 DEF SchedulerStep, OnAllocationRequest, TimeOutRequest, PlaceRequest,
                  RetryRequest, OnStoreNotification, hostVars, inboxes
    <2> QED BY <1>2, <2>1, GoneAfterSchedulerStep, ReportsLeftAlone
  <1>3. CASE StoreStep
    <2>1. UNCHANGED <<toMonitoring, hostPool, hostReport, monitored>>
      BY <1>3 DEF StoreStep, OnCommitRequest, OnAllocationFailed, OnAllocationReleased,
                  OnHostNotice, hostVars
    <2> QED BY <1>3, <2>1, GoneAfterStoreStep, ReportsLeftAlone
  <1>4. ASSUME NEW h \in Host, HostStep(h)
        PROVE  ReportInv'
    <2>1. UNCHANGED <<monitored, vmStatus>>
      BY <1>4 DEF HostStep, apiVars
    <2>2. ASSUME NEW v \in Vm, OnVmStarted(h, v)
          PROVE  ReportInv'
      <3>1. "Running" \in Status
        BY DEF Status
      <3>2. /\ UNCHANGED <<toMonitoring, requests, commitRequests, creating, hostPool>>
            /\ hostReport' = [hostReport EXCEPT ![h] = WithStatus(@, v, "Running")]
        BY <2>2 DEF OnVmStarted
      <3> QED BY <2>1, <3>1, <3>2, StatusIsReported
    <2>3. ASSUME NEW v \in Vm, NEW t \in ReleaseType, OnAllocationReleaseRequest(h, v, t)
          PROVE  ReportInv'
      <3>1. "Finished" \in Status
        BY DEF Status
      <3>2. /\ UNCHANGED <<toMonitoring, requests, commitRequests, creating, hostPool>>
            /\ \/ UNCHANGED hostReport
               \/ hostReport' = [hostReport EXCEPT ![h] = WithStatus(@, v, "Finished")]
        BY <2>3 DEF OnAllocationReleaseRequest
      <3> QED BY <2>1, <3>1, <3>2, StatusIsReported
    <2> QED BY <1>4, <2>1, <2>2, <2>3, CreatedIsReported, DeletedIsReported, ReportIsSent
            DEF HostStep, VmStep
  <1>5. CASE ApiStep
    <2>1. UNCHANGED <<toMonitoring, hostPool, hostReport, monitored, requests, commitRequests,
                      creating>>
      BY <1>5 DEF ApiStep, OnVmStatusChanged, DeadlinePasses, hostVars, inboxes
    <2>2. \A v \in Vm : Gone(v) => Gone(v)'
      BY <1>5, <2>1, ApiStepRegisters DEF Gone, Undecided, Requested, Committing
    <2> QED BY <2>1, <2>2, ReportsLeftAlone
  <1>6. CASE UNCHANGED vars
    BY <1>6, ReportsLeftAlone
       DEF vars, hostVars, inboxes, apiVars, Gone, Undecided, Requested, Committing, Registered
  <1> QED BY <1>1, <1>2, <1>3, <1>4, <1>5, <1>6, ReportIsHeard DEF Next

LEMMA InitReports == Init => ReportInv
  <1> SUFFICES ASSUME Init, NEW h \in Host, NEW v \in Vm PROVE ReportsAgree(h, v)
    BY DEF ReportInv
  <1>1. /\ v \notin monitored[h] /\ hostReport[h] = EmptyReport
        /\ v \notin hostPool[h].allocations /\ toMonitoring = <<>>
    BY DEF Init, EventsInit, HostsInit, NewHostInfo
  <1>2. AddsOf(toMonitoring, h, v) = {} /\ RemovesOf(toMonitoring, h, v) = {}
    BY <1>1 DEF AddsOf, RemovesOf
  <1> QED BY <1>1, <1>2
             DEF ReportsAgree, ToldAdded, ToldRemoved, RemovedLast, EmptyReport

-----------------------------------------------------------------------------
(* The monitoring once it has heard everything.                             *)

LEMMA MonitoredAfterTyped ==
    ASSUME NEW states \in [Host -> SUBSET Vm], NEW m \in HostStateUpdate
    PROVE  /\ MonitoredAfter(states, m) \in [Host -> SUBSET Vm]
           /\ \A h \in Host : MonitoredAfter(states, m)[h] =
                IF h = m.host THEN (states[h] \cup m.added) \ m.removed ELSE states[h]
  BY DEF MonitoredAfter, AfterUpdate, HostStateUpdate

LEMMA ReportsFold ==
    ASSUME NEW states \in [Host -> SUBSET Vm], NEW q \in Seq(HostStateUpdate)
    PROVE  \E p : /\ p[0] = states
                  /\ \A k \in 1..Len(q) : p[k] = MonitoredAfter(p[k - 1], q[k])
                  /\ FoldLeft(MonitoredAfter, states, q) = p[Len(q)]
  <1> DEFINE D == DOMAIN q
             c == [T \in SUBSET D |-> Max(T)]
             op == [a \in [Host -> SUBSET Vm] |-> [k \in D |-> MonitoredAfter(a, q[k])]]
             Step(g) == [T \in SUBSET D |->
                           IF T = {} THEN states
                                     ELSE MonitoredAfter(g[T \ {Max(T)}], q[Max(T)])]
             fold == CHOOSE g : g = Step(g)
  <1>1. Len(q) \in Nat /\ D = 1..Len(q) /\ IsFiniteSet(D)
    BY FS_Interval
  <1>2. ASSUME NEW T \in SUBSET D, T # {}
        PROVE  Max(T) \in T
    BY <1>1, <1>2, MaxOfSome
  <1>3. Picks(c, D)
    BY <1>2 DEF Picks
  <1>4. op \in [[Host -> SUBSET Vm] -> [D -> [Host -> SUBSET Vm]]]
    BY MonitoredAfterTyped
  <1> HIDE DEF c, op
  <1>5. PICK g \in [SUBSET D -> [Host -> SUBSET Vm]] : FoldsSubsets(g, c, op, states, D)
    BY <1>1, <1>3, <1>4, FoldExists
  <1>6. ASSUME NEW T \in SUBSET D, T # {}
        PROVE  g[T] = MonitoredAfter(g[T \ {Max(T)}], q[Max(T)])
    <2>1. g[T] = op[g[T \ {c[T]}]][c[T]] /\ c[T] = Max(T)
      BY <1>5, <1>6 DEF FoldsSubsets, c
    <2>2. Max(T) \in D /\ T \ {Max(T)} \in SUBSET D
      BY <1>2, <1>6
    <2> QED BY <2>1, <2>2 DEF op
  <1>7. g[{}] = states
    BY <1>5 DEF FoldsSubsets
  <1>8. g = Step(g)
    BY <1>6, <1>7
  <1>9. fold = Step(fold)
    BY <1>8
  <1>10. FoldLeft(MonitoredAfter, states, q) = fold[D]
    BY DEF FoldLeft, MapThenFoldSet
  <1> DEFINE p == [k \in 0..Len(q) |-> fold[1..k]]
  <1> HIDE DEF fold
  <1>11. p[0] = states
    BY <1>9
  <1>12. ASSUME NEW k \in 1..Len(q)
         PROVE  p[k] = MonitoredAfter(p[k - 1], q[k])
    <2>1. k \in Nat /\ k > 0 /\ k <= Len(q) /\ k - 1 \in 0..Len(q) /\ k \in 0..Len(q)
      BY <1>1, <1>12
    <2>2. 1..k \in SUBSET D /\ 1..k # {}
      <3>1. k \in 1..k /\ 1..k \subseteq 1..Len(q)
        BY <1>1, <2>1
      <3> QED BY <1>1, <3>1
    <2>3. fold[1..k] = MonitoredAfter(fold[(1..k) \ {Max(1..k)}], q[Max(1..k)])
      BY <1>9, <2>2
    <2>4. Max(1..k) = k /\ (1..k) \ {Max(1..k)} = 1..(k - 1)
      BY <2>1, MaxOfPrefix
    <2>5. fold[1..k] = MonitoredAfter(fold[1..(k - 1)], q[k])
      BY <2>3, <2>4
    <2> QED BY <2>1, <2>5
  <1>13. FoldLeft(MonitoredAfter, states, q) = p[Len(q)]
    BY <1>1, <1>10
  <1> HIDE DEF p
  <1> QED BY <1>11, <1>12, <1>13

\* What is monitored after the first k reports on their way.
MonitoredBy(k, states) ==
    /\ states \in [Host -> SUBSET Vm]
    /\ \A h \in Host, v \in Vm : v \in states[h] <=>
         /\ v \in monitored[h] \/ \E i \in AddsOf(toMonitoring, h, v) : i <= k
         /\ \A i \in RemovesOf(toMonitoring, h, v) : ~ (i <= k)

LEMMA MonitoredOneMore ==
    ASSUME TypeOK, ReportInv, NEW k \in DOMAIN toMonitoring,
           NEW states, MonitoredBy(k - 1, states)
    PROVE  MonitoredBy(k, MonitoredAfter(states, toMonitoring[k]))
  <1> DEFINE q == toMonitoring
             m == toMonitoring[k]
             next == MonitoredAfter(states, m)
  <1>1. q \in Seq(HostStateUpdate) /\ m \in HostStateUpdate /\ k \in Nat /\ DOMAIN q \subseteq Nat
    BY DEF TypeOK, EventsTypeOK
  <1>2. states \in [Host -> SUBSET Vm]
    BY DEF MonitoredBy
  <1>3. /\ next \in [Host -> SUBSET Vm]
        /\ \A h \in Host : next[h] = IF h = m.host THEN (states[h] \cup m.added) \ m.removed
                                                   ELSE states[h]
    BY <1>1, <1>2, MonitoredAfterTyped
  <1> SUFFICES ASSUME NEW h \in Host, NEW v \in Vm
               PROVE  v \in next[h] <=>
                        /\ v \in monitored[h] \/ \E i \in AddsOf(q, h, v) : i <= k
                        /\ \A i \in RemovesOf(q, h, v) : ~ (i <= k)
    BY <1>3 DEF MonitoredBy
  <1> DEFINE A == AddsOf(q, h, v)
             R == RemovesOf(q, h, v)
  <1>4. v \in states[h] <=> /\ v \in monitored[h] \/ \E i \in A : i <= k - 1
                            /\ \A i \in R : ~ (i <= k - 1)
    BY DEF MonitoredBy
  <1>5. /\ k \in A <=> m.host = h /\ v \in m.added
        /\ k \in R <=> m.host = h /\ v \in m.removed
        /\ A \subseteq Nat /\ R \subseteq Nat
    BY <1>1 DEF AddsOf, RemovesOf
  <1>6. \A i \in A \cup R : i <= k <=> i <= k - 1 \/ i = k
    BY <1>1, <1>5
  <1>7. \A i \in R : \A j \in A : j <= i
    BY DEF ReportInv, ReportsAgree, RemovedLast
  <1>8. v \in next[h] <=> (v \in states[h] \/ k \in A) /\ k \notin R
    BY <1>3, <1>5
  <1>9. k \in A => \A i \in R : ~ (i <= k - 1)
    BY <1>1, <1>5, <1>7
  <1> HIDE DEF A, R, next
  <1>10. (\E i \in A : i <= k) <=> k \in A \/ \E i \in A : i <= k - 1
    BY <1>6, <1>1
  <1>11. (\A i \in R : ~ (i <= k)) <=> k \notin R /\ \A i \in R : ~ (i <= k - 1)
    BY <1>6, <1>1
  <1> QED BY <1>4, <1>8, <1>9, <1>10, <1>11 DEF A, R

LEMMA MonitoringCatchesUpNow ==
    ASSUME TypeOK, ReportInv
    PROVE  MonitoringCatchesUp
  <1> DEFINE q == toMonitoring
  <1>1. /\ q \in Seq(HostStateUpdate) /\ monitored \in [Host -> SUBSET Vm]
        /\ Len(q) \in Nat /\ DOMAIN q = 1..Len(q)
    BY DEF TypeOK, EventsTypeOK
  <1>2. PICK p : /\ p[0] = monitored
                 /\ \A k \in 1..Len(q) : p[k] = MonitoredAfter(p[k - 1], q[k])
                 /\ FoldLeft(MonitoredAfter, monitored, q) = p[Len(q)]
    BY <1>1, ReportsFold
  <1> DEFINE F == {k \in 0..Len(q) : MonitoredBy(k, p[k])}
  <1>3. 0 \in F
    <2>1. \A h \in Host, v \in Vm : \A i \in AddsOf(q, h, v) \cup RemovesOf(q, h, v) : ~ (i <= 0)
      BY <1>1 DEF AddsOf, RemovesOf
    <2>2. MonitoredBy(0, monitored)
      BY <1>1, <2>1 DEF MonitoredBy
    <2> QED BY <1>1, <1>2, <2>2
  <1>4. \A k \in 1..Len(q) : k - 1 \in F => k \in F
    <2> SUFFICES ASSUME NEW k \in 1..Len(q), MonitoredBy(k - 1, p[k - 1])
                 PROVE  k \in 0..Len(q) /\ MonitoredBy(k, p[k])
      OBVIOUS
    <2>1. k \in 0..Len(q) /\ k \in DOMAIN toMonitoring
      BY <1>1
    <2>2. MonitoredBy(k, MonitoredAfter(p[k - 1], toMonitoring[k]))
      BY <2>1, MonitoredOneMore
    <2> QED BY <1>2, <2>1, <2>2
  <1> HIDE DEF F
  <1>5. \A k \in 0..Len(q) : k \in F
    BY <1>1, <1>3, <1>4, PrefixInduction
  <1>6. Len(q) \in F
    BY <1>1, <1>5
  <1> DEFINE heard == FoldLeft(MonitoredAfter, monitored, q)
  <1>7. MonitoredBy(Len(q), heard)
    BY <1>2, <1>6 DEF F
  <1> HIDE DEF heard
  <1>8. ASSUME NEW h \in Host
        PROVE  AfterUpdate(heard[h], hostReport[h]) = hostPool[h].allocations
    <2>1. /\ heard[h] \subseteq Vm /\ hostReport[h].added \subseteq Vm
          /\ hostPool[h].allocations \subseteq Vm
      BY <1>7 DEF MonitoredBy, TypeOK, HostsTypeOK, Report, HostInfo
    <2>2. \A v \in Vm : \A i \in AddsOf(q, h, v) \cup RemovesOf(q, h, v) : i <= Len(q)
      BY <1>1 DEF AddsOf, RemovesOf
    <2>3. \A v \in Vm : v \in heard[h] <=>
            /\ v \in monitored[h] \/ AddsOf(q, h, v) # {}
            /\ RemovesOf(q, h, v) = {}
      BY <1>7, <2>2 DEF MonitoredBy
    <2>4. ASSUME NEW v \in Vm
          PROVE  v \in AfterUpdate(heard[h], hostReport[h]) <=> v \in hostPool[h].allocations
      <3>1. ReportsAgree(h, v)
        BY DEF ReportInv
      <3>2. v \in hostReport[h].added => RemovesOf(q, h, v) = {}
        BY <3>1 DEF ReportsAgree, RemovedLast
      <3>3. v \in hostPool[h].allocations <=> ToldAdded(h, v) /\ ~ ToldRemoved(h, v)
        BY <3>1 DEF ReportsAgree
      <3> QED BY <2>3, <3>2, <3>3 DEF AfterUpdate, ToldAdded, ToldRemoved
    <2> QED BY <2>1, <2>4 DEF AfterUpdate
  <1> QED BY <1>8 DEF MonitoringCatchesUp, heard

(* The monitoring's picture of each host is behind but never wrong: once    *)
(* the reports on their way are heard, and the one being gathered, it lists *)
(* the VMs of the host, although a report adds first and removes then.      *)
THEOREM MonitoringIsRight == Spec => []MonitoringCatchesUp
  <1> DEFINE Inv == TypeOK /\ AllocationInv /\ ReportInv
  <1>1. Init => Inv
    BY InitTyped, InitSafe, InitReports
  <1>2. Inv /\ [Next]_vars => Inv'
    BY NextTyped, NextSafe, NextReports
  <1>3. Inv => MonitoringCatchesUp
    BY MonitoringCatchesUpNow
  <1> QED BY <1>1, <1>2, <1>3, PTL DEF Spec

-----------------------------------------------------------------------------
(* Migration.  AllocationInv does not survive migrations, of which the     *)
(* placement store is not told.  What is left of it is that a VM is created *)
(* once.                                                                   *)

MigrationTypeOK ==
    /\ TypeOK
    /\ migrationRequests \in [Host -> [Host -> [Vm -> Nat]]]
    /\ migrationsAsked \in Nat
    /\ orderly \in BOOLEAN
    /\ ranOn \in [Vm -> SUBSET Host]
    /\ lifetimeOver \subseteq Vm

Creating(v) == {h \in Host : v \in creating[h]}

\* The VM is still to be created on a host.
Waits(v) ==
    v \notin Registered \/ Requested(v) # {} \/ Committing(v) # {} \/ Creating(v) # {}

\* One component at most is to take the next step towards that.
OneWaiter(v) ==
    /\ \A x, y \in Requested(v) : x = y
    /\ \A x, y \in Committing(v) : x = y
    /\ \A x, y \in Creating(v) : x = y
    /\ Requested(v) # {} => Committing(v) = {} /\ Creating(v) = {}
    /\ Committing(v) # {} => Creating(v) = {}
    /\ v \notin Registered =>
         Requested(v) = {} /\ Committing(v) = {} /\ Creating(v) = {}

\* No host knows the VM.
Fresh(v) ==
    /\ ranOn[v] = {}
    /\ \A h \in Host :
         /\ v \notin hostPool[h].allocations
         /\ \A t \in TimerType : timers[h][t][v] = 0
         /\ \A g \in Host : migrationRequests[h][g][v] = 0

CreatedOnce(v) == OneWaiter(v) /\ (Waits(v) => Fresh(v))

\* While there is a timer of the VM at the host, the VM does not stay.
Guarded(v) ==
    \A h \in Host : v \in hostPool[h].allocations =>
      \E t \in TimerType : timers[h][t][v] > 0

\* A migration that is asked for is the only one, from the only host that may
\* have the VM, and no earlier one is under way.
Moving(v) ==
    \A t, s \in Host : migrationRequests[t][s][v] > 0 =>
      /\ migrationRequests[t][s][v] = 1 /\ s # t
      /\ \A u, r \in Host : migrationRequests[u][r][v] > 0 => u = t /\ r = s
      /\ \A g \in Host :
           /\ timers[g]["VMStarted"][v] = 0
           /\ timers[g]["MigrationReleaseRequest"][v] = 0
           /\ g # s => /\ v \notin hostPool[g].allocations
                       /\ timers[g]["VMDeleted"][v] = 0

Leaving(v, h) ==
    timers[h]["MigrationReleaseRequest"][v] > 0 \/ timers[h]["VMDeleted"][v] > 0

Apart(v) ==
    \A g, h \in Host :
      g # h /\ v \in hostPool[g].allocations /\ v \in hostPool[h].allocations
        => Leaving(v, g) \/ Leaving(v, h)

\* Until its lifetime is over, a VM that was created is to stay on some host.
Staying(v) ==
    /\ v \notin lifetimeOver
    /\ \E h \in Host : \/ timers[h]["VMStarted"][v] > 0
                       \/ timers[h]["AllocationReleaseRequest"][v] > 0
    => \E h \in Host : v \in hostPool[h].allocations /\ ~ Leaving(v, h)

KeptWell(v) == Moving(v) /\ Apart(v) /\ Staying(v)

MigrationInv ==
    /\ MigrationTypeOK
    /\ \A v \in Vm : CreatedOnce(v) /\ Guarded(v)
    /\ orderly => \A v \in Vm : KeptWell(v)
    /\ HostBooksBalanced

-----------------------------------------------------------------------------
(* What a timer's handler and a request leave of the counts.               *)

LEMMA TimersAfter ==
    ASSUME TypeOK, NEW h \in Host, NEW t \in TimerType, NEW u \in TimerType,
           NEW v \in Vm
    PROVE  /\ SetTimer(h, t, v) =>
                \A g \in Host, x \in TimerType, w \in Vm : timers'[g][x][w] =
                  IF g = h /\ x = t /\ w = v THEN timers[g][x][w] + 1
                                             ELSE timers[g][x][w]
           /\ TimerFires(h, t, v) =>
                \A g \in Host, x \in TimerType, w \in Vm : timers'[g][x][w] =
                  IF g = h /\ x = t /\ w = v THEN timers[g][x][w] - 1
                                             ELSE timers[g][x][w]
           /\ t # u /\ TimerFiresAndSets(h, t, u, v) =>
                \A g \in Host, x \in TimerType, w \in Vm : timers'[g][x][w] =
                  IF g = h /\ x = t /\ w = v THEN timers[g][x][w] - 1
                  ELSE IF g = h /\ x = u /\ w = v THEN timers[g][x][w] + 1
                  ELSE timers[g][x][w]
  <1>1. timers \in [Host -> [TimerType -> [Vm -> Nat]]]
    BY DEF TypeOK, EventsTypeOK
  <1>2. SetTimer(h, t, v) =>
          \A g \in Host, x \in TimerType, w \in Vm : timers'[g][x][w] =
            IF g = h /\ x = t /\ w = v THEN timers[g][x][w] + 1 ELSE timers[g][x][w]
    BY <1>1 DEF SetTimer
  <1>3. TimerFires(h, t, v) =>
          \A g \in Host, x \in TimerType, w \in Vm : timers'[g][x][w] =
            IF g = h /\ x = t /\ w = v THEN timers[g][x][w] - 1 ELSE timers[g][x][w]
    BY <1>1 DEF TimerFires
  <1>4. t # u /\ TimerFiresAndSets(h, t, u, v) =>
          \A g \in Host, x \in TimerType, w \in Vm : timers'[g][x][w] =
            IF g = h /\ x = t /\ w = v THEN timers[g][x][w] - 1
            ELSE IF g = h /\ x = u /\ w = v THEN timers[g][x][w] + 1
            ELSE timers[g][x][w]
    BY <1>1 DEF TimerFiresAndSets
  <1> QED BY <1>2, <1>3, <1>4

-----------------------------------------------------------------------------
(* What a step may change of one VM.                                       *)

\* The step is not about VM v, or changes nothing at the hosts.
LeftAlone(v) ==
    /\ \A h \in Host :
         /\ v \in hostPool'[h].allocations <=> v \in hostPool[h].allocations
         /\ \A t \in TimerType : timers'[h][t][v] = timers[h][t][v]
         /\ \A g \in Host : migrationRequests'[h][g][v] = migrationRequests[h][g][v]
    /\ ranOn'[v] = ranOn[v]
    /\ v \in lifetimeOver => v \in lifetimeOver'

LEMMA LeftAloneKept ==
    ASSUME NEW v \in Vm, LeftAlone(v)
    PROVE  /\ Guarded(v) => Guarded(v)'
           /\ KeptWell(v) => KeptWell(v)'
           /\ Fresh(v) => Fresh(v)'
  <1> USE DEF LeftAlone
  <1>1. Guarded(v) => Guarded(v)'
    BY DEF Guarded
  <1>2. Fresh(v) => Fresh(v)'
    BY DEF Fresh
  <1>3. \A h \in Host : /\ timers'[h]["VMStarted"][v] = timers[h]["VMStarted"][v]
                        /\ timers'[h]["VMDeleted"][v] = timers[h]["VMDeleted"][v]
                        /\ timers'[h]["MigrationReleaseRequest"][v]
                             = timers[h]["MigrationReleaseRequest"][v]
                        /\ timers'[h]["AllocationReleaseRequest"][v]
                             = timers[h]["AllocationReleaseRequest"][v]
    BY DEF TimerType, ReleaseType
  <1>4. Moving(v) => Moving(v)'
    <2> SUFFICES ASSUME Moving(v), NEW t \in Host, NEW s \in Host,
                        migrationRequests'[t][s][v] > 0
                 PROVE  /\ migrationRequests'[t][s][v] = 1 /\ s # t
                        /\ \A u, r \in Host :
                             migrationRequests'[u][r][v] > 0 => u = t /\ r = s
                        /\ \A g \in Host :
                             /\ timers'[g]["VMStarted"][v] = 0
                             /\ timers'[g]["MigrationReleaseRequest"][v] = 0
                             /\ g # s => /\ v \notin hostPool'[g].allocations
                                         /\ timers'[g]["VMDeleted"][v] = 0
      BY DEF Moving
    <2>1. \A u, r \in Host : migrationRequests'[u][r][v] = migrationRequests[u][r][v]
      OBVIOUS
    <2>2. migrationRequests[t][s][v] > 0
      BY <2>1
    <2>3. /\ migrationRequests[t][s][v] = 1 /\ s # t
          /\ \A u, r \in Host : migrationRequests[u][r][v] > 0 => u = t /\ r = s
      BY <2>2 DEF Moving
    <2>4. \A g \in Host :
            /\ timers[g]["VMStarted"][v] = 0
            /\ timers[g]["MigrationReleaseRequest"][v] = 0
            /\ g # s => v \notin hostPool[g].allocations /\ timers[g]["VMDeleted"][v] = 0
      BY <2>2 DEF Moving
    <2>5. /\ migrationRequests'[t][s][v] = 1 /\ s # t
          /\ \A u, r \in Host : migrationRequests'[u][r][v] > 0 => u = t /\ r = s
      BY <2>1, <2>3
    <2>6. \A g \in Host :
            /\ timers'[g]["VMStarted"][v] = 0
            /\ timers'[g]["MigrationReleaseRequest"][v] = 0
            /\ g # s => v \notin hostPool'[g].allocations /\ timers'[g]["VMDeleted"][v] = 0
      BY <1>3, <2>4
    <2> QED BY <2>5, <2>6
  <1>5. \A h \in Host : Leaving(v, h)' <=> Leaving(v, h)
    BY <1>3 DEF Leaving
  <1>6. Apart(v) => Apart(v)'
    BY <1>5 DEF Apart
  <1>7. Staying(v) => Staying(v)'
    BY <1>3, <1>5 DEF Staying
  <1> QED BY <1>1, <1>2, <1>4, <1>6, <1>7 DEF KeptWell

\* The handlers of host h for VM v: what they do to the VM there.
LEMMA CreatedKept ==
    ASSUME TypeOK, NEW h \in Host, NEW v \in Vm, Fresh(v), SetTimer(h, "VMStarted", v),
           \A g \in Host : v \in hostPool'[g].allocations
                             <=> v \in hostPool[g].allocations \/ g = h,
           UNCHANGED migrationRequests
    PROVE  Guarded(v)' /\ KeptWell(v)'
  <1>1. \A g \in Host, x \in TimerType : timers'[g][x][v] =
          IF g = h /\ x = "VMStarted" THEN 1 ELSE 0
    <2>1. \A g \in Host, x \in TimerType : timers'[g][x][v] =
            IF g = h /\ x = "VMStarted" THEN timers[g][x][v] + 1 ELSE timers[g][x][v]
      BY TimersAfter DEF TimerType
    <2> QED BY <2>1 DEF Fresh
  <1>2. /\ \A g \in Host : v \in hostPool'[g].allocations => g = h
        /\ v \in hostPool'[h].allocations
    BY DEF Fresh
  <1>3. Guarded(v)'
    BY <1>1, <1>2 DEF Guarded, TimerType
  <1>4. \A g, r \in Host : migrationRequests'[g][r][v] = 0
    BY DEF Fresh
  <1>5. \A g \in Host : ~ Leaving(v, g)'
    BY <1>1 DEF Leaving, TimerType, ReleaseType
  <1>6. Moving(v)'
    BY <1>4 DEF Moving
  <1>7. Apart(v)'
    BY <1>2 DEF Apart
  <1>8. Staying(v)'
    BY <1>2, <1>5 DEF Staying
  <1> QED BY <1>3, <1>6, <1>7, <1>8 DEF KeptWell

LEMMA StartedKept ==
    ASSUME TypeOK, NEW h \in Host, NEW v \in Vm,
           TimerFiresAndSets(h, "VMStarted", "AllocationReleaseRequest", v),
           UNCHANGED <<hostPool, migrationRequests, lifetimeOver>>
    PROVE  /\ Guarded(v) => Guarded(v)'
           /\ KeptWell(v) => KeptWell(v)'
  <1>1. \A g \in Host, x \in TimerType : timers'[g][x][v] =
          IF g = h /\ x = "VMStarted" THEN timers[g][x][v] - 1
          ELSE IF g = h /\ x = "AllocationReleaseRequest" THEN timers[g][x][v] + 1
          ELSE timers[g][x][v]
    BY TimersAfter DEF TimerType, ReleaseType
  <1>2. timers[h]["VMStarted"][v] > 0
    BY DEF TimerFiresAndSets
  <1>3. \A g \in Host, x \in TimerType : timers[g][x][v] \in Nat
    BY DEF TypeOK, EventsTypeOK
  <1>4. Guarded(v) => Guarded(v)'
    <2> SUFFICES ASSUME Guarded(v), NEW g \in Host, v \in hostPool[g].allocations
                 PROVE  \E t \in TimerType : timers'[g][t][v] > 0
      BY DEF Guarded
    <2>1. CASE g = h
      <3>1. timers'[h]["AllocationReleaseRequest"][v]
              = timers[h]["AllocationReleaseRequest"][v] + 1
        BY <1>1 DEF TimerType, ReleaseType
      <3>2. timers[h]["AllocationReleaseRequest"][v] \in Nat
        BY <1>3 DEF TimerType, ReleaseType
      <3>3. timers'[h]["AllocationReleaseRequest"][v] > 0
        BY <3>1, <3>2
      <3> QED BY <2>1, <3>3 DEF TimerType, ReleaseType
    <2>2. CASE g # h
      <3>1. \A t \in TimerType : timers'[g][t][v] = timers[g][t][v]
        BY <1>1, <2>2
      <3> QED BY <3>1 DEF Guarded
    <2> QED BY <2>1, <2>2
  <1>5. \A g \in Host : Leaving(v, g)' <=> Leaving(v, g)
    BY <1>1 DEF Leaving, TimerType, ReleaseType
  <1>6. KeptWell(v) => Moving(v)'
    <2>1. Moving(v) => \A t, s \in Host : ~ (migrationRequests[t][s][v] > 0)
      BY <1>2 DEF Moving
    <2> QED BY <2>1 DEF Moving, KeptWell
  <1>7. Apart(v) => Apart(v)'
    BY <1>5 DEF Apart
  <1>8. Staying(v) => Staying(v)'
    BY <1>2, <1>5 DEF Staying
  <1> QED BY <1>4, <1>6, <1>7, <1>8 DEF KeptWell

LEMMA ReleaseAskedKept ==
    ASSUME TypeOK, NEW h \in Host, NEW v \in Vm, NEW t \in ReleaseType,
           v \in hostPool[h].allocations, TimerFiresAndSets(h, t, "VMDeleted", v),
           t = "AllocationReleaseRequest" => v \in lifetimeOver,
           UNCHANGED <<hostPool, migrationRequests, lifetimeOver>>
    PROVE  /\ Guarded(v) => Guarded(v)'
           /\ KeptWell(v) => KeptWell(v)'
  <1>1. \A g \in Host, x \in TimerType : timers'[g][x][v] =
          IF g = h /\ x = t THEN timers[g][x][v] - 1
          ELSE IF g = h /\ x = "VMDeleted" THEN timers[g][x][v] + 1
          ELSE timers[g][x][v]
    BY TimersAfter DEF TimerType, ReleaseType
  <1>2. timers[h][t][v] > 0
    BY DEF TimerFiresAndSets
  <1>3. \A g \in Host, x \in TimerType : timers[g][x][v] \in Nat
    BY DEF TypeOK, EventsTypeOK
  <1>4. timers'[h]["VMDeleted"][v] > 0
    <2>1. timers'[h]["VMDeleted"][v] = timers[h]["VMDeleted"][v] + 1
      BY <1>1 DEF TimerType, ReleaseType
    <2>2. timers[h]["VMDeleted"][v] \in Nat
      BY <1>3 DEF TimerType
    <2> QED BY <2>1, <2>2
  <1>5. \A g \in Host \ {h}, x \in TimerType : timers'[g][x][v] = timers[g][x][v]
    BY <1>1
  <1>6. Guarded(v) => Guarded(v)'
    <2> SUFFICES ASSUME Guarded(v), NEW g \in Host, v \in hostPool[g].allocations
                 PROVE  \E x \in TimerType : timers'[g][x][v] > 0
      BY DEF Guarded
    <2>1. CASE g = h
      BY <1>4, <2>1 DEF TimerType
    <2>2. CASE g # h
      BY <1>5, <2>2 DEF Guarded
    <2> QED BY <2>1, <2>2
  <1>7. /\ Leaving(v, h)'
        /\ \A g \in Host \ {h} : Leaving(v, g)' <=> Leaving(v, g)
    BY <1>4, <1>5 DEF Leaving, TimerType, ReleaseType
  <1>8. Apart(v) => Apart(v)'
    BY <1>7 DEF Apart
  <1>9. \A g \in Host : /\ timers'[g]["VMStarted"][v] = timers[g]["VMStarted"][v]
                        /\ timers'[g]["AllocationReleaseRequest"][v] > 0
                             => timers[g]["AllocationReleaseRequest"][v] > 0
    <2>1. \A g \in Host : timers'[g]["VMStarted"][v] = timers[g]["VMStarted"][v]
      BY <1>1 DEF TimerType, ReleaseType
    <2>2. ASSUME NEW g \in Host, timers'[g]["AllocationReleaseRequest"][v] > 0
          PROVE  timers[g]["AllocationReleaseRequest"][v] > 0
      <3>1. timers'[g]["AllocationReleaseRequest"][v]
              = IF g = h /\ "AllocationReleaseRequest" = t
                THEN timers[g]["AllocationReleaseRequest"][v] - 1
                ELSE timers[g]["AllocationReleaseRequest"][v]
        BY <1>1 DEF TimerType, ReleaseType
      <3>2. timers[g]["AllocationReleaseRequest"][v] \in Nat
        BY <1>3 DEF TimerType, ReleaseType
      <3> QED BY <2>2, <3>1, <3>2
    <2> QED BY <2>1, <2>2
  <1>10. KeptWell(v) => Staying(v)'
    <2>1. CASE t = "AllocationReleaseRequest"
      BY <2>1 DEF Staying
    <2>2. CASE t = "MigrationReleaseRequest"
      <3>1. Leaving(v, h)
        BY <1>2, <2>2 DEF Leaving
      <3> QED BY <1>7, <1>9, <3>1 DEF KeptWell, Staying
    <2> QED BY <2>1, <2>2 DEF ReleaseType
  <1>11. KeptWell(v) => Moving(v)'
    <2>1. CASE t = "MigrationReleaseRequest"
      <3>1. Moving(v) => \A u, s \in Host : ~ (migrationRequests[u][s][v] > 0)
        BY <1>2, <2>1 DEF Moving
      <3> QED BY <3>1 DEF Moving, KeptWell
    <2>2. CASE t = "AllocationReleaseRequest"
      <3>1. \A g \in Host :
              /\ timers'[g]["VMStarted"][v] = timers[g]["VMStarted"][v]
              /\ timers'[g]["MigrationReleaseRequest"][v]
                   = timers[g]["MigrationReleaseRequest"][v]
              /\ g # h => timers'[g]["VMDeleted"][v] = timers[g]["VMDeleted"][v]
        BY <1>1, <2>2 DEF TimerType, ReleaseType
      <3> QED BY <3>1 DEF KeptWell, Moving
    <2> QED BY <2>1, <2>2 DEF ReleaseType
  <1> QED BY <1>6, <1>8, <1>10, <1>11 DEF KeptWell

\* A timer that finds the VM gone, or deletes it.
LEMMA LastTimerKept ==
    ASSUME TypeOK, NEW h \in Host, NEW v \in Vm, NEW t \in TimerType,
           t # "VMStarted", TimerFires(h, t, v),
           v \in hostPool[h].allocations => t = "VMDeleted",
           v \notin hostPool'[h].allocations,
           \A g \in Host \ {h} : v \in hostPool'[g].allocations
                                   <=> v \in hostPool[g].allocations,
           UNCHANGED <<migrationRequests, lifetimeOver>>
    PROVE  /\ Guarded(v) => Guarded(v)'
           /\ KeptWell(v) => KeptWell(v)'
  <1>1. \A g \in Host, x \in TimerType : timers'[g][x][v] =
          IF g = h /\ x = t THEN timers[g][x][v] - 1 ELSE timers[g][x][v]
    BY TimersAfter
  <1>2. timers[h][t][v] > 0
    BY DEF TimerFires
  <1>3. \A g \in Host, x \in TimerType : timers[g][x][v] \in Nat /\ timers'[g][x][v] \in Nat
    <2>1. \A g \in Host, x \in TimerType : timers[g][x][v] \in Nat
      BY DEF TypeOK, EventsTypeOK
    <2> QED BY <1>1, <1>2, <2>1
  <1>4. \A g \in Host \ {h}, x \in TimerType : timers'[g][x][v] = timers[g][x][v]
    BY <1>1
  <1>5. Guarded(v) => Guarded(v)'
    BY <1>4 DEF Guarded
  <1>6. \A g \in Host \ {h} : Leaving(v, g)' <=> Leaving(v, g)
    BY <1>4 DEF Leaving, TimerType, ReleaseType
  <1>7. Apart(v) => Apart(v)'
    BY <1>6 DEF Apart
  <1>8. \A g \in Host, x \in TimerType : timers'[g][x][v] > 0 => timers[g][x][v] > 0
    BY <1>1, <1>3
  <1>9. v \in hostPool[h].allocations => Leaving(v, h)
    BY <1>2 DEF Leaving
  <1>10. Staying(v) => Staying(v)'
    <2>1. (\E g \in Host : \/ timers'[g]["VMStarted"][v] > 0
                           \/ timers'[g]["AllocationReleaseRequest"][v] > 0)
          => \E g \in Host : \/ timers[g]["VMStarted"][v] > 0
                             \/ timers[g]["AllocationReleaseRequest"][v] > 0
      BY <1>8 DEF TimerType, ReleaseType
    <2> QED BY <1>6, <1>9, <2>1 DEF Staying
  <1>11. \A g \in Host, x \in TimerType : timers[g][x][v] = 0 => timers'[g][x][v] = 0
    BY <1>1, <1>2, <1>3
  <1>12. Moving(v) => Moving(v)'
    <2>1. \A g \in Host :
            /\ timers[g]["VMStarted"][v] = 0 => timers'[g]["VMStarted"][v] = 0
            /\ timers[g]["VMDeleted"][v] = 0 => timers'[g]["VMDeleted"][v] = 0
            /\ timers[g]["MigrationReleaseRequest"][v] = 0
                 => timers'[g]["MigrationReleaseRequest"][v] = 0
      BY <1>11 DEF TimerType, ReleaseType
    <2>2. \A g \in Host : v \in hostPool'[g].allocations => v \in hostPool[g].allocations
      OBVIOUS
    <2> QED BY <2>1, <2>2 DEF Moving
  <1> QED BY <1>5, <1>7, <1>10, <1>12 DEF KeptWell

-----------------------------------------------------------------------------
(* Migration requests.                                                     *)

LEMMA RequestTaken ==
    ASSUME MigrationTypeOK, NEW t \in Host, NEW s \in Host, NEW v \in Vm,
           TakeMigrationRequest(t, s, v)
    PROVE  /\ migrationRequests' \in [Host -> [Host -> [Vm -> Nat]]]
           /\ \A u, r \in Host, w \in Vm : migrationRequests'[u][r][w] =
                IF u = t /\ r = s /\ w = v THEN migrationRequests[u][r][w] - 1
                                           ELSE migrationRequests[u][r][w]
  <1>1. /\ migrationRequests \in [Host -> [Host -> [Vm -> Nat]]]
        /\ migrationRequests[t][s][v] \in Nat /\ migrationRequests[t][s][v] > 0
        /\ migrationRequests' = [migrationRequests EXCEPT ![t][s][v] = @ - 1]
    BY DEF MigrationTypeOK, TakeMigrationRequest
  <1> DEFINE n == migrationRequests[t][s][v] - 1
  <1>2. n \in Nat /\ migrationRequests' = [migrationRequests EXCEPT ![t][s][v] = n]
    <2>1. n \in Nat
      BY <1>1
    <2> QED BY <1>1, <2>1
  <1>3. \A u, r \in Host, w \in Vm : migrationRequests'[u][r][w] =
          IF u = t /\ r = s /\ w = v THEN n ELSE migrationRequests[u][r][w]
    BY <1>1, <1>2
  <1> HIDE DEF n
  <1>4. migrationRequests' \in [Host -> [Host -> [Vm -> Nat]]]
    BY <1>1, <1>2
  <1> QED BY <1>3, <1>4 DEF n

LEMMA RefusedKept ==
    ASSUME MigrationTypeOK, NEW t \in Host, NEW s \in Host, NEW v \in Vm,
           TakeMigrationRequest(t, s, v),
           UNCHANGED <<hostPool, timers, lifetimeOver>>
    PROVE  /\ Guarded(v) => Guarded(v)'
           /\ KeptWell(v) => KeptWell(v)'
  <1>1. \A u, r \in Host : migrationRequests'[u][r][v] =
          IF u = t /\ r = s THEN migrationRequests[u][r][v] - 1
                            ELSE migrationRequests[u][r][v]
    BY RequestTaken
  <1>2. migrationRequests[t][s][v] > 0
    BY DEF TakeMigrationRequest
  <1>3. Moving(v) => \A u, r \in Host : ~ (migrationRequests'[u][r][v] > 0)
    <2> SUFFICES ASSUME Moving(v), NEW u \in Host, NEW r \in Host
                 PROVE  ~ (migrationRequests'[u][r][v] > 0)
      OBVIOUS
    <2>1. migrationRequests[t][s][v] = 1
      BY <1>2 DEF Moving
    <2>2. migrationRequests[u][r][v] > 0 => u = t /\ r = s
      BY <1>2 DEF Moving
    <2> QED BY <1>1, <2>1, <2>2
  <1>4. Moving(v) => Moving(v)'
    BY <1>3 DEF Moving
  <1>5. /\ Guarded(v) => Guarded(v)'
        /\ Apart(v) => Apart(v)'
        /\ Staying(v) => Staying(v)'
    BY DEF Guarded, Apart, Staying, Leaving
  <1> QED BY <1>4, <1>5 DEF KeptWell

LEMMA MigrationTimers ==
    ASSUME TypeOK, NEW t \in Host, NEW s \in Host, NEW v \in Vm,
           SetMigrationTimers(t, s, v)
    PROVE  /\ timers' \in [Host -> [TimerType -> [Vm -> Nat]]]
           /\ \A g \in Host, x \in TimerType, w \in Vm : timers'[g][x][w] =
                IF /\ w = v
                   /\ \/ g = t /\ x = "VMStarted"
                      \/ g = s /\ x = "MigrationReleaseRequest"
                THEN timers[g][x][w] + 1 ELSE timers[g][x][w]
  <1>1. /\ timers \in [Host -> [TimerType -> [Vm -> Nat]]]
        /\ {"VMStarted", "MigrationReleaseRequest"} \subseteq TimerType
    BY DEF TypeOK, EventsTypeOK, TimerType, ReleaseType
  <1> DEFINE one == [timers EXCEPT ![t]["VMStarted"][v] = @ + 1]
  <1>2. /\ one \in [Host -> [TimerType -> [Vm -> Nat]]]
        /\ \A g \in Host, x \in TimerType, w \in Vm : one[g][x][w] =
             IF g = t /\ x = "VMStarted" /\ w = v THEN timers[g][x][w] + 1
                                                  ELSE timers[g][x][w]
    BY <1>1
  <1>3. timers' = [one EXCEPT ![s]["MigrationReleaseRequest"][v] = @ + 1]
    BY DEF SetMigrationTimers
  <1> HIDE DEF one
  <1>4. /\ timers' \in [Host -> [TimerType -> [Vm -> Nat]]]
        /\ \A g \in Host, x \in TimerType, w \in Vm : timers'[g][x][w] =
             IF g = s /\ x = "MigrationReleaseRequest" /\ w = v
             THEN one[g][x][w] + 1 ELSE one[g][x][w]
    BY <1>1, <1>2, <1>3
  <1>5. ASSUME NEW g \in Host, NEW x \in TimerType, NEW w \in Vm
        PROVE  timers'[g][x][w] =
                 IF /\ w = v
                    /\ \/ g = t /\ x = "VMStarted"
                       \/ g = s /\ x = "MigrationReleaseRequest"
                 THEN timers[g][x][w] + 1 ELSE timers[g][x][w]
    BY <1>2, <1>4
  <1> QED BY <1>4, <1>5

LEMMA AcceptedKept ==
    ASSUME MigrationTypeOK, NEW t \in Host, NEW s \in Host, NEW v \in Vm,
           TakeMigrationRequest(t, s, v), SetMigrationTimers(t, s, v),
           \A g \in Host : v \in hostPool'[g].allocations
                             <=> v \in hostPool[g].allocations \/ g = t,
           UNCHANGED lifetimeOver
    PROVE  /\ Guarded(v) => Guarded(v)'
           /\ KeptWell(v) => KeptWell(v)'
  <1>1. \A g \in Host, x \in TimerType : timers'[g][x][v] =
          IF \/ g = t /\ x = "VMStarted"
             \/ g = s /\ x = "MigrationReleaseRequest"
          THEN timers[g][x][v] + 1 ELSE timers[g][x][v]
    BY MigrationTimers DEF MigrationTypeOK
  <1>2. migrationRequests[t][s][v] > 0
    BY DEF TakeMigrationRequest
  <1>3. \A g \in Host, x \in TimerType :
          /\ timers[g][x][v] \in Nat
          /\ timers[g][x][v] > 0 => timers'[g][x][v] > 0
    <2>1. \A g \in Host, x \in TimerType : timers[g][x][v] \in Nat
      BY DEF MigrationTypeOK, TypeOK, EventsTypeOK
    <2> QED BY <1>1, <2>1
  <1>4. timers'[t]["VMStarted"][v] > 0 /\ timers'[s]["MigrationReleaseRequest"][v] > 0
    <2>1. {"VMStarted", "MigrationReleaseRequest"} \subseteq TimerType
      BY DEF TimerType, ReleaseType
    <2>2. /\ timers'[t]["VMStarted"][v] = timers[t]["VMStarted"][v] + 1
          /\ timers[t]["VMStarted"][v] \in Nat
      BY <1>1, <1>3, <2>1
    <2>3. /\ timers'[s]["MigrationReleaseRequest"][v]
               = timers[s]["MigrationReleaseRequest"][v] + 1
          /\ timers[s]["MigrationReleaseRequest"][v] \in Nat
      BY <1>1, <1>3, <2>1
    <2> QED BY <2>2, <2>3
  <1>5. Guarded(v) => Guarded(v)'
    BY <1>3, <1>4 DEF Guarded, TimerType
  <1> SUFFICES ASSUME KeptWell(v) PROVE KeptWell(v)'
    BY <1>5
  <1>7. /\ migrationRequests[t][s][v] = 1 /\ s # t
        /\ \A u, r \in Host : migrationRequests[u][r][v] > 0 => u = t /\ r = s
        /\ \A g \in Host \ {s} : /\ v \notin hostPool[g].allocations
                                 /\ timers[g]["VMDeleted"][v] = 0
        /\ timers[t]["MigrationReleaseRequest"][v] = 0
    <2>1. Moving(v)
      BY DEF KeptWell
    <2>2. /\ migrationRequests[t][s][v] = 1 /\ s # t
          /\ \A u, r \in Host : migrationRequests[u][r][v] > 0 => u = t /\ r = s
      BY <1>2, <2>1 DEF Moving
    <2>3. \A g \in Host :
            /\ timers[g]["MigrationReleaseRequest"][v] = 0
            /\ g # s => v \notin hostPool[g].allocations /\ timers[g]["VMDeleted"][v] = 0
      BY <1>2, <2>1 DEF Moving
    <2> QED BY <2>2, <2>3
  <1>8. Moving(v)'
    <2>1. \A u, r \in Host : migrationRequests'[u][r][v] =
            IF u = t /\ r = s THEN migrationRequests[u][r][v] - 1
                              ELSE migrationRequests[u][r][v]
      BY RequestTaken
    <2>2. \A u, r \in Host : ~ (migrationRequests'[u][r][v] > 0)
      BY <1>7, <2>1
    <2> QED BY <2>2 DEF Moving
  <1>9. Apart(v)'
    BY <1>4, <1>7 DEF Apart, Leaving
  <1>10. Staying(v)'
    <2>1. ~ Leaving(v, t)'
      <3>1. /\ timers'[t]["MigrationReleaseRequest"][v]
                 = timers[t]["MigrationReleaseRequest"][v]
            /\ timers'[t]["VMDeleted"][v] = timers[t]["VMDeleted"][v]
        BY <1>1, <1>7 DEF TimerType, ReleaseType
      <3> QED BY <1>7, <3>1 DEF Leaving
    <2> QED BY <2>1 DEF Staying
  <1> QED BY <1>8, <1>9, <1>10 DEF KeptWell

\* A migration of a VM at rest is asked for.
LEMMA AskedKept ==
    ASSUME MigrationTypeOK, NEW t \in Host, NEW s \in Host, NEW v \in Vm, s # t,
           AtRest(v, s), KeptWell(v),
           \A u, r \in Host : migrationRequests'[u][r][v] =
             migrationRequests[u][r][v] + IF u = t /\ r = s THEN 1 ELSE 0,
           UNCHANGED <<hostPool, timers, lifetimeOver>>
    PROVE  KeptWell(v)'
  <1>1. /\ v \in hostPool[s].allocations
        /\ \A u, r \in Host : migrationRequests[u][r][v] = 0
        /\ \A g \in Host, x \in TimerType \ {"AllocationReleaseRequest"} :
             ~ (timers[g][x][v] > 0)
    BY DEF AtRest, TimersOf
  <1>2. \A u, r \in Host : /\ migrationRequests'[u][r][v] > 0 => u = t /\ r = s
                           /\ u = t /\ r = s => migrationRequests'[u][r][v] = 1
    BY <1>1
  <1>3. \A g \in Host, x \in TimerType \ {"AllocationReleaseRequest"} : timers[g][x][v] = 0
    <2>1. \A g \in Host, x \in TimerType : timers[g][x][v] \in Nat
      BY DEF MigrationTypeOK, TypeOK, EventsTypeOK
    <2> QED BY <1>1, <2>1
  <1>4. \A g \in Host : /\ timers[g]["VMStarted"][v] = 0
                        /\ timers[g]["VMDeleted"][v] = 0
                        /\ timers[g]["MigrationReleaseRequest"][v] = 0
    BY <1>3 DEF TimerType, ReleaseType
  <1>5. \A g \in Host : ~ Leaving(v, g)
    BY <1>4 DEF Leaving
  <1>6. \A g \in Host \ {s} : v \notin hostPool[g].allocations
    BY <1>1, <1>5 DEF KeptWell, Apart
  <1>7. Moving(v)'
    BY <1>2, <1>4, <1>6 DEF Moving
  <1>8. Apart(v)' /\ Staying(v)'
    BY DEF KeptWell, Apart, Staying, Leaving
  <1> QED BY <1>7, <1>8 DEF KeptWell

-----------------------------------------------------------------------------
(* A VM is created once: one component at a time takes it to a host.       *)

\* After the step one component at most has the VM, and only if one had it.
StillOne(v) == OneWaiter(v)' /\ (Waits(v)' => Waits(v))

LEMMA NothingWaits ==
    ASSUME NEW v \in Vm, OneWaiter(v), UNCHANGED <<requests, commitRequests, creating>>,
           (v \in Registered)' <=> v \in Registered
    PROVE  StillOne(v)
  <1>1. /\ Requested(v)' = Requested(v) /\ Committing(v)' = Committing(v)
        /\ Creating(v)' = Creating(v)
    BY DEF Requested, Committing, Creating
  <1> QED BY <1>1 DEF StillOne, OneWaiter, Waits

LEMMA SpawnVmsOne ==
    ASSUME TypeOK, NEW s \in Sched, NEW b \in Batch, SpawnVms(s, b),
           NEW v \in Vm, OneWaiter(v)
    PROVE  StillOne(v)
  <1>1. requests' = [requests EXCEPT ![s] = @ \cup {b}]
        /\ UNCHANGED <<commitRequests, creating>>
    BY DEF SpawnVms
  <1>2. Committing(v)' = Committing(v) /\ Creating(v)' = Creating(v)
    BY <1>1 DEF Committing, Creating
  <1>3. CASE v \in b
    <2>1. v \notin Registered /\ (v \in Registered)'
      BY <1>3 DEF SpawnVms, RegisterNewVms, Registered
    <2>2. Requested(v)' \subseteq Requested(v) \cup {<<s, b>>}
      BY <1>1 DEF Requested, TypeOK, EventsTypeOK
    <2> QED BY <1>2, <2>1, <2>2 DEF StillOne, OneWaiter, Waits
  <1>4. CASE v \notin b
    <2>1. (v \in Registered)' <=> v \in Registered
      BY <1>4 DEF SpawnVms, RegisterNewVms, Registered
    <2>2. Requested(v)' = Requested(v)
      BY <1>1, <1>4 DEF Requested, TypeOK, EventsTypeOK
    <2> QED BY <1>2, <2>1, <2>2 DEF StillOne, OneWaiter, Waits
  <1> QED BY <1>3, <1>4

LEMMA SpawnVmOnHostOne ==
    ASSUME TypeOK, NEW u \in DirectVm, NEW h \in Host, SpawnVmOnHost(u, h),
           NEW v \in Vm, OneWaiter(v)
    PROVE  StillOne(v)
  <1> DEFINE p == [w \in {u} |-> h]
  <1>1. Requested(v)' = Requested(v) /\ Committing(v)' = Committing(v)
    BY DEF SpawnVmOnHost, DirectCommit, Requested, Committing
  <1>2. /\ v = u => v \notin Registered /\ (v \in Registered)'
        /\ v # u => ((v \in Registered)' <=> v \in Registered)
    BY DEF SpawnVmOnHost, RegisterNewVms, Registered
  <1>3. /\ v = u => Creating(v)' \subseteq Creating(v) \cup {h}
        /\ v # u => Creating(v)' = Creating(v)
    <2>1. CASE Commit(p)
      <3>1. \A g \in Host : PlacedOn(p, g) = IF g = h THEN {u} ELSE {}
        BY Zenon DEF PlacedOn
      <3>2. \A g \in Host : creating'[g] = creating[g] \cup PlacedOn(p, g)
        BY <2>1 DEF Commit
      <3> QED BY <3>1, <3>2 DEF Creating
    <2>2. CASE UNCHANGED creating
      BY <2>2 DEF Creating
    <2> QED BY <2>1, <2>2 DEF SpawnVmOnHost, DirectCommit
  <1> QED BY <1>1, <1>2, <1>3 DEF StillOne, OneWaiter, Waits

LEMMA SchedulerStepOne ==
    ASSUME TypeOK, NEW s \in Sched, SchedulerStep(s), NEW v \in Vm, OneWaiter(v)
    PROVE  StillOne(v)
  <1>1. (v \in Registered)' <=> v \in Registered
    BY DEF SchedulerStep, Registered
  <1>2. ASSUME NEW b \in Batch, TimeOutRequest(s, b)
        PROVE  StillOne(v)
    <2>1. /\ requests' = [requests EXCEPT ![s] = @ \ {b}]
          /\ UNCHANGED <<commitRequests, creating>>
      BY <1>2 DEF TimeOutRequest
    <2>2. /\ Requested(v)' \subseteq Requested(v) /\ Committing(v)' = Committing(v)
          /\ Creating(v)' = Creating(v)
      BY <2>1 DEF Requested, Committing, Creating, TypeOK, EventsTypeOK
    <2> QED BY <1>1, <2>2 DEF StillOne, OneWaiter, Waits
  <1>3. ASSUME NEW b \in Batch, PlaceRequest(s, b)
        PROVE  StillOne(v)
    <2>1. PICK p \in [b -> Host] :
            commitRequests' = commitRequests \cup {[placement |-> p, from |-> s]}
      BY <1>3 DEF PlaceRequest
    <2>2. /\ b \in requests[s]
          /\ requests' = [requests EXCEPT ![s] = @ \ {b}]
          /\ UNCHANGED creating
      BY <1>3 DEF PlaceRequest, RequestDelivered
    <2> DEFINE m == [placement |-> p, from |-> s]
    <2>3. DOMAIN m.placement = b /\ commitRequests' = commitRequests \cup {m}
      BY <2>1
    <2> HIDE DEF m
    <2>4. Creating(v)' = Creating(v)
      BY <2>2 DEF Creating
    <2>5. CASE v \in b
      <3>1. /\ <<s, b>> \in Requested(v)
            /\ Requested(v)' = Requested(v) \ {<<s, b>>}
        BY <2>2, <2>5 DEF Requested, TypeOK, EventsTypeOK
      <3>2. Committing(v)' = Committing(v) \cup {m}
        BY <2>3, <2>5 DEF Committing
      <3> QED BY <1>1, <2>4, <3>1, <3>2 DEF StillOne, OneWaiter, Waits
    <2>6. CASE v \notin b
      <3>1. Requested(v)' = Requested(v)
        BY <2>2, <2>6 DEF Requested, TypeOK, EventsTypeOK
      <3>2. Committing(v)' = Committing(v)
        BY <2>3, <2>6 DEF Committing
      <3> QED BY <1>1, <2>4, <3>1, <3>2 DEF StillOne, OneWaiter, Waits
    <2> QED BY <2>5, <2>6
  <1>4. ASSUME \/ \E b \in Batch : RetryRequest(s, b)
               \/ OnStoreNotification(s)
        PROVE  StillOne(v)
    BY <1>1, <1>4, NothingWaits DEF RetryRequest, OnStoreNotification, inboxes
  <1> QED BY <1>2, <1>3, <1>4 DEF SchedulerStep, OnAllocationRequest

LEMMA StoreStepOne ==
    ASSUME TypeOK, StoreStep, NEW v \in Vm, OneWaiter(v)
    PROVE  StillOne(v)
  <1>1. (v \in Registered)' <=> v \in Registered
    BY DEF StoreStep, apiVars, Registered
  <1>2. ASSUME NEW m \in commitRequests, OnCommitRequest(m)
        PROVE  StillOne(v)
    <2> DEFINE p == m.placement
    <2>1. /\ p \in Placement /\ DOMAIN p \in Batch /\ m.from \in Sched
          /\ commitRequests' = commitRequests \ {m}
      BY <1>2, PlacementTyped DEF OnCommitRequest, TypeOK, EventsTypeOK, CommitRequest
    <2>2. /\ v \notin DOMAIN p => Committing(v)' = Committing(v)
          /\ v \in DOMAIN p => /\ m \in Committing(v)
                               /\ Committing(v)' = Committing(v) \ {m}
      BY <2>1 DEF Committing
    <2>3. CASE Commit(p) /\ UNCHANGED requests
      <3>1. Requested(v)' = Requested(v)
        BY <2>3 DEF Requested
      <3>2. \A g \in Host : creating'[g] = creating[g] \cup PlacedOn(p, g)
        BY <2>3 DEF Commit
      <3>3. CASE v \in DOMAIN p
        <4>1. Creating(v)' \subseteq Creating(v) \cup {p[v]}
          BY <3>2 DEF Creating, PlacedOn
        <4> QED BY <1>1, <2>2, <3>1, <3>3, <4>1 DEF StillOne, OneWaiter, Waits
      <3>4. CASE v \notin DOMAIN p
        <4>1. Creating(v)' = Creating(v)
          BY <3>2, <3>4 DEF Creating, PlacedOn
        <4> QED BY <1>1, <2>2, <3>1, <3>4, <4>1 DEF StillOne, OneWaiter, Waits
      <3> QED BY <3>3, <3>4
    <2>4. CASE Reject(p, m.from)
      <3>1. /\ requests' = [requests EXCEPT ![m.from] = @ \cup {DOMAIN p}]
            /\ UNCHANGED creating
        BY <2>4 DEF Reject
      <3>2. /\ v \in DOMAIN p =>
                 Requested(v)' \subseteq Requested(v) \cup {<<m.from, DOMAIN p>>}
            /\ v \notin DOMAIN p => Requested(v)' = Requested(v)
        BY <2>1, <3>1 DEF Requested, TypeOK, EventsTypeOK
      <3>3. Creating(v)' = Creating(v)
        BY <3>1 DEF Creating
      <3> QED BY <1>1, <2>2, <3>2, <3>3 DEF StillOne, OneWaiter, Waits
    <2> QED BY <1>2, <2>3, <2>4 DEF OnCommitRequest
  <1>3. ASSUME NEW n \in hostNotices, OnHostNotice(n)
        PROVE  StillOne(v)
    BY <1>1, <1>3, NothingWaits DEF OnHostNotice
  <1> QED BY <1>2, <1>3 DEF StoreStep, OnAllocationFailed, OnAllocationReleased

LEMMA VmStepOne ==
    ASSUME TypeOK, NEW h \in Host, NEW u \in Vm, VmStep(h, u), UNCHANGED apiVars,
           NEW v \in Vm, OneWaiter(v)
    PROVE  /\ StillOne(v)
           /\ OnVmCreateRequest(h, u) /\ u = v => ~ Waits(v)'
  <1>1. /\ (v \in Registered)' <=> v \in Registered
        /\ Requested(v)' = Requested(v) /\ Committing(v)' = Committing(v)
    BY DEF VmStep, OnVmCreateRequest, OnVmStarted, OnAllocationReleaseRequest,
           OnVmDeleted, apiVars, Registered, Requested, Committing
  <1>2. CASE OnVmCreateRequest(h, u)
    <2>1. u \in creating[h] /\ creating' = [creating EXCEPT ![h] = @ \ {u}]
      BY <1>2 DEF OnVmCreateRequest
    <2>2. Creating(v)' = IF v = u THEN Creating(v) \ {h} ELSE Creating(v)
      BY <2>1 DEF Creating, TypeOK, EventsTypeOK
    <2>3. v = u => h \in Creating(v)
      BY <2>1 DEF Creating
    <2> QED BY <1>1, <2>2, <2>3 DEF StillOne, OneWaiter, Waits
  <1>3. CASE ~ OnVmCreateRequest(h, u)
    <2>1. UNCHANGED creating
      BY <1>3 DEF VmStep, OnVmStarted, OnAllocationReleaseRequest, OnVmDeleted
    <2>2. Creating(v)' = Creating(v)
      BY <2>1 DEF Creating
    <2> QED BY <1>1, <1>3, <2>2 DEF StillOne, OneWaiter, Waits
  <1> QED BY <1>2, <1>3

LEMMA OthersOne ==
    ASSUME TypeOK, UserStep \/ (\E s \in Sched : SchedulerStep(s)) \/ StoreStep
                   \/ ApiStep \/ MonitoringStep \/ \E h \in Host : SendHostState(h)
                      /\ UNCHANGED apiVars,
           NEW v \in Vm, OneWaiter(v)
    PROVE  StillOne(v)
  <1>1. ASSUME \/ \E h \in LateHosts : AddHost(h)
               \/ \E s \in Sched : AddScheduler(s)
        PROVE  StillOne(v)
    BY <1>1, NothingWaits DEF AddHost, AddScheduler, inboxes, apiVars, Registered
  <1>2. CASE OnVmStatusChanged
    <2>1. Head(toApi) \in StatusUpdate
      BY <1>2, HeadTailProperties DEF OnVmStatusChanged, TypeOK, EventsTypeOK
    <2>2. v \in DOMAIN Head(toApi).statuses => Head(toApi).statuses[v] \in Status
      BY <2>1, StatusUpdateTyped
    <2>3. v \in Registered => (v \in Registered)'
      BY <1>2, <2>2 DEF OnVmStatusChanged, Registered, Status
    <2>4. UNCHANGED <<requests, commitRequests, creating>>
      BY <1>2 DEF OnVmStatusChanged
    <2>5. /\ Requested(v)' = Requested(v) /\ Committing(v)' = Committing(v)
          /\ Creating(v)' = Creating(v)
      BY <2>4 DEF Requested, Committing, Creating
    <2> QED BY <2>3, <2>5 DEF StillOne, OneWaiter, Waits
  <1>3. CASE \E b \in Batch : DeadlinePasses(b)
    BY <1>3, NothingWaits DEF DeadlinePasses, inboxes, Registered
  <1>4. CASE MonitoringStep
    BY <1>4, NothingWaits DEF MonitoringStep, OnHostStateUpdate, apiVars, Registered
  <1>5. CASE \E h \in Host : SendHostState(h) /\ UNCHANGED apiVars
    BY <1>5, NothingWaits DEF SendHostState, apiVars, Registered
  <1> QED BY <1>1, <1>2, <1>3, <1>4, <1>5, SpawnVmsOne, SpawnVmOnHostOne,
             SchedulerStepOne, StoreStepOne DEF UserStep, ApiStep

-----------------------------------------------------------------------------
(* The steps of allocation.                                                *)

LEMMA MigrationTyped ==
    ASSUME MigrationTypeOK, AllocationStep
    PROVE  MigrationTypeOK'
  <1>1. TypeOK'
    BY NextTyped DEF MigrationTypeOK, AllocationStep
  <1>2. ranOn' \in [Vm -> SUBSET Host]
    BY DEF MigrationTypeOK, AllocationStep
  <1> QED BY <1>1, <1>2 DEF MigrationTypeOK, AllocationStep

\* A VM whose timers do not change has not started anywhere.
LEMMA NotStarted ==
    ASSUME MigrationTypeOK, AllocationStep, NEW v \in Vm,
           \A h \in Host, t \in TimerType : timers'[h][t][v] = timers[h][t][v]
    PROVE  ranOn'[v] = ranOn[v]
  <1> DEFINE before(h) == timers[h]["AllocationReleaseRequest"][v]
             after(h)  == timers'[h]["AllocationReleaseRequest"][v]
  <1>1. \A h \in Host : after(h) = before(h) /\ before(h) \in Nat
    BY DEF MigrationTypeOK, TypeOK, EventsTypeOK, TimerType, ReleaseType
  <1>2. ranOn'[v] = ranOn[v] \cup {h \in Host : after(h) > before(h)}
    BY DEF AllocationStep
  <1>3. \A h \in Host : ~ (after(h) > before(h))
    BY <1>1
  <1> HIDE DEF before, after
  <1>4. {h \in Host : after(h) > before(h)} = {}
    BY <1>3
  <1> QED BY <1>2, <1>4

\* Each timer of a lifetime fires when the lifetime is over.
LEMMA FiresOnTime ==
    ASSUME MigrationTypeOK, AllocationStep, NEW h \in Host, NEW v \in Vm,
           timers'[h]["AllocationReleaseRequest"][v]
             = timers[h]["AllocationReleaseRequest"][v] - 1
    PROVE  v \in lifetimeOver
  <1>1. timers[h]["AllocationReleaseRequest"][v] \in Nat
    BY DEF MigrationTypeOK, TypeOK, EventsTypeOK, TimerType, ReleaseType
  <1>2. timers'[h]["AllocationReleaseRequest"][v] < timers[h]["AllocationReleaseRequest"][v]
    BY <1>1
  <1> QED BY <1>2 DEF AllocationStep

\* What a handler for VM u does to the hosts' VMs and timers.
LEMMA VmStepMoves ==
    ASSUME TypeOK, NEW h \in Host, NEW u \in Vm, VmStep(h, u)
    PROVE  /\ \A g \in Host, w \in Vm : g # h \/ w # u =>
                /\ w \in hostPool'[g].allocations <=> w \in hostPool[g].allocations
                /\ \A t \in TimerType : timers'[g][t][w] = timers[g][t][w]
  <1>1. \A g \in Host, w \in Vm : g # h \/ w # u =>
          (w \in hostPool'[g].allocations <=> w \in hostPool[g].allocations)
    <2>1. CASE HostAllocate(h, u)
      <3>1. hostPool' = [hostPool EXCEPT ![h] = Occupy(@, {u})]
        BY <2>1 DEF HostAllocate
      <3>2. Occupy(hostPool[h], {u}).allocations = hostPool[h].allocations \cup {u}
        BY OccupyTyped DEF TypeOK, HostsTypeOK
      <3> QED BY <3>1, <3>2 DEF TypeOK, HostsTypeOK
    <2>2. CASE HostRelease(h, u)
      <3>1. hostPool' = [hostPool EXCEPT ![h] = Release(@, {u})]
        BY <2>2 DEF HostRelease
      <3>2. Release(hostPool[h], {u}).allocations = hostPool[h].allocations \ {u}
        BY ReleaseTyped DEF TypeOK, HostsTypeOK
      <3> QED BY <3>1, <3>2 DEF TypeOK, HostsTypeOK
    <2>3. CASE UNCHANGED hostPool
      BY <2>3
    <2> QED BY <2>1, <2>2, <2>3
            DEF VmStep, OnVmCreateRequest, OnVmStarted, OnAllocationReleaseRequest,
                OnVmDeleted, hostVars
  <1>2. ASSUME NEW t \in TimerType, NEW x \in TimerType, t # x,
               SetTimer(h, t, u) \/ TimerFires(h, t, u) \/ TimerFiresAndSets(h, t, x, u)
        PROVE  \A g \in Host, w \in Vm : g # h \/ w # u =>
                 \A y \in TimerType : timers'[g][y][w] = timers[g][y][w]
    BY <1>2, TimersAfter
  <1>3. \A g \in Host, w \in Vm : g # h \/ w # u =>
          \A y \in TimerType : timers'[g][y][w] = timers[g][y][w]
    <2>1. CASE UNCHANGED timers
      BY <2>1
    <2>2. CASE SetTimer(h, "VMStarted", u) \/ TimerFires(h, "VMDeleted", u)
      BY <1>2, <2>2 DEF TimerType
    <2>3. CASE TimerFiresAndSets(h, "VMStarted", "AllocationReleaseRequest", u)
      BY <1>2, <2>3 DEF TimerType, ReleaseType
    <2>4. ASSUME NEW t \in ReleaseType,
                 TimerFires(h, t, u) \/ TimerFiresAndSets(h, t, "VMDeleted", u)
          PROVE  \A g \in Host, w \in Vm : g # h \/ w # u =>
                   \A y \in TimerType : timers'[g][y][w] = timers[g][y][w]
      BY <1>2, <2>4 DEF TimerType, ReleaseType
    <2> QED BY <2>1, <2>2, <2>3, <2>4
            DEF VmStep, OnVmCreateRequest, OnVmStarted, OnAllocationReleaseRequest,
                OnVmDeleted
  <1> QED BY <1>1, <1>3

\* A VM that a handler of host h is about was created, if not just now.
LEMMA VmStepCreated ==
    ASSUME TypeOK, NEW h \in Host, NEW v \in Vm, VmStep(h, v), UNCHANGED apiVars,
           CreatedOnce(v)
    PROVE  ~ Waits(v)'
  <1>1. CASE OnVmCreateRequest(h, v)
    BY <1>1, VmStepOne DEF CreatedOnce
  <1>2. ASSUME NEW t \in TimerType, timers[h][t][v] > 0
        PROVE  ~ Waits(v)'
    <2>1. timers[h][t][v] # 0
      BY <1>2
    <2>2. ~ Waits(v)
      BY <2>1 DEF CreatedOnce, Fresh
    <2> QED BY <2>2, VmStepOne DEF CreatedOnce, StillOne
  <1> QED BY <1>1, <1>2
          DEF VmStep, OnVmStarted, OnAllocationReleaseRequest, OnVmDeleted,
              TimerFires, TimerFiresAndSets, TimerType, ReleaseType

LEMMA VmStepKept ==
    ASSUME MigrationTypeOK, AllocationStep, NEW h \in Host, NEW v \in Vm,
           HostStep(h), VmStep(h, v), CreatedOnce(v), Guarded(v)
    PROVE  /\ CreatedOnce(v)' /\ Guarded(v)'
           /\ KeptWell(v) => KeptWell(v)'
  <1>1. TypeOK /\ UNCHANGED apiVars /\ UNCHANGED <<migrationRequests, lifetimeOver>>
    BY DEF MigrationTypeOK, HostStep, AllocationStep
  <1>2. CreatedOnce(v)'
    BY <1>1, VmStepOne, VmStepCreated DEF CreatedOnce, StillOne
  <1>3. \A g \in Host \ {h} : v \in hostPool'[g].allocations
                                <=> v \in hostPool[g].allocations
    BY <1>1, VmStepMoves
  <1>4. CASE OnVmCreateRequest(h, v)
    <2>1. Fresh(v)
      BY <1>4 DEF OnVmCreateRequest, CreatedOnce, Waits, Creating
    <2>2. CASE HostAllocate(h, v) /\ SetTimer(h, "VMStarted", v)
      <3>1. v \in hostPool'[h].allocations
        <4>1. hostPool' = [hostPool EXCEPT ![h] = Occupy(@, {v})]
          BY <2>2 DEF HostAllocate
        <4>2. Occupy(hostPool[h], {v}).allocations = hostPool[h].allocations \cup {v}
          BY <1>1, OccupyTyped DEF TypeOK, HostsTypeOK
        <4> QED BY <1>1, <4>1, <4>2 DEF TypeOK, HostsTypeOK
      <3>2. \A g \in Host : v \in hostPool'[g].allocations
                              <=> v \in hostPool[g].allocations \/ g = h
        BY <1>3, <3>1
      <3> QED BY <1>1, <1>2, <2>1, <2>2, <3>2, CreatedKept
    <2>3. CASE UNCHANGED <<hostVars, timers>>
      <3>1. UNCHANGED <<hostPool, timers, migrationRequests, lifetimeOver>>
        BY <1>1, <2>3 DEF hostVars
      <3>2. ranOn'[v] = ranOn[v]
        BY <3>1, NotStarted
      <3>3. LeftAlone(v)
        BY <3>1, <3>2 DEF LeftAlone
      <3> QED BY <1>2, <3>3, LeftAloneKept
    <2> QED BY <1>4, <2>2, <2>3 DEF OnVmCreateRequest
  <1>5. CASE OnVmStarted(h, v)
    BY <1>1, <1>2, <1>5, StartedKept DEF OnVmStarted
  <1>6. ASSUME NEW t \in ReleaseType, OnAllocationReleaseRequest(h, v, t)
        PROVE  /\ Guarded(v)'
               /\ KeptWell(v) => KeptWell(v)'
    <2>1. t \in TimerType /\ t # "VMStarted" /\ t # "VMDeleted" /\ UNCHANGED hostPool
      BY <1>6 DEF OnAllocationReleaseRequest, TimerType, ReleaseType
    <2>2. CASE v \in hostPool[h].allocations /\ TimerFiresAndSets(h, t, "VMDeleted", v)
      <3>1. timers'[h][t][v] = timers[h][t][v] - 1
        BY <1>1, <2>1, <2>2, TimersAfter DEF TimerType
      <3>2. t = "AllocationReleaseRequest" => v \in lifetimeOver
        BY <3>1, FiresOnTime
      <3> QED BY <1>1, <2>1, <2>2, <3>2, ReleaseAskedKept
    <2>3. CASE v \notin hostPool[h].allocations /\ TimerFires(h, t, v)
      BY <1>1, <2>1, <2>3, LastTimerKept
    <2> QED BY <1>6, <2>2, <2>3 DEF OnAllocationReleaseRequest
  <1>7. CASE OnVmDeleted(h, v)
    <2>1. TimerFires(h, "VMDeleted", v) /\ "VMDeleted" \in TimerType
      BY <1>7 DEF OnVmDeleted, TimerType
    <2>2. v \notin hostPool'[h].allocations
      <3>1. CASE HostRelease(h, v)
        <4>1. hostPool' = [hostPool EXCEPT ![h] = Release(@, {v})]
          BY <3>1 DEF HostRelease
        <4>2. Release(hostPool[h], {v}).allocations = hostPool[h].allocations \ {v}
          BY <1>1, ReleaseTyped DEF TypeOK, HostsTypeOK
        <4> QED BY <1>1, <4>1, <4>2 DEF TypeOK, HostsTypeOK
      <3> QED BY <1>7, <3>1 DEF OnVmDeleted, hostVars
    <2> QED BY <1>1, <1>2, <1>3, <2>1, <2>2, LastTimerKept
  <1> QED BY <1>2, <1>4, <1>5, <1>6, <1>7 DEF VmStep

LEMMA AllocationStepKept ==
    ASSUME MigrationTypeOK, AllocationStep, NEW v \in Vm, CreatedOnce(v), Guarded(v)
    PROVE  /\ CreatedOnce(v)' /\ Guarded(v)'
           /\ KeptWell(v) => KeptWell(v)'
  <1>1. TypeOK /\ Next /\ UNCHANGED <<migrationRequests, lifetimeOver>>
    BY DEF MigrationTypeOK, AllocationStep
  <1>2. ASSUME StillOne(v),
               \A h \in Host :
                 /\ v \in hostPool'[h].allocations <=> v \in hostPool[h].allocations
                 /\ \A t \in TimerType : timers'[h][t][v] = timers[h][t][v]
        PROVE  /\ CreatedOnce(v)' /\ Guarded(v)'
               /\ KeptWell(v) => KeptWell(v)'
    <2>1. LeftAlone(v)
      BY <1>1, <1>2, NotStarted DEF LeftAlone
    <2> QED BY <1>2, <2>1, LeftAloneKept DEF CreatedOnce, StillOne
  <1>3. ASSUME UserStep \/ (\E s \in Sched : SchedulerStep(s)) \/ StoreStep
               \/ ApiStep \/ MonitoringStep \/ \E h \in Host : SendHostState(h)
                  /\ UNCHANGED apiVars
        PROVE  /\ CreatedOnce(v)' /\ Guarded(v)'
               /\ KeptWell(v) => KeptWell(v)'
    <2>1. StillOne(v)
      BY <1>1, <1>3, OthersOne DEF CreatedOnce
    <2>2. UNCHANGED <<hostPool, timers>>
      BY <1>3 DEF UserStep, SpawnVms, SpawnVmOnHost, DirectCommit, AddHost, AddScheduler,
             SchedulerStep, OnAllocationRequest, TimeOutRequest, PlaceRequest,
             RetryRequest, OnStoreNotification, StoreStep, OnCommitRequest,
             OnAllocationFailed, OnAllocationReleased, OnHostNotice, ApiStep,
             OnVmStatusChanged, DeadlinePasses, MonitoringStep, OnHostStateUpdate,
             SendHostState, inboxes, hostVars
    <2> QED BY <1>2, <2>1, <2>2
  <1>4. ASSUME NEW h \in Host, NEW u \in Vm \ {v}, HostStep(h), VmStep(h, u)
        PROVE  /\ CreatedOnce(v)' /\ Guarded(v)'
               /\ KeptWell(v) => KeptWell(v)'
    <2>1. StillOne(v)
      BY <1>1, <1>4, VmStepOne DEF HostStep, CreatedOnce
    <2> QED BY <1>1, <1>2, <1>4, <2>1, VmStepMoves
  <1>5. ASSUME NEW h \in Host, HostStep(h)
        PROVE  /\ CreatedOnce(v)' /\ Guarded(v)'
               /\ KeptWell(v) => KeptWell(v)'
    BY <1>3, <1>4, <1>5, VmStepKept DEF HostStep
  <1> QED BY <1>1, <1>3, <1>5 DEF Next

-----------------------------------------------------------------------------
(* The hosts' books.                                                       *)

PoolsBalanced == \A h \in Host : Balanced(hostPool[h], h)

LEMMA PoolsAfter ==
    ASSUME TypeOK, PoolsBalanced, NEW h \in Host, NEW v \in Vm,
           \/ v \notin hostPool[h].allocations /\ HostAllocate(h, v)
           \/ v \in hostPool[h].allocations /\ HostRelease(h, v)
    PROVE  PoolsBalanced'
  <1>1. hostPool \in [Host -> HostInfo] /\ Balanced(hostPool[h], h)
    BY DEF TypeOK, HostsTypeOK, PoolsBalanced
  <1>2. PICK info : hostPool' = [hostPool EXCEPT ![h] = info] /\ Balanced(info, h)
    <2>1. CASE v \notin hostPool[h].allocations /\ HostAllocate(h, v)
      <3>1. Balanced(Occupy(hostPool[h], {v}), h)
        BY <1>1, <2>1, OccupyBalanced
      <3>2. hostPool' = [hostPool EXCEPT ![h] = Occupy(hostPool[h], {v})]
        BY <2>1 DEF HostAllocate
      <3> QED BY <3>1, <3>2
    <2>2. CASE v \in hostPool[h].allocations /\ HostRelease(h, v)
      <3>1. Balanced(Release(hostPool[h], {v}), h)
        BY <1>1, <2>2, ReleaseBalanced
      <3>2. hostPool' = [hostPool EXCEPT ![h] = Release(hostPool[h], {v})]
        BY <2>2 DEF HostRelease
      <3> QED BY <3>1, <3>2
    <2> QED BY <2>1, <2>2
  <1>3. \A g \in Host : hostPool'[g] = IF g = h THEN info ELSE hostPool[g]
    BY <1>1, <1>2
  <1> QED BY <1>2, <1>3 DEF PoolsBalanced

LEMMA AllocationStepBooks ==
    ASSUME MigrationTypeOK, AllocationStep, \A v \in Vm : CreatedOnce(v), PoolsBalanced
    PROVE  PoolsBalanced'
  <1>1. TypeOK /\ Next
    BY DEF MigrationTypeOK, AllocationStep
  <1>2. ASSUME UNCHANGED hostPool PROVE PoolsBalanced'
    BY <1>2 DEF PoolsBalanced
  <1>3. ASSUME NEW h \in Host, NEW v \in Vm, VmStep(h, v)
        PROVE  PoolsBalanced'
    <2>1. OnVmCreateRequest(h, v) => v \notin hostPool[h].allocations
      BY DEF OnVmCreateRequest, CreatedOnce, Waits, Creating, Fresh
    <2> QED BY <1>1, <1>2, <1>3, <2>1, PoolsAfter
            DEF VmStep, OnVmCreateRequest, OnVmStarted, OnAllocationReleaseRequest,
                OnVmDeleted, hostVars
  <1>4. ASSUME UserStep \/ (\E s \in Sched : SchedulerStep(s)) \/ StoreStep
               \/ ApiStep \/ MonitoringStep \/ \E h \in Host : SendHostState(h)
        PROVE  UNCHANGED hostPool
    BY <1>4 DEF UserStep, SpawnVms, SpawnVmOnHost, AddHost, AddScheduler, SchedulerStep,
           StoreStep, ApiStep, MonitoringStep, SendHostState, hostVars
  <1> QED BY <1>1, <1>2, <1>3, <1>4 DEF Next, HostStep

-----------------------------------------------------------------------------
(* The steps of migration.                                                 *)

\* A migration may only be asked for of a VM that has started.
LEMMA AskedOfCreated ==
    ASSUME NEW v \in Vm, CreatedOnce(v), NEW s \in ranOn[v],
           UNCHANGED <<vmStatus, requests, commitRequests, creating>>
    PROVE  CreatedOnce(v)'
  <1>1. ~ Waits(v)
    BY DEF CreatedOnce, Fresh
  <1>2. (v \in Registered)' <=> v \in Registered
    BY DEF Registered
  <1>3. StillOne(v)
    BY <1>2, NothingWaits DEF CreatedOnce
  <1> QED BY <1>1, <1>3 DEF CreatedOnce, StillOne

\* A migration of v from s to t is asked for, and no other.
LEMMA OneAsked ==
    ASSUME MigrationInv, NEW v \in Vm, NEW s \in ranOn[v], NEW t \in hosts,
           \A u, r \in Host, w \in Vm : migrationRequests'[u][r][w] =
             migrationRequests[u][r][w] + IF u = t /\ r = s /\ w = v THEN 1 ELSE 0,
           orderly' => orderly /\ AtRest(v, s) /\ s # t,
           UNCHANGED <<vars, ranOn, lifetimeOver>>
    PROVE  /\ \A w \in Vm : CreatedOnce(w)' /\ Guarded(w)'
           /\ orderly' => \A w \in Vm : KeptWell(w)'
  <1>1. UNCHANGED <<vmStatus, requests, commitRequests, creating, hostPool, timers>>
    BY DEF vars, apiVars, inboxes, hostVars
  <1>2. s \in Host /\ t \in Host
    BY DEF MigrationInv, MigrationTypeOK, TypeOK, EventsTypeOK
  <1>3. ASSUME NEW w \in Vm \ {v}
        PROVE  /\ CreatedOnce(w)' /\ Guarded(w)'
               /\ KeptWell(w) => KeptWell(w)'
    <2>1. \A u, r \in Host : migrationRequests'[u][r][w] = migrationRequests[u][r][w]
      <3>1. \A u, r \in Host : migrationRequests[u][r][w] \in Nat
        BY DEF MigrationInv, MigrationTypeOK
      <3> QED BY <3>1
    <2>2. LeftAlone(w)
      BY <1>1, <2>1 DEF LeftAlone
    <2>3. (w \in Registered)' <=> w \in Registered
      BY <1>1 DEF Registered
    <2>4. StillOne(w)
      BY <1>1, <2>3, NothingWaits DEF MigrationInv, CreatedOnce
    <2> QED BY <2>2, <2>4, LeftAloneKept DEF MigrationInv, CreatedOnce, StillOne
  <1>4. CreatedOnce(v)'
    BY <1>1, AskedOfCreated DEF MigrationInv
  <1>5. Guarded(v)'
    BY <1>1 DEF MigrationInv, Guarded
  <1>6. orderly' => KeptWell(v)'
    BY <1>1, <1>2, AskedKept DEF MigrationInv
  <1> QED BY <1>3, <1>4, <1>5, <1>6 DEF MigrationInv

LEMMA MigrateInv ==
    ASSUME MigrationInv, NEW v \in Vm, NEW s \in Host, NEW t \in Host, Migrate(v, s, t)
    PROVE  MigrationInv'
  <1>1. /\ migrationRequests \in [Host -> [Host -> [Vm -> Nat]]]
        /\ UNCHANGED <<vars, ranOn, lifetimeOver>>
    BY DEF MigrationInv, MigrationTypeOK, Migrate
  <1>2. \A u, r \in Host, w \in Vm : migrationRequests'[u][r][w] =
          migrationRequests[u][r][w] + IF u = t /\ r = s /\ w = v THEN 1 ELSE 0
    BY DEF Migrate, EmitMigrationRequests
  <1>3. MigrationTypeOK'
    <2>1. TypeOK'
      BY <1>1, StutterTyped DEF MigrationInv, MigrationTypeOK
    <2>2. \A u, r \in Host, w \in Vm : migrationRequests'[u][r][w] \in Nat
      BY <1>1, <1>2
    <2>3. migrationRequests' = [u \in Host |-> [r \in Host |-> [w \in Vm |->
            migrationRequests'[u][r][w]]]]
      BY DEF Migrate, EmitMigrationRequests
    <2>4. migrationRequests' \in [Host -> [Host -> [Vm -> Nat]]]
      BY <2>2, <2>3
    <2> QED BY <1>1, <2>1, <2>4 DEF Migrate, MigrationInv, MigrationTypeOK
  <1>4. /\ \A w \in Vm : CreatedOnce(w)' /\ Guarded(w)'
        /\ orderly' => \A w \in Vm : KeptWell(w)'
    BY <1>1, <1>2, OneAsked DEF Migrate
  <1>5. HostBooksBalanced'
    <2>1. hostPool' = hostPool /\ (orderly' => orderly)
      BY <1>1 DEF Migrate, vars, hostVars
    <2> QED BY <2>1 DEF MigrationInv, HostBooksBalanced
  <1> QED BY <1>3, <1>4, <1>5 DEF MigrationInv

\* Typing of what the target does.
LEMMA MigrationRequestTyped ==
    ASSUME MigrationTypeOK, NEW t \in Host, NEW s \in Host, NEW v \in Vm,
           MigrationStep(t), OnMigrationRequest(t, s, v)
    PROVE  MigrationTypeOK'
  <1>1. TypeOK
    BY DEF MigrationTypeOK
  <1>2. migrationRequests' \in [Host -> [Host -> [Vm -> Nat]]]
    BY RequestTaken DEF OnMigrationRequest
  <1>3. /\ timers' \in [Host -> [TimerType -> [Vm -> Nat]]]
        /\ hostPool' \in [Host -> HostInfo]
        /\ hostAllocated' \in [Host -> [Resource -> Int]]
        /\ hostReport' \in [Host -> Report]
    <2>1. CASE AcceptMigration(t, s, v)
      <3>1. hostReport' \in [Host -> Report]
        <4>1. WithStatus(WithAdded(hostReport[t], v), v, "Migrating") \in Report
          BY <1>1, ReportTyped DEF TypeOK, HostsTypeOK, Status
        <4> QED BY <1>1, <2>1, <4>1 DEF AcceptMigration, TypeOK, HostsTypeOK
      <3>2. timers' \in [Host -> [TimerType -> [Vm -> Nat]]]
        BY <1>1, <2>1, MigrationTimers DEF AcceptMigration
      <3> QED BY <1>1, <2>1, <3>1, <3>2, HostAllocateTyped DEF AcceptMigration
    <2>2. CASE UNCHANGED <<hostVars, timers>>
      BY <1>1, <2>2 DEF hostVars, TypeOK, EventsTypeOK, HostsTypeOK
    <2> QED BY <2>1, <2>2 DEF OnMigrationRequest
  <1>4. EventsTypeOK'
    BY <1>1, <1>3 DEF OnMigrationRequest, MigrationStep, registrations, TypeOK,
                      EventsTypeOK
  <1>5. HostsTypeOK'
    BY <1>3 DEF HostsTypeOK
  <1>6. TypeOK'
    BY <1>1, <1>4, <1>5 DEF MigrationStep, TypeOK, ApiTypeOK, apiVars
  <1> QED BY <1>2, <1>6 DEF MigrationStep, MigrationTypeOK

\* The target has taken the VM, which it had not if migrations are orderly.
LEMMA MigrationStepInv ==
    ASSUME MigrationInv, NEW t \in Host, MigrationStep(t)
    PROVE  MigrationInv'
  <1>1. PICK s \in Host, v \in Vm : OnMigrationRequest(t, s, v)
    BY DEF MigrationStep
  <1>2. /\ MigrationTypeOK /\ TypeOK
        /\ TakeMigrationRequest(t, s, v)
        /\ UNCHANGED <<apiVars, orderly, ranOn, lifetimeOver, requests, commitRequests,
                       creating>>
    BY <1>1 DEF MigrationInv, MigrationTypeOK, OnMigrationRequest, MigrationStep
  <1>3. MigrationTypeOK'
    BY <1>1, <1>2, MigrationRequestTyped
  <1>4. ASSUME NEW w \in Vm PROVE StillOne(w)
    <2>1. (w \in Registered)' <=> w \in Registered
      BY <1>2 DEF apiVars, Registered
    <2> QED BY <1>2, <2>1, NothingWaits DEF MigrationInv, CreatedOnce
  <1>5. /\ AcceptMigration(t, s, v) => HostAllocate(t, v) /\ SetMigrationTimers(t, s, v)
        /\ ~ AcceptMigration(t, s, v) => UNCHANGED <<hostPool, timers>>
    BY <1>1 DEF OnMigrationRequest, AcceptMigration, hostVars
  <1>6. HostAllocate(t, v) =>
          \A g \in Host, w \in Vm : w \in hostPool'[g].allocations
             <=> w \in hostPool[g].allocations \/ (g = t /\ w = v)
    <2> SUFFICES ASSUME HostAllocate(t, v)
                 PROVE  \A g \in Host, w \in Vm : w \in hostPool'[g].allocations
                          <=> w \in hostPool[g].allocations \/ (g = t /\ w = v)
      OBVIOUS
    <2>1. hostPool' = [hostPool EXCEPT ![t] = Occupy(@, {v})]
      BY DEF HostAllocate
    <2>2. Occupy(hostPool[t], {v}).allocations = hostPool[t].allocations \cup {v}
      BY <1>2, OccupyTyped DEF TypeOK, HostsTypeOK
    <2> QED BY <1>2, <2>1, <2>2 DEF TypeOK, HostsTypeOK
  <1>7. ASSUME NEW w \in Vm \ {v}
        PROVE  /\ CreatedOnce(w)' /\ Guarded(w)'
               /\ KeptWell(w) => KeptWell(w)'
    <2>1. \A g, r \in Host : migrationRequests'[g][r][w] = migrationRequests[g][r][w]
      BY <1>2, RequestTaken
    <2>2. \A g \in Host, x \in TimerType : timers'[g][x][w] = timers[g][x][w]
      BY <1>2, <1>5, MigrationTimers
    <2>3. \A g \in Host : w \in hostPool'[g].allocations <=> w \in hostPool[g].allocations
      BY <1>5, <1>6
    <2>4. LeftAlone(w)
      BY <1>2, <2>1, <2>2, <2>3 DEF LeftAlone
    <2> QED BY <1>4, <2>4, LeftAloneKept DEF MigrationInv, CreatedOnce, StillOne
  <1>8. CreatedOnce(v)'
    <2>1. migrationRequests[t][s][v] # 0
      BY <1>2 DEF TakeMigrationRequest
    <2>2. ~ Waits(v)
      BY <2>1 DEF MigrationInv, CreatedOnce, Fresh
    <2> QED BY <1>4, <2>2 DEF CreatedOnce, StillOne
  <1>9. /\ Guarded(v)'
        /\ KeptWell(v) => KeptWell(v)'
    <2>1. CASE AcceptMigration(t, s, v)
      <3>1. \A g \in Host : v \in hostPool'[g].allocations
                              <=> v \in hostPool[g].allocations \/ g = t
        BY <1>5, <1>6, <2>1
      <3> QED BY <1>2, <1>5, <2>1, <3>1, AcceptedKept DEF MigrationInv
    <2>2. CASE ~ AcceptMigration(t, s, v)
      BY <1>2, <1>5, <2>2, RefusedKept DEF MigrationInv
    <2> QED BY <2>1, <2>2
  <1>10. HostBooksBalanced'
    <2> SUFFICES ASSUME orderly PROVE PoolsBalanced'
      BY <1>2 DEF HostBooksBalanced, PoolsBalanced
    <2>1. PoolsBalanced
      BY DEF MigrationInv, HostBooksBalanced, PoolsBalanced
    <2>2. CASE AcceptMigration(t, s, v)
      <3>1. Moving(v) /\ migrationRequests[t][s][v] > 0
        BY <1>2 DEF MigrationInv, KeptWell, TakeMigrationRequest
      <3>2. v \notin hostPool[t].allocations
        BY <3>1 DEF Moving
      <3> QED BY <1>2, <1>5, <2>1, <2>2, <3>2, PoolsAfter
    <2>3. CASE ~ AcceptMigration(t, s, v)
      BY <1>5, <2>1, <2>3 DEF PoolsBalanced
    <2> QED BY <2>2, <2>3
  <1>11. \A w \in Vm : /\ CreatedOnce(w)' /\ Guarded(w)'
                       /\ KeptWell(w) => KeptWell(w)'
    BY <1>7, <1>8, <1>9
  <1> QED BY <1>2, <1>3, <1>10, <1>11 DEF MigrationInv

\* What the migrator sees: VMs and the hosts they were reported on.
SeenToRun == {x \in Vm \X Host : x[2] \in ranOn[x[1]]}

\* What a round of n moves is.
LEMMA RoundTyped ==
    ASSUME NEW n \in Nat, NEW m \in Rounds(SeenToRun, n)
    PROVE  /\ IsFiniteSet(DOMAIN m) /\ Cardinality(DOMAIN m) = n
           /\ \A c \in DOMAIN m : /\ c[2] \in SeenToRun /\ m[c] \in hosts
                                  /\ m[c] # c[2][2]
           /\ \A t, s, v : NumberOfMoves(m, t, s, v) \in Nat
  <1>1. PICK moved \in kSubset(n, Candidates(SeenToRun)) : m \in [moved -> hosts]
    BY DEF Rounds
  <1>2. moved \in SUBSET Candidates(SeenToRun) /\ Cardinality(moved) = n
    BY <1>1 DEF kSubset
  <1>3. DOMAIN m = moved /\ \A c \in moved : m[c] \in hosts
    BY <1>1
  <1>4. IsFiniteSet(Candidates(SeenToRun))
    <2>1. IsFiniteSet(Vm \X Host)
      BY FiniteAssumption, FS_Product
    <2>2. SeenToRun \in SUBSET (Vm \X Host)
      BY DEF SeenToRun
    <2>3. IsFiniteSet(SeenToRun)
      BY <2>1, <2>2, FS_Subset
    <2>4. IsFiniteSet({"underloaded"} \cup {"overloaded"})
      BY FS_Singleton, FS_AddElement
    <2>5. {"underloaded", "overloaded"} = {"underloaded"} \cup {"overloaded"}
      OBVIOUS
    <2> QED BY <2>3, <2>4, <2>5, FS_Product DEF Candidates
  <1>5. IsFiniteSet(moved)
    BY <1>2, <1>4, FS_Subset
  <1>6. ASSUME NEW c \in moved
        PROVE  c[2] \in SeenToRun /\ m[c] # c[2][2]
    <2>1. c[2] \in SeenToRun
      BY <1>2 DEF Candidates
    <2>2. m[c] \in Target(m) /\ c[2][2] \in Source(m)
      BY <1>3 DEF Target, Source
    <2>3. Source(m) \cap Target(m) = {}
      BY DEF Rounds
    <2> QED BY <2>1, <2>2, <2>3
  <1>7. ASSUME NEW t, NEW s, NEW v
        PROVE  NumberOfMoves(m, t, s, v) \in Nat
    <2> DEFINE S == {c \in DOMAIN m : m[c] = t /\ c[2] = <<v, s>>}
    <2>1. S \in SUBSET moved
      BY <1>3
    <2> HIDE DEF S
    <2>2. Cardinality(S) \in Nat
      BY <1>5, <2>1, FS_Subset, FS_CardinalityType
    <2> QED BY <2>2 DEF S, NumberOfMoves
  <1> QED BY <1>2, <1>3, <1>5, <1>6, <1>7

LEMMA MigratorStepInv ==
    ASSUME MigrationInv, MigratorStep
    PROVE  MigrationInv'
  <1>1. PICK n \in 1..(MaxMigrations - migrationsAsked) :
          \E m \in Rounds(SeenToRun, n) :
            /\ PerformMigrations(m)
            /\ migrationsAsked' = migrationsAsked + n
            /\ orderly' = (orderly /\ n = 1 /\ \A c \in DOMAIN m :
                             AtRest(c[2][1], c[2][2]))
    BY DEF MigratorStep, SeenToRun
  <1>2. PICK m \in Rounds(SeenToRun, n) :
            /\ PerformMigrations(m)
            /\ migrationsAsked' = migrationsAsked + n
            /\ orderly' = (orderly /\ n = 1 /\ \A c \in DOMAIN m :
                             AtRest(c[2][1], c[2][2]))
    BY <1>1
  <1>3. n \in Nat
    BY <1>1 DEF MigrationInv, MigrationTypeOK
  <1>4. /\ IsFiniteSet(DOMAIN m) /\ Cardinality(DOMAIN m) = n
        /\ \A c \in DOMAIN m : /\ c[2] \in SeenToRun /\ m[c] \in hosts
                               /\ m[c] # c[2][2]
        /\ \A t, s, v : NumberOfMoves(m, t, s, v) \in Nat
    BY <1>3, RoundTyped
  <1>5. /\ migrationRequests \in [Host -> [Host -> [Vm -> Nat]]]
        /\ MigrationTypeOK
        /\ UNCHANGED <<vars, ranOn, lifetimeOver>>
        /\ orderly \in BOOLEAN /\ (orderly' => orderly)
    BY <1>2 DEF MigrationInv, MigrationTypeOK, MigratorStep
  <1>6. UNCHANGED <<vmStatus, requests, commitRequests, creating, hostPool, timers>>
    BY <1>5 DEF vars, apiVars, inboxes, hostVars
  <1>7. \A t, s \in Host, v \in Vm : migrationRequests'[t][s][v] =
          migrationRequests[t][s][v] + NumberOfMoves(m, t, s, v)
    BY <1>2 DEF PerformMigrations, EmitMigrationRequests
  <1>8. MigrationTypeOK'
    <2>1. TypeOK'
      BY <1>5, StutterTyped DEF MigrationTypeOK
    <2>2. \A t, s \in Host, v \in Vm : migrationRequests'[t][s][v] \in Nat
      BY <1>4, <1>5, <1>7
    <2>3. migrationRequests' = [t \in Host |-> [s \in Host |-> [v \in Vm |->
            migrationRequests'[t][s][v]]]]
      BY <1>2 DEF PerformMigrations, EmitMigrationRequests
    <2>4. migrationRequests' \in [Host -> [Host -> [Vm -> Nat]]]
      BY <2>2, <2>3
    <2>5. migrationsAsked' \in Nat /\ orderly' \in BOOLEAN
      BY <1>2, <1>3, <1>5 DEF MigrationTypeOK
    <2> QED BY <1>5, <2>1, <2>4, <2>5 DEF MigrationTypeOK
  <1>9. HostBooksBalanced'
    BY <1>5, <1>6 DEF MigrationInv, HostBooksBalanced
  <1>10. ASSUME NEW v \in Vm
         PROVE  CreatedOnce(v)' /\ Guarded(v)'
    <2>1. Guarded(v)'
      BY <1>6 DEF MigrationInv, Guarded
    <2>2. CASE \E c \in DOMAIN m : c[2][1] = v
      <3>1. PICK c \in DOMAIN m : c[2][1] = v
        BY <2>2
      <3>2. c[2][2] \in ranOn[v]
        BY <1>4, <3>1 DEF SeenToRun
      <3> QED BY <1>6, <2>1, <3>2, AskedOfCreated DEF MigrationInv
    <2>3. CASE \A c \in DOMAIN m : c[2][1] # v
      <3>1. ASSUME NEW t \in Host, NEW s \in Host
            PROVE  migrationRequests'[t][s][v] = migrationRequests[t][s][v]
        <4>1. {c \in DOMAIN m : m[c] = t /\ c[2] = <<v, s>>} = {}
          BY <2>3
        <4>2. NumberOfMoves(m, t, s, v) = 0
          BY <4>1, FS_EmptySet DEF NumberOfMoves
        <4> QED BY <1>5, <1>7, <4>2
      <3>2. LeftAlone(v)
        BY <1>5, <1>6, <3>1 DEF LeftAlone
      <3>3. (v \in Registered)' <=> v \in Registered
        BY <1>6 DEF Registered
      <3>4. StillOne(v)
        BY <1>6, <3>3, NothingWaits DEF MigrationInv, CreatedOnce
      <3> QED BY <2>1, <3>2, <3>4, LeftAloneKept DEF MigrationInv, CreatedOnce, StillOne
    <2> QED BY <2>2, <2>3, <2>1
  <1>11. ASSUME orderly'
         PROVE  \A v \in Vm : KeptWell(v)'
    <2>1. n = 1 /\ \A c \in DOMAIN m : AtRest(c[2][1], c[2][2])
      BY <1>2, <1>11
    <2>2. PICK c : DOMAIN m = {c}
      BY <1>4, <2>1, FS_Singleton
    <2> DEFINE v == c[2][1]
               s == c[2][2]
               t == m[c]
    <2>3. /\ v \in Vm /\ s \in ranOn[v] /\ t \in hosts /\ s # t
          /\ c[2] = <<v, s>> /\ AtRest(v, s)
      BY <1>4, <2>1, <2>2 DEF SeenToRun
    <2>4. \A u, r, w : NumberOfMoves(m, u, r, w) = IF u = t /\ r = s /\ w = v THEN 1 ELSE 0
      <3> TAKE u, r, w
      <3> DEFINE S == {d \in DOMAIN m : m[d] = u /\ d[2] = <<w, r>>}
      <3>1. IF u = t /\ r = s /\ w = v THEN S = {c} ELSE S = {}
        BY <2>2, <2>3
      <3> HIDE DEF S
      <3>2. Cardinality(S) = IF u = t /\ r = s /\ w = v THEN 1 ELSE 0
        BY <3>1, FS_Singleton, FS_EmptySet
      <3> QED BY <3>2 DEF S, NumberOfMoves
    <2> HIDE DEF v, s, t
    <2>5. \A u, r \in Host, w \in Vm : migrationRequests'[u][r][w] =
            migrationRequests[u][r][w] + IF u = t /\ r = s /\ w = v THEN 1 ELSE 0
      BY <1>7, <2>4
    <2> QED BY <1>5, <1>11, <2>3, <2>5, OneAsked
  <1> QED BY <1>8, <1>9, <1>10, <1>11 DEF MigrationInv

\* A lifetime ends, or nothing happens.
LEMMA TimePassesInv ==
    ASSUME MigrationInv,
           (\E v \in Vm : LifetimeEnds(v)) \/ UNCHANGED allVars
    PROVE  MigrationInv'
  <1>1. /\ UNCHANGED <<vars, migrationRequests, migrationsAsked, orderly, ranOn>>
        /\ lifetimeOver \subseteq lifetimeOver' /\ lifetimeOver' \subseteq Vm
    BY DEF LifetimeEnds, allVars, migrationVars, MigrationInv, MigrationTypeOK
  <1>2. UNCHANGED <<vmStatus, requests, commitRequests, creating, hostPool, timers>>
    BY <1>1 DEF vars, apiVars, inboxes, hostVars
  <1>3. MigrationTypeOK'
    BY <1>1, StutterTyped DEF MigrationInv, MigrationTypeOK
  <1>4. ASSUME NEW v \in Vm
        PROVE  /\ CreatedOnce(v)' /\ Guarded(v)'
               /\ KeptWell(v) => KeptWell(v)'
    <2>1. (v \in Registered)' <=> v \in Registered
      BY <1>2 DEF Registered
    <2>2. LeftAlone(v)
      BY <1>1, <1>2 DEF LeftAlone
    <2>3. StillOne(v)
      BY <1>2, <2>1, NothingWaits DEF MigrationInv, CreatedOnce
    <2> QED BY <2>2, <2>3, LeftAloneKept DEF MigrationInv, CreatedOnce, StillOne
  <1>5. HostBooksBalanced'
    BY <1>1, <1>2 DEF MigrationInv, HostBooksBalanced
  <1> QED BY <1>1, <1>3, <1>4, <1>5 DEF MigrationInv

LEMMA AllocationStepInv ==
    ASSUME MigrationInv, AllocationStep
    PROVE  MigrationInv'
  <1>1. MigrationTypeOK /\ orderly' = orderly
    BY DEF MigrationInv, AllocationStep
  <1>2. MigrationTypeOK'
    BY <1>1, MigrationTyped
  <1>3. \A v \in Vm : /\ CreatedOnce(v)' /\ Guarded(v)'
                      /\ KeptWell(v) => KeptWell(v)'
    BY <1>1, AllocationStepKept DEF MigrationInv
  <1>4. HostBooksBalanced'
    <2>1. orderly => PoolsBalanced
      BY DEF MigrationInv, HostBooksBalanced, PoolsBalanced
    <2>2. orderly => PoolsBalanced'
      BY <1>1, <2>1, AllocationStepBooks DEF MigrationInv
    <2> QED BY <1>1, <2>2 DEF HostBooksBalanced, PoolsBalanced
  <1> QED BY <1>1, <1>2, <1>3, <1>4 DEF MigrationInv

LEMMA MigrationNextInv ==
    ASSUME MigrationInv, [MigrationNext]_allVars
    PROVE  MigrationInv'
  BY AllocationStepInv, MigrateInv, MigratorStepInv, MigrationStepInv, TimePassesInv
     DEF MigrationNext

LEMMA MigrationInitInv == MigrationInit => MigrationInv
  <1> SUFFICES ASSUME MigrationInit PROVE MigrationInv
    OBVIOUS
  <1>1. MigrationTypeOK
    BY InitTyped DEF MigrationInit, MigrationRequestsInit, MigrationTypeOK
  <1>2. \A h \in Host : hostPool[h] = NewHostInfo(h)
    BY DEF MigrationInit, Init, HostsInit
  <1>3. \A h \in Host : hostPool[h].allocations = {}
    <2>1. \A h \in Host : NewHostInfo(h).allocations = {}
      BY DEF NewHostInfo
    <2> QED BY <1>2, <2>1
  <1>4. \A h \in Host, t \in TimerType, v \in Vm : timers[h][t][v] = 0
    BY DEF MigrationInit, Init, EventsInit
  <1>5. \A t, s \in Host, v \in Vm : migrationRequests[t][s][v] = 0
    BY DEF MigrationInit, MigrationRequestsInit
  <1>6. ASSUME NEW v \in Vm
        PROVE  CreatedOnce(v) /\ Guarded(v) /\ KeptWell(v)
    <2>1. Requested(v) = {} /\ Committing(v) = {} /\ Creating(v) = {}
      BY DEF MigrationInit, Init, EventsInit, Requested, Committing, Creating
    <2>2. Fresh(v)
      BY <1>3, <1>4, <1>5 DEF Fresh, MigrationInit
    <2>3. CreatedOnce(v)
      BY <2>1, <2>2 DEF CreatedOnce, OneWaiter
    <2>4. Guarded(v) /\ Apart(v)
      BY <1>3 DEF Guarded, Apart
    <2>5. Moving(v)
      BY <1>5 DEF Moving
    <2>6. Staying(v)
      <3>1. \A h \in Host : /\ timers[h]["VMStarted"][v] = 0
                            /\ timers[h]["AllocationReleaseRequest"][v] = 0
        BY <1>4 DEF TimerType, ReleaseType
      <3> QED BY <3>1 DEF Staying
    <2> QED BY <2>3, <2>4, <2>5, <2>6 DEF KeptWell
  <1>7. HostBooksBalanced
    BY <1>2, NewHostInfoBalanced DEF HostBooksBalanced
  <1> QED BY <1>1, <1>6, <1>7 DEF MigrationInv

(* Migration keeps the types, the one way in which a VM is created, a timer *)
(* for each VM on a host and, when asked for one at a time, the hosts' VMs  *)
(* and books.                                                               *)
THEOREM MigrationStaysOrderly == MigrationSpec => []MigrationInv
  <1>1. MigrationInit => MigrationInv
    BY MigrationInitInv
  <1>2. MigrationInv /\ [MigrationNext]_allVars => MigrationInv'
    BY MigrationNextInv
  <1> QED BY <1>1, <1>2, PTL DEF MigrationSpec

(* However VMs are migrated, in any number and at any time, one that is on *)
(* a host has a timer there that leads to its end: a stale timer that      *)
(* finds the VM gone, or that comes before its own, breaks no chain.       *)
THEOREM NoVmIsOrphaned == MigrationSpec => []NoOrphans
  <1>1. MigrationInv => NoOrphans
    <2>1. MigrationInv => \A h \in Host : hostPool[h].allocations \subseteq Vm
      BY DEF MigrationInv, MigrationTypeOK, TypeOK, HostsTypeOK, HostInfo
    <2> QED BY <2>1 DEF MigrationInv, Guarded, NoOrphans, TimersOf
  <1> QED BY <1>1, MigrationStaysOrderly, PTL

(* Asked for one at a time, no migration loses a VM, whether the target    *)
(* accepts it or refuses it and whichever of its timers fires first.       *)
THEOREM NoVmIsLost == MigrationSpec => []NotLost
  <1>1. MigrationInv => NotLost
    <2> SUFFICES ASSUME MigrationInv, orderly, NEW v \in Vm \ lifetimeOver,
                        \E h \in Host : TimersOf(v, h, {"AllocationReleaseRequest"})
                 PROVE  \E h \in Host : v \in hostPool[h].allocations
      BY DEF NotLost
    <2>1. \E h \in Host : timers[h]["AllocationReleaseRequest"][v] > 0
      BY DEF TimersOf
    <2>2. Staying(v)
      BY DEF MigrationInv, KeptWell
    <2> QED BY <2>1, <2>2 DEF Staying
  <1> QED BY <1>1, MigrationStaysOrderly, PTL

(* Asked for one at a time, migrations leave a VM on two hosts only while  *)
(* one of them is about to let it go.                                      *)
THEOREM VmsRunOnce == MigrationSpec => []RunsOnce
  <1>1. MigrationInv => RunsOnce
    <2>1. \A v \in Vm, h \in Host :
            Leaving(v, h) => TimersOf(v, h, {"MigrationReleaseRequest", "VMDeleted"})
      BY DEF Leaving, TimersOf
    <2> QED BY <2>1 DEF MigrationInv, KeptWell, Apart, RunsOnce
  <1> QED BY <1>1, MigrationStaysOrderly, PTL

(* Asked for one at a time, migrations leave the hosts accounting for      *)
(* exactly the VMs they run, although allocate takes the demand of a VM    *)
(* that is there already a second time.                                    *)
THEOREM HostBooksStayBalanced == MigrationSpec => []HostBooksBalanced
  <1>1. MigrationInv => HostBooksBalanced
    BY DEF MigrationInv
  <1> QED BY <1>1, MigrationStaysOrderly, PTL
=============================================================================
