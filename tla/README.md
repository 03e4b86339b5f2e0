# Verification of DSLab

DSLab is a set of Rust libraries for simulating distributed systems. This
directory holds TLA+ specifications of its libraries, instances of them that TLC
checks, and proofs that TLAPS checks. Modelled are: allocation, migration and
placement of VMs (`dslab-iaas`), the machines of `dslab-compute`, disks and files
(`dslab-storage`), functions as a service (`dslab-faas`), the execution of task
graphs and their schedulers (`dslab-dag`), throughput sharing (`dslab-models`), networks
and routing (`dslab-network`), the programs that run many simulations, and two of the
examples. Proved so far are the theorems of section 6, about VM allocation and the
multicore machine.

## 1. Inventory

All libraries run on the discrete-event engine `simcore` (an external crate;
`crates/dslab-core` and `crates/dslab-mp` only point to it). A component is an event handler;
handlers run one at a time and to completion, so that all concurrency is in
*which events are in flight, in which order they arrive, and what the state is
by then*. `simcore` delivers every emitted event once, by delivery time, and
events of equal time in the order of emission; it can cancel events. No
component persists anything or crashes.

| Component | State | Operations | Interacts by | Hard behaviour | Correct when |
|---|---|---|---|---|---|
| **iaas / resource pool** `resource_pool.rs` | per host: available, overcommit, allocations | allocate, release, can_allocate | calls from store and schedulers | release without a check, overcommit | amounts account for the VMs listed |
| **iaas / placement store** `placement_store.rs` | the authoritative pool, scheduler ids | commit request, direct commit, failed, released, add host or scheduler | events from schedulers and hosts; notifies all schedulers, creates VMs on hosts | conflicting decisions, rejection that is both notified and resubmitted | never over capacity; agrees with the hosts |
| **iaas / scheduler** `scheduler.rs` | a copy of the pool, the algorithm | allocation request, four notifications | events | decides on a stale copy; retries; timeout | its copy converges to the store's pool; requests end |
| **iaas / host manager** `host_manager.rs` | free and allocated resources, VMs, unreported changes | create, migrate in, start, release, delete, report | events; timers it sets itself | timers for VMs that have moved; refusal of a committed VM | accounts for the VMs it runs; tells the store once |
| **iaas / VM API** `vm_api.rs`, `vm.rs` | VMs, statuses, locations | register, status update, lookup | events from hosts; read by all | delayed, merged updates | statuses move forward |
| **iaas / monitoring** `monitoring.rs` | reported VMs and loads of hosts | host state update | events; read by the migrator | update loses the order within a period | catches up with the hosts |
| **iaas / VM migrator** `vm_migrator.rs` | thresholds | periodic choice of moves | reads monitoring and VM API; events to hosts | decides on stale data, bypasses the store | a VM runs on one host and is released once |
| **iaas / simulation** `simulation.rs` | registries | the user's calls | calls into all of the above | components added while running | pools agree on hosts |
| **compute / multicore** `multicore.rs` | free cores and memory, computations, allocations | run, preempt, resume, cancel, allocate, deallocate | events, model of speedup | completion racing preemption and cancellation | resources conserved; each computation ends once |
| **storage / disk** `disk.rs`, `scheduler.rs` | used space, queues per type, running operations | read, write, mark_free, completion | events, throughput model | head-of-line blocking, re-emitted completion events | every request answered once; used within capacity |
| **storage / file system** `fs.rs` | mounts, files, requests in flight | mount, unmount, create, read, write, delete | events to and from disks | unmount or delete while busy | file sizes add up to used space |
| **faas / host, containers** `host.rs`, `container.rs` | containers, free resources, reservations | invoke, deploy, end of container, completion | events | end event racing reuse | no container both used and deleted |
| **faas / invokers** `invoker.rs` | queue | invoke, dequeue | calls from hosts | overtaking, head-of-line blocking | each invocation runs once; resources conserved |
| **faas / controller, deployer, policies** | apps, prewarming | invocation, deployment, prewarm | calls and events | prewarm racing keep-alive | invocations reach a host |
| **dag / runner** `runner.rs` | task states, actions, resource queues, transfers | scheduler callbacks, task and transfer completion | events from compute and network | queues per core, partial application of actions | every task runs once, after its inputs arrived |
| **dag / schedulers** | schedules | start, task state change | called by the runner | static plans against dynamic runs | actions the runner accepts |
| **models / throughput sharing** | activities, progress | insert, pop, peek, cancel | library of disk, CPU, network | lazily updated progress | same completions as the naive algorithm |
| **network** `network.rs`, `models/*` | transfers in flight, link loads | send, transfer, completion | events | completion events recomputed at each change | each transfer completes once |
| **compute / singlecore** `singlecore.rs` | free memory, activities, the next completion event | run, completion | events, throughput model | the completion event is replaced at each start and end | computations share the core fairly, each ends once |
| **network / topology** `topology.rs`, `routing.rs` | nodes, links, routes | add node or link, resolve routes | read by the topology-aware model | links added while transfers run | shortest routes, bandwidth shared fairly |
| **iaas / placement algorithms** `vm_placement_algorithms/*` | none | select a host for a VM, or hosts for a request | read pool and monitoring | floating-point scores, totals with overcommit, stale loads | what is chosen fits, also together |
| **experiments** `iaas/experiment.rs`, `exp_config.rs`, `dag/experiment.rs`, `faas/parallel.rs` | parameters, results | enumerate, run, collect | thread pool, channel, mutex | threads report in any order, a run may panic | each combination runs and is reported once |
| **examples** `master-workers*`, `ping-pong*` | tasks, workers, rounds | their handlers and coroutines | network, disk, compute | copies of capacities in a queue, awaited keys | tasks at one place, rounds made |
| **power models, parsers, readers, statistics** | (inputs and outputs) | pure formulas, file formats | — | real numbers | not modelled |

`PROJECT.json` lists every component with its status, and under `hazards` what
is hard to test in each of them, at its line.

## 2. What is modelled

### VM allocation and migration

Modules of the specification, each one file of `crates/dslab-iaas/src/core`:

| Module | Code | State |
|---|---|---|
| `ResourcePool` | `resource_pool.rs` | (operators) `Allocate`, `Release`, `CanAllocate` on a host's entry |
| `CloudEvents` | `events.rs`, delivery by simcore | the inbox of every component, pending timers, registered hosts and schedulers |
| `VmApi` | `vm_api.rs`, `vm.rs`, `monitoring.rs` | `vmStatus`, `vmLocation`, `deadline` of each request; `monitored`: the VMs reported of each host |
| `Scheduler` | `scheduler.rs` | `schedPool`: each scheduler's copy |
| `PlacementStore` | `placement_store.rs` | `storePool` |
| `HostManager` | `host_manager.rs` | `hostPool`, `hostAllocated`, `hostReport` |
| `CloudAllocation` | `simulation.rs` | composes all of these, with the user's calls; the properties of the composition |
| `CloudMigration` | `host_manager.rs`, `on_migration_request`; `extensions/vm_migrator.rs`; `simulation.rs`, `migrate_vm_to_host` | `CloudAllocation` with migration: `migrationRequests`, the requests on their way; `ranOn`, `lifetimeOver`, `orderly`, `migrationsAsked`; operators `Candidates`, `Rounds`: what a round of the migrator may ask for; its properties |
| `VmPlacement` | | the abstract specification |
| `MCCloud`, `MCMigration` | | constants for TLC |
| `CloudProofs` | | theorems about the pools and the allocation of VMs, their life, what the monitoring is told of it, that allocation implements `VmPlacement`, and migration |

One action is one event handler with everything it calls. A request is a set of
VMs (`vm_ids`), a placement a function from these to hosts (`vm_ids` with
`host_ids`). `OnAllocationRequest` has the three outcomes of the handler (time
out, place, emit the request again), `OnCommitRequest` the two of the store.
Operators whose comment starts with "Mutant" are deliberately wrong variants of
the definition that follows them. They are used by nothing; each shows that a
property of section 4 can fail.

### The multicore machine

| Module | Code | State |
|---|---|---|
| `Multicore` | `crates/dslab-compute/src/multicore.rs`, the handlers | `coresFree`, `memoryFree`, `computations`, `allocations`; `finishIn`: the time until the pending `CompFinished` event; `commands`, `notices`, `allocationCalls`: events on their way, counted by type; `panicked` |
| `ComputeClients` | the methods of `Compute`, and those who call them | `view`: what the requester takes each computation for; the properties |
| `MCMachine` | | constants for TLC; a behaviour is one of `ComputeClients` and `FileSystem` |
| `ComputeProofs` | | theorems and proofs |

One action is one handler; `OnPreemptComp` and `OnCancelComp` are the two uses
of `stop_computation`. A step that reaches an `expect` or `panic!` of the code sets
`panicked`, after which nothing happens any more.

### Disks and files

| Module | Code | State |
|---|---|---|
| `StorageDisk` | `disk.rs`, `scheduler.rs`, `events.rs` | `disks`: space used and the scheduler of each disk; `toFs`: answers on their way |
| `FileSystem` | `fs.rs` | `mounted`, `files`, `requests`, `nextRequest`, `replies`; the properties |
| `FoldTheorems` | | lemmas on folds: on `SumFunction`, in which the properties keep accounts of space, and on folds over queues and sets of messages |
| `FileSystemProofs` | | theorems and proofs |

### Functions as a service

A host is a record that each module adds fields to; an action of `FaasPlatform` is
one handler of the host or the controller with everything it calls.

| Module | Code |
|---|---|
| `FaasContainers` | `container.rs`, `resource.rs`: containers, reservations, resources; `cpu.rs`: the ignored, isolated and contended policies |
| `FaasHost` | `host.rs`, `invoker.rs`, `invocation.rs`: the handlers and the two invokers |
| `FaasPolicies` | `scheduler.rs`, `deployer.rs`, `coldstart.rs`, `extra/hermod.rs`, `extra/hybrid_histogram.rs` |
| `FaasPlatform` | `controller.rs`, `simulation.rs`: `config`, `hosts`, `arrived`, `turn`, `invocations`, `idleDeploys`; the properties |
| `MCFaas` | constants for TLC: scenarios of trace, hosts and policies |
| `FaasProofs` | theorems about invocations, containers and queues |
| `FaasCpuProofs` | theorems about the CPU |

### Task graphs

| Module | Code |
|---|---|
| `Dag` | `dag.rs`, `task.rs`, `data_item.rs`, `resource.rs`: the graph and the states of its tasks |
| `DagRunner` | `runner.rs`: actions, queues of resources, transfers, completion, as operators on the runner |
| `DagSchedulers` | `simple_scheduler.rs`, `simple_with_data.rs`, `dynamic_list.rs`, `dytas.rs` |
| `ListScheduling` | `heft.rs`, `peft.rs`, `dls.rs`, `lookahead.rs`, `common.rs`, `treap.rs`, `system.rs`, `lower_bound.rs` |
| `DagExecution` | runner, scheduler, `Compute` of each resource and network together: `runner`, `policy`, `memo`, `plan`, `comps`, `answers`, `failures`; the properties |
| `MCDag` | constants for TLC: graphs, resources, all schedulers and their options |
| `DagProofs` | theorems about the runner, whatever the scheduler |

`Multicore` is not composed with the runner: `DagExecution` has the part of a
`Compute` the runner uses (requests, completion, refusal). The plans of the four
list schedulers were compared with the makespans that `tests.rs` (`test_4`) of the
crate expects: HEFT 98, Lookahead 94, DLS 96, PEFT 95.

### Sharing, networks, experiments, examples, placement

| Module | Code | State |
|---|---|---|
| `ThroughputSharing` | `fair_fast.rs`, `fair_fast_with_cancel.rs`, `fair_slow.rs`; the tester of `tests.rs` | `tester`: the three models side by side, and `work`, what is really left |
| `SingleCore` | `singlecore.rs` | `core`: memory, model, `nextEvent`, events on their way; the property of sharing |
| `SharingProofs` | | theorem and proofs |
| `Topology` | `topology.rs`, `routing.rs`, `link.rs`, `topology_aware.rs` | operators: links, `FloydWarshall`, `Dijkstra`, paths; on the model, `Calc`, `CalcAll`, `AffectedTransfers` |
| `Network` | `network.rs`, `constant.rs`, `shared.rs`, `network.rs` of `dslab-dag` | `network`, and what clients still do: `toSend`, `toAdd` |
| `Examples` | `examples/master-workers`, the worker of `master-workers-async`; `examples/ping-pong`, the process of `ping-pong-async` | `master`, `jobs`, `comps`, `toWorker`, `toMaster`, `async`, `pinging`; with `StorageDisk` and `Network` |
| `Experiments` | `exp_config.rs`, `dynamic_variable.rs`, `experiment.rs` of `dslab-iaas` and `dslab-dag`, `parallel.rs` of `dslab-faas` | `experiment`: parameters, queue, threads, results |
| `VmPlacementAlgorithms` | `vm_placement_algorithms/*`, `compute_placements` | `placing`: pool, reported loads, requests |
| `ResourceProperties` | | the properties of the others |
| `Folding` | | loops as folds that evaluate each intermediate result once |
| `MCResources` | | constants for TLC; each behaviour is one of these systems |

`AsInTests`, an `ASSUME` of `MCResources`, checks that eight of the algorithms and
`RackAntiAffinity` choose the hosts `test_algorithms.rs` expects.

### Abstractions and why they are sound

- **Time.** Delays are left out; a timer fires at any later moment. What the
  delays do guarantee is kept where the protocol relies on it: the messages of
  the store to a scheduler arrive in order (same `message_delay`), as do reports
  of a host; the retry of a rejected request arrives after the notification of
  the rejection (`allocation_retry_period` is added to the same delay,
  `RequestDelivered`); a timeout is counted from the first delivery
  (`DeadlinePasses`). The other inboxes are sets and admit every order, a
  superset of what simcore does.
- **Batches.** The code updates a pool one VM at a time; `Allocate` and
  `Release` take a set. The lemmas `TakeSplits` and `GiveSplits` prove that the
  result is the same, in any order.
- **Algorithms.** `Selection` says what an algorithm checks; every choice that
  passes is possible. `"any"` stands for user algorithms that do not look at the
  pool (`HostNotFound` would be reachable with it, and hosts that are added late;
  no run combines the two).
- **Hosts.** Pools start with the full capacity of every host that will ever
  exist, and `hosts` says which of them are registered; guards and
  `AllocateAll` / `ReleaseAll` look at registered hosts only.
- **VM identifiers** are unique, as `VmAPI` generates them (`RegisterNewVms`).
- **Loads, energy, SLA metrics and logging** are left out. They are computed
  from this state and feed nothing back into it, but for the migrator, for which
  the load of a host is open: it may be underloaded, overloaded or both in each round.
- **Migration** is a layer of its own. `CloudAllocation` emits no migration
  request; two branches of `HostManager` (the release of a VM that is not there,
  `is_migrating`) only fire when `CloudMigration` does.
  The user and the migrator look for a VM where it was last reported. Reports
  are delayed by any time, and instead of modelling them once more a VM may be
  taken to be on any host of `ranOn`, on which it has started. This
  admits more moves than the code makes.
- **Lifetimes in migration.** `on_vm_started` sets the timer for what is left of
  the lifetime, so that it ends at one moment wherever the VM is. `LifetimeEnds`
  is that moment: no `AllocationReleaseRequest` timer fires before it. A VM that
  starts after it (a migration that ends late) gets a timer that may fire at
  once; what the engine does with the negative delay the code then computes is
  left out.
- **`orderly`** is a ghost that says that each migration so far was asked for
  when its VM was at rest on the source, to another host, one at a time. It is
  what a careful user does; the properties that need it name it, and the
  violations of section 5 are what happens without.

- **Time of computations** passes in ticks, once all events emitted in this
  tick are handled; work is counted in flops and a duration is rounded up to
  whole ticks (`TicksFor`). Completions due come before commands of the same
  tick, as in simcore, where they were emitted earlier. The commands of one
  tick are handled in any order, a superset of the order of emission.
- **Requesters** act on the answers they get and have one command per
  computation on its way. Without that discipline the panics of the code are easy to
  reach (two `PreemptComp` in a row), which is how it is meant.
- **Speedup** of a computation is any function of the number of cores
  (`CoresDependency`); an answer's `fraction_done` and reason are left out.
- **Owners** of allocations ask for any allocation at any time, also to give
  back what they do not hold; nothing depends on the answers.
- **Disks** leave throughput open: each operation keeps the work it has left, and
  any progress is possible. Calls of the file system that return an error and change
  nothing are left out. A path under several mount points resolves to any of them,
  as the code goes through a hash map. A panic is a step that is missing; `RequestsTracked`
  says that none is reached.
- **FaaS** has no time: events are delivered in any order, cancelled ones are
  not; a window is any of 0, finite and unbounded that the policy may choose; histograms hold any
  values; with `Contended` any running invocation may end first. `SwapRemove` is
  external. Statistics are left out except the counts that policies read.
  Containers that start for one application are taken in the order of their ids, idle ones first: a
  container about to start with no delay left could be taken before an idle one in the code.
- **Graphs.** Computations and transfers take any time. The planners work on whole
  numbers (`FlopTime`, `UnitTime`, `Latency`); a rank is multiplied by the number of what it
  averages. Speedup is linear. The criteria of `DynamicList` are keys in whole numbers: where the code
  divides by a maximum, all are multiplied by it; `CoresMemoryFlops`, whose comparison is
  mistyped and no order (`dynamic_list.rs:204`), may sort in any way. `MemoryUsed` is what the treap computes, not its balancing.
  `CoreWrap` stands for 2^32, since DYTAS may subtract more cores than there are.
- **Sharing** is over whole numbers: sizes and shares make every division exact
  (`TesterAssumption` and `CoreAssumption` require it, `DivisionsExact` says it). In the code they are `f64`, and the
  models agree up to rounding (`tests.rs` compares with a tolerance). `TotalWorkMax` is 30 instead of 10^12, so that the total
  starts again from 0.
- **Networks.** Latencies and sizes of messages take any time; messages between two
  nodes stay in order. Bandwidths are chosen so that shares are whole.
  Clients send only where there is a path, without which the code panics.
- **Master and workers** run with `min_cores = max_cores` and workers of distinct
  speed, as in `main.rs`; all requests are there before the first round of scheduling.
  `master.rs` of the async version is the same code.
- **Experiments.** A simulation is one step that may panic. The thread pool, channels
  and `Arc` are external; tracing and printing are left out.
- **Placement** compares scores exactly, as fractions, and roots by squares. Where
  rounding decides more than a tie, in `DeltaPerpDistance`, either outcome is possible
  (`MayBeNaN`). Loads of hosts are fractions reported at any moment.

## 3. Runs

Three runs use `MCCloud`, three `MCMigration` (the name says which), the others the MC
module of their part. `Usage` is given
per set of VMs; `UsageMixed` makes two of three VMs fit together, one pair fail
by CPU and one by memory.

| Run | Instance | Question | Distinct states |
|---|---|---|---|
| `contention` | 1 host (added late), 3 VMs (1 direct), 2 schedulers (1 added late) | Conflicting decisions on stale copies: types, one holder per VM, store and host agree, copies balanced and convergent, capacity respected, no refusal by the host; refinement of `VmPlacement` | 122,031 |
| `batch_commit` | 1 host, a pair and a single request | **Violation**: a request for several VMs is committed although they do not fit together | |
| `settles` | 1 tight host with CPU overcommit, 2 VMs (1 direct), algorithm `"any"`, reports, fairness | Every VM asked for finishes or fails, the books balance under overcommit, the monitoring catches up, statuses move forward | 34,557 |
| `migration_races` | 3 hosts with room for 2, 1 and 0 VMs, 1 VM, 2 migrations by user or migrator | Migration racing the end of the VM, another migration and the release of its first host: nothing stays for ever, nothing is lost | 74,618 |
| `migration_store` | 2 hosts, 1 migration by the user | **Violation**: the store's pool offers more than a host has | |
| `migration_twice` | 2 hosts, 2 migrations by the migrator | **Violation**: a host accounts for one VM twice | |
| `machine` | one of two: 3 cores, 2 units of memory, a computation on 1 or 2 cores, one on 2, an owner that allocates a core with or without memory; 2 disks of 1 and 2 units, the small one with limits 1 per type and 2 in total, 2 nested mount points, 1 path, 3 requests; fairness | Completion crosses preemption and cancellation, a resumption fails or gets another number of cores; files, disks and answers agree whatever is mounted, swapped and deleted meanwhile; who waits gets an answer | 207,743 |
| `dag` | 4 graphs of 3 or 4 tasks on a fast resource with 2 cores and a slow one with 1, every scheduler with every option, in its transfer modes; 2 tasks and a user who answers with wrong actions; fairness | The runner's books agree with the machines', inputs come, plans can be carried out, every graph completes | 28,705 |
| `faas` | traces of 3 or 4 invocations on 1 host with contended memory and CPU, or on 2; every invoker, CPU, cold start, scheduling and deployment policy; fairness | Invocations, containers, CPU and queue agree in every order of events; nothing waits needlessly; all is served | 245,606 |
| `faas_queue` | 1 host with 1 core, 6 invocations, FIFO | **Violation**: containers use more CPU than there is | |
| `resources` | one system at a time: 4 activities in the three models; 3 computations on a core; 3 or 4 transfers on ring, tree, star, meshes and a junction, with links of every form added; 3 tasks on 2 workers; 3 processes that ping; 5 experiments; all placement algorithms on 4 hosts; fairness | Sharing and networks are fair and announce the right ends, master and workers agree, experiments run everything once, placements fit, all work is completed | 261,516 |
| `network_nonshared` | the junction with a first link that is not shared, 3 transfers | **Violation**: with the full-mesh optimization a transfer loses on such a link what a slower one holds | |

*Bounds.* Each VM is spawned once, so runs are finite without counters.
`MaxReportsInFlight` bounds the reports of one host on their way; with 0 hosts do
not report at all, which the runs about placement and migration use because no
handler there reads reports (see `ranOn` above). Such runs stop when all VMs are
done and there is nothing left to report, hence `CHECK_DEADLOCK FALSE`; `settles`
reports periodically and checks deadlock. Two schedulers are enough for a
conflict, three VMs for one that fits with one of the others only.
`MaxMigrations` is 2: the second may overtake the first,
return the VM to its first host, or ask for the same move again. A host without
room makes a migration fail, one with room for a VM twice lets a duplicate in.
Schedulers are symmetric where all exist from the start.

In `machine` a disk can be full, have its limit per type and its limit in total
reached by three requests, and be swapped for the other while they run. In `faas`
the trace has, on one host, an application that excludes the others and one whose
containers take two invocations, so that reservations, reuse and queueing all occur; every
window can end before, while and after a container is used. In `dag` the graphs are
those that tell the schedulers apart: a fork with a shared item, a gap that a later task may
fill, two items between the same tasks, two tasks that compete for memory.
In `resources` the bound `MaxActivities` of 4 with 3 at a time lets the total of the fast models
start again from 0 and a cancelled activity stay in the queue behind others;
the ring has a fast way of three links beside a slow one of one. The hosts and
the first seven VMs of the placement are those of `test_algorithms.rs`, an eighth VM fills a host.

Deadlock is not checked where the system may come to its end: all runs but
`settles`; of `machine` only the storage does, since an owner may always ask the `Compute` for something.

In `machine` any two of the three users of the machine may exclude each other, by
cores or by memory. Three flops at a speed of one or two make the work left
at a preemption odd or even, so that rounding matters. Preemption and
resumption repeat without a bound, as the state stays finite.

*Fairness* (`machine`, computations): weak fairness of the delivery of every event; none on
requesters, owners or time. Of the answers to one computation only one is ever on its way (`Conversation`).

*Fairness* (`machine`, storage; `dag`, `faas`, `resources`): every event emitted is delivered,
and what runs goes on until it ends (`step_until_no_events`); threads and the caller
of an experiment go on. `NetworkFair` is weak fairness of `NetworkStep`
with its enabling condition written out, which TLC evaluates faster. Users of a
file system, clients of a network and schedulers that place VMs need not do anything; windows of
idle containers are finite where the policy gives finite ones.

*Fairness* (`settles`): weak fairness of every handler per message, of the
periodic report, and of the passing of the timeout. simcore delivers every event
that is emitted, and time advances because a retried request is delivered
`allocation_retry_period` later; so this is what the code guarantees. There is no
fairness on the choice of the algorithm, which may choose a full host each time, nor on the user's calls.

## 4. Properties

- `OneHolder` — a VM is in one request, or one decision, or allocated on one
  host, and in one of these only.
- `StoreHostAgreement` — the store's pool lists for a host exactly the VMs that
  are on their way there, run there, or whose end is on its way back.
- `BooksBalanced`, `ViewsBalanced` — amounts account for exactly the VMs listed.
- `StoreWithinCapacity`, `NoHostRejection` — nothing committed beyond capacity,
  nothing committed is refused. True for single-VM requests, false for batches.
- `ViewCatchesUp` — a scheduler's copy, with the notifications on their way
  applied and its own undecided placements taken out, is the store's pool.
- `MonitoringCatchesUp`, `StatusMovesForward` — reports.
- `EveryVmSettles` — liveness.
- `ImplementsVmPlacement` — a VM is submitted once, placed at most once on one
  host that has room for it, and never placed again. The refinement mapping
  reads the phase of a VM off who holds it, and its place off the store's pool.
- `NoOrphans` — a VM on a host always has a timer at that host which leads to
  its end, although timers of earlier stays may fire in between.
- `NotLost`, `RunsOnce`, `HostBooksBalanced` — under `orderly` migrations a VM is
  on a host until its lifetime is over, on two only while one of them is about
  to let it go, and each host gives back what it took, once.
- `AvailableWithinTotal`, `HostBooksAlwaysBalanced` — violated, see below.
- `NoPanic` — a requester that waits for answers never reaches a panic, although
  a computation may finish while it sends a command.
- `EndsOnce` — a computation ends once, by completion, cancellation or refusal.
- `Conversation` — the state machine a requester may rely on: what it takes the
  computation for, command, answer and computation fit together.
- `CompletionOnTime` — completion comes with the tick in which the work is done.
- `ResourcesConserved` — cores and memory held and available add up.
- `AnswersCome` — whoever waits gets an answer.
- `SpaceAccounted`, `RequestsTracked` — used space is what files hold and writes have
  reserved; every operation under way is known, so that no panic of `fs.rs` is reached.
  Space is accounted for over all disks together: a file is freed on the disk
  its path leads to when it is deleted.
- `SchedulerConsistent`, `EveryRequestAnswered` — no slot of a disk stays idle, the
  pending event is for the operation the model completes next; one answer each.
- `InvocationsPlaced`, `ContainersAccounted` — an invocation is at one place (queue,
  reservation, container); resources are those of the containers, and each container
  has exactly the event to come that its state calls for.
- `CpuShared`, `NothingWaitsNeedlessly`, `EveryInvocationFinishes` — CPU load is that of what
  executes; no queued invocation could be served; all are served.
- `CpuNotOverloaded` — violated, see below.
- `BooksAgree`, `InputsOnTheirWay` — the runner's count of a resource and the machine's
  differ by what is on its way; a missing input is coming.
- `PlanFeasible` — a static plan has no core with two tasks, no memory beyond
  what there is, no task before its inputs, and respects the lower bound.
- `DagCompletes` — with every scheduler of the crate all tasks get done, noticed once, unless
  a packing criterion keeps asking for a task where it may not run (`Misplaced`, see below).
- `SharingExact` — fast, cancelling and slow models agree with the truth on what is
  left of each activity and what ends next; the single core announces that end.
- `NetworkExact` — each transfer is in one model, the end of what ends next is
  announced, bandwidth is shared max-min fairly also when only affected
  transfers are computed again, routes are shortest. On the junction of `resources` the slow transfers keep what
  they have when a fast one ends; the links they share with others are shared ones.
- `NonSharedInFull` — violated, see below.
- `TasksAccounted` — tasks, rounds and runs are each at one place; the master's
  count of a worker is what its tasks leave.
- `PlacementsSound` — what an algorithm chooses fits, the VMs of a request
  together; a single VM is refused only if no host has room (with the exceptions of
  `WaitsForRoom`); rack anti-affinity puts VMs on different racks.
- `WorkCompletes` — all of it ends.

## 5. Findings

`batch_commit`: in `on_allocation_commit_request` the loop that checks the
placements of a request updates a copy of the pool but asks the pool itself
(`placement_store.rs:103`), so that the VMs of one request are not checked
together. A scheduler with an outdated view gets a batch committed that does not
fit. The host then refuses one of the VMs (or, with overcommit, takes it beyond
its memory), `AllocationFailed` gives the resources back everywhere, and that VM
is neither retried nor reported as `FailedToAllocate`.

`migration_store`: the store does not hear of a migration, but it does hear of the
end of the VM, from the host where it ends (`host_manager.rs:278`). The store then
gives the VM's resources back on a host where it never allocated them, and keeps them
on the first host for ever: the "authoritative copy" offers more than the former has.

`migration_twice`: a host that is both underloaded (by one resource) and
overloaded (by another) is gone through twice in one round, and a VM of it is
selected twice (`vm_migrator.rs:121`). The target accepts both requests, because
`on_migration_request` does not ask whether it has the VM, and takes the
resources twice; they are given back once.

`faas_queue`: `dequeue_requests` (`host.rs:314`) puts all invocations it starts into
their containers before it tells the CPU of any. If two of them enter one idle container, the
CPU finds two invocations in it both times, and never adds its share to the load: the isolated
policy lets containers run beside it beyond the cores.

`network_nonshared`: with the full-mesh optimization, `get_affected_transfers` leaves out the transfers that are
slower than the one that ends, and `calc` takes what they keep off each link they share with the others
(`topology_aware.rs:254`), also off a `NonShared` one, of which every transfer has the full bandwidth
(`link.rs:11`). Three transfers pass a `NonShared` link of 60, one of them slowed to 24 further on. When one of the
fast ones ends, the other is left with 36, until a start or a new link has all computed again. The comment that affected and
other transfers have no links in common (`topology_aware.rs:148`) is not true of the slower ones.

Met while modelling, and not run:

- The documentation of `multicore.rs` says that the cores of a
  computation do not change after its start (lines 259-260), while a resumed
  computation gets as many cores as are free then.
- A task without flops whose outputs cost nothing to transfer has the rank of a successor
  (`heft.rs:49`, `lookahead.rs:75`); with a smaller identifier the successor is planned first, and
  the plan waits for itself.
- `cancel` (`fair_fast_with_cancel.rs:173`) removes the activity before the total may start
  again from 0: the volume it returns is then negative.
- `DeltaPerpDistance` takes the root of a number that rounding may make negative; the NaN loses
  every comparison, and a host with room is passed over (used (5, 1) of (10, 2), for instance).
  `WorstFit` takes no host without available CPU, `CosineSimilarity` none for a VM that needs nothing.
- `parallel.rs:114`: the caller of a parallel simulation waits for ever if one run panics;
  `WorkCompletes` makes this exception. In `dag/experiment.rs` such a run is silently missing.
- `exp_config.rs`: a second use of the same experiment skips its first combination;
  `dynamic_variable.rs:83`: a step of 0 never ends.
- The packing criteria (`dynamic_list.rs:354`) offer a resource any ready task that fits, also one
  that is not allowed there, such as the tasks that stand for inputs and outputs, which only the
  master may run. The runner refuses (`runner.rs:281`), the same is chosen the next time, and the graph does not
  complete; `DagCompletes` makes this exception, and without it TLC finds such a run.
- DYTAS looks for ever for a resource if a task fits none (`dytas.rs:338`), and may take away more
  cores than there are (`dytas.rs:302`).
- `active_invocation_count` (`faas/host.rs:120`) counts queued invocations too, which
  `total_invocation_count` (line 95) then counts twice.
- `next_event` starts as 0 (`singlecore.rs:107`, `shared.rs:23`), so that the first insertion cancels
  event 0 of the simulation, if that is still to come.

## 6. What is proved

**VM allocation.** For any sets of hosts, VMs and schedulers, any capacities, any additive demands
and any setting of the constants, from the ASSUMEs of the modules only:

- `TypeCorrect` — `Spec => []TypeOK`. The amounts of the pools being naturals is part of it, so
  unsigned arithmetic never underflows. This needs no other invariant: both branches of take and give are guarded.
- `AllocationCorrect`, and from it `VmsHaveOneHolder` and `StoreAndHostsAgree`.
  Neither of the two is inductive. That the store allocates a VM only once rests
  on the holder being unique, and that a host lets go of it once on the store still
  listing it; besides one needs that unregistered VMs are nowhere
  (`NewVmsAreNowhere`), that the store allocates on registered hosts only
  (`OnKnownHosts`), because otherwise `ReleaseAll` would skip a notice, and
  that a host has one notice in flight per VM (`OneNotice`), because the release
  does not check. Their conjunction is `AllocationInv`, preserved by each action.
- `BooksStayBalanced` — by `AllocationInv`, a pool only takes what it does not
  hold and only gives back what it holds; then `available - overcommit` changes
  by the demand, and one of the two stays zero (`OccupyBalanced`,
  `AllocateBalanced`, `ReleaseBalanced`).
- `ViewsStayBalanced` — so does the copy each scheduler decides on, which is behind the
  store by the messages on their way to it. `ViewInv` says what these messages may
  be: of those about a VM the last at most gives it back (`GivenBackLast`), and it does so
  only of a VM that is nowhere any more (`GivenBackOnce`); what the copy
  lists, now or once it has heard of it, is what the store has allocated, what it has given
  back unheard, and what the scheduler has itself decided (`Follows`). Assumed is that an
  algorithm of the user (`Selection = "any"`) names no hosts that are only added later: its
  scheduler would not take the VM, but would give it back.
- `ViewsCatchUp` — from `ViewInv`, that a copy is behind but never wrong. The property
  folds over a queue and over a set of messages. The fold over the queue goes through one copy
  after each message (`CopiesFold`), which stays balanced and lists what was granted by then and
  not withdrawn (`CopyAccounts`); then the scheduler's undecided placements are taken out, one
  after the other in whatever order (`CopyWithout`). What is left lists the VMs of the store's
  pool, and a balanced entry is determined by the VMs it lists (`BalancedDetermined`).
- `SingleRequestsFit`, `SingleRequestsAreNotRefused` — under the assumption
  `SingleRequests` (every request is for one VM). The store's check is then the
  check of the whole placement; the host accepts because what it runs and what
  is on its way there is part of what the store has allocated, which fits.

**The multicore machine.** For any computations, owners, amounts, speedups and sizes of
the machine, `ComputeSound` proves the invariant `ComputeInv`, from which
follow `ComputeTypeCorrect`, `NeverPanics`, `ConversationsFit`,
`ComputationsEndOnce`, `CompletionsOnTime` and `ResourcesAreConserved`. They need each other: a
computation runs on a number of cores for which the speedup is defined only as no more are
available than there are, which is conservation; the work left at a resumption
is positive only as completions are on time; that a completion finds its
computation running rests on the conversation. Sums over all holders are stated
as the cardinality of the set of units held (`Units`), so that they can
be proved with the library's theorems on finite sets (`MoreUnits`,
`TakeConserves`, `GiveConserves`).

**The life of a VM.** `LivesInOrder` proves `TypeOK /\ AllocationInv /\ LifeInv`, from which
`StatusesMoveForward` follows (an action property, `StatusMovesForward`). What the
API knows of a VM is the last of several things said of it, by schedulers and hosts, in
events with delays and in reports a host gathers, so that the invariant has to be about
all that was said and not heard: events are in order and reports come after
them (`HeardInOrder`), one host at most has a report to send (`OneReporter`),
and nobody who may still say "Running" or "Finished" is behind what was said
(`NothingSaidTooEarly`). The last rests on a VM having one timer at most
(`OneTimer`), which rests on its having one holder, hence `AllocationInv`.

`MonitoringIsRight` is about the reports of hosts, which say what VMs came and what VMs left
since the last one, not in which order. `ReportInv` says that a host has the VMs that were
told to come and not told to leave, that no report adds a VM after one that removes it
(`RemovedLast`), and why this is so: a VM that left is at no host and nobody will put it on one
(`Gone`, which each step preserves). Migration breaks this, and is not part of this module.

`AllocationImplementsVmPlacement` is the refinement: under `SingleRequests` and without
overcommit, `Spec => ImplementsVmPlacement`. `PlacementInv` holds in the initial
state and is kept (the theorems above); then the initial state maps to an initial
state, and each step of the user, a scheduler, the store, a host or the API maps to
a step of `VmPlacement` or to a stutter (`UserStepPlaces` and the lemmas after it). The step that takes
a place is the store's commit: that there is room for the VM is
`StoreWithinCapacity` with `BooksBalanced` (`PlacementPlaces`). The step that ends a VM is the host's notice.
`NoneAssumption` says that the value for "no place" is no host.

**Migration.** For any finite sets of hosts and VMs, any number of migrations and whoever asks
for them, `MigrationStaysOrderly` proves `MigrationInv`, from which follow `NoVmIsOrphaned`,
`NoVmIsLost`, `VmsRunOnce` and `HostBooksStayBalanced`. `AllocationInv` is of no
use here: the store is not told of migrations, and `StoreHostAgreement` is false after
the first (section 5). What is left of it is that a VM is created once (`CreatedOnce`: one
component is to take the next step towards its creation, and until then no host
knows it). `Guarded`, that a VM on a host has a timer there, is inductive on
top of that alone, and holds for any migrations; it is what `NoOrphans` says.
The others hold of `orderly` migrations: a request under way is the only one,
from the only host that may have the VM (`Moving`), of two hosts with a VM
one is about to let it go (`Apart`), and before the end of its lifetime some host is
to keep it (`Staying`). The sets are assumed finite (`FiniteAssumption`: they
are built one by one), since requests are counted as the cardinality of the candidates a round chooses.

**Disks and files.** For any finite set of disks, any capacities, limits of concurrent operations, mount
points, files and requests, `StorageStaysOrderly` proves `StorageInv`, from which follow
`SchedulersKeepToLimits`, `RequestsAreTracked` and `SpaceIsAccounted`. The three need each other. That the
answer of a disk is for a request the file system knows rests on operations being
distinct: no two in the disk's queue, in the queues and the sets of its models and among the
answers on their way have one identifier, and all are below `nextId`. That a completed
operation frees a slot for one that waits, and never leaves a slot idle, is a fact about the disk
alone (`DiskInv`), and that a model's pending event is for what it completes next is one
about the model alone (`ModelInv`); they are proved of a disk's record, operation by operation (`OperationSubmitted`,
`OperationCompleted`, `ModelWorked`), before any step of the specification is looked at. Space is
the sum over disks of what is used against the sum over files of their sizes plus what writes in
flight have reserved. `FoldTheorems` shows what `SumFunction` becomes when a
function changes at one point, by counting units as above, because the fold by which
it is defined chooses its elements in no order a proof could follow.

**Functions as a service.** For any applications, traces, hosts, invokers and policies, `FaasSound` proves
`FaasInv`, from which follow `InvocationsAlwaysPlaced`, `ContainersAlwaysAccounted` and
`NothingEverWaitsNeedlessly`. One handler moves many invocations: the start of a container starts all that were
reserved for it, a dequeue goes through the whole queue, and the containers that
have left the CPU let others in. The model has these as the folds they are in
the code, and between two turns of a fold the host is in no state the properties describe. `HostAt(h, k, b, X)`
describes it there too: `k` says of each invocation what has become of it (in hand or queued,
reserved, taken from the reservations, entered, told to the CPU, ending, finished), `b` in which container, and `X`
is the container whose status is being changed. All of the host's books are determined by these two functions: which containers are free and full,
what a container holds, which events are to come, whom the CPU knows. Each turn moves one
invocation (`Moved`), and each part of `HostAt` has a lemma about what the move does to it.
Between two events no invocation is under way (`Settled`) and nothing in the queue can be served (`Served`): that
the latter survives a dequeue rests on an invocation only ever taking room (`Hardens`), so that what was hopeless
stays so. Assumed are `AppAssumption` and `ScenariosAssumption`: amounts are naturals, a
container takes at least one invocation, cores are a natural number (`u32` in `config.rs`), and a trace is a sequence of
applications that exist.

`CpuAlwaysShared` proves `CpuShared` on top of that (`CpuInv`). What is kept of a host is `Booked`: the load is
the sum of the shares of the containers that execute (`Fits`), an Isolated CPU keeps within its cores and lets no container
wait that fits, and a Contended one has an end to come while it has work (`EndRight`). Within a
handler the sum is over the containers that hold anything but invocations the CPU has not been told of
(`Busy`, `Untold`), so that each turn of a fold adds one share, takes one off or changes nothing. The code decides that
by whether the invocation is alone in its container, which is right only if no two that have entered one container are
still to be told. Where this holds is what has to be shown (`Apart`): with a limit of one invocation there is no second; with the naive
invoker nothing that could be served is left in the queue (`Served`) between two events, an event frees one
place, so when the queue is tried every container that runs has at most one for what is queued (`Snug`), and the
dequeue starts no two invocations in it. A queue
without overtaking and containers that take several break it: that is the violation of `faas_queue`.

**Task graphs.** For any resources and any graphs not yet begun (`NewGraph`), `UserBooksAgree` proves `Spec => []BooksAgree`
for a scheduler of the user, one that answers with any sequences of actions at any time: twice the same task, a task that runs, a core named
twice, a resource without room. `ScenariosAssumption` only asks that tasks, items and resources named exist.
`BooksAlwaysAgree` is the same for every scheduler of the model, if what it answers is made of such actions (`AnswersTyped`, a
hypothesis here; TLC finds it true in every state of the run `dag`, and would stop at an action on a task or a
resource that does not exist). A static plan and the answers of a dynamic scheduler are otherwise arbitrary: nothing
about an algorithm is used, so the theorem is about the runner alone. The invariant (`BooksRight`) is stated of a runner, the `Compute`
of each resource and the answers on their way (`Sound`), not of the variables, since one event carries out many actions, an action
fetches many inputs, and a pass over a queue starts many tasks; each is a fold, and each turn keeps `Sound`. Its parts:
tasks and items of the graph name each other, and what has begun has its inputs (`GraphTyped`, `GraphLive`); nothing is anywhere before
it is made (`Supplied`); an entry of a core's queue is of a task that waits on this resource, with one number per task (`QueuesRight`), so
that the task that starts is not one that runs; free cores and memory are what the running tasks leave, and no two share a core
(`CoresRight`, `MemoryRight`); a task that runs is on its way to its `Compute`, with it, or on its way back, in exactly one of these
(`PlacesRight`), with the cores it was given; hence the two counts differ by what is on its way (`CompsRight`), and `Compute` always has what a request asks (`RequestGranted`).
That a pass cannot start a task twice, nor two tasks on a core, when several entries are ready at once is the loop of
`StartIfReady` over the heads of the queues found before it: each start leaves the others' cores free (`Showing`).

`InputsComeToTasks` proves `InputsOnTheirWay` for the two modes in which the runner sends the data itself, with the same
hypothesis as `BooksAlwaysAgree`, and `UserInputsComeToTasks` for a scheduler of the user without it. `NewGraph`
says what the proof needs of a graph: nothing is made, a task with inputs is Pending and has heard of none, every item has a producer
(the input task makes those of the graph itself), and a task stands among the consumers of items as often as it has inputs (`Wired`,
`Slots`), as `add_data_dependency`, `add_task_output` and the runner's constructor make it; TLC evaluates this for every graph of the
instances. The part of the invariant is `FlowRight`. Of the graph: what a task has heard of is the number of its slots at items
that are made (`Counted`), so it reaches the number of its inputs with the last of them and not before; from this follows
`TasksNeverPanic`: the `panic!` of `update_data_item_state` is never reached, in any mode. Of the data: what is made
is held, or moving, where others get it from (`Stored`, `AtHand`), and each input of a waiting task comes (`Fed`,
`Coming`). An action of the scheduler only adds: what was held, moving or wanted still is, or has begun to move
(`Onward`), and this goes through the folds over actions and inputs (`Acted`, `Follows`, `Hauled`). Two steps break it
on the way: when a task is done its outputs are made before they are sent, so all is right but for these (`FlowBut`) until the
uploads (`ViaFlow`) or the sends to the consumers that were placed (`DirectFlow`) have begun; and a transfer that ends
passes the item on to all who wanted it there (`Landed`, `LandedFlow`).

**Sharing.** For any number of activities and computations, any shares and any `TotalWorkMax`, `SharingIsExact` proves
`SharingSpec => []SharingExact`. Assumed is that every size, and what a client waits times a share, is divisible by all
shares, which is what makes the numbers whole (section 2), and that shares are given for as many as run at once. The invariant
(`TesterInv`, `CoreInv`) names, for the ids of the activities, a function `L`: what is left of each (`Books`).
Each model is right if what it keeps is `L` up to what all got since it was last looked at; for the fast
models also up to the total (`FastIs`, `SlowIs`, `CancelIs`), whatever the total is, so that its starting again from 0
is no case of its own beyond `FastIncrement` and `CancelIncrement`. The cancelling model may in addition
have entries of which nothing is known, except that those that `pop` drops come before the first that runs (`DropCancelledIs`).
Three heaps ordered by different keys then have the same first, since the keys differ
by one amount for all (`FirstFinishes`). For the core, `CoreInv` says that requests come at the time they
were made, and what else is in the queue is one completion, of the first and at the time it ends (`CompletionRight`). That no event
overtakes it is the order of delivery: a completion that comes before a request is due at the same time
(`CompletionDelivered`), and a start takes exactly the completion out of the queue (`StartRight`).

**Folds.** The library's induction theorems take operators as parameters, which no prover here can
instantiate. `FoldTheorems` has induction over the prefixes of a sequence and the subsets of a finite
set with a set in place of the predicate (`PrefixInduction`, `FiniteInduction`), and `FoldExists`: for an
operation given as a function, the recursion in `MapThenFoldSet` has a solution. The `CHOOSE` in its definition
then picks a solution, and `FoldLeft` or `FoldSet` of a concrete operator is what its recursion says
(`CopiesFold`, `UndecidedFold`, `ReportsFold`).

**Left to TLC.**

- `InputsOnTheirWay` in the Manual mode, where what is transferred is up to the scheduler; what the invariant has there
  is that a task's state tells whether its inputs are made and that nothing is held before it is made.
- `PlanFeasible`, `PlacementsSound`, `NetworkExact`: what an algorithm computes, from data it folds over
  (ranks, `FloydWarshall`, the treap's queries, max-min shares): induction over data.
- `TasksAccounted`: examples that are composed with networks and disks.
- Liveness: `EveryVmSettles`, `AnswersCome`, `EveryRequestAnswered`, `EveryInvocationFinishes`,
  `DagCompletes`, `WorkCompletes` need fairness and ENABLED, out of the prover's reach.

## 7. Not modelled

- Energy, SLA and load metrics, power models, statistics, traces and logging: real-valued results that
  nothing modelled reads.
- Parsers, dataset readers, generators of traces: files in, records out.
- `dag-draw` and the other tools, benchmarks, and the examples other than master-workers
  and ping-pong: programs that call the libraries in the ways the instances here do.
- `simcore` is not part of the repository; what is relied on is its order of delivery.
- Of the graph schedulers: depths of Lookahead other than one and all. Of the treap: its balancing.
- Calls of file system and disks that return an error and change nothing.

## 8. Plan

1. Done: all components named in section 2; the theorems of section 6.
2. A theorem about `TasksAccounted` for one example at a time, with the networks of the model as its environment.
