----------------------------- MODULE StorageDisk -----------------------------
(***************************************************************************)
(* Disks (dslab-storage, disk.rs) and the FIFO scheduler of their          *)
(* operations (scheduler.rs): a limit on all operations of a disk, and for *)
(* reads and writes each a throughput model with a limit of its own.       *)
(*                                                                         *)
(* A throughput model shares its throughput fairly (fair_fast.rs of        *)
(* dslab-models): each running operation has the same amount of work done  *)
(* in the same time.  The state keeps the work left of each; the rate at   *)
(* which it is done, which depends on the number of operations and on the  *)
(* user's functions, is any.                                               *)
(***************************************************************************)
EXTENDS Naturals, Sequences, FiniteSets, SequencesExt

CONSTANTS
    Disk,
    DiskCapacity,   \* of each disk
    TotalLimit,     \* concurrent_ops_limit of each disk
    OpsLimit        \* concurrent_read_ops_limit, concurrent_write_ops_limit

OpType == {"Read", "Write"}
NoLimit == 0        \* a limit is not zero: the code asserts it

\* The disks of a simulation are created one by one.
ASSUME DiskAssumption ==
    /\ IsFiniteSet(Disk)
    /\ DiskCapacity \in [Disk -> Nat]
    /\ TotalLimit \in [Disk -> Nat]
    /\ OpsLimit \in [Disk -> [OpType -> Nat]]

VARIABLES
    disks,      \* space used and scheduler of each disk
    toFs        \* DataReadCompleted, ... on their way to the file system

diskVars == <<disks, toFs>>

(* A throughput model with a limit: the operations running with the work   *)
(* left, those waiting, and the completion events: event is the one in     *)
(* next_event, scheduled are all that will come.                           *)
NewModel == [active |-> {}, count |-> 0, waiting |-> <<>>,
             event |-> {}, scheduled |-> {}]

NewDisk == [used |-> 0, nextId |-> 0, total |-> 0, pending |-> <<>>,
            types |-> {}, model |-> [t \in OpType |-> NewModel]]

DisksInit ==
    /\ disks = [d \in Disk |-> NewDisk]
    /\ toFs = <<>>

Reached(limit, n) == limit # NoLimit /\ n >= limit

-----------------------------------------------------------------------------

\* The operation to finish next: the least work left, the first submitted.
NextToFinish(active) ==
    CHOOSE a \in active : \A b \in active :
      a.left < b.left \/ (a.left = b.left /\ a.op.id <= b.op.id)

\* Mutant: the completion event emitted before is not cancelled.
EmitAnotherEvent(m) ==
    IF m.active = {} THEN m
    ELSE LET id == NextToFinish(m.active).op.id
         IN [m EXCEPT !.event = {id}, !.scheduled = @ \cup {id}]

EmitNextEvent(m) ==
    IF m.active = {} THEN m
    ELSE LET id == NextToFinish(m.active).op.id
         IN [m EXCEPT !.event = {id}, !.scheduled = (@ \ m.event) \cup {id}]

Insert(m, op) ==
    [m EXCEPT !.active = @ \cup {[op |-> op, left |-> op.size]},
              !.count = @ + 1]

ModelSubmit(m, limit, op) ==
    IF Reached(limit, m.count)
    THEN [m EXCEPT !.waiting = Append(@, op)]
    ELSE EmitNextEvent(Insert(m, op))

\* Mutant: the waiting operation is left waiting.
WakeNobody(m) == m

WakeWaiting(m) ==
    IF m.waiting = <<>> THEN m
    ELSE [Insert(m, Head(m.waiting)) EXCEPT !.waiting = Tail(@)]

\* A completion event of the model has come.
Delivered(m, id) == [m EXCEPT !.scheduled = @ \ {id}]

ModelComplete(m) ==
    LET rest == [m EXCEPT !.active = @ \ {NextToFinish(m.active)},
                          !.count = @ - 1, !.event = {}]
    IN EmitNextEvent(WakeWaiting(rest))

\* Mutant: the operation that was started is not counted.
TryScheduleUncounted(d, disk) ==
    IF Reached(TotalLimit[d], disk.total) \/ disk.pending = <<>> THEN disk
    ELSE LET op == Head(disk.pending)
         IN [disk EXCEPT !.pending = Tail(@),
                         !.model[op.type] = ModelSubmit(@, OpsLimit[d][op.type], op)]

TrySchedule(d, disk) ==
    IF Reached(TotalLimit[d], disk.total) \/ disk.pending = <<>> THEN disk
    ELSE LET op == Head(disk.pending)
         IN [disk EXCEPT !.pending = Tail(@),
                         !.model[op.type] = ModelSubmit(@, OpsLimit[d][op.type], op),
                         !.total = @ + 1]

SchedulerSubmit(d, disk, op) ==
    TrySchedule(d, [disk EXCEPT !.types = @ \cup {[id |-> op.id, type |-> op.type]},
                                !.pending = Append(@, op)])

\* The operation the event names decides which model gives a finished one.
SchedulerComplete(d, disk, t, id) ==
    TrySchedule(d,
      [disk EXCEPT !.types = @ \ {[id |-> id, type |-> t]},
                   !.model[t] = ModelComplete(Delivered(@, id)),
                   !.total = @ - 1])

-----------------------------------------------------------------------------

Operation(disk, type, size) == [id |-> disk.nextId, type |-> type, size |-> size]

Answer(d, op, type) ==
    toFs' = Append(toFs, [type |-> type, disk |-> d, id |-> op.id, size |-> op.size])

\* Storage::read: refused when the disk could not hold that much.
DiskRead(d, size) ==
    LET disk == [disks[d] EXCEPT !.nextId = @ + 1]
        op   == Operation(disks[d], "Read", size)
    IN \/ /\ size > DiskCapacity[d]
          /\ disks' = [disks EXCEPT ![d] = disk]
          /\ Answer(d, op, "DataReadFailed")
       \/ /\ size <= DiskCapacity[d]
          /\ disks' = [disks EXCEPT ![d] = SchedulerSubmit(d, disk, op)]
          /\ UNCHANGED toFs

\* Mutant: the space of a refused write is reserved.
WriteReservedFirst(d, size) ==
    LET disk == [disks[d] EXCEPT !.nextId = @ + 1, !.used = @ + size]
        op   == Operation(disks[d], "Write", size)
    IN \/ /\ DiskCapacity[d] < disk.used
          /\ disks' = [disks EXCEPT ![d] = disk]
          /\ Answer(d, op, "DataWriteFailed")
       \/ /\ DiskCapacity[d] >= disk.used
          /\ disks' = [disks EXCEPT ![d] = SchedulerSubmit(d, disk, op)]
          /\ UNCHANGED toFs

\* Storage::write: the space is used from now on.
DiskWrite(d, size) ==
    LET disk == [disks[d] EXCEPT !.nextId = @ + 1]
        op   == Operation(disks[d], "Write", size)
    IN \/ /\ DiskCapacity[d] - disk.used < size
          /\ disks' = [disks EXCEPT ![d] = disk]
          /\ Answer(d, op, "DataWriteFailed")
       \/ /\ DiskCapacity[d] - disk.used >= size
          /\ disks' = [disks EXCEPT ![d] =
               SchedulerSubmit(d, [disk EXCEPT !.used = @ + size], op)]
          /\ UNCHANGED toFs

\* Storage::mark_free: no more than is in use.
MarkFree(d, size) ==
    /\ size <= disks[d].used
    /\ disks' = [disks EXCEPT ![d].used = @ - size]

-----------------------------------------------------------------------------

Left(d, t) == {a.left : a \in disks[d].model[t].active}

Due == \E d \in Disk, t \in OpType : 0 \in Left(d, t)

(* An operation of the model has its work done when the event that names   *)
(* it comes; the model says which one it is.                               *)
OnDiskOperationCompleted(d, t, id) ==
    LET m == disks[d].model[t]
    IN /\ id \in m.scheduled
       /\ m.active # {} /\ NextToFinish(m.active).left = 0
       /\ disks' = [disks EXCEPT ![d] = SchedulerComplete(d, @, t, id)]
       /\ Answer(d, NextToFinish(m.active).op,
                 IF t = "Read" THEN "DataReadCompleted" ELSE "DataWriteCompleted")

Worked(active) == {[a EXCEPT !.left = @ - 1] : a \in active}

(* Time passes for the operations of one model.  What is due now, and what *)
(* was sent now, is handled before.                                        *)
Progress(d, t) ==
    /\ ~ Due /\ toFs = <<>>
    /\ disks[d].model[t].active # {}
    /\ disks' = [disks EXCEPT ![d].model[t].active = Worked(@)]
    /\ UNCHANGED toFs
=============================================================================
