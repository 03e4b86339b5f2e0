------------------------------ MODULE FileSystem ------------------------------
(***************************************************************************)
(* The file system of dslab-storage (fs.rs) over the disks of StorageDisk: *)
(* disks mounted and unmounted at any time, files, and their reads and     *)
(* writes, which become operations of the disk their path resolves to.     *)
(*                                                                         *)
(* Calls that return an error and change nothing are left out.             *)
(***************************************************************************)
EXTENDS StorageDisk

CONSTANTS
    MountPoint,
    Path,
    Covers,         \* the paths that start with each mount point
    Size,           \* sizes read and written
    MaxRequests     \* bound on the reads and writes of files

ASSUME FileSystemAssumption ==
    /\ Covers \in [MountPoint -> SUBSET Path]
    /\ Size \subseteq Nat
    /\ MaxRequests \in Nat

VARIABLES
    mounted,        \* the disk at each mount point that is in use
    files,          \* files: size and cnt_actions of each existing file
    requests,       \* requests: disk operations in flight
    nextRequest,    \* next_request_id
    replies         \* what the requester of each request was sent

fsVars == <<mounted, files, requests, nextRequest, replies>>
vars == <<diskVars, fsVars>>

Init ==
    /\ DisksInit
    /\ mounted = <<>>
    /\ files = <<>>
    /\ requests = {}
    /\ nextRequest = 0
    /\ replies = [r \in 0..(MaxRequests - 1) |-> <<>>]

Without(f, x) == [y \in DOMAIN f \ {x} |-> f[y]]

-----------------------------------------------------------------------------

MountDisk(m, d) ==
    /\ m \notin DOMAIN mounted
    /\ mounted' = [x \in DOMAIN mounted \cup {m} |-> IF x = m THEN d ELSE mounted[x]]
    /\ UNCHANGED <<diskVars, files, requests, nextRequest, replies>>

UnmountDisk(m) ==
    /\ m \in DOMAIN mounted
    /\ mounted' = Without(mounted, m)
    /\ UNCHANGED <<diskVars, files, requests, nextRequest, replies>>

(* The first mount point that is a prefix of the path, in the order of a   *)
(* hash map: any of them.                                                  *)
ResolveDisk(p) == {mounted[m] : m \in {n \in DOMAIN mounted : p \in Covers[n]}}

CreateFile(p) ==
    /\ p \notin DOMAIN files
    /\ ResolveDisk(p) # {}
    /\ files' = [q \in DOMAIN files \cup {p} |->
                   IF q = p THEN [size |-> 0, actions |-> 0] ELSE files[q]]
    /\ UNCHANGED <<diskVars, mounted, requests, nextRequest, replies>>

\* Mutant: a file that is being read or written may be deleted.
DeleteBusyFile(p) ==
    /\ p \in DOMAIN files
    /\ \E d \in ResolveDisk(p) : MarkFree(d, files[p].size)
    /\ files' = Without(files, p)
    /\ UNCHANGED <<toFs, mounted, requests, nextRequest, replies>>

\* The space is freed on the disk the path resolves to now.
DeleteFile(p) ==
    /\ p \in DOMAIN files
    /\ files[p].actions = 0
    /\ \E d \in ResolveDisk(p) : MarkFree(d, files[p].size)
    /\ files' = Without(files, p)
    /\ UNCHANGED <<toFs, mounted, requests, nextRequest, replies>>

-----------------------------------------------------------------------------

Reply(r, type) == replies' = [replies EXCEPT ![r] = Append(@, type)]

\* The disk accepted or refused the operation; its answer comes later.
Track(p, d) ==
    /\ files' = [files EXCEPT ![p].actions = @ + 1]
    /\ requests' = requests \cup
         {[disk |-> d, id |-> disks[d].nextId, request |-> nextRequest, path |-> p]}
    /\ UNCHANGED replies

NewRequest ==
    /\ nextRequest < MaxRequests
    /\ nextRequest' = nextRequest + 1
    /\ UNCHANGED mounted

FailNow(type) ==
    /\ Reply(nextRequest, type)
    /\ UNCHANGED <<diskVars, files, requests>>

\* read is for a part of the file, read_all for the whole of it.
ReadFile(p, size) ==
    /\ NewRequest
    /\ \/ /\ p \in DOMAIN files
          /\ size <= files[p].size
          /\ \E d \in ResolveDisk(p) : DiskRead(d, size) /\ Track(p, d)
       \/ /\ \/ ResolveDisk(p) = {}
             \/ p \notin DOMAIN files
             \/ p \in DOMAIN files /\ files[p].size < size
          /\ FailNow("FileReadFailed")

ReadAll(p) ==
    ReadFile(p, IF p \in DOMAIN files THEN files[p].size ELSE 0)

WriteFile(p, size) ==
    /\ NewRequest
    /\ \/ /\ p \in DOMAIN files
          /\ \E d \in ResolveDisk(p) : DiskWrite(d, size) /\ Track(p, d)
       \/ /\ ResolveDisk(p) = {} \/ p \notin DOMAIN files
          /\ FailNow("FileWriteFailed")

-----------------------------------------------------------------------------

FileEvent(type) ==
    CASE type = "DataReadCompleted"  -> "FileReadCompleted"
      [] type = "DataReadFailed"     -> "FileReadFailed"
      [] type = "DataWriteCompleted" -> "FileWriteCompleted"
      [] type = "DataWriteFailed"    -> "FileWriteFailed"

Matches(q, e) == q.disk = e.disk /\ q.id = e.id

\* The file after an operation on it has ended.
AfterOperation(f, e) ==
    [f EXCEPT !.size = IF e.type = "DataWriteCompleted" THEN @ + e.size ELSE @,
              !.actions = @ - 1]

(* An unknown operation or a lost file is a panic!: the step is not there, *)
(* and RequestsTracked says it is not missing.                             *)
OnDiskAnswer ==
    /\ toFs # <<>>
    /\ \E q \in requests :
         /\ Matches(q, Head(toFs))
         /\ q.path \in DOMAIN files
         /\ files' = [files EXCEPT ![q.path] = AfterOperation(@, Head(toFs))]
         /\ Reply(q.request, FileEvent(Head(toFs).type))
         /\ requests' = requests \ {q}
    /\ toFs' = Tail(toFs)
    /\ UNCHANGED <<disks, mounted, nextRequest>>

-----------------------------------------------------------------------------

UserCall ==
    \/ \E m \in MountPoint, d \in Disk : MountDisk(m, d)
    \/ \E m \in MountPoint : UnmountDisk(m)
    \/ \E p \in Path : CreateFile(p) \/ DeleteFile(p) \/ ReadAll(p)
    \/ \E p \in Path, size \in Size : ReadFile(p, size) \/ WriteFile(p, size)

DiskStep(d, t) ==
    /\ \/ \E id \in disks[d].model[t].scheduled : OnDiskOperationCompleted(d, t, id)
       \/ Progress(d, t)
    /\ UNCHANGED fsVars

Next == UserCall \/ OnDiskAnswer \/ \E d \in Disk, t \in OpType : DiskStep(d, t)

Spec == Init /\ [][Next]_vars

-----------------------------------------------------------------------------
(* What the disks and the file system promise.                            *)

\* The operations of a model, running or waiting; those a disk has started, and
\* all that it has accepted and not completed.
ModelOps(m) == {a.op : a \in m.active} \cup ToSet(m.waiting)
Started(disk) == UNION {ModelOps(disk.model[t]) : t \in OpType}
DiskOps(disk) == ToSet(disk.pending) \cup Started(disk)

\* What the file system will be told of: operations, and answers on their way.
InFlight(d) ==
    {o.id : o \in DiskOps(disks[d])} \cup {e.id : e \in {x \in ToSet(toFs) : x.disk = d}}

\* What a disk has reserved for the writes it has accepted.
Reserved(disk) ==
    SumFunction([o \in {x \in DiskOps(disk) : x.type = "Write"} |-> o.size])

(* Space is neither lost nor counted twice: what the disks have in use is  *)
(* what the files hold and what the writes under way have reserved, also   *)
(* after refused writes, deletions, and disks mounted in the place of      *)
(* others; and no disk is filled beyond its capacity (disk.rs, write and   *)
(* mark_free; fs.rs, delete_file).  It holds of all disks together only:   *)
(* a file is freed on the disk its path resolves to when it is deleted.    *)
SpaceAccounted ==
    /\ \A d \in Disk : disks[d].used <= DiskCapacity[d]
    /\ SumFunction([d \in Disk |-> disks[d].used]) =
         SumFunction([p \in DOMAIN files |-> files[p].size])
         + SumFunction([d \in Disk |-> Reserved(disks[d])])
         + SumFunction([e \in {x \in ToSet(toFs) : x.type = "DataWriteCompleted"} |->
                          e.size])

(* The file system knows the operation of every answer that will come, and *)
(* the file is there, so that none of its panics is reached; a file counts *)
(* exactly the operations under way on it, whatever was unmounted, mounted *)
(* elsewhere or deleted and created again meanwhile (fs.rs, cnt_actions    *)
(* and requests).                                                          *)
RequestsTracked ==
    /\ \A d \in Disk :
         InFlight(d) = {q.id : q \in {x \in requests : x.disk = d}}
    /\ \A q1, q2 \in requests : q1.disk = q2.disk /\ q1.id = q2.id => q1 = q2
    /\ \A q \in requests : q.path \in DOMAIN files
    /\ \A p \in DOMAIN files :
         files[p].actions = Cardinality({q \in requests : q.path = p})

(* The scheduler of a disk keeps to its limits and leaves no slot idle:    *)
(* operations wait only where a limit is reached, and the one completion   *)
(* event on its way is for the operation its model will finish next        *)
(* (scheduler.rs: the handler completes whatever the model returns).       *)
SchedulerConsistent ==
    \A d \in Disk :
      /\ disks[d].total = Cardinality(Started(disks[d]))
      /\ disks[d].types = {[id |-> o.id, type |-> o.type] : o \in DiskOps(disks[d])}
      /\ TotalLimit[d] # NoLimit => disks[d].total <= TotalLimit[d]
      /\ disks[d].pending # <<>> => disks[d].total = TotalLimit[d]
      /\ \A t \in OpType :
           LET m == disks[d].model[t]
           IN /\ m.count = Cardinality(m.active)
              /\ OpsLimit[d][t] # NoLimit => m.count <= OpsLimit[d][t]
              /\ m.waiting # <<>> => m.count = OpsLimit[d][t]
              /\ m.scheduled = m.event
              /\ m.event = IF m.active = {} THEN {}
                           ELSE {NextToFinish(m.active).op.id}

-----------------------------------------------------------------------------

(* The disks and the file system handle every event, and time passes for   *)
(* every operation that is running.                                        *)
Fairness ==
    /\ WF_vars(OnDiskAnswer)
    /\ \A d \in Disk, t \in OpType : WF_vars(DiskStep(d, t))

FairSpec == Spec /\ Fairness

(* In the end every read and write of a file asked for is answered, once,  *)
(* however the limits hold it back and whatever happens to its disk's      *)
(* mount point (fs.rs, process_read_completed, process_write_completed).   *)
EveryRequestAnswered ==
    <>[](\A r \in 0..(MaxRequests - 1) : nextRequest > r => Len(replies[r]) = 1)
=============================================================================
