--------------------------- MODULE ThroughputSharing ---------------------------
(***************************************************************************)
(* Fair sharing of a throughput among concurrent activities (dslab-models, *)
(* throughput_sharing): the fast model, the fast model with cancellation,  *)
(* and the slow model, which keeps the volume left of every activity.      *)
(*                                                                         *)
(* The fast models count the work that an activity running all the time    *)
(* would have got: an activity that starts at the total w with volume v    *)
(* ends at the total w + v, whatever the shares in between.                *)
(*                                                                         *)
(* Time and work are whole numbers: all amounts of work are divisible by   *)
(* all shares, so that no division is rounded, and SharingExact            *)
(* (SingleCore) says so.  The factor of an activity (volume / factor) is   *)
(* part of its volume.                                                     *)
(***************************************************************************)
EXTENDS Integers, Sequences, FiniteSets

CONSTANTS
    PerActivity,    \* throughput_function(n) / n for n activities
    TotalWorkMax    \* TOTAL_WORK_MAX_VALUE

ASSUME SharingAssumption ==
    /\ PerActivity \in Seq(Nat \ {0})
    /\ TotalWorkMax \in Nat

Share(n) == IF n = 0 THEN 0 ELSE PerActivity[n]

Divisible(work) == \A n \in DOMAIN PerActivity : work % PerActivity[n] = 0

\* The order of the heaps: what ends first, then what came first.
FirstBy(S, key(_)) ==
    CHOOSE a \in S : \A b \in S : key(a) < key(b) \/ (key(a) = key(b) /\ a.id <= b.id)

FinishWork(a) == a.finish

-----------------------------------------------------------------------------
(* FairThroughputSharingModel *)

NewFast == [activities |-> {}, share |-> 0, nextId |-> 0, total |-> 0, last |-> 0]

(* The total starts again from 0 when it gets large, and what the          *)
(* activities end at is moved with it.                                     *)
IncrementTotalWork(m, delta) ==
    LET total == m.total + delta
    IN IF total <= TotalWorkMax THEN [m EXCEPT !.total = total]
       ELSE [m EXCEPT !.activities = {[a EXCEPT !.finish = @ - total] : a \in @},
                      !.total = 0]

\* Mutant: the work done since the last update is forgotten.
FastInsertNoUpdate(m, item, volume, now) ==
    [m EXCEPT !.activities = @ \cup {[id |-> m.nextId, item |-> item,
                                      finish |-> m.total + volume]},
              !.nextId = @ + 1,
              !.share = Share(Cardinality(m.activities) + 1),
              !.last = now]

FastInsert(m, item, volume, now) ==
    LET u == IF m.activities = {} THEN m
             ELSE IncrementTotalWork(m, (now - m.last) * m.share)
    IN [u EXCEPT !.activities = @ \cup {[id |-> u.nextId, item |-> item,
                                         finish |-> u.total + volume]},
                 !.nextId = @ + 1,
                 !.share = Share(Cardinality(u.activities) + 1),
                 !.last = now]

\* The next activity to end, and when.
FastPeek(m) ==
    LET a == FirstBy(m.activities, FinishWork)
    IN [item |-> a.item, time |-> m.last + (a.finish - m.total) \div m.share]

FastPop(m) ==
    LET a == FirstBy(m.activities, FinishWork)
        u == IncrementTotalWork([m EXCEPT !.activities = @ \ {a}], a.finish - m.total)
    IN [u EXCEPT !.share = Share(Cardinality(u.activities)),
                 !.last = FastPeek(m).time]

-----------------------------------------------------------------------------
(* FairThroughputSharingModelWithCancel: a cancelled activity leaves its    *)
(* entry in the queue until it comes to the front.                          *)

NewCancelable == [queue |-> {}, running |-> {}, share |-> 0, nextId |-> 0,
                  total |-> 0, last |-> 0]

IncrementCancelable(m, delta) ==
    LET total == m.total + delta
    IN IF total <= TotalWorkMax THEN [m EXCEPT !.total = total]
       ELSE [m EXCEPT !.queue = {[e EXCEPT !.finish = @ - total] : e \in @},
                      !.running = {[a EXCEPT !.start = @ - total] : a \in @},
                      !.total = 0]

\* The work done so far is counted while something is queued.
CountWork(m, now) ==
    IF m.queue = {} THEN m ELSE IncrementCancelable(m, (now - m.last) * m.share)

RecalculateThroughput(m) == [m EXCEPT !.share = Share(Cardinality(m.running))]

CancelableInsert(m, item, volume, now) ==
    LET u == CountWork(m, now)
    IN RecalculateThroughput(
         [u EXCEPT !.queue = @ \cup {[id |-> u.nextId, finish |-> u.total + volume]},
                   !.running = @ \cup {[id |-> u.nextId, item |-> item, start |-> u.total]},
                   !.nextId = @ + 1, !.last = now])

Live(m) == {e \in m.queue : \E a \in m.running : a.id = e.id}

RunningAs(m, e) == CHOOSE a \in m.running : a.id = e.id

\* Entries of cancelled activities before the first that runs are dropped.
DropCancelled(m) ==
    [m EXCEPT !.queue =
       IF Live(m) = {} THEN {}
       ELSE LET first == FirstBy(Live(m), FinishWork)
            IN {e \in @ : e \in Live(m) \/ FirstBy({e, first}, FinishWork) = first}]

CancelablePeek(m) ==
    LET e == FirstBy(Live(m), FinishWork)
    IN [item |-> RunningAs(m, e).item,
        time |-> m.last + (e.finish - m.total) \div m.share]

CancelablePop(m) ==
    LET p == DropCancelled(m)
        e == FirstBy(p.queue, FinishWork)
        u == IncrementCancelable(
               [p EXCEPT !.queue = @ \ {e}, !.running = @ \ {RunningAs(p, e)}],
               e.finish - p.total)
    IN [RecalculateThroughput(u) EXCEPT !.last = CancelablePeek(m).time]

Cancel(m, id, now) ==
    LET u == CountWork([m EXCEPT !.running = {a \in @ : a.id # id}], now)
    IN [RecalculateThroughput(u) EXCEPT !.last = now]

(* The volume that cancel returns.  What the activity started at is read   *)
(* before the total may start again from 0.                                *)
VolumeDone(m, id, now) ==
    Cancel(m, id, now).total - (CHOOSE a \in m.running : a.id = id).start

-----------------------------------------------------------------------------
(* SlowFairThroughputSharingModel *)

NewSlow == [entries |-> {}, share |-> 0, nextId |-> 0, last |-> 0]

VolumeLeft(e) == e.left

Recalculate(m, now, share) ==
    [m EXCEPT !.entries = {[e EXCEPT !.left = @ - (now - m.last) * m.share] : e \in @},
              !.share = share, !.last = now]

SlowInsert(m, item, volume, now) ==
    LET u == Recalculate(m, now, Share(Cardinality(m.entries) + 1))
    IN [u EXCEPT !.entries = @ \cup {[id |-> u.nextId, item |-> item, left |-> volume]},
                 !.nextId = @ + 1]

SlowPeek(m) ==
    LET e == FirstBy(m.entries, VolumeLeft)
    IN [item |-> e.item, time |-> m.last + e.left \div m.share]

SlowPop(m) ==
    LET rest == [m EXCEPT !.entries = @ \ {FirstBy(m.entries, VolumeLeft)}]
    IN Recalculate(rest, SlowPeek(m).time, Share(Cardinality(rest.entries)))

-----------------------------------------------------------------------------
(* What the sharing is meant to be, beside the models: a set of [id, left], *)
(* the work left of each activity, of which all have the same amount done   *)
(* in the same time.                                                        *)

NextToEnd(work) == FirstBy(work, VolumeLeft)

TimeToEnd(work) == NextToEnd(work).left \div Share(Cardinality(work))

WorkAfter(work, time) ==
    {[a EXCEPT !.left = @ - time * Share(Cardinality(work))] : a \in work}

WithoutEnded(work) ==
    WorkAfter(work, TimeToEnd(work)) \ {[NextToEnd(work) EXCEPT !.left = 0]}

-----------------------------------------------------------------------------
(* A client that starts the same activities in all models at any times     *)
(* (ModelsTester in tests.rs of dslab-models), pops them, early or in      *)
(* time, and cancels some.                                                 *)

CONSTANTS
    Volume,         \* sizes of activities
    Step,           \* time passes by so much, or until an activity ends
    MaxActivities   \* bound: activities the client starts

ASSUME TesterAssumption ==
    /\ Volume \subseteq Nat /\ Step \in Nat
    /\ \A v \in Volume : Divisible(v)
    /\ \A n \in DOMAIN PerActivity : Divisible(Step * PerActivity[n])

VARIABLE tester

NewTester(n) ==
    [toStart |-> n, clock |-> 0,
     fast |-> NewFast, slow |-> NewSlow, cancelable |-> NewCancelable,
     cancelled |-> FALSE,   \* from then on only the cancelable model goes on
     work |-> {},           \* what is left, in truth
     volumeRight |-> TRUE]  \* the last cancel returned what was done

Idle == tester.work = {}

\* Bound: no more concurrent activities than PerActivity is given for.
StartActivity(volume) ==
    LET id == tester.cancelable.nextId
    IN /\ tester.toStart > 0
       /\ Cardinality(tester.work) < Len(PerActivity)
       /\ tester' = [tester EXCEPT
            !.toStart = @ - 1,
            !.fast = IF tester.cancelled THEN @ ELSE FastInsert(@, id, volume, tester.clock),
            !.slow = IF tester.cancelled THEN @ ELSE SlowInsert(@, id, volume, tester.clock),
            !.cancelable = CancelableInsert(@, id, volume, tester.clock),
            !.work = @ \cup {[id |-> id, left |-> volume]}]

\* pop says when the activity ends, and may be called before.
PopActivity ==
    /\ ~ Idle
    /\ tester' = [tester EXCEPT
         !.clock = @ + TimeToEnd(tester.work),
         !.fast = IF tester.cancelled THEN @ ELSE FastPop(@),
         !.slow = IF tester.cancelled THEN @ ELSE SlowPop(@),
         !.cancelable = CancelablePop(@),
         !.work = WithoutEnded(@)]

(* The volume that cancel returns is what was done, but when the total     *)
(* starts again from 0 in the same call (see VolumeDone).                  *)
CancelActivity(a) ==
    LET m == tester.cancelable
        size == (CHOOSE e \in m.queue : e.id = a.id).finish
                  - (CHOOSE r \in m.running : r.id = a.id).start
    IN tester' = [tester EXCEPT
         !.cancelled = TRUE,
         !.cancelable = Cancel(@, a.id, tester.clock),
         !.work = @ \ {a},
         !.volumeRight = \/ m.total + (tester.clock - m.last) * m.share > TotalWorkMax
                         \/ VolumeDone(m, a.id, tester.clock) = size - a.left]

\* Bound: the client waits once between two activities.
TimePasses ==
    /\ tester.toStart > 0
    /\ \/ Idle /\ tester.clock = tester.cancelable.last
       \/ ~ Idle /\ Step < TimeToEnd(tester.work)
    /\ tester' = [tester EXCEPT !.clock = @ + Step, !.work = WorkAfter(@, Step)]

TesterStep ==
    \/ \E v \in Volume : StartActivity(v)
    \/ PopActivity
    \/ \E a \in tester.work : CancelActivity(a)
    \/ TimePasses
=============================================================================
