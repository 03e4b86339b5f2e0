--------------------------- MODULE FileSystemProofs ---------------------------
(***************************************************************************)
(* Storage, for any disks, limits, mount points, files and requests: the   *)
(* schedulers of the disks keep to their limits and leave no slot idle,    *)
(* the file system knows the operation of every answer, and all space is   *)
(* accounted for.                                                          *)
(*                                                                         *)
(* What the operations of a disk and of its models do is shown of their    *)
(* records first; a step then replaces the record of one disk.             *)
(***************************************************************************)
EXTENDS FileSystem, SequenceTheorems, FoldTheorems

Op        == [id : Nat, type : OpType, size : Nat]
Active    == [op : Op, left : Nat]
Model     == [active : SUBSET Active, count : Nat, waiting : Seq(Op),
              event : SUBSET Nat, scheduled : SUBSET Nat]
DiskState == [used : Nat, nextId : Nat, total : Nat, pending : Seq(Op),
              types : SUBSET [id : Nat, type : OpType], model : [OpType -> Model]]

-----------------------------------------------------------------------------
(* Queues without repetition.                                              *)

LEMMA QueueAppended ==
    ASSUME NEW S, NEW s \in Seq(S), NEW x \in S, IsInjective(s), x \notin ToSet(s)
    PROVE  /\ Append(s, x) \in Seq(S) /\ Append(s, x) # <<>>
           /\ Len(Append(s, x)) = Len(s) + 1
           /\ ToSet(Append(s, x)) = ToSet(s) \cup {x}
           /\ IsInjective(Append(s, x))
  <1> DEFINE n == Len(s)
             r == Append(s, x)
  <1>1. /\ n \in Nat /\ DOMAIN s = 1..n
        /\ r \in Seq(S) /\ Len(r) = n + 1 /\ DOMAIN r = 1..(n + 1)
        /\ \A i \in 1..n : r[i] = s[i]
        /\ r[n + 1] = x
    BY AppendProperties, LenProperties
  <1> HIDE DEF n, r
  <1>2. 1..(n + 1) = 1..n \cup {n + 1}
    BY <1>1
  <1>3. ToSet(r) = ToSet(s) \cup {x}
    BY <1>1, <1>2 DEF ToSet
  <1>4. IsInjective(r)
    BY <1>1, <1>2 DEF IsInjective, ToSet
  <1>5. r # <<>>
    BY <1>1
  <1> QED BY <1>1, <1>3, <1>4, <1>5 DEF n, r

LEMMA QueueServed ==
    ASSUME NEW S, NEW s \in Seq(S), s # <<>>, IsInjective(s)
    PROVE  /\ Head(s) \in S /\ Head(s) \in ToSet(s) /\ ToSet(s) \subseteq S
           /\ Tail(s) \in Seq(S) /\ Len(Tail(s)) = Len(s) - 1
           /\ ToSet(Tail(s)) = ToSet(s) \ {Head(s)}
           /\ IsInjective(Tail(s))
  <1> DEFINE n == Len(s)
             r == Tail(s)
             h == Head(s)
  <1>1. /\ n \in Nat \ {0} /\ DOMAIN s = 1..n /\ s \in [1..n -> S]
        /\ h \in S /\ h = s[1]
        /\ r \in Seq(S) /\ Len(r) = n - 1 /\ DOMAIN r = 1..(n - 1)
        /\ \A i \in 1..(n - 1) : r[i] = s[i + 1]
    BY HeadTailProperties, LenProperties, EmptySeq
  <1> HIDE DEF n, r, h
  <1>2. \A i \in 2..n : i - 1 \in 1..(n - 1) /\ r[i - 1] = s[i]
    BY <1>1
  <1>3. \A i \in 1..(n - 1) : i + 1 \in 2..n
    BY <1>1
  <1>4. 1 \in 1..n /\ \A i \in 1..n : i = 1 \/ i \in 2..n
    BY <1>1
  <1>5. IsInjective(r)
    <2> SUFFICES ASSUME NEW i \in 1..(n - 1), NEW j \in 1..(n - 1), r[i] = r[j]
                 PROVE  i = j
      BY <1>1 DEF IsInjective
    <2>1. i + 1 \in 1..n /\ j + 1 \in 1..n /\ s[i + 1] = s[j + 1]
      BY <1>1
    <2>2. i + 1 = j + 1
      BY <1>1, <2>1 DEF IsInjective
    <2> QED BY <1>1, <2>2
  <1>6. ToSet(r) = ToSet(s) \ {h}
    <2>1. \A x \in ToSet(r) : x \in ToSet(s) /\ x # h
      <3> SUFFICES ASSUME NEW i \in 1..(n - 1)
                   PROVE  r[i] \in ToSet(s) /\ r[i] # h
        BY <1>1 DEF ToSet
      <3>1. i + 1 \in 1..n /\ i + 1 # 1
        BY <1>1
      <3> QED BY <1>1, <1>4, <3>1 DEF ToSet, IsInjective
    <2>2. ASSUME NEW x \in ToSet(s) \ {h}
          PROVE  x \in ToSet(r)
      <3>1. PICK i \in 1..n : s[i] = x
        BY <1>1 DEF ToSet
      <3>2. i \in 2..n
        BY <1>1, <1>4, <3>1
      <3> QED BY <1>1, <1>2, <3>1, <3>2 DEF ToSet
    <2> QED BY <2>1, <2>2
  <1>7. h \in ToSet(s) /\ ToSet(s) \subseteq S
    BY <1>1, <1>4 DEF ToSet
  <1> QED BY <1>1, <1>5, <1>6, <1>7 DEF n, r, h

LEMMA EmptyQueue == ToSet(<<>>) = {} /\ IsInjective(<<>>)
  BY DEF ToSet, IsInjective

-----------------------------------------------------------------------------
(* The operation to finish next.                                           *)

DistinctIds(A) == \A a, b \in A : a.op.id = b.op.id => a = b

First(a, A) ==
    \A b \in A : a.left < b.left \/ (a.left = b.left /\ a.op.id <= b.op.id)

LEMMA NextIsFirst ==
    ASSUME NEW A \in SUBSET Active, A # {}
    PROVE  /\ NextToFinish(A) \in A /\ First(NextToFinish(A), A)
           /\ NextToFinish(A).op.id \in Nat
  <1> DEFINE L == {a.left : a \in A}
  <1>1. L \in SUBSET Nat /\ L # {}
    BY DEF Active
  <1> HIDE DEF L
  <1>2. PICK l \in L : \A m \in L : l <= m
    BY <1>1, LeastNatural
  <1> DEFINE I == {a.op.id : a \in {b \in A : b.left = l}}
  <1>3. I \in SUBSET Nat /\ I # {}
    BY <1>2 DEF L, Active, Op
  <1> HIDE DEF I
  <1>4. PICK i \in I : \A j \in I : i <= j
    BY <1>3, LeastNatural
  <1>5. PICK a \in A : a.left = l /\ a.op.id = i
    BY <1>4 DEF I
  <1>6. First(a, A)
    <2> SUFFICES ASSUME NEW b \in A
                 PROVE  a.left < b.left \/ (a.left = b.left /\ a.op.id <= b.op.id)
      BY DEF First
    <2>1. l <= b.left /\ l \in Nat /\ b.left \in Nat
      BY <1>1, <1>2 DEF L, Active
    <2>2. b.left = l => i <= b.op.id
      BY <1>4 DEF I
    <2> QED BY <1>5, <2>1, <2>2
  <1>7. NextToFinish(A) = CHOOSE x \in A : First(x, A)
    BY DEF NextToFinish, First
  <1>8. NextToFinish(A) \in A /\ First(NextToFinish(A), A)
    BY <1>5, <1>6, <1>7
  <1> QED BY <1>8 DEF Active, Op

\* When time passes for all of them, the same is the next to finish.
LEMMA SameFirst ==
    ASSUME NEW A \in SUBSET Active, A # {}, \A a \in A : a.left > 0,
           NEW B, B = {[a EXCEPT !.left = @ - 1] : a \in A}
    PROVE  NextToFinish(B).op.id = NextToFinish(A).op.id
  <1> DEFINE f == NextToFinish(A)
             g == NextToFinish(B)
  <1> HIDE DEF f, g
  <1>1. \A a \in A : /\ a.left \in Nat /\ a.left > 0 /\ a.op \in Op
                     /\ [a EXCEPT !.left = @ - 1] = [op |-> a.op, left |-> a.left - 1]
    BY DEF Active
  <1>2. B = {[op |-> a.op, left |-> a.left - 1] : a \in A}
    BY <1>1
  <1>3. B \in SUBSET Active /\ B # {}
    <2>1. ASSUME NEW a \in A
          PROVE  [op |-> a.op, left |-> a.left - 1] \in Active
      <3>1. a.left \in Nat /\ a.left > 0
        BY <1>1
      <3>2. a.left - 1 \in Nat
        BY <3>1
      <3> QED BY <1>1, <3>2 DEF Active
    <2> QED BY <1>2, <2>1
  <1>4. f \in A /\ First(f, A) /\ g \in B /\ First(g, B)
    BY <1>3, NextIsFirst DEF f, g
  <1>5. PICK a \in A : g = [op |-> a.op, left |-> a.left - 1]
    BY <1>2, <1>4
  <1>6. [op |-> f.op, left |-> f.left - 1] \in B
    BY <1>2, <1>4
  <1>7. /\ f.left < a.left \/ (f.left = a.left /\ f.op.id <= a.op.id)
        /\ a.left - 1 < f.left - 1
             \/ (a.left - 1 = f.left - 1 /\ a.op.id <= f.op.id)
    BY <1>4, <1>5, <1>6 DEF First
  <1>8. f.left \in Nat /\ a.left \in Nat /\ f.op.id \in Nat /\ a.op.id \in Nat
    BY <1>4 DEF Active, Op
  <1>9. f.op.id = a.op.id
    BY <1>7, <1>8
  <1> QED BY <1>5, <1>9 DEF f, g

-----------------------------------------------------------------------------
(* The model of a disk's reads or writes.                                  *)

Running(m) == {a.op : a \in m.active}

\* Each operation of the model is there once, and counted.
ModelSound(m, t) ==
    /\ m \in Model
    /\ IsFiniteSet(m.active) /\ m.count = Cardinality(m.active)
    /\ \A o \in ModelOps(m) : o.type = t
    /\ \A o, p \in ModelOps(m) : o.id = p.id => o = p
    /\ \A a, b \in m.active : a.op = b.op => a = b
    /\ IsInjective(m.waiting) /\ Running(m) \cap ToSet(m.waiting) = {}

WithinLimit(m, limit) ==
    /\ limit # NoLimit => m.count <= limit
    /\ m.waiting # <<>> => limit # NoLimit /\ m.count = limit

\* One completion event is on its way, for the operation to finish next.
Announced(m) ==
    /\ m.scheduled = m.event
    /\ m.event = IF m.active = {} THEN {} ELSE {NextToFinish(m.active).op.id}

ModelInv(m, limit, t) == ModelSound(m, t) /\ WithinLimit(m, limit) /\ Announced(m)

LEMMA ModelOpsTyped ==
    ASSUME NEW m \in Model
    PROVE  /\ ModelOps(m) \subseteq Op /\ ToSet(m.waiting) \subseteq Op
           /\ ModelOps(m) = Running(m) \cup ToSet(m.waiting)
  <1>1. m.waiting \in Seq(Op) /\ m.active \subseteq Active
    BY DEF Model
  <1>2. ToSet(m.waiting) \subseteq Op
    BY <1>1, LenProperties DEF ToSet
  <1> QED BY <1>1, <1>2 DEF ModelOps, Running, Active

LEMMA Inserted ==
    ASSUME NEW t, NEW m, ModelSound(m, t), NEW op \in Op, op.type = t,
           \A p \in ModelOps(m) : p.id # op.id,
           NEW r, r = Insert(m, op)
    PROVE  /\ ModelSound(r, t) /\ ModelOps(r) = ModelOps(m) \cup {op}
           /\ r.count = m.count + 1 /\ r.active # {} /\ r.waiting = m.waiting
           /\ r.event = m.event /\ r.scheduled = m.scheduled
  <1> DEFINE a == [op |-> op, left |-> op.size]
  <1>1. a \in Active /\ a.op = op
    BY DEF Active, Op
  <1>2. /\ m \in Model /\ IsFiniteSet(m.active) /\ m.count = Cardinality(m.active)
        /\ m.count \in Nat
    BY DEF ModelSound, Model
  <1>3. /\ r = [m EXCEPT !.active = @ \cup {a}, !.count = @ + 1]
        /\ r \in Model
    <2>1. r = [m EXCEPT !.active = m.active \cup {a}, !.count = m.count + 1]
      BY DEF Insert
    <2> HIDE DEF a
    <2>2. m.active \cup {a} \in SUBSET Active /\ m.count + 1 \in Nat
      BY <1>1, <1>2 DEF Model
    <2> QED BY <1>2, <2>1, <2>2 DEF Model
  <1> HIDE DEF a
  <1>4. /\ r.active = m.active \cup {a} /\ r.count = m.count + 1
        /\ r.waiting = m.waiting /\ r.event = m.event /\ r.scheduled = m.scheduled
    BY <1>2, <1>3 DEF Model
  <1> HIDE DEF Insert
  <1>5. /\ Running(r) = Running(m) \cup {op}
        /\ ModelOps(r) = ModelOps(m) \cup {op}
    BY <1>1, <1>4 DEF ModelOps, Running
  <1>6. \A b \in m.active : b.op \in ModelOps(m) /\ b.op # op
    BY DEF ModelOps
  <1>7. IsFiniteSet(r.active) /\ r.count = Cardinality(r.active)
    <2>1. a \notin m.active
      BY <1>1, <1>6
    <2> QED BY <1>2, <1>4, <2>1, FS_AddElement
  <1>8. /\ \A o \in ModelOps(r) : o.type = t
        /\ \A o, p \in ModelOps(r) : o.id = p.id => o = p
    BY <1>5 DEF ModelSound
  <1>9. \A b, c \in r.active : b.op = c.op => b = c
    BY <1>1, <1>4, <1>6 DEF ModelSound
  <1>10. IsInjective(r.waiting) /\ Running(r) \cap ToSet(r.waiting) = {}
    <2>1. op \notin ToSet(m.waiting)
      BY DEF ModelOps
    <2> QED BY <1>4, <1>5, <2>1 DEF ModelSound
  <1> QED BY <1>3, <1>4, <1>5, <1>7, <1>8, <1>9, <1>10 DEF ModelSound

\* An event that was on its way is cancelled.
LEMMA EventEmitted ==
    ASSUME NEW t, NEW m, ModelSound(m, t), m.scheduled = m.event,
           m.active = {} => m.event = {},
           NEW r, r = EmitNextEvent(m)
    PROVE  /\ ModelSound(r, t) /\ Announced(r) /\ ModelOps(r) = ModelOps(m)
           /\ r.count = m.count /\ r.waiting = m.waiting /\ r.active = m.active
  <1>1. m \in Model
    BY DEF ModelSound
  <1>2. CASE m.active = {}
    BY <1>1, <1>2 DEF EmitNextEvent, Announced
  <1>3. CASE m.active # {}
    <2> DEFINE id == NextToFinish(m.active).op.id
    <2>1. id \in Nat
      BY <1>1, <1>3, NextIsFirst DEF Model
    <2>2. r = [m EXCEPT !.event = {id}, !.scheduled = (@ \ m.event) \cup {id}]
      BY <1>3 DEF EmitNextEvent
    <2> HIDE DEF id
    <2>3. /\ r \in Model /\ r.event = {id} /\ r.scheduled = {id}
          /\ r.active = m.active /\ r.count = m.count /\ r.waiting = m.waiting
      BY <1>1, <2>1, <2>2 DEF Model
    <2>4. ModelOps(r) = ModelOps(m) /\ Running(r) = Running(m)
      BY <2>3 DEF ModelOps, Running
    <2>5. ModelSound(r, t)
      BY <2>3, <2>4 DEF ModelSound
    <2>6. Announced(r)
      BY <1>3, <2>3 DEF Announced, id
    <2> QED BY <2>3, <2>4, <2>5, <2>6
  <1> QED BY <1>2, <1>3

LEMMA ModelSubmitted ==
    ASSUME NEW t, NEW limit \in Nat, NEW m, ModelInv(m, limit, t), NEW op \in Op,
           op.type = t, \A p \in ModelOps(m) : p.id # op.id,
           NEW r, r = ModelSubmit(m, limit, op)
    PROVE  ModelInv(r, limit, t) /\ ModelOps(r) = ModelOps(m) \cup {op}
  <1>1. /\ m \in Model /\ m.waiting \in Seq(Op) /\ m.count \in Nat
        /\ ModelSound(m, t) /\ WithinLimit(m, limit) /\ Announced(m)
    BY DEF ModelInv, ModelSound, Model
  <1>2. CASE Reached(limit, m.count)
    <2>1. limit # NoLimit /\ m.count = limit
      BY <1>1, <1>2 DEF Reached, WithinLimit
    <2> DEFINE w == Append(m.waiting, op)
    <2>2. op \notin ToSet(m.waiting) /\ op \notin Running(m)
      BY DEF ModelOps, Running
    <2>3. w \in Seq(Op) /\ w # <<>> /\ ToSet(w) = ToSet(m.waiting) \cup {op} /\ IsInjective(w)
      BY <1>1, <2>2, QueueAppended DEF ModelSound
    <2>4. r = [m EXCEPT !.waiting = w]
      BY <1>2 DEF ModelSubmit
    <2> HIDE DEF w
    <2>5. /\ r \in Model /\ r.waiting = w /\ r.active = m.active /\ r.count = m.count
          /\ r.event = m.event /\ r.scheduled = m.scheduled
      BY <1>1, <2>3, <2>4 DEF Model
    <2>6. ModelOps(r) = ModelOps(m) \cup {op} /\ Running(r) = Running(m)
      BY <2>3, <2>5 DEF ModelOps, Running
    <2>7. ModelSound(r, t)
      <3>1. /\ \A o \in ModelOps(r) : o.type = t
            /\ \A o, p \in ModelOps(r) : o.id = p.id => o = p
        BY <1>1, <2>6 DEF ModelSound
      <3>2. Running(r) \cap ToSet(r.waiting) = {}
        BY <1>1, <2>2, <2>3, <2>5, <2>6 DEF ModelSound
      <3> QED BY <1>1, <2>3, <2>5, <3>1, <3>2 DEF ModelSound
    <2>8. WithinLimit(r, limit) /\ Announced(r)
      BY <1>1, <2>1, <2>5 DEF WithinLimit, Announced
    <2> QED BY <2>6, <2>7, <2>8 DEF ModelInv
  <1>3. CASE ~ Reached(limit, m.count)
    <2> DEFINE i == Insert(m, op)
    <2>1. r = EmitNextEvent(i)
      BY <1>3 DEF ModelSubmit
    <2>2. /\ ModelSound(i, t) /\ ModelOps(i) = ModelOps(m) \cup {op}
          /\ i.count = m.count + 1 /\ i.active # {} /\ i.waiting = m.waiting
          /\ i.event = m.event /\ i.scheduled = m.scheduled
      BY <1>1, Inserted
    <2> HIDE DEF i
    <2>3. /\ ModelSound(r, t) /\ Announced(r) /\ ModelOps(r) = ModelOps(i)
          /\ r.count = i.count /\ r.waiting = i.waiting
      <3>1. i.scheduled = i.event
        BY <1>1, <2>2 DEF Announced
      <3> QED BY <2>1, <2>2, <3>1, EventEmitted
    <2>4. m.waiting = <<>> /\ (limit # NoLimit => m.count + 1 <= limit)
      BY <1>1, <1>3 DEF Reached, WithinLimit
    <2>5. WithinLimit(r, limit)
      BY <2>2, <2>3, <2>4 DEF WithinLimit
    <2> QED BY <2>2, <2>3, <2>5 DEF ModelInv
  <1> QED BY <1>2, <1>3

\* The finished operation leaves the model.
Finished(m, a) ==
    [m EXCEPT !.active = @ \ {a}, !.count = @ - 1, !.event = {}, !.scheduled = {}]

LEMMA OperationLeft ==
    ASSUME NEW t, NEW m, ModelSound(m, t), NEW a \in m.active,
           NEW r, r = Finished(m, a)
    PROVE  /\ ModelSound(r, t) /\ ModelOps(r) = ModelOps(m) \ {a.op}
           /\ r.count = m.count - 1 /\ r.waiting = m.waiting
           /\ r.active = m.active \ {a} /\ r.event = {} /\ r.scheduled = {}
  <1>1. m \in Model /\ IsFiniteSet(m.active) /\ m.count = Cardinality(m.active)
    BY DEF ModelSound
  <1>2. IsFiniteSet(m.active \ {a}) /\ Cardinality(m.active \ {a}) = m.count - 1
    BY <1>1, FS_RemoveElement
  <1>3. m.count - 1 \in Nat
    BY <1>2, FS_CardinalityType
  <1>4. /\ r \in Model /\ r.active = m.active \ {a} /\ r.count = m.count - 1
        /\ r.waiting = m.waiting /\ r.event = {} /\ r.scheduled = {}
    <2>1. m.active \ {a} \in SUBSET Active
      BY <1>1 DEF Model
    <2>2. r = [m EXCEPT !.active = m.active \ {a}, !.count = m.count - 1,
                        !.event = {}, !.scheduled = {}]
      BY DEF Finished
    <2> QED BY <1>1, <1>3, <2>1, <2>2 DEF Model
  <1>5. a.op \in Running(m) /\ a.op \notin ToSet(m.waiting)
    BY DEF ModelSound, Running
  <1>6. Running(r) = Running(m) \ {a.op}
    BY <1>4 DEF ModelSound, Running
  <1>7. ModelOps(r) = ModelOps(m) \ {a.op}
    BY <1>1, <1>4, <1>5, <1>6, ModelOpsTyped
  <1> QED BY <1>2, <1>4, <1>6, <1>7 DEF ModelSound

\* The one that has waited longest takes its place.
LEMMA WaitingWoken ==
    ASSUME NEW t, NEW m, ModelSound(m, t), m.event = {}, m.scheduled = {},
           m.waiting # <<>>, NEW r, r = WakeWaiting(m)
    PROVE  /\ ModelSound(r, t) /\ ModelOps(r) = ModelOps(m)
           /\ r.count = m.count + 1 /\ r.active # {}
           /\ r.event = {} /\ r.scheduled = {}
  <1> DEFINE h == Head(m.waiting)
             w == Tail(m.waiting)
             q == [m EXCEPT !.waiting = w]
  <1>1. m \in Model /\ m.waiting \in Seq(Op) /\ IsInjective(m.waiting)
    BY DEF ModelSound, Model
  <1>2. /\ h \in Op /\ h \in ToSet(m.waiting)
        /\ w \in Seq(Op) /\ ToSet(w) = ToSet(m.waiting) \ {h} /\ IsInjective(w)
    BY <1>1, QueueServed
  <1>3. r = Insert(q, h)
    <2>1. r = [Insert(m, h) EXCEPT !.waiting = Tail(@)]
      BY DEF WakeWaiting
    <2> HIDE DEF h
    <2>2. Insert(m, h) = [m EXCEPT !.active = m.active \cup {[op |-> h, left |-> h.size]},
                                   !.count = m.count + 1]
      BY DEF Insert
    <2>3. Insert(q, h) = [q EXCEPT !.active = q.active \cup {[op |-> h, left |-> h.size]},
                                   !.count = q.count + 1]
      BY DEF Insert
    <2>4. q.active = m.active /\ q.count = m.count
      BY <1>1 DEF Model
    <2> QED BY <1>1, <2>1, <2>2, <2>3, <2>4 DEF Model
  <1> HIDE DEF h, w
  <1>4. /\ q \in Model /\ q.waiting = w /\ q.active = m.active /\ q.count = m.count
        /\ q.event = {} /\ q.scheduled = {}
    BY <1>1, <1>2 DEF Model
  <1> HIDE DEF q
  <1>5. Running(q) = Running(m)
    BY <1>4 DEF Running
  <1>6. h \notin Running(m) /\ h \in ModelOps(m)
    BY <1>1, <1>2, ModelOpsTyped DEF ModelSound
  <1>7. ModelOps(q) = ModelOps(m) \ {h}
    BY <1>1, <1>2, <1>4, <1>5, <1>6, ModelOpsTyped
  <1>8. ModelSound(q, t)
    <2>1. /\ \A o \in ModelOps(q) : o.type = t
          /\ \A o, p \in ModelOps(q) : o.id = p.id => o = p
      BY <1>7 DEF ModelSound
    <2> QED BY <1>2, <1>4, <1>5, <2>1 DEF ModelSound
  <1>9. h.type = t /\ \A p \in ModelOps(q) : p.id # h.id
    BY <1>6, <1>7 DEF ModelSound
  <1>10. /\ ModelSound(r, t) /\ ModelOps(r) = ModelOps(q) \cup {h}
         /\ r.count = q.count + 1 /\ r.active # {}
         /\ r.event = q.event /\ r.scheduled = q.scheduled
    BY <1>2, <1>3, <1>8, <1>9, Inserted
  <1> QED BY <1>4, <1>6, <1>7, <1>10

LEMMA ModelCompleted ==
    ASSUME NEW t, NEW limit \in Nat, NEW m, ModelInv(m, limit, t), NEW id \in m.scheduled,
           NEW f, f = NextToFinish(m.active).op,
           NEW r, r = ModelComplete(Delivered(m, id))
    PROVE  /\ m.active # {} /\ f.id = id /\ f \in ModelOps(m)
           /\ ModelInv(r, limit, t) /\ ModelOps(r) = ModelOps(m) \ {f}
  <1> DEFINE a == NextToFinish(m.active)
             s == Delivered(m, id)
             rest == Finished(m, a)
             woken == WakeWaiting(rest)
  <1>1. m \in Model /\ ModelSound(m, t) /\ WithinLimit(m, limit) /\ Announced(m)
    BY DEF ModelInv, ModelSound
  <1>2. m.active # {} /\ m.scheduled = {a.op.id} /\ id = a.op.id
    BY <1>1 DEF Announced
  <1>3. a \in m.active
    BY <1>1, <1>2, NextIsFirst DEF Model
  <1> HIDE DEF a
  <1>4. r = EmitNextEvent(woken)
    <2>1. s \in [active : {m.active}, count : {m.count}, waiting : {m.waiting},
                 event : {m.event}, scheduled : {{}}]
      BY <1>1, <1>2 DEF Model, Delivered
    <2>2. [s EXCEPT !.active = @ \ {NextToFinish(s.active)}, !.count = @ - 1,
                    !.event = {}] = rest
      BY <1>1, <2>1 DEF Model, Finished, a
    <2> QED BY <2>2 DEF ModelComplete
  <1> HIDE DEF rest, woken
  <1>5. /\ ModelSound(rest, t) /\ ModelOps(rest) = ModelOps(m) \ {a.op}
        /\ rest.count = m.count - 1 /\ rest.waiting = m.waiting
        /\ rest.event = {} /\ rest.scheduled = {}
    <2>1. rest = Finished(m, a)
      BY DEF rest
    <2> QED BY <1>1, <1>3, <2>1, OperationLeft
  <1>6. /\ ModelSound(woken, t) /\ ModelOps(woken) = ModelOps(rest)
        /\ woken.event = {} /\ woken.scheduled = {}
        /\ WithinLimit(woken, limit)
    <2>1. m.count \in Nat
      BY <1>1 DEF Model
    <2>2. CASE m.waiting = <<>>
      <3>1. woken = rest
        BY <1>5, <2>2 DEF woken, WakeWaiting
      <3> QED BY <1>1, <1>5, <2>1, <2>2, <3>1 DEF WithinLimit
    <2>3. CASE m.waiting # <<>>
      <3>1. /\ ModelSound(woken, t) /\ ModelOps(woken) = ModelOps(rest)
            /\ woken.count = m.count /\ woken.event = {} /\ woken.scheduled = {}
        <4>1. woken = WakeWaiting(rest) /\ rest.waiting # <<>>
          BY <1>5, <2>3 DEF woken
        <4>2. /\ ModelSound(woken, t) /\ ModelOps(woken) = ModelOps(rest)
              /\ woken.count = rest.count + 1
              /\ woken.event = {} /\ woken.scheduled = {}
          BY <1>5, <4>1, WaitingWoken
        <4> QED BY <1>5, <2>1, <4>2
      <3> QED BY <1>1, <2>3, <3>1 DEF WithinLimit
    <2> QED BY <2>2, <2>3
  <1>7. /\ ModelSound(r, t) /\ Announced(r) /\ ModelOps(r) = ModelOps(woken)
        /\ r.count = woken.count /\ r.waiting = woken.waiting
    BY <1>4, <1>6, EventEmitted
  <1>8. WithinLimit(r, limit)
    BY <1>6, <1>7 DEF WithinLimit
  <1>9. f = a.op /\ f \in ModelOps(m)
    BY <1>3 DEF a, ModelOps
  <1> QED BY <1>2, <1>5, <1>6, <1>7, <1>8, <1>9 DEF ModelInv

-----------------------------------------------------------------------------
(* A disk and its scheduler.                                               *)

\* Each operation of the disk is there once, and recorded.
DiskSound(d, disk) ==
    /\ disk \in DiskState
    /\ \A t \in OpType : ModelInv(disk.model[t], OpsLimit[d][t], t)
    /\ IsInjective(disk.pending) /\ ToSet(disk.pending) \cap Started(disk) = {}
    /\ IsFiniteSet(DiskOps(disk))
    /\ \A o, p \in DiskOps(disk) : o.id = p.id => o = p
    /\ \A o \in DiskOps(disk) : o.id < disk.nextId
    /\ disk.types = {[id |-> o.id, type |-> o.type] : o \in DiskOps(disk)}
    /\ disk.total = Cardinality(Started(disk))
    /\ TotalLimit[d] # NoLimit => disk.total <= TotalLimit[d]

NoSlotIdle(d, disk) ==
    disk.pending # <<>> => TotalLimit[d] # NoLimit /\ disk.total = TotalLimit[d]

DiskInv(d, disk) == DiskSound(d, disk) /\ NoSlotIdle(d, disk)

\* One slot at most is idle, or one operation at most waits for it.
OneSlotIdle(d, disk) ==
    disk.pending # <<>> =>
      \/ Reached(TotalLimit[d], disk.total)
      \/ Len(disk.pending) = 1
      \/ TotalLimit[d] # NoLimit /\ disk.total + 1 = TotalLimit[d]

LEMMA DiskOpsTyped ==
    ASSUME NEW disk \in DiskState
    PROVE  /\ \A t \in OpType : /\ disk.model[t] \in Model
                                /\ ModelOps(disk.model[t]) \subseteq Started(disk)
           /\ DiskOps(disk) \subseteq Op
           /\ ToSet(disk.pending) \subseteq DiskOps(disk)
           /\ Started(disk) \subseteq DiskOps(disk)
           /\ Started(disk) = ModelOps(disk.model["Read"]) \cup ModelOps(disk.model["Write"])
  <1>1. \A t \in OpType : disk.model[t] \in Model
    BY DEF DiskState
  <1>2. Started(disk) \subseteq Op
    BY <1>1, ModelOpsTyped DEF Started
  <1>3. ToSet(disk.pending) \subseteq Op
    <2>1. disk.pending \in Seq(Op)
      BY DEF DiskState
    <2> QED BY <2>1, LenProperties DEF ToSet
  <1>4. Started(disk) = ModelOps(disk.model["Read"]) \cup ModelOps(disk.model["Write"])
    BY DEF Started, OpType
  <1> QED BY <1>1, <1>2, <1>3, <1>4 DEF DiskOps, Started

LEMMA OtherFields ==
    ASSUME NEW d, NEW x, DiskInv(d, x), NEW y \in DiskState, x.nextId <= y.nextId,
           y.total = x.total, y.pending = x.pending, y.types = x.types, y.model = x.model
    PROVE  DiskInv(d, y) /\ DiskOps(y) = DiskOps(x) /\ Started(y) = Started(x)
  <1>1. DiskOps(y) = DiskOps(x) /\ Started(y) = Started(x)
    BY DEF DiskOps, Started
  <1>2. \A o \in DiskOps(y) : o.id < y.nextId
    <2>1. x \in DiskState /\ x.nextId \in Nat /\ y.nextId \in Nat
      BY DEF DiskInv, DiskSound, DiskState
    <2>2. \A o \in DiskOps(x) : o.id \in Nat /\ o.id < x.nextId
      BY <2>1, DiskOpsTyped DEF DiskInv, DiskSound, Op
    <2> QED BY <1>1, <2>1, <2>2
  <1> QED BY <1>1, <1>2 DEF DiskInv, DiskSound, NoSlotIdle

\* The operation that has waited longest is started.
Start(d, disk) ==
    LET op == Head(disk.pending)
    IN [disk EXCEPT !.pending = Tail(@),
                    !.model[op.type] = ModelSubmit(@, OpsLimit[d][op.type], op),
                    !.total = @ + 1]

LEMMA OperationStarted ==
    ASSUME NEW d \in Disk, NEW disk, DiskSound(d, disk), disk.pending # <<>>,
           ~ Reached(TotalLimit[d], disk.total), NEW r, r = Start(d, disk)
    PROVE  /\ DiskSound(d, r) /\ DiskOps(r) = DiskOps(disk)
           /\ r.used = disk.used /\ r.nextId = disk.nextId
           /\ r.total = disk.total + 1 /\ r.pending = Tail(disk.pending)
  <1> DEFINE op == Head(disk.pending)
             t == op.type
             m == ModelSubmit(disk.model[t], OpsLimit[d][t], op)
             w == Tail(disk.pending)
  <1>1. disk \in DiskState /\ disk.pending \in Seq(Op) /\ disk.total \in Nat
    BY DEF DiskSound, DiskState
  <1>2. /\ op \in Op /\ op \in ToSet(disk.pending)
        /\ w \in Seq(Op) /\ ToSet(w) = ToSet(disk.pending) \ {op} /\ IsInjective(w)
    BY <1>1, QueueServed DEF DiskSound
  <1>r. r = [disk EXCEPT !.pending = w, !.model[t] = m, !.total = disk.total + 1]
    BY <1>1 DEF DiskState, Start
  <1> HIDE DEF op, w, m
  <1>3. t \in OpType /\ OpsLimit[d][t] \in Nat
    BY <1>2, DiskAssumption DEF Op
  <1>4. op \notin Started(disk) /\ op \in DiskOps(disk)
    BY <1>2 DEF DiskSound, DiskOps
  <1>5. \A p \in ModelOps(disk.model[t]) : p.id # op.id
    <2>1. ModelOps(disk.model[t]) \subseteq Started(disk) /\ Started(disk) \subseteq DiskOps(disk)
      BY <1>1, <1>3, DiskOpsTyped
    <2> QED BY <1>4, <2>1 DEF DiskSound
  <1>6. ModelInv(m, OpsLimit[d][t], t) /\ ModelOps(m) = ModelOps(disk.model[t]) \cup {op}
    <2>1. ModelInv(disk.model[t], OpsLimit[d][t], t)
      BY <1>3 DEF DiskSound
    <2> DEFINE x == disk.model[t]
               l == OpsLimit[d][t]
    <2>2. m = ModelSubmit(x, l, op)
      BY DEF m
    <2>3. op.type = t /\ l \in Nat /\ op \in Op
      BY <1>2, <1>3
    <2>4. ModelInv(x, l, t) /\ \A p \in ModelOps(x) : p.id # op.id
      BY <1>5, <2>1
    <2> HIDE DEF t, x, l
    <2>5. ModelInv(m, l, t) /\ ModelOps(m) = ModelOps(x) \cup {op}
      BY <2>2, <2>3, <2>4, ModelSubmitted
    <2> QED BY <2>5 DEF x, l
  <1>7. m \in Model
    BY <1>6 DEF ModelInv, ModelSound
  <1>8. r = [disk EXCEPT !.pending = w, !.model = [disk.model EXCEPT ![t] = m],
                         !.total = disk.total + 1]
    BY <1>1, <1>r DEF DiskState
  <1> HIDE DEF t
  <1>9. /\ r \in DiskState /\ r.pending = w
        /\ r.model = [disk.model EXCEPT ![t] = m] /\ r.total = disk.total + 1
        /\ r.used = disk.used /\ r.nextId = disk.nextId /\ r.types = disk.types
    <2>1. [disk.model EXCEPT ![t] = m] \in [OpType -> Model]
      BY <1>1, <1>7 DEF DiskState
    <2>2. disk.total + 1 \in Nat
      BY <1>1
    <2> DEFINE n == disk.total + 1
               f == [disk.model EXCEPT ![t] = m]
    <2> HIDE DEF n, f
    <2>3. r = [disk EXCEPT !.pending = w, !.model = f, !.total = n]
      BY <1>8 DEF f, n
    <2>4. w \in Seq(Op) /\ f \in [OpType -> Model] /\ n \in Nat
      BY <1>2, <2>1, <2>2 DEF f, n
    <2>5. /\ r \in DiskState /\ r.pending = w /\ r.model = f /\ r.total = n
          /\ r.used = disk.used /\ r.nextId = disk.nextId /\ r.types = disk.types
      BY <1>1, <2>3, <2>4 DEF DiskState
    <2> QED BY <2>5 DEF f, n
  <1>10. \A u \in OpType : r.model[u] = IF u = t THEN m ELSE disk.model[u]
    BY <1>1, <1>9 DEF DiskState
  <1>11. Started(r) = Started(disk) \cup {op}
    BY <1>3, <1>6, <1>10 DEF Started
  <1>12. DiskOps(r) = DiskOps(disk)
    BY <1>2, <1>9, <1>11 DEF DiskOps
  <1>13. IsInjective(r.pending) /\ ToSet(r.pending) \cap Started(r) = {}
    BY <1>2, <1>9, <1>11 DEF DiskSound
  <1>14. \A u \in OpType : ModelInv(r.model[u], OpsLimit[d][u], u)
    BY <1>6, <1>10 DEF DiskSound
  <1>15. r.total = Cardinality(Started(r))
    <2>1. IsFiniteSet(Started(disk))
      BY <1>1, DiskOpsTyped, FS_Subset DEF DiskSound
    <2> DEFINE A == Started(disk)
               B == Started(r)
    <2>2. disk.total = Cardinality(A)
      BY DEF DiskSound
    <2>3. B = A \cup {op} /\ op \notin A /\ IsFiniteSet(A)
      BY <1>4, <1>11, <2>1
    <2> HIDE DEF A, B
    <2>4. Cardinality(B) = Cardinality(A) + 1
      BY <2>3, FS_AddElement
    <2>5. r.total = Cardinality(B)
      BY <1>9, <2>2, <2>4
    <2> QED BY <2>5 DEF B
  <1>16. TotalLimit[d] # NoLimit => r.total <= TotalLimit[d]
    <2>1. TotalLimit[d] \in Nat
      BY DiskAssumption
    <2> QED BY <1>1, <1>9, <2>1 DEF Reached
  <1> QED BY <1>9, <1>12, <1>13, <1>14, <1>15, <1>16 DEF DiskSound, w

LEMMA Scheduled ==
    ASSUME NEW d \in Disk, NEW disk, DiskSound(d, disk), OneSlotIdle(d, disk),
           NEW r, r = TrySchedule(d, disk)
    PROVE  /\ DiskInv(d, r) /\ DiskOps(r) = DiskOps(disk)
           /\ r.used = disk.used /\ r.nextId = disk.nextId
  <1>1. /\ disk \in DiskState /\ disk.pending \in Seq(Op) /\ disk.total \in Nat
        /\ TotalLimit[d] \in Nat
    BY DiskAssumption DEF DiskSound, DiskState
  <1>2. CASE Reached(TotalLimit[d], disk.total) \/ disk.pending = <<>>
    <2>1. r = disk
      BY <1>2 DEF TrySchedule
    <2>2. NoSlotIdle(d, disk)
      BY <1>1, <1>2 DEF NoSlotIdle, Reached, DiskSound
    <2> QED BY <2>1, <2>2 DEF DiskInv
  <1>3. CASE ~ Reached(TotalLimit[d], disk.total) /\ disk.pending # <<>>
    <2>1. r = Start(d, disk)
      BY <1>3 DEF TrySchedule, Start
    <2>2. /\ DiskSound(d, r) /\ DiskOps(r) = DiskOps(disk)
          /\ r.used = disk.used /\ r.nextId = disk.nextId
          /\ r.total = disk.total + 1 /\ r.pending = Tail(disk.pending)
      BY <1>3, <2>1, OperationStarted
    <2>3. NoSlotIdle(d, r)
      <3>1. Tail(disk.pending) \in Seq(Op) /\ Len(Tail(disk.pending)) = Len(disk.pending) - 1
        BY <1>1, <1>3, HeadTailProperties
      <3> DEFINE w == Tail(disk.pending)
      <3> HIDE DEF w
      <3>w. w \in Seq(Op) /\ Len(w) = Len(disk.pending) - 1
        BY <3>1 DEF w
      <3>e. Len(disk.pending) = 1 => w = <<>>
        BY <3>w, EmptySeq
      <3>2. Len(disk.pending) = 1 => Tail(disk.pending) = <<>>
        BY <3>e DEF w
      <3> QED BY <1>3, <2>2, <3>2 DEF NoSlotIdle, OneSlotIdle
    <2> QED BY <2>2, <2>3 DEF DiskInv
  <1> QED BY <1>2, <1>3

\* The operation is last in the queue of the scheduler.
Queued(disk, op) ==
    [disk EXCEPT !.types = @ \cup {[id |-> op.id, type |-> op.type]},
                 !.pending = Append(@, op)]

LEMMA OperationSubmitted ==
    ASSUME NEW d \in Disk, NEW disk, DiskInv(d, disk), NEW op \in Op,
           op.id < disk.nextId, \A o \in DiskOps(disk) : o.id # op.id,
           NEW r, r = SchedulerSubmit(d, disk, op)
    PROVE  /\ DiskInv(d, r) /\ DiskOps(r) = DiskOps(disk) \cup {op}
           /\ r.used = disk.used /\ r.nextId = disk.nextId
  <1> DEFINE w == Append(disk.pending, op)
             e == [id |-> op.id, type |-> op.type]
             q == Queued(disk, op)
  <1>1. /\ disk \in DiskState /\ disk.pending \in Seq(Op) /\ disk.total \in Nat
        /\ disk.types \in SUBSET [id : Nat, type : OpType]
        /\ TotalLimit[d] \in Nat /\ DiskSound(d, disk) /\ NoSlotIdle(d, disk)
    BY DiskAssumption DEF DiskInv, DiskSound, DiskState
  <1>2. op \notin DiskOps(disk) /\ op \notin ToSet(disk.pending)
    BY DEF DiskOps
  <1>3. /\ w \in Seq(Op) /\ w # <<>> /\ Len(w) = Len(disk.pending) + 1
        /\ ToSet(w) = ToSet(disk.pending) \cup {op} /\ IsInjective(w)
    BY <1>1, <1>2, QueueAppended DEF DiskSound
  <1>4. e \in [id : Nat, type : OpType]
    BY DEF Op
  <1>5. q = [disk EXCEPT !.types = disk.types \cup {e}, !.pending = w]
    BY DEF Queued
  <1>6. r = TrySchedule(d, q)
    BY DEF SchedulerSubmit, Queued
  <1> HIDE DEF w, q
  <1>7. /\ q \in DiskState /\ q.pending = w /\ q.types = disk.types \cup {e}
        /\ q.model = disk.model /\ q.total = disk.total
        /\ q.used = disk.used /\ q.nextId = disk.nextId
    <2> HIDE DEF e
    <2>1. disk.types \cup {e} \in SUBSET [id : Nat, type : OpType]
      BY <1>1, <1>4
    <2> QED BY <1>1, <1>3, <1>5, <2>1 DEF DiskState
  <1>8. Started(q) = Started(disk) /\ DiskOps(q) = DiskOps(disk) \cup {op}
    BY <1>3, <1>7 DEF Started, DiskOps
  <1>9. DiskSound(d, q)
    <2>1. \A t \in OpType : ModelInv(q.model[t], OpsLimit[d][t], t)
      BY <1>1, <1>7 DEF DiskSound
    <2>2. ToSet(q.pending) \cap Started(q) = {}
      BY <1>1, <1>2, <1>3, <1>7, <1>8 DEF DiskSound, DiskOps
    <2>3. IsFiniteSet(DiskOps(q))
      BY <1>1, <1>8, FS_AddElement DEF DiskSound
    <2>4. /\ \A o, p \in DiskOps(q) : o.id = p.id => o = p
          /\ \A o \in DiskOps(q) : o.id < q.nextId
      BY <1>1, <1>7, <1>8 DEF DiskSound
    <2>5. q.types = {[id |-> o.id, type |-> o.type] : o \in DiskOps(q)}
      BY <1>1, <1>7, <1>8 DEF DiskSound
    <2>6. q.total = Cardinality(Started(q)) /\ (TotalLimit[d] # NoLimit => q.total <= TotalLimit[d])
      BY <1>1, <1>7, <1>8 DEF DiskSound
    <2> QED BY <1>3, <1>7, <2>1, <2>2, <2>3, <2>4, <2>5, <2>6 DEF DiskSound
  <1>10. OneSlotIdle(d, q)
    <2>1. CASE disk.pending = <<>>
      BY <1>3, <1>7, <2>1, EmptySeq DEF OneSlotIdle
    <2>2. CASE disk.pending # <<>>
      BY <1>1, <1>7, <2>2 DEF OneSlotIdle, NoSlotIdle, Reached
    <2> QED BY <2>1, <2>2
  <1>11. /\ DiskInv(d, r) /\ DiskOps(r) = DiskOps(q)
         /\ r.used = q.used /\ r.nextId = q.nextId
    BY <1>6, <1>9, <1>10, Scheduled
  <1> QED BY <1>7, <1>8, <1>11

\* The finished operation leaves its model and the scheduler.
Removed(disk, t, id) ==
    [disk EXCEPT !.types = @ \ {[id |-> id, type |-> t]},
                 !.model[t] = ModelComplete(Delivered(@, id)),
                 !.total = @ - 1]

LEMMA OperationRemoved ==
    ASSUME NEW d \in Disk, NEW disk, DiskSound(d, disk), NEW t \in OpType,
           NEW id \in disk.model[t].scheduled,
           NEW f, f = NextToFinish(disk.model[t].active).op,
           NEW q, q = Removed(disk, t, id)
    PROVE  /\ f.id = id /\ f.type = t /\ f \in Started(disk)
           /\ DiskSound(d, q) /\ DiskOps(q) = DiskOps(disk) \ {f}
           /\ q.used = disk.used /\ q.nextId = disk.nextId
           /\ q.total = disk.total - 1 /\ q.pending = disk.pending
  <1> DEFINE x == disk.model[t]
             m == ModelComplete(Delivered(x, id))
             l == OpsLimit[d][t]
             S == Started(disk)
             e == [id |-> id, type |-> t]
  <1>1. /\ disk \in DiskState /\ disk.pending \in Seq(Op) /\ disk.total \in Nat
        /\ disk.types \in SUBSET [id : Nat, type : OpType]
        /\ TotalLimit[d] \in Nat /\ l \in Nat
    BY DiskAssumption DEF DiskSound, DiskState
  <1>2. ModelInv(x, l, t) /\ id \in x.scheduled /\ f = NextToFinish(x.active).op
    BY DEF DiskSound
  <1>r. q = [disk EXCEPT !.types = disk.types \ {e}, !.model[t] = m,
                         !.total = disk.total - 1]
    BY <1>1 DEF Removed, DiskState
  <1>4. /\ f.id = id /\ f \in ModelOps(x)
        /\ ModelInv(m, l, t) /\ ModelOps(m) = ModelOps(x) \ {f}
    <2>1. m = ModelComplete(Delivered(x, id))
      OBVIOUS
    <2> HIDE DEF x, m, l
    <2>2. ModelInv(x, l, t) /\ l \in Nat /\ id \in x.scheduled
      BY <1>1, <1>2
    <2>3. f = NextToFinish(x.active).op
      BY <1>2
    <2>4. f.id = id
      BY <2>2, <2>3 DEF ModelInv, Announced
    <2>5. f \in ModelOps(x)
      BY <2>1, <2>2, <2>3, ModelCompleted
    <2>6. ModelInv(m, l, t)
      BY <2>1, <2>2, <2>3, ModelCompleted
    <2> QED BY <2>1, <2>2, <2>3, <2>4, <2>5, <2>6, ModelCompleted
  <1>5. f.type = t
    BY <1>2, <1>4 DEF ModelInv, ModelSound
  <1>6. f \in S /\ f \in DiskOps(disk) /\ ModelOps(x) \subseteq S /\ S \subseteq DiskOps(disk)
    BY <1>1, <1>4, DiskOpsTyped
  <1>7. m \in Model
    BY <1>4 DEF ModelInv, ModelSound
  <1>8. IsFiniteSet(S) /\ disk.total = Cardinality(S)
    <2>1. IsFiniteSet(DiskOps(disk)) /\ disk.total = Cardinality(S)
      BY DEF DiskSound
    <2> HIDE DEF S
    <2> QED BY <1>6, <2>1, FS_Subset
  <1> HIDE DEF x, m, l, S, e
  <1>3. q = [disk EXCEPT !.types = disk.types \ {e},
                         !.model = [disk.model EXCEPT ![t] = m],
                         !.total = disk.total - 1]
    BY <1>1, <1>r DEF DiskState
  <1>9. IsFiniteSet(S \ {f}) /\ disk.total - 1 = Cardinality(S \ {f}) /\ disk.total - 1 \in Nat
    <2>1. IsFiniteSet(S \ {f}) /\ Cardinality(S \ {f}) = Cardinality(S) - 1
      BY <1>6, <1>8, FS_RemoveElement
    <2> QED BY <1>8, <2>1, FS_CardinalityType
  <1>10. /\ q \in DiskState /\ q.types = disk.types \ {e}
         /\ q.model = [disk.model EXCEPT ![t] = m] /\ q.total = disk.total - 1
         /\ q.used = disk.used /\ q.nextId = disk.nextId /\ q.pending = disk.pending
    <2> DEFINE n == disk.total - 1
               g == [disk.model EXCEPT ![t] = m]
               y == disk.types \ {e}
    <2>1. /\ n \in Nat /\ g \in [OpType -> Model]
          /\ y \in SUBSET [id : Nat, type : OpType]
      BY <1>1, <1>7, <1>9 DEF DiskState
    <2>2. q = [disk EXCEPT !.types = y, !.model = g, !.total = n]
      BY <1>3
    <2> HIDE DEF n, g, y
    <2>3. /\ q \in DiskState /\ q.types = y /\ q.model = g /\ q.total = n
          /\ q.used = disk.used /\ q.nextId = disk.nextId /\ q.pending = disk.pending
      BY <1>1, <2>1, <2>2 DEF DiskState
    <2> QED BY <2>3 DEF n, g, y
  <1>11. \A u \in OpType : q.model[u] = IF u = t THEN m ELSE disk.model[u]
    BY <1>1, <1>10 DEF DiskState
  <1>12. \A u \in OpType \ {t} : f \notin ModelOps(disk.model[u])
    BY <1>5 DEF DiskSound, ModelInv, ModelSound
  <1>13. Started(q) = S \ {f}
    BY <1>4, <1>6, <1>11, <1>12 DEF Started, S, x
  <1>14. DiskOps(q) = DiskOps(disk) \ {f}
    BY <1>6, <1>10, <1>13 DEF DiskSound, DiskOps, S
  <1>15. DiskSound(d, q)
    <2>1. \A u \in OpType : ModelInv(q.model[u], OpsLimit[d][u], u)
      BY <1>4, <1>11 DEF DiskSound, l
    <2>2. ToSet(q.pending) \cap Started(q) = {} /\ IsInjective(q.pending)
      BY <1>10, <1>13 DEF DiskSound, S
    <2>3. IsFiniteSet(DiskOps(q))
      <3> DEFINE D == DiskOps(disk)
      <3>1. IsFiniteSet(D)
        BY DEF DiskSound
      <3> HIDE DEF D
      <3>2. IsFiniteSet(D \ {f})
        BY <3>1, FS_RemoveElement
      <3> QED BY <1>14, <3>2 DEF D
    <2>4. /\ \A o, p \in DiskOps(q) : o.id = p.id => o = p
          /\ \A o \in DiskOps(q) : o.id < q.nextId
      BY <1>10, <1>14 DEF DiskSound
    <2>5. q.types = {[id |-> o.id, type |-> o.type] : o \in DiskOps(q)}
      <3>1. e = [id |-> f.id, type |-> f.type]
        BY <1>4, <1>5 DEF e
      <3>2. \A o \in DiskOps(disk) : [id |-> o.id, type |-> o.type] = e => o = f
        BY <1>6, <3>1 DEF DiskSound
      <3>3. disk.types = {[id |-> o.id, type |-> o.type] : o \in DiskOps(disk)}
        BY DEF DiskSound
      <3> QED BY <1>10, <1>14, <3>1, <3>2, <3>3
    <2>6. q.total = Cardinality(Started(q)) /\ (TotalLimit[d] # NoLimit => q.total <= TotalLimit[d])
      <3>1. TotalLimit[d] # NoLimit => disk.total <= TotalLimit[d]
        BY DEF DiskSound
      <3> QED BY <1>1, <1>9, <1>10, <1>13, <3>1
    <2> QED BY <1>10, <2>1, <2>2, <2>3, <2>4, <2>5, <2>6 DEF DiskSound
  <1> QED BY <1>4, <1>5, <1>6, <1>10, <1>14, <1>15 DEF S

LEMMA OperationCompleted ==
    ASSUME NEW d \in Disk, NEW disk, DiskInv(d, disk), NEW t \in OpType,
           NEW id \in disk.model[t].scheduled,
           NEW f, f = NextToFinish(disk.model[t].active).op,
           NEW r, r = SchedulerComplete(d, disk, t, id)
    PROVE  /\ f.id = id /\ f.type = t /\ f \in DiskOps(disk)
           /\ DiskInv(d, r) /\ DiskOps(r) = DiskOps(disk) \ {f}
           /\ r.used = disk.used /\ r.nextId = disk.nextId
  <1> DEFINE q == Removed(disk, t, id)
  <1>1. r = TrySchedule(d, q)
    BY DEF SchedulerComplete, Removed
  <1>2. DiskSound(d, disk) /\ NoSlotIdle(d, disk) /\ disk.total \in Nat /\ TotalLimit[d] \in Nat
    BY DiskAssumption DEF DiskInv, DiskSound, DiskState
  <1>q. q = Removed(disk, t, id)
    OBVIOUS
  <1> HIDE DEF q
  <1>3. /\ f.id = id /\ f.type = t /\ f \in Started(disk)
        /\ DiskSound(d, q) /\ DiskOps(q) = DiskOps(disk) \ {f}
        /\ q.used = disk.used /\ q.nextId = disk.nextId
        /\ q.total = disk.total - 1 /\ q.pending = disk.pending
    BY <1>2, <1>q, OperationRemoved
  <1>4. OneSlotIdle(d, q)
    BY <1>2, <1>3 DEF OneSlotIdle, NoSlotIdle
  <1>5. /\ DiskInv(d, r) /\ DiskOps(r) = DiskOps(q)
        /\ r.used = q.used /\ r.nextId = q.nextId
    BY <1>1, <1>3, <1>4, Scheduled
  <1> QED BY <1>3, <1>5 DEF DiskOps

LEMMA SameCount ==
    ASSUME NEW A \in SUBSET Active, IsFiniteSet(A), \A a, b \in A : a.op = b.op => a = b,
           \A a \in A : a.left > 0, NEW B, B = Worked(A)
    PROVE  /\ B \in SUBSET Active /\ IsFiniteSet(B) /\ Cardinality(B) = Cardinality(A)
           /\ {b.op : b \in B} = {a.op : a \in A}
           /\ \A b, c \in B : b.op = c.op => b = c
  <1>1. \A a \in A : /\ a.left \in Nat /\ a.left > 0 /\ a.op \in Op
                     /\ [a EXCEPT !.left = @ - 1] = [op |-> a.op, left |-> a.left - 1]
    BY DEF Active
  <1>2. B = {[op |-> a.op, left |-> a.left - 1] : a \in A}
    BY <1>1 DEF Worked
  <1>3. B \in SUBSET Active
    <2>1. ASSUME NEW a \in A
          PROVE  [op |-> a.op, left |-> a.left - 1] \in Active
      <3>1. a.left \in Nat /\ a.left > 0
        BY <1>1
      <3>2. a.left - 1 \in Nat
        BY <3>1
      <3> QED BY <1>1, <3>2 DEF Active
    <2> QED BY <1>2, <2>1
  <1>4. {b.op : b \in B} = {a.op : a \in A}
    <2>1. ASSUME NEW b \in B
          PROVE  \E a \in A : b.op = a.op
      BY <1>2
    <2>2. ASSUME NEW a \in A
          PROVE  \E b \in B : b.op = a.op
      <3> DEFINE b == [op |-> a.op, left |-> a.left - 1]
      <3>1. b \in B /\ b.op = a.op
        BY <1>2
      <3> QED BY <3>1
    <2> QED BY <2>1, <2>2
  <1>5. ASSUME NEW b \in B, NEW c \in B, b.op = c.op
        PROVE  b = c
    <2>1. PICK x \in A : b = [op |-> x.op, left |-> x.left - 1]
      BY <1>2
    <2>2. PICK y \in A : c = [op |-> y.op, left |-> y.left - 1]
      BY <1>2
    <2>3. x.op = y.op
      BY <1>5, <2>1, <2>2
    <2> QED BY <2>1, <2>2, <2>3
  <1> DEFINE f == [a \in A |-> [op |-> a.op, left |-> a.left - 1]]
  <1>6. f \in Bijection(A, B)
    <2>1. f \in [A -> B]
      BY <1>2
    <2>2. ASSUME NEW a \in A, NEW b \in A, f[a] = f[b]
          PROVE  a = b
      <3>1. f[a].op = a.op /\ f[b].op = b.op
        OBVIOUS
      <3> QED BY <2>2, <3>1
    <2>3. ASSUME NEW b \in B
          PROVE  \E a \in A : f[a] = b
      BY <1>2
    <2> HIDE DEF f
    <2> QED BY <2>1, <2>2, <2>3 DEF Bijection, Injection, Surjection, IsInjective
  <1> HIDE DEF f
  <1>7. IsFiniteSet(B) /\ Cardinality(B) = Cardinality(A)
    BY <1>6, FS_Bijection DEF ExistsBijection
  <1> QED BY <1>3, <1>4, <1>5, <1>7

\* Time passes: the same operations are there, and the same one is next.
LEMMA ModelWorked ==
    ASSUME NEW t, NEW limit, NEW m, ModelInv(m, limit, t), m.active # {},
           \A a \in m.active : a.left > 0,
           NEW r, r = [m EXCEPT !.active = Worked(@)]
    PROVE  ModelInv(r, limit, t) /\ ModelOps(r) = ModelOps(m)
  <1> DEFINE A == m.active
             B == Worked(m.active)
  <1>1. /\ m \in Model /\ ModelSound(m, t) /\ WithinLimit(m, limit) /\ Announced(m)
        /\ A \in SUBSET Active /\ IsFiniteSet(A) /\ m.count = Cardinality(A)
        /\ \A a, b \in A : a.op = b.op => a = b
    BY DEF ModelInv, ModelSound, Model
  <1>2. /\ B \in SUBSET Active /\ IsFiniteSet(B) /\ Cardinality(B) = Cardinality(A)
        /\ {b.op : b \in B} = {a.op : a \in A}
        /\ \A b, c \in B : b.op = c.op => b = c
    <2> HIDE DEF A
    <2>1. \A a \in A : a.left > 0
      BY DEF A
    <2>2. B = Worked(A)
      BY DEF A
    <2> HIDE DEF B
    <2> QED BY <1>1, <2>1, <2>2, SameCount
  <1>3. NextToFinish(B).op.id = NextToFinish(A).op.id
    <2>1. B = {[a EXCEPT !.left = @ - 1] : a \in A}
      BY DEF Worked
    <2>2. A # {} /\ \A a \in A : a.left > 0
      OBVIOUS
    <2> HIDE DEF A, B
    <2> QED BY <1>1, <2>1, <2>2, SameFirst
  <1>4. r = [m EXCEPT !.active = B]
    OBVIOUS
  <1>5. B # {}
    BY DEF Worked
  <1> HIDE DEF B
  <1>6. /\ r \in Model /\ r.active = B /\ r.count = m.count /\ r.waiting = m.waiting
        /\ r.event = m.event /\ r.scheduled = m.scheduled
    BY <1>1, <1>2, <1>4 DEF Model
  <1>7. Running(r) = Running(m) /\ ModelOps(r) = ModelOps(m)
    BY <1>2, <1>6 DEF Running, ModelOps
  <1>8. ModelSound(r, t)
    BY <1>1, <1>2, <1>6, <1>7 DEF ModelSound
  <1>9. WithinLimit(r, limit) /\ Announced(r)
    BY <1>1, <1>3, <1>5, <1>6 DEF WithinLimit, Announced
  <1> QED BY <1>7, <1>8, <1>9 DEF ModelInv

LEMMA DiskWorked ==
    ASSUME NEW d, NEW disk, DiskInv(d, disk), NEW t \in OpType,
           disk.model[t].active # {}, \A a \in disk.model[t].active : a.left > 0,
           NEW r, r = [disk EXCEPT !.model[t].active = Worked(@)]
    PROVE  /\ DiskInv(d, r) /\ DiskOps(r) = DiskOps(disk)
           /\ r.used = disk.used /\ r.nextId = disk.nextId
  <1> DEFINE x == disk.model[t]
             m == [x EXCEPT !.active = Worked(@)]
             l == OpsLimit[d][t]
  <1>1. disk \in DiskState /\ DiskSound(d, disk) /\ NoSlotIdle(d, disk)
    BY DEF DiskInv, DiskSound
  <1>2. ModelInv(m, l, t) /\ ModelOps(m) = ModelOps(x)
    <2>1. ModelInv(x, l, t) /\ x.active # {} /\ \A a \in x.active : a.left > 0
      BY <1>1 DEF DiskSound
    <2> HIDE DEF x, l
    <2> QED BY <2>1, ModelWorked
  <1>3. r = [disk EXCEPT !.model = [disk.model EXCEPT ![t] = m]]
    BY <1>1 DEF DiskState
  <1>4. m \in Model
    BY <1>2 DEF ModelInv, ModelSound
  <1> HIDE DEF m
  <1>5. /\ r \in DiskState /\ r.model = [disk.model EXCEPT ![t] = m] /\ r.total = disk.total
        /\ r.used = disk.used /\ r.nextId = disk.nextId /\ r.pending = disk.pending
        /\ r.types = disk.types
    <2> DEFINE g == [disk.model EXCEPT ![t] = m]
    <2>1. g \in [OpType -> Model]
      BY <1>1, <1>4 DEF DiskState
    <2>2. r = [disk EXCEPT !.model = g]
      BY <1>3
    <2> HIDE DEF g
    <2>3. /\ r \in DiskState /\ r.model = g /\ r.total = disk.total
          /\ r.used = disk.used /\ r.nextId = disk.nextId /\ r.pending = disk.pending
          /\ r.types = disk.types
      BY <1>1, <2>1, <2>2 DEF DiskState
    <2> QED BY <2>3 DEF g
  <1>6. \A u \in OpType : r.model[u] = IF u = t THEN m ELSE disk.model[u]
    BY <1>1, <1>5 DEF DiskState
  <1>7. Started(r) = Started(disk) /\ DiskOps(r) = DiskOps(disk)
    <2>1. \A u \in OpType : ModelOps(r.model[u]) = ModelOps(disk.model[u])
      BY <1>2, <1>6
    <2>2. Started(r) = Started(disk)
      BY <2>1 DEF Started
    <2> QED BY <1>5, <2>2 DEF DiskOps
  <1>8. \A u \in OpType : ModelInv(r.model[u], OpsLimit[d][u], u)
    BY <1>1, <1>2, <1>6 DEF DiskSound
  <1>9. DiskSound(d, r)
    BY <1>1, <1>5, <1>7, <1>8 DEF DiskSound
  <1> QED BY <1>1, <1>5, <1>7, <1>9 DEF DiskInv, NoSlotIdle

-----------------------------------------------------------------------------
(* Space, of one disk, of all of them, and of the files.                   *)

Writes(disk) == {o \in DiskOps(disk) : o.type = "Write"}

LEMMA ReservedTyped ==
    ASSUME NEW disk \in DiskState, IsFiniteSet(DiskOps(disk))
    PROVE  /\ Reserved(disk) \in Nat /\ IsFiniteSet(Writes(disk))
           /\ [o \in Writes(disk) |-> o.size] \in [Writes(disk) -> Nat]
           /\ Reserved(disk) = SumFunction([o \in Writes(disk) |-> o.size])
  <1> DEFINE W == Writes(disk)
             f == [o \in W |-> o.size]
  <1>1. IsFiniteSet(W)
    BY FS_Subset DEF Writes
  <1>2. f \in [W -> Nat]
    BY DiskOpsTyped DEF Writes, Op
  <1>3. Reserved(disk) = SumFunction(f)
    BY DEF Reserved, Writes
  <1> HIDE DEF W, f
  <1>4. SumFunction(f) \in Nat
    BY <1>1, <1>2, SumTyped
  <1> QED BY <1>1, <1>2, <1>3, <1>4 DEF W, f

\* A disk that has one operation more.
LEMMA ReservedMore ==
    ASSUME NEW x \in DiskState, IsFiniteSet(DiskOps(x)),
           NEW y \in DiskState, IsFiniteSet(DiskOps(y)),
           NEW op, op \notin DiskOps(x), DiskOps(y) = DiskOps(x) \cup {op}
    PROVE  Reserved(y) = Reserved(x) + (IF op.type = "Write" THEN op.size ELSE 0)
  <1> DEFINE W == Writes(x)
             V == Writes(y)
             f == [o \in W |-> o.size]
             g == [o \in V |-> o.size]
  <1>1. /\ IsFiniteSet(W) /\ f \in [W -> Nat] /\ Reserved(x) = SumFunction(f)
        /\ g \in [V -> Nat] /\ Reserved(y) = SumFunction(g)
        /\ Reserved(x) \in Nat
    BY ReservedTyped
  <1>2. CASE op.type = "Write"
    <2>1. V = W \cup {op} /\ op \notin W
      BY <1>2 DEF Writes
    <2>2. \A o \in W : g[o] = f[o]
      BY <2>1
    <2>3. g[op] = op.size
      BY <2>1
    <2> HIDE DEF W, V, f, g
    <2>4. g \in [W \cup {op} -> Nat]
      BY <1>1, <2>1
    <2>5. IsFiniteSet(W) /\ f \in [W -> Nat] /\ op \notin W
      BY <1>1, <2>1
    <2>6. SumFunction(g) = SumFunction(f) + g[op]
      BY <2>2, <2>4, <2>5, SumExtended
    <2> QED BY <1>1, <1>2, <2>3, <2>6
  <1>3. CASE op.type # "Write"
    <2>1. V = W
      BY <1>3 DEF Writes
    <2> QED BY <1>1, <1>3, <2>1
  <1> QED BY <1>2, <1>3

\* The space in use on all disks, and what they have reserved.
UsedOf(D)     == SumFunction([d \in Disk |-> D[d].used])
ReservedOf(D) == SumFunction([d \in Disk |-> Reserved(D[d])])

LEMMA DiskReplaced ==
    ASSUME NEW D \in [Disk -> DiskState], NEW E \in [Disk -> DiskState], NEW d \in Disk,
           \A x \in Disk : IsFiniteSet(DiskOps(D[x])) /\ IsFiniteSet(DiskOps(E[x])),
           \A x \in Disk \ {d} : E[x] = D[x]
    PROVE  /\ UsedOf(D) \in Nat /\ UsedOf(E) \in Nat
           /\ ReservedOf(D) \in Nat /\ ReservedOf(E) \in Nat
           /\ UsedOf(E) + D[d].used = UsedOf(D) + E[d].used
           /\ ReservedOf(E) + Reserved(D[d]) = ReservedOf(D) + Reserved(E[d])
  <1> DEFINE u == [x \in Disk |-> D[x].used]
             v == [x \in Disk |-> E[x].used]
             r == [x \in Disk |-> Reserved(D[x])]
             s == [x \in Disk |-> Reserved(E[x])]
  <1>1. IsFiniteSet(Disk)
    BY DiskAssumption
  <1>2. u \in [Disk -> Nat] /\ v \in [Disk -> Nat]
    BY DEF DiskState
  <1>3. r \in [Disk -> Nat] /\ s \in [Disk -> Nat]
    BY ReservedTyped
  <1>4. \A x \in Disk \ {d} : v[x] = u[x] /\ s[x] = r[x]
    OBVIOUS
  <1>5. /\ u[d] = D[d].used /\ v[d] = E[d].used
        /\ r[d] = Reserved(D[d]) /\ s[d] = Reserved(E[d])
    OBVIOUS
  <1>6. /\ UsedOf(D) = SumFunction(u) /\ UsedOf(E) = SumFunction(v)
        /\ ReservedOf(D) = SumFunction(r) /\ ReservedOf(E) = SumFunction(s)
    BY DEF UsedOf, ReservedOf
  <1> HIDE DEF u, v, r, s
  <1>7. /\ SumFunction(u) \in Nat /\ SumFunction(v) \in Nat
        /\ SumFunction(v) + u[d] = SumFunction(u) + v[d]
    BY <1>1, <1>2, <1>4, SumTyped, SumUpdated
  <1>8. /\ SumFunction(r) \in Nat /\ SumFunction(s) \in Nat
        /\ SumFunction(s) + r[d] = SumFunction(r) + s[d]
    BY <1>1, <1>3, <1>4, SumTyped, SumUpdated
  <1> QED BY <1>5, <1>6, <1>7, <1>8

\* What files hold.
File == [size : Nat, actions : Nat]

FilesTyped(F) ==
    /\ F \in [DOMAIN F -> File]
    /\ IsFiniteSet(DOMAIN F)

SizeIn(F, p) == F[p].size

SizeOf(F) == SumFunction([p \in DOMAIN F |-> F[p].size])

LEMMA SizesTyped ==
    ASSUME NEW F, FilesTyped(F)
    PROVE  /\ [p \in DOMAIN F |-> F[p].size] \in [DOMAIN F -> Nat]
           /\ SizeOf(F) \in Nat
  <1> DEFINE f == [p \in DOMAIN F |-> F[p].size]
             S == DOMAIN F
  <1>1. f \in [S -> Nat] /\ IsFiniteSet(S)
    BY DEF FilesTyped, File
  <1>2. SizeOf(F) = SumFunction(f)
    BY DEF SizeOf
  <1> HIDE DEF f, S
  <1>3. SumFunction(f) \in Nat
    BY <1>1, SumTyped
  <1> QED BY <1>1, <1>2, <1>3 DEF f, S

LEMMA FileAdded ==
    ASSUME NEW F, FilesTyped(F), NEW G, FilesTyped(G), NEW p, p \notin DOMAIN F,
           DOMAIN G = DOMAIN F \cup {p}, \A q \in DOMAIN F : G[q] = F[q]
    PROVE  SizeOf(G) = SizeOf(F) + SizeIn(G, p)
  <1> DEFINE S == DOMAIN F
             f == [q \in S |-> F[q].size]
             g == [q \in DOMAIN G |-> G[q].size]
  <1>1. /\ IsFiniteSet(S) /\ p \notin S /\ f \in [S -> Nat] /\ g \in [S \cup {p} -> Nat]
        /\ SizeOf(F) = SumFunction(f) /\ SizeOf(G) = SumFunction(g)
        /\ g[p] = G[p].size
        /\ \A q \in S : g[q] = f[q]
    BY SizesTyped DEF FilesTyped, SizeOf
  <1> HIDE DEF S, f, g
  <1>2. SumFunction(g) = SumFunction(f) + g[p]
    BY <1>1, SumExtended
  <1> QED BY <1>1, <1>2 DEF SizeIn

FileReplaced(F, p, f, G) ==
    FilesTyped(F) /\ p \in DOMAIN F /\ f \in File /\ G = [F EXCEPT ![p] = f]

LEMMA FileChanged ==
    ASSUME NEW F, NEW p, NEW f, NEW G, FileReplaced(F, p, f, G)
    PROVE  /\ FilesTyped(G) /\ DOMAIN G = DOMAIN F /\ G[p] = f
           /\ \A q \in DOMAIN F \ {p} : G[q] = F[q]
           /\ SizeOf(G) \in Nat /\ SizeOf(F) \in Nat
           /\ SizeOf(G) + SizeIn(F, p) = SizeOf(F) + SizeIn(G, p)
  <1> DEFINE S == DOMAIN F
             g == [q \in S |-> F[q].size]
             h == [q \in DOMAIN G |-> G[q].size]
  <1>1. /\ DOMAIN G = S /\ FilesTyped(G) /\ G[p] = f
        /\ \A q \in S \ {p} : G[q] = F[q]
    BY DEF FilesTyped, FileReplaced
  <1>2. /\ IsFiniteSet(S) /\ p \in S /\ g \in [S -> Nat] /\ h \in [S -> Nat]
        /\ SizeOf(F) = SumFunction(g) /\ SizeOf(G) = SumFunction(h)
        /\ SizeOf(F) \in Nat /\ SizeOf(G) \in Nat
        /\ g[p] = F[p].size /\ h[p] = G[p].size
        /\ \A q \in S \ {p} : h[q] = g[q]
    BY <1>1, SizesTyped DEF FilesTyped, FileReplaced, SizeOf
  <1> HIDE DEF S, g, h
  <1>3. SumFunction(h) + g[p] = SumFunction(g) + h[p]
    BY <1>2, SumUpdated
  <1>4. SizeOf(G) + SizeIn(F, p) = SizeOf(F) + SizeIn(G, p)
    BY <1>2, <1>3 DEF SizeIn
  <1> QED BY <1>1, <1>2, <1>4 DEF S

\* What the answers under way say was written.
DiskAnswer ==
    [type : {"DataReadCompleted", "DataReadFailed",
             "DataWriteCompleted", "DataWriteFailed"},
     disk : Disk, id : Nat, size : Nat]

WrittenBy(A) == SumFunction([e \in {x \in A : x.type = "DataWriteCompleted"} |-> e.size])

LEMMA WrittenTyped ==
    ASSUME NEW A \in SUBSET DiskAnswer, IsFiniteSet(A)
    PROVE  WrittenBy(A) \in Nat
  <1> DEFINE W == {x \in A : x.type = "DataWriteCompleted"}
             f == [e \in W |-> e.size]
  <1>1. IsFiniteSet(W)
    BY FS_Subset
  <1>2. f \in [W -> Nat] /\ WrittenBy(A) = SumFunction(f)
    BY DEF DiskAnswer, WrittenBy
  <1> HIDE DEF W, f
  <1> QED BY <1>1, <1>2, SumTyped

LEMMA AnswerAdded ==
    ASSUME NEW A \in SUBSET DiskAnswer, IsFiniteSet(A), NEW e \in DiskAnswer, e \notin A
    PROVE  WrittenBy(A \cup {e})
             = WrittenBy(A) + (IF e.type = "DataWriteCompleted" THEN e.size ELSE 0)
  <1> DEFINE B == A \cup {e}
             W == {x \in A : x.type = "DataWriteCompleted"}
             V == {x \in B : x.type = "DataWriteCompleted"}
             f == [x \in W |-> x.size]
             g == [x \in V |-> x.size]
  <1>1. IsFiniteSet(W)
    BY FS_Subset
  <1>2. /\ f \in [W -> Nat] /\ WrittenBy(A) = SumFunction(f)
        /\ g \in [V -> Nat] /\ WrittenBy(B) = SumFunction(g)
    BY DEF DiskAnswer, WrittenBy
  <1>3. CASE e.type = "DataWriteCompleted"
    <2>1. /\ V = W \cup {e} /\ e \notin W
          /\ g[e] = e.size /\ \A x \in W : g[x] = f[x]
      BY <1>3
    <2> HIDE DEF W, V, f, g
    <2>2. g \in [W \cup {e} -> Nat]
      BY <1>2, <2>1
    <2>3. SumFunction(g) = SumFunction(f) + g[e]
      BY <1>1, <1>2, <2>1, <2>2, SumExtended
    <2> QED BY <1>2, <1>3, <2>1, <2>3
  <1>4. CASE e.type # "DataWriteCompleted"
    <2>1. V = W
      BY <1>4
    <2>2. WrittenBy(A) \in Nat
      BY WrittenTyped
    <2>3. SumFunction(g) = SumFunction(f)
      BY <2>1
    <2> HIDE DEF f, g, W, V
    <2> QED BY <1>2, <1>4, <2>2, <2>3
  <1> QED BY <1>3, <1>4

-----------------------------------------------------------------------------
(* The disks D, the queue of answers q, the files F and the requests R of  *)
(* a file system in order.                                                 *)

DisksSound(D) ==
    /\ D \in [Disk -> DiskState]
    /\ \A d \in Disk : DiskInv(d, D[d]) /\ D[d].used <= DiskCapacity[d]

\* No operation is answered twice, nor before it has left its disk.
AnswersSound(q, D) ==
    /\ q \in Seq(DiskAnswer) /\ IsFiniteSet(ToSet(q))
    /\ IsInjective(q)
    /\ \A e, g \in ToSet(q) : e.disk = g.disk /\ e.id = g.id => e = g
    /\ \A e \in ToSet(q) : /\ e.id < D[e.disk].nextId
                           /\ \A o \in DiskOps(D[e.disk]) : o.id # e.id

Request == [disk : Disk, id : Nat, request : Nat, path : Path]

FlightOf(D, q, d) ==
    {o.id : o \in DiskOps(D[d])} \cup {e.id : e \in {x \in ToSet(q) : x.disk = d}}

Tracked(D, q, F, R) ==
    /\ R \in SUBSET Request /\ IsFiniteSet(R)
    /\ \A d \in Disk : FlightOf(D, q, d) = {w.id : w \in {x \in R : x.disk = d}}
    /\ \A v, w \in R : v.disk = w.disk /\ v.id = w.id => v = w
    /\ \A w \in R : w.path \in DOMAIN F
    /\ \A p \in DOMAIN F : F[p].actions = Cardinality({w \in R : w.path = p})

Balanced(D, q, F) == UsedOf(D) = SizeOf(F) + ReservedOf(D) + WrittenBy(ToSet(q))

Orderly(D, q, F, R) ==
    /\ DisksSound(D) /\ AnswersSound(q, D) /\ FilesTyped(F)
    /\ Tracked(D, q, F, R) /\ Balanced(D, q, F)

\* The state of one of the disks is replaced by r.
Swapped(D, d, r, E) ==
    /\ d \in Disk
    /\ DiskInv(d, r) /\ r.used <= DiskCapacity[d]
    /\ E = [D EXCEPT ![d] = r]

LEMMA DiskSwapped ==
    ASSUME NEW D, DisksSound(D), NEW d, NEW r, NEW E, Swapped(D, d, r, E)
    PROVE  /\ DisksSound(E) /\ E[d] = r /\ \A x \in Disk \ {d} : E[x] = D[x]
           /\ D[d] \in DiskState /\ r \in DiskState /\ DiskInv(d, D[d])
           /\ IsFiniteSet(DiskOps(D[d])) /\ IsFiniteSet(DiskOps(r))
           /\ UsedOf(D) \in Nat /\ UsedOf(E) \in Nat
           /\ ReservedOf(D) \in Nat /\ ReservedOf(E) \in Nat
           /\ Reserved(D[d]) \in Nat /\ Reserved(r) \in Nat
           /\ UsedOf(E) + D[d].used = UsedOf(D) + r.used
           /\ ReservedOf(E) + Reserved(D[d]) = ReservedOf(D) + Reserved(r)
  <1>1. /\ D \in [Disk -> DiskState] /\ D[d] \in DiskState
        /\ \A x \in Disk : DiskInv(x, D[x]) /\ D[x].used <= DiskCapacity[x]
    BY DEF DisksSound, Swapped
  <1>s. /\ d \in Disk /\ DiskInv(d, r) /\ r.used <= DiskCapacity[d]
        /\ E = [D EXCEPT ![d] = r]
    BY DEF Swapped
  <1>2. r \in DiskState
    BY <1>s DEF DiskInv, DiskSound
  <1>3. E \in [Disk -> DiskState] /\ E[d] = r /\ \A x \in Disk \ {d} : E[x] = D[x]
    BY <1>1, <1>s, <1>2
  <1>4. \A x \in Disk : DiskInv(x, E[x]) /\ E[x].used <= DiskCapacity[x]
    BY <1>1, <1>s, <1>3
  <1>5. \A x \in Disk : IsFiniteSet(DiskOps(D[x])) /\ IsFiniteSet(DiskOps(E[x]))
    BY <1>1, <1>4 DEF DiskInv, DiskSound
  <1>6. /\ UsedOf(D) \in Nat /\ UsedOf(E) \in Nat
        /\ ReservedOf(D) \in Nat /\ ReservedOf(E) \in Nat
        /\ UsedOf(E) + D[d].used = UsedOf(D) + E[d].used
        /\ ReservedOf(E) + Reserved(D[d]) = ReservedOf(D) + Reserved(E[d])
    BY <1>1, <1>s, <1>3, <1>5, DiskReplaced
  <1>7. /\ IsFiniteSet(DiskOps(D[d])) /\ IsFiniteSet(DiskOps(r))
    BY <1>s, <1>3, <1>5
  <1>8. Reserved(D[d]) \in Nat /\ Reserved(r) \in Nat
    BY <1>1, <1>2, <1>7, ReservedTyped
  <1> QED BY <1>1, <1>s, <1>2, <1>3, <1>4, <1>6, <1>7, <1>8 DEF DisksSound

LEMMA AnswersTyped ==
    ASSUME NEW q, NEW D, AnswersSound(q, D)
    PROVE  ToSet(q) \subseteq DiskAnswer
  <1>1. q \in Seq(DiskAnswer)
    BY DEF AnswersSound
  <1> QED BY <1>1, LenProperties DEF ToSet

\* Disks that moved on, but not past the answers under way.
LEMMA AnswersStay ==
    ASSUME NEW q, NEW D, NEW E, AnswersSound(q, D), DisksSound(D), DisksSound(E),
           \A x \in Disk : D[x].nextId <= E[x].nextId,
           \A x \in Disk : \A o \in DiskOps(E[x]) :
             o \in DiskOps(D[x]) \/ o.id >= D[x].nextId
    PROVE  AnswersSound(q, E)
  <1> SUFFICES ASSUME NEW e \in ToSet(q)
               PROVE  /\ e.id < E[e.disk].nextId
                      /\ \A o \in DiskOps(E[e.disk]) : o.id # e.id
    BY DEF AnswersSound
  <1> DEFINE x == e.disk
  <1>1. x \in Disk /\ e.id \in Nat
    BY AnswersTyped DEF DiskAnswer
  <1>2. D[x] \in DiskState /\ E[x] \in DiskState
    BY <1>1 DEF DisksSound
  <1>3. D[x].nextId \in Nat /\ E[x].nextId \in Nat /\ \A o \in DiskOps(E[x]) : o.id \in Nat
    BY <1>2, DiskOpsTyped DEF DiskState, Op
  <1>4. e.id < D[x].nextId /\ \A o \in DiskOps(D[x]) : o.id # e.id
    BY DEF AnswersSound
  <1> HIDE DEF x
  <1>5. /\ e.id < E[x].nextId
        /\ \A o \in DiskOps(E[x]) : o.id # e.id
    BY <1>1, <1>3, <1>4
  <1> QED BY <1>5 DEF x

LEMMA AnswerQueued ==
    ASSUME NEW q, NEW D, AnswersSound(q, D), NEW e \in DiskAnswer,
           e.id < D[e.disk].nextId, \A o \in DiskOps(D[e.disk]) : o.id # e.id,
           \A g \in ToSet(q) : g.disk # e.disk \/ g.id # e.id
    PROVE  /\ AnswersSound(Append(q, e), D)
           /\ ToSet(Append(q, e)) = ToSet(q) \cup {e} /\ e \notin ToSet(q)
  <1> DEFINE w == Append(q, e)
  <1>1. q \in Seq(DiskAnswer) /\ IsInjective(q) /\ IsFiniteSet(ToSet(q)) /\ e \notin ToSet(q)
    BY DEF AnswersSound
  <1>2. /\ w \in Seq(DiskAnswer) /\ ToSet(w) = ToSet(q) \cup {e} /\ IsInjective(w)
    BY <1>1, QueueAppended
  <1> HIDE DEF w
  <1>3. IsFiniteSet(ToSet(w))
    BY <1>1, <1>2, FS_AddElement
  <1>4. \A g, h \in ToSet(w) : g.disk = h.disk /\ g.id = h.id => g = h
    BY <1>2 DEF AnswersSound
  <1>5. \A g \in ToSet(w) : /\ g.id < D[g.disk].nextId
                            /\ \A o \in DiskOps(D[g.disk]) : o.id # g.id
    BY <1>2 DEF AnswersSound
  <1>6. AnswersSound(w, D)
    BY <1>2, <1>3, <1>4, <1>5 DEF AnswersSound
  <1> QED BY <1>1, <1>2, <1>6 DEF w

\* One more number of one disk is under way, as one request of a file.
OneMore(D, q, E, u, d, k) ==
    /\ k \notin FlightOf(D, q, d)
    /\ FlightOf(E, u, d) = FlightOf(D, q, d) \cup {k}
    /\ \A x \in Disk \ {d} : FlightOf(E, u, x) = FlightOf(D, q, x)

Requested(F, R, d, k, G, S) ==
    \E w \in Request :
      /\ w.disk = d /\ w.id = k /\ w.path \in DOMAIN F
      /\ G = [F EXCEPT ![w.path].actions = @ + 1]
      /\ S = R \cup {w}

LEMMA RequestAdded ==
    ASSUME NEW D, NEW q, NEW F, NEW R, Tracked(D, q, F, R), FilesTyped(F),
           NEW E, NEW u, NEW d, NEW k, OneMore(D, q, E, u, d, k),
           NEW G, NEW S, Requested(F, R, d, k, G, S)
    PROVE  Tracked(E, u, G, S) /\ FilesTyped(G) /\ SizeOf(G) = SizeOf(F)
  <1>w. PICK w \in Request : /\ w.disk = d /\ w.id = k /\ w.path \in DOMAIN F
                             /\ G = [F EXCEPT ![w.path].actions = @ + 1]
                             /\ S = R \cup {w}
    BY DEF Requested
  <1> DEFINE p == w.path
  <1>1. /\ F \in [DOMAIN F -> File] /\ IsFiniteSet(DOMAIN F)
        /\ R \in SUBSET Request /\ IsFiniteSet(R)
        /\ \A x \in Disk : FlightOf(D, q, x) = {y.id : y \in {z \in R : z.disk = x}}
    BY DEF Tracked, FilesTyped
  <1>2. w \notin R /\ \A y \in R : y.disk # d \/ y.id # k
    BY <1>w, <1>1 DEF OneMore, Request
  <1>3. S \in SUBSET Request /\ IsFiniteSet(S)
    BY <1>w, <1>1, FS_AddElement
  <1>4. /\ DOMAIN G = DOMAIN F /\ FilesTyped(G) /\ SizeOf(G) = SizeOf(F)
        /\ p \in DOMAIN F /\ F[p].actions \in Nat /\ G[p].actions = F[p].actions + 1
        /\ \A x \in DOMAIN F \ {p} : G[x] = F[x]
    <2> DEFINE f == [F[p] EXCEPT !.actions = @ + 1]
    <2>1. F[p] \in File /\ p \in DOMAIN F
      BY <1>w, <1>1
    <2>2. /\ f \in File /\ f.actions = F[p].actions + 1 /\ f.size = F[p].size
          /\ F[p].actions \in Nat /\ F[p].size \in Nat
      BY <2>1 DEF File
    <2>3. G = [F EXCEPT ![p] = f]
      BY <1>w, <1>1
    <2> HIDE DEF f, p
    <2>4. /\ FilesTyped(G) /\ DOMAIN G = DOMAIN F /\ G[p] = f
          /\ \A x \in DOMAIN F \ {p} : G[x] = F[x]
          /\ SizeOf(G) \in Nat /\ SizeOf(F) \in Nat
          /\ SizeOf(G) + F[p].size = SizeOf(F) + G[p].size
      <3>1. p \in DOMAIN F /\ f \in File /\ FilesTyped(F) /\ G = [F EXCEPT ![p] = f]
        BY <2>1, <2>2, <2>3
      <3>2. FileReplaced(F, p, f, G)
        BY <3>1 DEF FileReplaced
      <3>3. /\ FilesTyped(G) /\ DOMAIN G = DOMAIN F /\ G[p] = f
            /\ \A x \in DOMAIN F \ {p} : G[x] = F[x]
            /\ SizeOf(G) \in Nat /\ SizeOf(F) \in Nat
            /\ SizeOf(G) + SizeIn(F, p) = SizeOf(F) + SizeIn(G, p)
        BY ONLY <3>2, FileChanged
      <3> QED BY <3>1, <3>3 DEF SizeIn
    <2> QED BY <2>1, <2>2, <2>4
  <1> HIDE DEF p
  <1>5. \A x \in Disk : FlightOf(E, u, x) = {y.id : y \in {z \in S : z.disk = x}}
    <2>1. \A x \in Disk \ {d} : {z \in S : z.disk = x} = {z \in R : z.disk = x}
      BY <1>w
    <2>2. {z \in S : z.disk = d} = {z \in R : z.disk = d} \cup {w}
      BY <1>w
    <2>3. {y.id : y \in {z \in S : z.disk = d}} = {y.id : y \in {z \in R : z.disk = d}} \cup {k}
      BY <1>w, <2>2
    <2> QED BY <1>1, <2>1, <2>3 DEF OneMore
  <1>6. /\ \A v, y \in S : v.disk = y.disk /\ v.id = y.id => v = y
        /\ \A y \in S : y.path \in DOMAIN G
    BY <1>w, <1>2, <1>4 DEF Tracked, p
  <1>7. ASSUME NEW x \in DOMAIN G
        PROVE  G[x].actions = Cardinality({y \in S : y.path = x})
    <2> DEFINE A == {y \in R : y.path = x}
               B == {y \in S : y.path = x}
    <2>1. IsFiniteSet(A) /\ F[x].actions = Cardinality(A)
      <3>1. F[x].actions = Cardinality(A)
        BY <1>4, <1>7 DEF Tracked
      <3> QED BY <1>1, <3>1, FS_Subset
    <2>2. CASE x = p
      <3>1. B = A \cup {w} /\ w \notin A
        BY <1>w, <1>2, <2>2 DEF p
      <3> HIDE DEF A, B
      <3>2. Cardinality(B) = Cardinality(A) + 1
        BY <2>1, <3>1, FS_AddElement
      <3> QED BY <1>4, <2>1, <2>2, <3>2 DEF B
    <2>3. CASE x # p
      <3>1. B = A
        BY <1>w, <2>3 DEF p
      <3> QED BY <1>4, <2>1, <2>3, <3>1
    <2> QED BY <2>2, <2>3
  <1> QED BY <1>3, <1>4, <1>5, <1>6, <1>7 DEF Tracked

\* What was sent to a disk, or answered by it, has a number already used.
LEMMA NumbersUsed ==
    ASSUME NEW D, DisksSound(D), NEW q, AnswersSound(q, D), NEW d \in Disk
    PROVE  /\ D[d].nextId \in Nat /\ D[d].nextId \notin FlightOf(D, q, d)
           /\ \A o \in DiskOps(D[d]) : o.id # D[d].nextId
           /\ \A g \in ToSet(q) : g.disk # d \/ g.id # D[d].nextId
  <1>1. D[d] \in DiskState /\ DiskSound(d, D[d])
    BY DEF DisksSound, DiskInv
  <1>2. D[d].nextId \in Nat
    BY <1>1 DEF DiskState
  <1>3. \A o \in DiskOps(D[d]) : o.id < D[d].nextId /\ o.id \in Nat
    BY <1>1, DiskOpsTyped DEF DiskSound, Op
  <1>4. \A g \in ToSet(q) : g.id \in Nat
    BY AnswersTyped DEF DiskAnswer
  <1>s. \A g \in ToSet(q) : g.id < D[g.disk].nextId
    BY DEF AnswersSound
  <1>5. \A g \in ToSet(q) : g.disk # d \/ g.id # D[d].nextId
    BY <1>2, <1>4, <1>s
  <1>6. \A o \in DiskOps(D[d]) : o.id # D[d].nextId
    BY <1>2, <1>3
  <1> QED BY <1>2, <1>5, <1>6 DEF FlightOf

\* A disk accepts an operation, and has another state, or refuses it.
AcceptedBy(x, op, r) ==
    /\ op \in Op /\ op.id = x.nextId
    /\ DiskOps(r) = DiskOps(x) \cup {op}
    /\ r.nextId = op.id + 1
    /\ r.used = x.used + (IF op.type = "Write" THEN op.size ELSE 0)

LEMMA AcceptedBooks ==
    ASSUME NEW D, DisksSound(D), NEW d, NEW r, NEW E, Swapped(D, d, r, E),
           NEW op, AcceptedBy(D[d], op, r), \A o \in DiskOps(D[d]) : o.id # op.id
    PROVE  UsedOf(E) + ReservedOf(D) = UsedOf(D) + ReservedOf(E)
  <1> DEFINE n == IF op.type = "Write" THEN op.size ELSE 0
             x == D[d]
  <1>1. /\ x \in DiskState /\ r \in DiskState
        /\ IsFiniteSet(DiskOps(x)) /\ IsFiniteSet(DiskOps(r))
        /\ UsedOf(D) \in Nat /\ UsedOf(E) \in Nat
        /\ ReservedOf(D) \in Nat /\ ReservedOf(E) \in Nat
        /\ Reserved(x) \in Nat /\ Reserved(r) \in Nat
        /\ UsedOf(E) + x.used = UsedOf(D) + r.used
        /\ ReservedOf(E) + Reserved(x) = ReservedOf(D) + Reserved(r)
    BY DiskSwapped
  <1>2. /\ op \notin DiskOps(x) /\ DiskOps(r) = DiskOps(x) \cup {op}
        /\ n \in Nat /\ x.used \in Nat /\ r.used = x.used + n
    BY <1>1 DEF AcceptedBy, Op, DiskState
  <1>3. Reserved(r) = Reserved(x) + n
    <2> HIDE DEF x
    <2> QED BY <1>1, <1>2, ReservedMore
  <1> HIDE DEF n, x
  <1> QED BY <1>1, <1>2, <1>3

LEMMA OperationAccepted ==
    ASSUME NEW D, NEW q, NEW F, NEW R, Orderly(D, q, F, R),
           NEW d, NEW r, NEW E, Swapped(D, d, r, E),
           NEW op, AcceptedBy(D[d], op, r),
           NEW G, NEW S, Requested(F, R, d, op.id, G, S)
    PROVE  Orderly(E, q, G, S)
  <1>1. /\ DisksSound(D) /\ AnswersSound(q, D) /\ FilesTyped(F)
        /\ Tracked(D, q, F, R) /\ Balanced(D, q, F)
        /\ d \in Disk
    BY DEF Orderly, Swapped
  <1>2. /\ DisksSound(E) /\ E[d] = r /\ \A x \in Disk \ {d} : E[x] = D[x]
        /\ UsedOf(D) \in Nat /\ UsedOf(E) \in Nat
        /\ ReservedOf(D) \in Nat /\ ReservedOf(E) \in Nat
    BY <1>1, DiskSwapped
  <1>3. /\ D[d].nextId \in Nat /\ D[d].nextId \notin FlightOf(D, q, d)
        /\ \A o \in DiskOps(D[d]) : o.id # D[d].nextId
    BY <1>1, NumbersUsed
  <1>4. /\ op.id = D[d].nextId /\ DiskOps(r) = DiskOps(D[d]) \cup {op}
        /\ r.nextId = D[d].nextId + 1
    BY DEF AcceptedBy
  <1>5. AnswersSound(q, E)
    <2>1. \A x \in Disk : D[x].nextId \in Nat
      BY <1>1 DEF DisksSound, DiskState
    <2>2. \A x \in Disk : D[x].nextId <= E[x].nextId
      BY <1>2, <1>4, <2>1
    <2>3. \A x \in Disk : \A o \in DiskOps(E[x]) :
            o \in DiskOps(D[x]) \/ o.id >= D[x].nextId
      BY <1>2, <1>4, <2>1
    <2> QED BY <1>1, <1>2, <2>2, <2>3, AnswersStay
  <1>6. Tracked(E, q, G, S) /\ FilesTyped(G) /\ SizeOf(G) = SizeOf(F)
    <2> DEFINE k == op.id
    <2>1. FlightOf(E, q, d) = FlightOf(D, q, d) \cup {k}
      BY <1>2, <1>4 DEF FlightOf
    <2>2. \A x \in Disk \ {d} : FlightOf(E, q, x) = FlightOf(D, q, x)
      BY <1>2 DEF FlightOf
    <2>3. OneMore(D, q, E, q, d, k) /\ Requested(F, R, d, k, G, S)
      BY <1>3, <1>4, <2>1, <2>2 DEF OneMore
    <2> HIDE DEF k
    <2> QED BY <1>1, <2>3, RequestAdded
  <1>7. Balanced(E, q, G)
    <2>1. UsedOf(E) + ReservedOf(D) = UsedOf(D) + ReservedOf(E)
      BY <1>1, <1>3, <1>4, AcceptedBooks
    <2>2. UsedOf(D) = SizeOf(F) + ReservedOf(D) + WrittenBy(ToSet(q))
      BY <1>1 DEF Balanced
    <2>3. SizeOf(F) \in Nat /\ WrittenBy(ToSet(q)) \in Nat
      <3>1. ToSet(q) \in SUBSET DiskAnswer /\ IsFiniteSet(ToSet(q))
        BY <1>1, AnswersTyped DEF AnswersSound
      <3> QED BY <1>1, <3>1, SizesTyped, WrittenTyped
    <2> QED BY <1>2, <1>6, <2>1, <2>2, <2>3 DEF Balanced
  <1> QED BY <1>2, <1>5, <1>6, <1>7 DEF Orderly

\* A disk that has the same operations and the same space in use.
SameBooks(x, r) ==
    /\ DiskOps(r) = DiskOps(x)
    /\ r.used = x.used

LEMMA SameSums ==
    ASSUME NEW D, DisksSound(D), NEW d, NEW r, NEW E, Swapped(D, d, r, E),
           SameBooks(D[d], r)
    PROVE  UsedOf(E) = UsedOf(D) /\ ReservedOf(E) = ReservedOf(D)
  <1> DEFINE x == D[d]
  <1>1. /\ x \in DiskState
        /\ UsedOf(D) \in Nat /\ UsedOf(E) \in Nat
        /\ ReservedOf(D) \in Nat /\ ReservedOf(E) \in Nat
        /\ Reserved(x) \in Nat /\ Reserved(r) \in Nat
        /\ UsedOf(E) + x.used = UsedOf(D) + r.used
        /\ ReservedOf(E) + Reserved(x) = ReservedOf(D) + Reserved(r)
    BY DiskSwapped
  <1>2. x.used \in Nat /\ r.used = x.used /\ Reserved(r) = Reserved(x)
    BY <1>1 DEF SameBooks, Reserved, DiskState
  <1> HIDE DEF x
  <1> QED BY <1>1, <1>2

LEMMA BooksTyped ==
    ASSUME NEW D, NEW q, NEW F, NEW R, Orderly(D, q, F, R)
    PROVE  /\ SizeOf(F) \in Nat /\ WrittenBy(ToSet(q)) \in Nat
           /\ ToSet(q) \in SUBSET DiskAnswer /\ IsFiniteSet(ToSet(q))
           /\ UsedOf(D) = SizeOf(F) + ReservedOf(D) + WrittenBy(ToSet(q))
  <1>1. ToSet(q) \in SUBSET DiskAnswer /\ IsFiniteSet(ToSet(q))
    BY AnswersTyped DEF Orderly, AnswersSound
  <1>2. SizeOf(F) \in Nat /\ WrittenBy(ToSet(q)) \in Nat
    BY <1>1, SizesTyped, WrittenTyped DEF Orderly
  <1> QED BY <1>1, <1>2 DEF Orderly, Balanced

\* A disk refuses an operation: its answer is on its way at once.
LEMMA OperationRefused ==
    ASSUME NEW D, NEW q, NEW F, NEW R, Orderly(D, q, F, R),
           NEW d, NEW r, NEW E, Swapped(D, d, r, E), SameBooks(D[d], r),
           r.nextId = D[d].nextId + 1,
           NEW e \in DiskAnswer, e.type # "DataWriteCompleted",
           e.disk = d, e.id = D[d].nextId,
           NEW G, NEW S, Requested(F, R, d, e.id, G, S)
    PROVE  Orderly(E, Append(q, e), G, S)
  <1> DEFINE w == Append(q, e)
             A == ToSet(q)
  <1>1. /\ DisksSound(D) /\ AnswersSound(q, D) /\ FilesTyped(F)
        /\ Tracked(D, q, F, R) /\ Balanced(D, q, F)
        /\ d \in Disk
    BY DEF Orderly, Swapped
  <1>2. /\ DisksSound(E) /\ E[d] = r /\ \A x \in Disk \ {d} : E[x] = D[x]
    BY <1>1, DiskSwapped
  <1>3. /\ D[d].nextId \in Nat /\ D[d].nextId \notin FlightOf(D, q, d)
        /\ \A o \in DiskOps(D[d]) : o.id # D[d].nextId
        /\ \A g \in ToSet(q) : g.disk # d \/ g.id # D[d].nextId
    BY <1>1, NumbersUsed
  <1>4. DiskOps(r) = DiskOps(D[d])
    BY DEF SameBooks
  <1>5. AnswersSound(q, E)
    <2>1. \A x \in Disk : D[x].nextId \in Nat
      BY <1>1 DEF DisksSound, DiskState
    <2>2. \A x \in Disk : D[x].nextId <= E[x].nextId
      BY <1>2, <2>1
    <2>3. \A x \in Disk : \A o \in DiskOps(E[x]) :
            o \in DiskOps(D[x]) \/ o.id >= D[x].nextId
      BY <1>2, <1>4
    <2> QED BY <1>1, <1>2, <2>2, <2>3, AnswersStay
  <1>6. AnswersSound(w, E) /\ ToSet(w) = A \cup {e} /\ e \notin A
    <2>1. /\ e.id < E[e.disk].nextId /\ \A o \in DiskOps(E[e.disk]) : o.id # e.id
          /\ \A g \in ToSet(q) : g.disk # e.disk \/ g.id # e.id
      BY <1>2, <1>3, <1>4
    <2> QED BY <1>5, <2>1, AnswerQueued
  <1> HIDE DEF w, A
  <1>7. Tracked(E, w, G, S) /\ FilesTyped(G) /\ SizeOf(G) = SizeOf(F)
    <2> DEFINE k == e.id
    <2>1. FlightOf(E, w, d) = FlightOf(D, q, d) \cup {k}
      BY <1>2, <1>4, <1>6 DEF FlightOf, A
    <2>2. \A x \in Disk \ {d} : FlightOf(E, w, x) = FlightOf(D, q, x)
      BY <1>2, <1>6 DEF FlightOf, A
    <2>3. OneMore(D, q, E, w, d, k) /\ Requested(F, R, d, k, G, S)
      BY <1>3, <2>1, <2>2 DEF OneMore
    <2> HIDE DEF k
    <2> QED BY <1>1, <2>3, RequestAdded
  <1>8. Balanced(E, w, G)
    <2>1. UsedOf(E) = UsedOf(D) /\ ReservedOf(E) = ReservedOf(D)
      BY <1>1, SameSums
    <2>2. WrittenBy(ToSet(w)) = WrittenBy(A)
      <3>1. WrittenBy(A \cup {e}) = WrittenBy(A) + 0
        BY <1>6, BooksTyped, AnswerAdded DEF A
      <3>2. WrittenBy(A) \in Nat
        BY BooksTyped DEF A
      <3> QED BY <1>6, <3>1, <3>2
    <2> QED BY <1>1, <1>7, <2>1, <2>2 DEF Balanced, A
  <1> QED BY <1>2, <1>6, <1>7, <1>8 DEF Orderly, w

\* A disk ends an operation: its answer is on its way.
EndedBy(x, o, r, e) ==
    /\ o \in DiskOps(x) /\ DiskOps(r) = DiskOps(x) \ {o}
    /\ r.used = x.used /\ r.nextId = x.nextId
    /\ e.id = o.id /\ e.size = o.size
    /\ e.type = "DataWriteCompleted" <=> o.type = "Write"

LEMMA EndedBooks ==
    ASSUME NEW D, NEW q, NEW F, NEW R, Orderly(D, q, F, R),
           NEW d, NEW r, NEW E, Swapped(D, d, r, E),
           NEW o, NEW e \in DiskAnswer, EndedBy(D[d], o, r, e), e \notin ToSet(q)
    PROVE  UsedOf(E) = SizeOf(F) + ReservedOf(E) + WrittenBy(ToSet(q) \cup {e})
  <1> DEFINE n == IF o.type = "Write" THEN o.size ELSE 0
             x == D[d]
             A == ToSet(q)
  <1>d. DisksSound(D)
    BY DEF Orderly
  <1>1. /\ x \in DiskState /\ r \in DiskState
        /\ IsFiniteSet(DiskOps(x)) /\ IsFiniteSet(DiskOps(r))
        /\ UsedOf(D) \in Nat /\ UsedOf(E) \in Nat
        /\ ReservedOf(D) \in Nat /\ ReservedOf(E) \in Nat
        /\ Reserved(x) \in Nat /\ Reserved(r) \in Nat
        /\ UsedOf(E) + x.used = UsedOf(D) + r.used
        /\ ReservedOf(E) + Reserved(x) = ReservedOf(D) + Reserved(r)
    BY <1>d, DiskSwapped
  <1>2. /\ o \in Op /\ o \notin DiskOps(r) /\ DiskOps(x) = DiskOps(r) \cup {o}
        /\ x.used \in Nat /\ r.used = x.used
    BY <1>1, DiskOpsTyped DEF EndedBy, DiskState
  <1>3. Reserved(x) = Reserved(r) + n
    <2> HIDE DEF x
    <2> QED BY <1>1, <1>2, ReservedMore
  <1>4. /\ SizeOf(F) \in Nat /\ WrittenBy(A) \in Nat
        /\ UsedOf(D) = SizeOf(F) + ReservedOf(D) + WrittenBy(A)
    BY BooksTyped
  <1>5. WrittenBy(A \cup {e}) = WrittenBy(A) + n
    <2>1. WrittenBy(A \cup {e})
            = WrittenBy(A) + (IF e.type = "DataWriteCompleted" THEN e.size ELSE 0)
      BY BooksTyped, AnswerAdded
    <2>2. n = IF e.type = "DataWriteCompleted" THEN e.size ELSE 0
      BY DEF EndedBy
    <2> QED BY <2>1, <2>2
  <1>6. n \in Nat
    BY <1>2 DEF Op
  <1> HIDE DEF n, x, A
  <1>7. UsedOf(E) = SizeOf(F) + ReservedOf(E) + WrittenBy(A \cup {e})
    BY <1>1, <1>2, <1>3, <1>4, <1>5, <1>6
  <1> QED BY <1>7 DEF A

LEMMA OperationEnded ==
    ASSUME NEW D, NEW q, NEW F, NEW R, Orderly(D, q, F, R),
           NEW d, NEW r, NEW E, Swapped(D, d, r, E),
           NEW o, NEW e \in DiskAnswer, EndedBy(D[d], o, r, e), e.disk = d
    PROVE  Orderly(E, Append(q, e), F, R)
  <1> DEFINE w == Append(q, e)
             A == ToSet(q)
  <1>1. /\ DisksSound(D) /\ AnswersSound(q, D) /\ FilesTyped(F)
        /\ Tracked(D, q, F, R)
        /\ d \in Disk
    BY DEF Orderly, Swapped
  <1>2. /\ DisksSound(E) /\ E[d] = r /\ \A x \in Disk \ {d} : E[x] = D[x]
    BY <1>1, DiskSwapped
  <1>3. /\ o \in DiskOps(D[d]) /\ DiskOps(r) = DiskOps(D[d]) \ {o}
        /\ r.nextId = D[d].nextId /\ e.id = o.id
    BY DEF EndedBy
  <1>4. AnswersSound(q, E)
    <2>1. \A x \in Disk : D[x].nextId \in Nat
      BY <1>1 DEF DisksSound, DiskState
    <2>2. \A x \in Disk : D[x].nextId <= E[x].nextId
      BY <1>2, <1>3, <2>1
    <2>3. \A x \in Disk : \A y \in DiskOps(E[x]) :
            y \in DiskOps(D[x]) \/ y.id >= D[x].nextId
      BY <1>2, <1>3
    <2> QED BY <1>1, <1>2, <2>2, <2>3, AnswersStay
  <1>5. AnswersSound(w, E) /\ ToSet(w) = A \cup {e} /\ e \notin A
    <2>1. \A y, z \in DiskOps(D[d]) : y.id = z.id => y = z
      BY <1>1 DEF DisksSound, DiskInv, DiskSound
    <2>2. o.id < D[d].nextId
      BY <1>1, <1>3 DEF DisksSound, DiskInv, DiskSound
    <2>3. \A g \in ToSet(q) : g.disk = d => g.id # o.id
      BY <1>1, <1>3 DEF AnswersSound
    <2>4. /\ e.id < E[e.disk].nextId /\ \A y \in DiskOps(E[e.disk]) : y.id # e.id
          /\ \A g \in ToSet(q) : g.disk # e.disk \/ g.id # e.id
      BY <1>2, <1>3, <2>1, <2>2, <2>3
    <2> QED BY <1>4, <2>4, AnswerQueued
  <1> HIDE DEF w, A
  <1>6. Tracked(E, w, F, R)
    <2>1. FlightOf(E, w, d) = FlightOf(D, q, d)
      BY <1>2, <1>3, <1>5 DEF FlightOf, A
    <2>2. \A x \in Disk \ {d} : FlightOf(E, w, x) = FlightOf(D, q, x)
      BY <1>2, <1>5 DEF FlightOf, A
    <2>3. \A x \in Disk : FlightOf(E, w, x) = FlightOf(D, q, x)
      BY <2>1, <2>2
    <2> QED BY <1>1, <2>3 DEF Tracked
  <1>7. Balanced(E, w, F)
    BY <1>5, EndedBooks DEF Balanced, A
  <1> QED BY <1>1, <1>2, <1>5, <1>6, <1>7 DEF Orderly, w

\* Time passes for a disk.
LEMMA TimePassed ==
    ASSUME NEW D, NEW q, NEW F, NEW R, Orderly(D, q, F, R),
           NEW d, NEW r, NEW E, Swapped(D, d, r, E), SameBooks(D[d], r),
           r.nextId = D[d].nextId
    PROVE  Orderly(E, q, F, R)
  <1>1. /\ DisksSound(D) /\ AnswersSound(q, D) /\ FilesTyped(F)
        /\ Tracked(D, q, F, R) /\ Balanced(D, q, F)
        /\ d \in Disk
    BY DEF Orderly, Swapped
  <1>2. /\ DisksSound(E) /\ E[d] = r /\ \A x \in Disk \ {d} : E[x] = D[x]
    BY <1>1, DiskSwapped
  <1>3. \A x \in Disk : DiskOps(E[x]) = DiskOps(D[x]) /\ E[x].nextId = D[x].nextId
    BY <1>2 DEF SameBooks
  <1>4. AnswersSound(q, E)
    <2>1. \A x \in Disk : D[x].nextId \in Nat
      BY <1>1 DEF DisksSound, DiskState
    <2>2. \A x \in Disk : D[x].nextId <= E[x].nextId
      BY <1>3, <2>1
    <2> QED BY <1>1, <1>2, <1>3, <2>2, AnswersStay
  <1>5. Tracked(E, q, F, R)
    <2>1. \A x \in Disk : FlightOf(E, q, x) = FlightOf(D, q, x)
      BY <1>3 DEF FlightOf
    <2> QED BY <1>1, <2>1 DEF Tracked
  <1>6. Balanced(E, q, F)
    BY <1>1, SameSums DEF Balanced
  <1> QED BY <1>1, <1>2, <1>4, <1>5, <1>6 DEF Orderly

\* A file is created: no request is for it.
LEMMA FileCreated ==
    ASSUME NEW D, NEW q, NEW F, NEW R, Orderly(D, q, F, R), NEW p, p \notin DOMAIN F,
           NEW G, G = [x \in DOMAIN F \cup {p} |->
                         IF x = p THEN [size |-> 0, actions |-> 0] ELSE F[x]]
    PROVE  Orderly(D, q, G, R)
  <1>1. /\ DisksSound(D) /\ AnswersSound(q, D) /\ FilesTyped(F)
        /\ Tracked(D, q, F, R) /\ Balanced(D, q, F)
    BY DEF Orderly
  <1>2. /\ DOMAIN G = DOMAIN F \cup {p} /\ \A x \in DOMAIN F : G[x] = F[x]
        /\ G[p] = [size |-> 0, actions |-> 0]
    OBVIOUS
  <1>3. FilesTyped(G)
    <2>1. F \in [DOMAIN F -> File] /\ IsFiniteSet(DOMAIN F)
      BY <1>1 DEF FilesTyped
    <2>2. IsFiniteSet(DOMAIN G)
      BY <1>2, <2>1, FS_AddElement
    <2>3. G \in [DOMAIN G -> File]
      BY <2>1 DEF File
    <2> QED BY <2>2, <2>3 DEF FilesTyped
  <1>4. SizeOf(G) = SizeOf(F)
    <2>1. SizeOf(G) = SizeOf(F) + SizeIn(G, p)
      BY <1>1, <1>2, <1>3, FileAdded
    <2>2. SizeIn(G, p) = 0 /\ SizeOf(F) \in Nat
      BY <1>1, <1>2, SizesTyped DEF SizeIn
    <2> QED BY <2>1, <2>2
  <1>5. Tracked(D, q, G, R)
    <2>1. /\ \A w \in R : w.path \in DOMAIN F
          /\ \A x \in DOMAIN F : F[x].actions = Cardinality({w \in R : w.path = x})
      BY <1>1 DEF Tracked
    <2>2. {w \in R : w.path = p} = {}
      BY <2>1
    <2>3. G[p].actions = Cardinality({w \in R : w.path = p})
      BY <1>2, <2>2, FS_EmptySet
    <2>4. \A x \in DOMAIN G : G[x].actions = Cardinality({w \in R : w.path = x})
      BY <1>2, <2>1, <2>3
    <2> QED BY <1>1, <1>2, <2>1, <2>4 DEF Tracked
  <1> QED BY <1>1, <1>3, <1>4, <1>5 DEF Orderly, Balanced

\* A file with no request is deleted: a disk frees its space.
LEMMA FileDeleted ==
    ASSUME NEW D, NEW q, NEW F, NEW R, Orderly(D, q, F, R), NEW p \in DOMAIN F,
           F[p].actions = 0, NEW d \in Disk, F[p].size <= D[d].used,
           NEW E, E = [D EXCEPT ![d].used = @ - F[p].size],
           NEW G, G = Without(F, p)
    PROVE  Orderly(E, q, G, R)
  <1> DEFINE x == D[d]
             n == F[p].size
             r == [x EXCEPT !.used = @ - n]
  <1>1. /\ DisksSound(D) /\ AnswersSound(q, D) /\ FilesTyped(F)
        /\ Tracked(D, q, F, R)
        /\ D \in [Disk -> DiskState] /\ F \in [DOMAIN F -> File]
    BY DEF Orderly, DisksSound, FilesTyped
  <1>2. /\ x \in DiskState /\ n \in Nat /\ x.used \in Nat /\ n <= x.used
        /\ x.used <= DiskCapacity[d] /\ DiskInv(d, x) /\ DiskCapacity[d] \in Nat
    BY <1>1, DiskAssumption DEF DisksSound, DiskState, File
  <1>3. E = [D EXCEPT ![d] = r]
    BY <1>1 DEF DiskState
  <1> HIDE DEF n, x
  <1>4. /\ r \in DiskState /\ r.used = x.used - n
        /\ r.nextId = x.nextId /\ r.total = x.total /\ r.pending = x.pending
        /\ r.types = x.types /\ r.model = x.model
    <2>1. x.used - n \in Nat
      BY <1>2
    <2> DEFINE k == x.used - n
    <2>2. r = [x EXCEPT !.used = k]
      OBVIOUS
    <2> HIDE DEF k
    <2>3. k \in Nat
      BY <2>1 DEF k
    <2>4. /\ r \in DiskState /\ r.used = k
          /\ r.nextId = x.nextId /\ r.total = x.total /\ r.pending = x.pending
          /\ r.types = x.types /\ r.model = x.model
      BY <1>2, <2>2, <2>3 DEF DiskState
    <2> QED BY <2>4 DEF k
  <1> HIDE DEF r
  <1>5. DiskInv(d, r) /\ DiskOps(r) = DiskOps(x)
    <2>1. x.nextId <= r.nextId
      BY <1>2, <1>4 DEF DiskState
    <2> QED BY <1>2, <1>4, <2>1, OtherFields
  <1>6. Swapped(D, d, r, E)
    <2>1. r.used <= DiskCapacity[d]
      BY <1>2, <1>4
    <2> QED BY <1>3, <1>5, <2>1 DEF Swapped
  <1>7. /\ DisksSound(E) /\ E[d] = r /\ \A y \in Disk \ {d} : E[y] = D[y]
        /\ UsedOf(D) \in Nat /\ UsedOf(E) \in Nat
        /\ ReservedOf(D) \in Nat /\ ReservedOf(E) \in Nat
        /\ Reserved(r) \in Nat /\ Reserved(x) \in Nat
        /\ UsedOf(E) + x.used = UsedOf(D) + r.used
        /\ ReservedOf(E) + Reserved(x) = ReservedOf(D) + Reserved(r)
    <2>1. E[d] = r /\ \A y \in Disk \ {d} : E[y] = D[y]
      BY <1>1, <1>3
    <2>5. DisksSound(E)
      BY <1>1, <1>6, DiskSwapped
    <2>2. /\ UsedOf(D) \in Nat /\ UsedOf(E) \in Nat
          /\ ReservedOf(D) \in Nat /\ ReservedOf(E) \in Nat
      BY <1>1, <1>6, DiskSwapped
    <2>3. /\ Reserved(r) \in Nat /\ Reserved(D[d]) \in Nat
          /\ ReservedOf(E) + Reserved(D[d]) = ReservedOf(D) + Reserved(r)
      BY <1>1, <1>6, DiskSwapped
    <2>4. UsedOf(E) + D[d].used = UsedOf(D) + r.used
      BY <1>1, <1>6, DiskSwapped
    <2> QED BY <2>1, <2>2, <2>3, <2>4, <2>5 DEF x
  <1>8. \A y \in Disk : DiskOps(E[y]) = DiskOps(D[y]) /\ E[y].nextId = D[y].nextId
    BY <1>4, <1>5, <1>7 DEF x
  <1>9. AnswersSound(q, E)
    <2>1. \A y \in Disk : D[y].nextId \in Nat
      BY <1>1 DEF DiskState
    <2>2. \A y \in Disk : D[y].nextId <= E[y].nextId
      BY <1>8, <2>1
    <2> QED BY <1>1, <1>7, <1>8, <2>2, AnswersStay
  <1>10. DOMAIN G = DOMAIN F \ {p} /\ \A y \in DOMAIN G : G[y] = F[y]
    BY DEF Without
  <1>11. FilesTyped(G)
    <2>1. IsFiniteSet(DOMAIN G)
      BY <1>1, <1>10, FS_RemoveElement DEF FilesTyped
    <2>2. G \in [DOMAIN G -> File]
      BY <1>1 DEF Without
    <2> QED BY <2>1, <2>2 DEF FilesTyped
  <1>12. SizeOf(F) = SizeOf(G) + n /\ SizeOf(G) \in Nat /\ SizeOf(F) \in Nat
    <2>1. p \notin DOMAIN G /\ DOMAIN F = DOMAIN G \cup {p}
      BY <1>10
    <2>2. \A y \in DOMAIN G : F[y] = G[y]
      BY <1>10
    <2>3. SizeOf(F) = SizeOf(G) + SizeIn(F, p)
      BY <1>1, <1>11, <2>1, <2>2, FileAdded
    <2> QED BY <1>1, <1>11, <2>3, SizesTyped DEF SizeIn, n
  <1>13. Tracked(E, q, G, R)
    <2>1. /\ R \in SUBSET Request /\ IsFiniteSet(R)
          /\ \A w \in R : w.path \in DOMAIN F
          /\ \A y \in DOMAIN F : F[y].actions = Cardinality({w \in R : w.path = y})
      BY <1>1 DEF Tracked
    <2>2. {w \in R : w.path = p} = {}
      <3> DEFINE A == {w \in R : w.path = p}
      <3>1. IsFiniteSet(A) /\ Cardinality(A) = 0
        BY <2>1, FS_Subset
      <3> HIDE DEF A
      <3>2. A = {}
        BY <3>1, FS_EmptySet
      <3> QED BY <3>2 DEF A
    <2>3. \A w \in R : w.path \in DOMAIN G
      BY <1>10, <2>1, <2>2
    <2>4. \A y \in Disk : FlightOf(E, q, y) = FlightOf(D, q, y)
      BY <1>8 DEF FlightOf
    <2>5. \A y \in DOMAIN G : G[y].actions = Cardinality({w \in R : w.path = y})
      BY <1>10, <2>1
    <2> QED BY <1>1, <2>3, <2>4, <2>5 DEF Tracked
  <1>14. Balanced(E, q, G)
    <2>1. /\ WrittenBy(ToSet(q)) \in Nat
          /\ UsedOf(D) = SizeOf(F) + ReservedOf(D) + WrittenBy(ToSet(q))
      BY BooksTyped
    <2>2. Reserved(r) = Reserved(x)
      BY <1>5 DEF Reserved
    <2>3. ReservedOf(E) = ReservedOf(D)
      BY <1>7, <2>2
    <2>4. UsedOf(E) = UsedOf(D) - n
      BY <1>2, <1>4, <1>7
    <2> QED BY <1>2, <1>7, <1>12, <2>1, <2>3, <2>4 DEF Balanced
  <1> QED BY <1>7, <1>9, <1>11, <1>13, <1>14 DEF Orderly

\* The file system takes an answer: its request and its operation are over.
Ended(F, R, e, G, S) ==
    \E w \in R :
      /\ Matches(w, e)
      /\ G = [F EXCEPT ![w.path] = AfterOperation(@, e)]
      /\ S = R \ {w}

LEMMA AnswerServed ==
    ASSUME NEW q, NEW D, AnswersSound(q, D), q # <<>>,
           NEW e, e = Head(q), NEW u, u = Tail(q)
    PROVE  /\ AnswersSound(u, D) /\ e \in ToSet(q) /\ e \in DiskAnswer
           /\ ToSet(u) = ToSet(q) \ {e} /\ IsFiniteSet(ToSet(u))
  <1>1. q \in Seq(DiskAnswer) /\ IsInjective(q) /\ IsFiniteSet(ToSet(q))
    BY DEF AnswersSound
  <1>2. /\ e \in DiskAnswer /\ e \in ToSet(q)
        /\ u \in Seq(DiskAnswer) /\ ToSet(u) = ToSet(q) \ {e} /\ IsInjective(u)
    BY <1>1, QueueServed
  <1>3. IsFiniteSet(ToSet(u))
    BY <1>1, <1>2, FS_RemoveElement
  <1>4. AnswersSound(u, D)
    BY <1>2, <1>3 DEF AnswersSound
  <1> QED BY <1>2, <1>3, <1>4

\* The file of the request, which has counted it.
LEMMA FileOfRequest ==
    ASSUME NEW D, NEW q, NEW F, NEW R, Tracked(D, q, F, R), FilesTyped(F), NEW w \in R
    PROVE  /\ w.path \in DOMAIN F /\ F[w.path] \in File /\ F[w.path].actions > 0
           /\ F[w.path].actions = Cardinality({v \in R : v.path = w.path})
  <1> DEFINE p == w.path
             A == {v \in R : v.path = p}
  <1>1. /\ R \in SUBSET Request /\ IsFiniteSet(R) /\ F \in [DOMAIN F -> File]
        /\ p \in DOMAIN F /\ F[p].actions = Cardinality(A)
    BY DEF Tracked, FilesTyped
  <1>2. IsFiniteSet(A) /\ A # {}
    BY <1>1, FS_Subset
  <1>3. F[p] \in File /\ F[p].actions \in Nat
    BY <1>1 DEF File
  <1> HIDE DEF A, p
  <1>4. Cardinality(A) # 0
    BY <1>2, FS_EmptySet
  <1>5. F[p].actions > 0
    BY <1>1, <1>3, <1>4
  <1> QED BY <1>1, <1>3, <1>5 DEF A, p

LEMMA AnswerTaken ==
    ASSUME NEW D, NEW q, NEW F, NEW R, Orderly(D, q, F, R), q # <<>>,
           NEW e, e = Head(q), NEW u, u = Tail(q),
           NEW G, NEW S, Ended(F, R, e, G, S)
    PROVE  Orderly(D, u, G, S)
  <1>1. /\ DisksSound(D) /\ AnswersSound(q, D) /\ FilesTyped(F)
        /\ Tracked(D, q, F, R) /\ Balanced(D, q, F)
        /\ R \in SUBSET Request /\ IsFiniteSet(R)
    BY DEF Orderly, Tracked
  <1>2. /\ AnswersSound(u, D) /\ e \in ToSet(q) /\ e \in DiskAnswer
        /\ ToSet(u) = ToSet(q) \ {e} /\ IsFiniteSet(ToSet(u))
    BY <1>1, AnswerServed
  <1>3. PICK w \in R : /\ w.disk = e.disk /\ w.id = e.id
                       /\ G = [F EXCEPT ![w.path] = AfterOperation(@, e)]
                       /\ S = R \ {w}
    BY DEF Ended, Matches
  <1> DEFINE p == w.path
             f == AfterOperation(F[p], e)
             n == IF e.type = "DataWriteCompleted" THEN e.size ELSE 0
  <1>4. /\ p \in DOMAIN F /\ F[p] \in File /\ F[p].actions > 0
        /\ F[p].actions = Cardinality({v \in R : v.path = p})
    BY <1>1, FileOfRequest
  <1>5. /\ G = [F EXCEPT ![p] = f] /\ n \in Nat
        /\ f \in File /\ f.actions = F[p].actions - 1 /\ f.size = F[p].size + n
    <2>1. G = [F EXCEPT ![p] = f]
      BY <1>3
    <2>2. F[p].actions \in Nat /\ F[p].size \in Nat /\ e.size \in Nat
      BY <1>2, <1>4 DEF File, DiskAnswer
    <2>3. F[p].actions - 1 \in Nat
      BY <1>4, <2>2
    <2> DEFINE x == F[p]
    <2>4. f = [size |-> x.size + n, actions |-> x.actions - 1]
      <3> HIDE DEF x
      <3>1. x \in [size : Nat, actions : Nat]
        BY <1>4 DEF x, File
      <3>2. f = [x EXCEPT !.size = IF e.type = "DataWriteCompleted"
                                   THEN x.size + e.size ELSE x.size,
                          !.actions = x.actions - 1]
        BY DEF AfterOperation, x
      <3>3. (IF e.type = "DataWriteCompleted" THEN x.size + e.size ELSE x.size) = x.size + n
        BY <2>2 DEF x
      <3> HIDE DEF f, n
      <3>4. f = [x EXCEPT !.size = x.size + n, !.actions = x.actions - 1]
        BY <3>2, <3>3
      <3> QED BY <3>1, <3>4
    <2>5. n \in Nat /\ x.size + n \in Nat
      BY <2>2
    <2> HIDE DEF f, n, p
    <2>6. f \in File /\ f.actions = x.actions - 1 /\ f.size = x.size + n
      BY <2>3, <2>4, <2>5 DEF File
    <2> QED BY <2>1, <2>5, <2>6
  <1> HIDE DEF p, f, n
  <1>6. /\ FilesTyped(G) /\ DOMAIN G = DOMAIN F /\ G[p] = f
        /\ \A x \in DOMAIN F \ {p} : G[x] = F[x]
        /\ SizeOf(G) \in Nat /\ SizeOf(F) \in Nat
        /\ SizeOf(G) + SizeIn(F, p) = SizeOf(F) + SizeIn(G, p)
    <2>1. p \in DOMAIN F /\ f \in File /\ FilesTyped(F) /\ G = [F EXCEPT ![p] = f]
      BY <1>1, <1>4, <1>5
    <2>2. FileReplaced(F, p, f, G)
      BY <2>1 DEF FileReplaced
    <2> QED BY ONLY <2>2, FileChanged
  <1>7. SizeOf(G) = SizeOf(F) + n
    <2>1. SizeIn(G, p) = SizeIn(F, p) + n /\ SizeIn(F, p) \in Nat
      BY <1>4, <1>5, <1>6 DEF SizeIn, File
    <2> QED BY <1>5, <1>6, <2>1
  <1>8. Tracked(D, u, G, S)
    <2>1. S \in SUBSET Request /\ IsFiniteSet(S)
      BY <1>1, <1>3, FS_RemoveElement
    <2>2. \A x \in Disk : FlightOf(D, q, x) = {v.id : v \in {z \in R : z.disk = x}}
      BY <1>1 DEF Tracked
    <2>3. /\ \A v, z \in R : v.disk = z.disk /\ v.id = z.id => v = z
          /\ \A v \in R : v.path \in DOMAIN F
          /\ \A x \in DOMAIN F : F[x].actions = Cardinality({v \in R : v.path = x})
      BY <1>1 DEF Tracked
    <2>4. /\ \A g \in ToSet(q) : g.disk = e.disk /\ g.id = e.id => g = e
          /\ \A o \in DiskOps(D[e.disk]) : o.id # e.id
      BY <1>1, <1>2 DEF AnswersSound
    <2>5. ASSUME NEW x \in Disk
          PROVE  FlightOf(D, u, x) = {v.id : v \in {z \in S : z.disk = x}}
      <3>1. CASE x = e.disk
        <4>1. FlightOf(D, u, x) = FlightOf(D, q, x) \ {e.id}
          BY <1>2, <2>4, <3>1 DEF FlightOf
        <4>2. {v.id : v \in {z \in S : z.disk = x}}
                = {v.id : v \in {z \in R : z.disk = x}} \ {e.id}
          BY <1>3, <2>3, <3>1
        <4> QED BY <2>2, <4>1, <4>2
      <3>2. CASE x # e.disk
        <4>1. FlightOf(D, u, x) = FlightOf(D, q, x)
          BY <1>2, <3>2 DEF FlightOf
        <4>2. {z \in S : z.disk = x} = {z \in R : z.disk = x}
          BY <1>3, <3>2
        <4> QED BY <2>2, <4>1, <4>2
      <3> QED BY <3>1, <3>2
    <2>6. ASSUME NEW x \in DOMAIN G
          PROVE  G[x].actions = Cardinality({v \in S : v.path = x})
      <3> DEFINE A == {v \in R : v.path = x}
                 B == {v \in S : v.path = x}
      <3>1. IsFiniteSet(A) /\ F[x].actions = Cardinality(A)
        BY <1>1, <1>6, <2>3, <2>6, FS_Subset
      <3>2. CASE x = p
        <4>1. B = A \ {w} /\ w \in A
          BY <1>3, <3>2 DEF p
        <4> HIDE DEF A, B
        <4>2. Cardinality(B) = Cardinality(A) - 1
          BY <3>1, <4>1, FS_RemoveElement
        <4> QED BY <1>5, <1>6, <3>1, <3>2, <4>2 DEF B
      <3>3. CASE x # p
        <4>1. B = A
          BY <1>3, <3>3 DEF p
        <4> QED BY <1>6, <3>1, <3>3, <4>1
      <3> QED BY <3>2, <3>3
    <2>7. /\ \A v, z \in S : v.disk = z.disk /\ v.id = z.id => v = z
          /\ \A v \in S : v.path \in DOMAIN G
      BY <1>3, <1>6, <2>3
    <2> QED BY <2>1, <2>5, <2>6, <2>7 DEF Tracked
  <1>9. Balanced(D, u, G)
    <2> DEFINE A == ToSet(q)
               B == ToSet(u)
    <2>1. /\ B \in SUBSET DiskAnswer /\ IsFiniteSet(B) /\ e \notin B /\ A = B \cup {e}
      BY <1>2, AnswersTyped
    <2>2. /\ UsedOf(D) = SizeOf(F) + ReservedOf(D) + WrittenBy(A)
          /\ WrittenBy(A) \in Nat
      BY BooksTyped
    <2> HIDE DEF A, B
    <2>3. WrittenBy(A) = WrittenBy(B) + n
      BY <1>2, <2>1, AnswerAdded DEF n
    <2>4. WrittenBy(B) \in Nat
      BY <2>1, WrittenTyped
    <2>5. UsedOf(D) \in Nat /\ ReservedOf(D) \in Nat
      <3>1. /\ D \in [Disk -> DiskState]
            /\ \A x \in Disk : IsFiniteSet(DiskOps(D[x]))
        BY <1>1 DEF DisksSound, DiskInv, DiskSound
      <3>2. e.disk \in Disk
        BY <1>2 DEF DiskAnswer
      <3> QED BY <3>1, <3>2, DiskReplaced
    <2> QED BY <1>5, <1>6, <1>7, <2>2, <2>3, <2>4, <2>5 DEF Balanced, B
  <1> QED BY <1>1, <1>2, <1>6, <1>8, <1>9 DEF Orderly

-----------------------------------------------------------------------------
(* What the calls of a disk do to it.                                      *)

\* The disk has numbered an operation.
Numbered(x) == [x EXCEPT !.nextId = @ + 1]

LEMMA DiskNumbered ==
    ASSUME NEW d \in Disk, NEW x, DiskInv(d, x), x.used <= DiskCapacity[d],
           NEW y, y = Numbered(x), NEW E, NEW D \in [Disk -> DiskState], D[d] = x,
           E = [D EXCEPT ![d] = y]
    PROVE  /\ y.nextId = x.nextId + 1 /\ SameBooks(x, y) /\ Swapped(D, d, y, E)
  <1>1. x \in DiskState /\ x.nextId \in Nat
    BY DEF DiskInv, DiskSound, DiskState
  <1>2. /\ y \in DiskState /\ y.nextId = x.nextId + 1 /\ y.used = x.used
        /\ y.total = x.total /\ y.pending = x.pending
        /\ y.types = x.types /\ y.model = x.model
    <2> DEFINE n == x.nextId + 1
    <2>1. y = [x EXCEPT !.nextId = n]
      BY DEF Numbered
    <2>2. n \in Nat
      BY <1>1
    <2> HIDE DEF n
    <2>3. /\ y \in DiskState /\ y.nextId = n /\ y.used = x.used
          /\ y.total = x.total /\ y.pending = x.pending
          /\ y.types = x.types /\ y.model = x.model
      BY <1>1, <2>1, <2>2 DEF DiskState
    <2> QED BY <2>3 DEF n
  <1>3. DiskInv(d, y) /\ DiskOps(y) = DiskOps(x)
    <2>1. x.nextId <= y.nextId
      BY <1>1, <1>2
    <2> QED BY <1>2, <2>1, OtherFields
  <1> QED BY <1>2, <1>3 DEF SameBooks, Swapped

\* An operation is submitted to the scheduler; y has numbered it, and has
\* reserved its space if it is a write.
LEMMA OperationTaken ==
    ASSUME NEW d \in Disk, NEW x, DiskInv(d, x),
           NEW type \in OpType, NEW size \in Nat,
           NEW y \in DiskState, y.nextId = x.nextId + 1, y.used <= DiskCapacity[d],
           y.used = x.used + (IF type = "Write" THEN size ELSE 0),
           y.total = x.total, y.pending = x.pending, y.types = x.types, y.model = x.model,
           NEW op, op = Operation(x, type, size),
           NEW r, r = SchedulerSubmit(d, y, op)
    PROVE  DiskInv(d, r) /\ r.used <= DiskCapacity[d] /\ AcceptedBy(x, op, r)
  <1>1. x \in DiskState /\ x.nextId \in Nat /\ DiskSound(d, x)
    BY DEF DiskInv, DiskSound, DiskState
  <1>2. DiskInv(d, y) /\ DiskOps(y) = DiskOps(x)
    <2>1. x.nextId <= y.nextId
      BY <1>1
    <2> QED BY <2>1, OtherFields
  <1>3. op \in Op /\ op.id = x.nextId /\ op.type = type /\ op.size = size
    BY <1>1 DEF Operation, Op
  <1>4. op.id < y.nextId /\ \A o \in DiskOps(y) : o.id # op.id
    <2>1. \A o \in DiskOps(x) : o.id \in Nat /\ o.id < x.nextId
      BY <1>1, DiskOpsTyped DEF DiskSound, Op
    <2> QED BY <1>1, <1>2, <1>3, <2>1
  <1>5. /\ DiskInv(d, r) /\ DiskOps(r) = DiskOps(y) \cup {op}
        /\ r.used = y.used /\ r.nextId = y.nextId
    BY <1>2, <1>3, <1>4, OperationSubmitted
  <1> QED BY <1>1, <1>2, <1>3, <1>5 DEF AcceptedBy

-----------------------------------------------------------------------------
(* The steps of the file system.                                           *)

StorageInv ==
    /\ Orderly(disks, toFs, files, requests)
    /\ mounted \in [DOMAIN mounted -> Disk]
    /\ nextRequest \in Nat

LEMMA Resolved == ASSUME StorageInv, NEW p, NEW d \in ResolveDisk(p) PROVE d \in Disk
  BY DEF ResolveDisk, StorageInv

LEMMA InOrder ==
    ASSUME StorageInv, NEW d \in Disk
    PROVE  /\ DisksSound(disks) /\ AnswersSound(toFs, disks)
           /\ disks \in [Disk -> DiskState] /\ disks[d] \in DiskState
           /\ DiskInv(d, disks[d]) /\ disks[d].used <= DiskCapacity[d]
           /\ disks[d].nextId \in Nat /\ disks[d].used \in Nat /\ DiskCapacity[d] \in Nat
  BY DiskAssumption DEF StorageInv, Orderly, DisksSound, DiskState

LEMMA TrackRequests ==
    ASSUME StorageInv, NEW p \in Path, p \in DOMAIN files, NEW d \in Disk, Track(p, d),
           NEW k, k = disks[d].nextId
    PROVE  Requested(files, requests, d, k, files', requests')
  <1> DEFINE w == [disk |-> d, id |-> k, request |-> nextRequest, path |-> p]
  <1>1. w \in Request
    BY InOrder DEF StorageInv, Request
  <1>2. /\ w.disk = d /\ w.id = k /\ w.path = p
        /\ files' = [files EXCEPT ![p].actions = @ + 1]
        /\ requests' = requests \cup {w}
    BY DEF Track
  <1> HIDE DEF w
  <1> QED BY <1>1, <1>2 DEF Requested

\* The disk accepted it.
LEMMA AcceptedStep ==
    ASSUME StorageInv, NEW p \in Path, p \in DOMAIN files, NEW d \in Disk, Track(p, d),
           NewRequest, NEW type \in OpType, NEW size \in Nat,
           NEW y \in DiskState, y.nextId = disks[d].nextId + 1, y.used <= DiskCapacity[d],
           y.used = disks[d].used + (IF type = "Write" THEN size ELSE 0),
           y.total = disks[d].total, y.pending = disks[d].pending,
           y.types = disks[d].types, y.model = disks[d].model,
           disks' = [disks EXCEPT ![d] =
                       SchedulerSubmit(d, y, Operation(disks[d], type, size))],
           toFs' = toFs
    PROVE  StorageInv'
  <1> DEFINE x == disks[d]
             op == Operation(x, type, size)
             r == SchedulerSubmit(d, y, op)
  <1>1. DiskInv(d, x)
    BY InOrder
  <1>2. DiskInv(d, r) /\ r.used <= DiskCapacity[d] /\ AcceptedBy(x, op, r)
    <2> HIDE DEF x
    <2>1. /\ y.nextId = x.nextId + 1
          /\ y.used = x.used + (IF type = "Write" THEN size ELSE 0)
          /\ y.total = x.total /\ y.pending = x.pending
          /\ y.types = x.types /\ y.model = x.model
      BY DEF x
    <2> QED BY <1>1, <2>1, OperationTaken
  <1>3. Swapped(disks, d, r, disks')
    BY <1>2 DEF Swapped
  <1>4. op.id = disks[d].nextId
    BY DEF Operation
  <1> HIDE DEF op, r
  <1>5. Requested(files, requests, d, op.id, files', requests')
    BY <1>4, TrackRequests
  <1>6. Orderly(disks', toFs, files', requests')
    BY <1>2, <1>3, <1>5, OperationAccepted DEF StorageInv
  <1> QED BY <1>6 DEF StorageInv, NewRequest

\* The disk refused it.
LEMMA RefusedStep ==
    ASSUME StorageInv, NEW p \in Path, p \in DOMAIN files, NEW d \in Disk, Track(p, d),
           NewRequest, NEW size \in Nat, NEW op, op.id = disks[d].nextId, op.size = size,
           NEW type \in {"DataReadFailed", "DataWriteFailed"}, Answer(d, op, type),
           disks' = [disks EXCEPT ![d] = [disks[d] EXCEPT !.nextId = @ + 1]]
    PROVE  StorageInv'
  <1> DEFINE x == disks[d]
             r == Numbered(x)
             e == [type |-> type, disk |-> d, id |-> op.id, size |-> op.size]
  <1>1. /\ DiskInv(d, x) /\ x.used <= DiskCapacity[d] /\ x.nextId \in Nat
        /\ disks \in [Disk -> DiskState]
    BY InOrder
  <1>2. disks' = [disks EXCEPT ![d] = r]
    BY DEF Numbered
  <1>3. /\ e \in DiskAnswer /\ e.type # "DataWriteCompleted" /\ e.disk = d
        /\ e.id = x.nextId /\ toFs' = Append(toFs, e)
    BY <1>1 DEF DiskAnswer, Answer
  <1> HIDE DEF r, e
  <1>4. r.nextId = disks[d].nextId + 1 /\ SameBooks(disks[d], r) /\ Swapped(disks, d, r, disks')
    BY <1>1, <1>2, DiskNumbered DEF r
  <1>5. Requested(files, requests, d, e.id, files', requests')
    BY <1>3, TrackRequests
  <1>6. Orderly(disks', toFs', files', requests')
    BY <1>3, <1>4, <1>5, OperationRefused DEF StorageInv
  <1> QED BY <1>6 DEF StorageInv, NewRequest

LEMMA FailedStep == ASSUME StorageInv, NewRequest, NEW type, FailNow(type) PROVE StorageInv'
  BY DEF StorageInv, NewRequest, FailNow, diskVars

LEMMA ReadStep ==
    ASSUME StorageInv, NEW p \in Path, NEW size \in Nat, ReadFile(p, size)
    PROVE  StorageInv'
  <1>1. NewRequest
    BY DEF ReadFile
  <1>2. CASE FailNow("FileReadFailed")
    BY <1>1, <1>2, FailedStep
  <1>3. ASSUME p \in DOMAIN files, NEW d \in ResolveDisk(p), DiskRead(d, size), Track(p, d)
        PROVE  StorageInv'
    <2> DEFINE x == disks[d]
               y == Numbered(x)
               op == Operation(x, "Read", size)
    <2>1. d \in Disk
      BY <1>3, Resolved
    <2>2. /\ x \in DiskState /\ DiskInv(d, x) /\ x.used <= DiskCapacity[d]
          /\ x.used \in Nat /\ x.nextId \in Nat
      BY <2>1, InOrder
    <2>3. CASE /\ disks' = [disks EXCEPT ![d] = [disks[d] EXCEPT !.nextId = @ + 1]]
               /\ Answer(d, op, "DataReadFailed")
      <3>1. op.id = disks[d].nextId /\ op.size = size
        BY DEF Operation
      <3> HIDE DEF op
      <3> QED BY <1>1, <1>3, <2>1, <2>3, <3>1, RefusedStep
    <2>4. CASE /\ disks' = [disks EXCEPT ![d] = SchedulerSubmit(d, y, op)]
               /\ UNCHANGED toFs
      <3>1. /\ y \in DiskState /\ y.nextId = x.nextId + 1 /\ y.used = x.used
            /\ y.total = x.total /\ y.pending = x.pending
            /\ y.types = x.types /\ y.model = x.model
        <4> DEFINE n == x.nextId + 1
        <4>1. y = [x EXCEPT !.nextId = n] /\ n \in Nat
          BY <2>2 DEF Numbered
        <4> HIDE DEF n, x, y
        <4>2. /\ y \in DiskState /\ y.nextId = n /\ y.used = x.used
              /\ y.total = x.total /\ y.pending = x.pending
              /\ y.types = x.types /\ y.model = x.model
          BY <2>2, <4>1 DEF DiskState
        <4> QED BY <4>2 DEF n
      <3> DEFINE t == "Read"
      <3>2. t \in OpType /\ y.used = x.used + (IF t = "Write" THEN size ELSE 0)
        BY <2>2, <3>1 DEF OpType
      <3>3. /\ disks' = [disks EXCEPT ![d] =
                           SchedulerSubmit(d, y, Operation(disks[d], t, size))]
            /\ toFs' = toFs
        BY <2>4
      <3> HIDE DEF y, t
      <3> QED BY <1>1, <1>3, <2>1, <2>2, <3>1, <3>2, <3>3, AcceptedStep
    <2> QED BY <1>3, <2>3, <2>4 DEF DiskRead, Numbered
  <1> QED BY <1>2, <1>3 DEF ReadFile

LEMMA WriteStep ==
    ASSUME StorageInv, NEW p \in Path, NEW size \in Nat, WriteFile(p, size)
    PROVE  StorageInv'
  <1>1. NewRequest
    BY DEF WriteFile
  <1>2. CASE FailNow("FileWriteFailed")
    BY <1>1, <1>2, FailedStep
  <1>3. ASSUME p \in DOMAIN files, NEW d \in ResolveDisk(p), DiskWrite(d, size), Track(p, d)
        PROVE  StorageInv'
    <2> DEFINE x == disks[d]
               y == [Numbered(x) EXCEPT !.used = @ + size]
               op == Operation(x, "Write", size)
    <2>1. d \in Disk
      BY <1>3, Resolved
    <2>2. /\ x \in DiskState /\ DiskInv(d, x) /\ x.used <= DiskCapacity[d]
          /\ x.used \in Nat /\ x.nextId \in Nat /\ DiskCapacity[d] \in Nat
      BY <2>1, InOrder
    <2>3. CASE /\ disks' = [disks EXCEPT ![d] = [disks[d] EXCEPT !.nextId = @ + 1]]
               /\ Answer(d, op, "DataWriteFailed")
      <3>1. op.id = disks[d].nextId /\ op.size = size
        BY DEF Operation
      <3> HIDE DEF op
      <3> QED BY <1>1, <1>3, <2>1, <2>3, <3>1, RefusedStep
    <2>4. CASE /\ DiskCapacity[d] - x.used >= size
               /\ disks' = [disks EXCEPT ![d] = SchedulerSubmit(d, y, op)]
               /\ UNCHANGED toFs
      <3>1. /\ y \in DiskState /\ y.nextId = x.nextId + 1 /\ y.used = x.used + size
            /\ y.total = x.total /\ y.pending = x.pending
            /\ y.types = x.types /\ y.model = x.model
        <4> DEFINE n == x.nextId + 1
                   u == x.used + size
        <4>1. y = [x EXCEPT !.nextId = n, !.used = u] /\ n \in Nat /\ u \in Nat
          BY <2>2 DEF Numbered, DiskState
        <4> HIDE DEF n, u, x, y
        <4>2. /\ y \in DiskState /\ y.nextId = n /\ y.used = u
              /\ y.total = x.total /\ y.pending = x.pending
              /\ y.types = x.types /\ y.model = x.model
          BY <2>2, <4>1 DEF DiskState
        <4> QED BY <4>2 DEF n, u
      <3> DEFINE t == "Write"
      <3>2. t \in OpType /\ y.used = x.used + (IF t = "Write" THEN size ELSE 0)
        BY <2>2, <3>1 DEF OpType
      <3>3. /\ disks' = [disks EXCEPT ![d] =
                           SchedulerSubmit(d, y, Operation(disks[d], t, size))]
            /\ toFs' = toFs
        BY <2>4
      <3>4. y.used <= DiskCapacity[d]
        BY <2>2, <2>4, <3>1
      <3> HIDE DEF y, t
      <3> QED BY <1>1, <1>3, <2>1, <2>2, <3>1, <3>2, <3>3, <3>4, AcceptedStep
    <2>5. Numbered(x).used = x.used
      BY <2>2 DEF Numbered, DiskState
    <2> QED BY <1>3, <2>3, <2>4, <2>5 DEF DiskWrite, Numbered
  <1> QED BY <1>2, <1>3 DEF WriteFile

LEMMA DeleteStep == ASSUME StorageInv, NEW p, DeleteFile(p) PROVE StorageInv'
  <1>1. PICK d \in ResolveDisk(p) : MarkFree(d, files[p].size)
    BY DEF DeleteFile
  <1>2. d \in Disk
    BY Resolved
  <1>3. /\ p \in DOMAIN files /\ files[p].actions = 0 /\ files[p].size <= disks[d].used
        /\ disks' = [disks EXCEPT ![d].used = @ - files[p].size]
        /\ files' = Without(files, p)
        /\ UNCHANGED <<toFs, mounted, requests, nextRequest>>
    BY <1>1 DEF DeleteFile, MarkFree
  <1>4. Orderly(disks', toFs, files', requests)
    BY <1>2, <1>3, FileDeleted DEF StorageInv
  <1> QED BY <1>3, <1>4 DEF StorageInv

LEMMA AnswerStep == ASSUME StorageInv, OnDiskAnswer PROVE StorageInv'
  <1> DEFINE e == Head(toFs)
             u == Tail(toFs)
  <1>1. /\ toFs # <<>> /\ toFs' = u
        /\ UNCHANGED <<disks, mounted, nextRequest>>
    BY DEF OnDiskAnswer
  <1>2. Ended(files, requests, e, files', requests')
    BY DEF OnDiskAnswer, Ended
  <1> HIDE DEF e, u
  <1>3. Orderly(disks, u, files', requests')
    BY <1>1, <1>2, AnswerTaken DEF StorageInv, e, u
  <1> QED BY <1>1, <1>3 DEF StorageInv

LEMMA CompletionStep ==
    ASSUME StorageInv, NEW d \in Disk, NEW t \in OpType,
           NEW id \in disks[d].model[t].scheduled,
           OnDiskOperationCompleted(d, t, id), UNCHANGED fsVars
    PROVE  StorageInv'
  <1> DEFINE x == disks[d]
             o == NextToFinish(x.model[t].active).op
             r == SchedulerComplete(d, x, t, id)
             type == IF t = "Read" THEN "DataReadCompleted" ELSE "DataWriteCompleted"
             e == [type |-> type, disk |-> d, id |-> o.id, size |-> o.size]
  <1>1. /\ x \in DiskState /\ DiskInv(d, x) /\ x.used <= DiskCapacity[d]
        /\ id \in x.model[t].scheduled
    BY InOrder
  <1>2. disks' = [disks EXCEPT ![d] = r] /\ toFs' = Append(toFs, e)
    BY DEF OnDiskOperationCompleted, Answer
  <1>3. /\ o.id = id /\ o.type = t /\ o \in DiskOps(x)
        /\ DiskInv(d, r) /\ DiskOps(r) = DiskOps(x) \ {o}
        /\ r.used = x.used /\ r.nextId = x.nextId
    <2> HIDE DEF x
    <2> QED BY <1>1, OperationCompleted
  <1>4. e \in DiskAnswer /\ e.disk = d /\ EndedBy(x, o, r, e)
    <2>1. o \in Op
      BY <1>1, <1>3, DiskOpsTyped
    <2>2. e \in DiskAnswer
      BY <2>1 DEF DiskAnswer, Op
    <2>3. e.type = "DataWriteCompleted" <=> o.type = "Write"
      BY <1>3 DEF OpType
    <2> HIDE DEF r, o, x, type
    <2> QED BY <1>3, <2>2, <2>3 DEF EndedBy
  <1> HIDE DEF r, e, o
  <1>5. Swapped(disks, d, r, disks')
    BY <1>1, <1>2, <1>3 DEF Swapped
  <1>6. Orderly(disks', toFs', files, requests)
    BY <1>2, <1>4, <1>5, OperationEnded DEF StorageInv
  <1> QED BY <1>6 DEF StorageInv, fsVars

LEMMA ProgressStep ==
    ASSUME StorageInv, NEW d \in Disk, NEW t \in OpType, Progress(d, t), UNCHANGED fsVars
    PROVE  StorageInv'
  <1> DEFINE x == disks[d]
             r == [x EXCEPT !.model[t].active = Worked(@)]
  <1>1. /\ x \in DiskState /\ DiskInv(d, x) /\ x.used <= DiskCapacity[d]
        /\ disks \in [Disk -> DiskState]
    BY InOrder
  <1>2. /\ disks' = [disks EXCEPT ![d] = r] /\ toFs' = toFs
        /\ x.model[t].active # {}
    BY <1>1 DEF Progress
  <1>3. \A a \in x.model[t].active : a.left > 0
    <2>1. 0 \notin {a.left : a \in x.model[t].active}
      BY DEF Progress, Due, Left
    <2>2. \A a \in x.model[t].active : a.left \in Nat
      BY <1>1, DiskOpsTyped DEF Model, Active
    <2> QED BY <2>1, <2>2
  <1>4. /\ DiskInv(d, r) /\ DiskOps(r) = DiskOps(x)
        /\ r.used = x.used /\ r.nextId = x.nextId
    <2> HIDE DEF x
    <2> QED BY <1>1, <1>2, <1>3, DiskWorked
  <1> HIDE DEF r
  <1>5. Swapped(disks, d, r, disks') /\ SameBooks(x, r)
    BY <1>1, <1>2, <1>4 DEF Swapped, SameBooks
  <1>6. Orderly(disks', toFs', files, requests)
    BY <1>2, <1>4, <1>5, TimePassed DEF StorageInv
  <1> QED BY <1>6 DEF StorageInv, fsVars

\* At the start nothing is under way, and nothing is in use.
LEMMA EmptySums ==
    /\ SizeOf(<<>>) = 0 /\ WrittenBy({}) = 0
    /\ Reserved(NewDisk) = 0 /\ DiskOps(NewDisk) = {} /\ Started(NewDisk) = {}
  <1>1. ASSUME NEW f \in [{} -> Nat]
        PROVE  SumFunction(f) = 0
    <2> DEFINE S == {}
    <2>1. IsFiniteSet(S) /\ f \in [S -> Nat] /\ \A x \in S : f[x] = 0
      BY <1>1, FS_EmptySet
    <2> HIDE DEF S
    <2> QED BY <2>1, SumOfZeros
  <1>2. DOMAIN <<>> = {}
    OBVIOUS
  <1>3. [p \in DOMAIN <<>> |-> <<>>[p].size] \in [{} -> Nat]
    BY <1>2
  <1>4. SizeOf(<<>>) = 0
    BY <1>1, <1>3 DEF SizeOf
  <1> DEFINE W == {x \in {} : x.type = "DataWriteCompleted"}
             w == [e \in W |-> e.size]
  <1>5. WrittenBy({}) = 0
    <2>1. w \in [{} -> Nat] /\ WrittenBy({}) = SumFunction(w)
      BY DEF WrittenBy
    <2> HIDE DEF w
    <2> QED BY <1>1, <2>1
  <1>6. DiskOps(NewDisk) = {} /\ Started(NewDisk) = {}
    <2>1. ModelOps(NewModel) = {}
      BY EmptyQueue DEF ModelOps, NewModel
    <2>2. Started(NewDisk) = {}
      BY <2>1 DEF Started, NewDisk
    <2>3. ToSet(NewDisk.pending) = {}
      BY EmptyQueue DEF NewDisk
    <2> QED BY <2>2, <2>3 DEF DiskOps
  <1> DEFINE V == {x \in DiskOps(NewDisk) : x.type = "Write"}
             v == [o \in V |-> o.size]
  <1>7. Reserved(NewDisk) = 0
    <2>1. v \in [{} -> Nat] /\ Reserved(NewDisk) = SumFunction(v)
      BY <1>6 DEF Reserved
    <2> HIDE DEF v
    <2> QED BY <1>1, <2>1
  <1> QED BY <1>4, <1>5, <1>6, <1>7

LEMMA NewDiskInOrder ==
    ASSUME NEW d \in Disk
    PROVE  DiskInv(d, NewDisk) /\ NewDisk.used = 0 /\ NewDisk \in DiskState
  <1>1. NewModel \in Model /\ NewDisk \in DiskState
    BY DEF NewModel, Model, NewDisk, DiskState
  <1>2. ModelOps(NewModel) = {} /\ Running(NewModel) = {}
    BY EmptyQueue DEF ModelOps, Running, NewModel
  <1>3. \A t \in OpType : ModelInv(NewModel, OpsLimit[d][t], t)
    <2> SUFFICES ASSUME NEW t \in OpType
                 PROVE  ModelInv(NewModel, OpsLimit[d][t], t)
      OBVIOUS
    <2>1. ModelSound(NewModel, t)
      BY <1>1, <1>2, EmptyQueue, FS_EmptySet DEF ModelSound, NewModel
    <2>2. OpsLimit[d][t] \in Nat
      BY DiskAssumption
    <2>3. WithinLimit(NewModel, OpsLimit[d][t]) /\ Announced(NewModel)
      BY <2>2 DEF WithinLimit, Announced, NewModel
    <2> QED BY <2>1, <2>3 DEF ModelInv
  <1>4. DiskSound(d, NewDisk)
    <2>1. /\ DiskOps(NewDisk) = {} /\ Started(NewDisk) = {}
          /\ NewDisk.total = 0 /\ NewDisk.types = {} /\ NewDisk.pending = <<>>
          /\ \A t \in OpType : NewDisk.model[t] = NewModel
          /\ TotalLimit[d] \in Nat
      BY EmptySums, DiskAssumption DEF NewDisk
    <2>2. IsFiniteSet({}) /\ Cardinality({}) = 0
      BY FS_EmptySet
    <2> QED BY <1>1, <1>3, <2>1, <2>2, EmptyQueue DEF DiskSound
  <1> QED BY <1>1, <1>4 DEF DiskInv, NoSlotIdle, NewDisk

LEMMA StorageInit == Init => StorageInv
  <1> SUFFICES ASSUME Init
               PROVE  StorageInv
    OBVIOUS
  <1>1. /\ disks = [d \in Disk |-> NewDisk] /\ toFs = <<>> /\ mounted = <<>>
        /\ files = <<>> /\ requests = {} /\ nextRequest = 0
    BY DEF Init, DisksInit
  <1>2. DisksSound(disks)
    <2>1. \A d \in Disk : disks[d] = NewDisk /\ DiskCapacity[d] \in Nat
      BY <1>1, DiskAssumption
    <2>2. disks \in [Disk -> DiskState]
      BY <1>1, NewDiskInOrder
    <2> QED BY <2>1, <2>2, NewDiskInOrder DEF DisksSound
  <1>3. AnswersSound(toFs, disks)
    <2>1. toFs \in Seq(DiskAnswer) /\ IsInjective(toFs)
      BY <1>1, EmptyQueue, EmptySeq
    <2>2. ToSet(toFs) = {} /\ IsFiniteSet(ToSet(toFs))
      BY <1>1, EmptyQueue, FS_EmptySet
    <2> QED BY <2>1, <2>2 DEF AnswersSound
  <1>4. FilesTyped(files)
    <2>1. DOMAIN files = {} /\ files \in [{} -> File]
      BY <1>1
    <2> QED BY <2>1, FS_EmptySet DEF FilesTyped
  <1>5. Tracked(disks, toFs, files, requests)
    <2>1. \A d \in Disk : FlightOf(disks, toFs, d) = {}
      BY <1>1, EmptySums, EmptyQueue DEF FlightOf
    <2>2. DOMAIN files = {}
      BY <1>1
    <2> QED BY <1>1, <2>1, <2>2, FS_EmptySet DEF Tracked
  <1>6. Balanced(disks, toFs, files)
    <2> DEFINE u == [d \in Disk |-> disks[d].used]
               r == [d \in Disk |-> Reserved(disks[d])]
    <2>1. /\ u \in [Disk -> Nat] /\ \A d \in Disk : u[d] = 0
          /\ UsedOf(disks) = SumFunction(u)
      BY <1>1, NewDiskInOrder DEF UsedOf
    <2>2. /\ r \in [Disk -> Nat] /\ \A d \in Disk : r[d] = 0
          /\ ReservedOf(disks) = SumFunction(r)
      BY <1>1, EmptySums DEF ReservedOf
    <2> HIDE DEF u, r
    <2>3. UsedOf(disks) = 0 /\ ReservedOf(disks) = 0
      BY <2>1, <2>2, SumOfZeros, DiskAssumption
    <2>4. SizeOf(files) = 0 /\ WrittenBy(ToSet(toFs)) = 0
      BY <1>1, EmptySums, EmptyQueue
    <2> QED BY <2>3, <2>4 DEF Balanced
  <1> QED BY <1>1, <1>2, <1>3, <1>4, <1>5, <1>6 DEF StorageInv, Orderly

LEMMA StorageStep == StorageInv /\ [Next]_vars => StorageInv'
  <1> SUFFICES ASSUME StorageInv, [Next]_vars
               PROVE  StorageInv'
    OBVIOUS
  <1>1. ASSUME NEW m \in MountPoint, NEW d \in Disk, MountDisk(m, d)
        PROVE  StorageInv'
    BY <1>1 DEF MountDisk, StorageInv, diskVars
  <1>2. ASSUME NEW m \in MountPoint, UnmountDisk(m)
        PROVE  StorageInv'
    BY <1>2 DEF UnmountDisk, Without, StorageInv, diskVars
  <1>3. ASSUME NEW p \in Path, CreateFile(p)
        PROVE  StorageInv'
    <2>1. Orderly(disks, toFs, files', requests)
      BY <1>3, FileCreated DEF CreateFile, StorageInv
    <2> QED BY <1>3, <2>1 DEF CreateFile, StorageInv, diskVars
  <1>4. ASSUME NEW p \in Path, DeleteFile(p)
        PROVE  StorageInv'
    BY <1>4, DeleteStep
  <1>5. ASSUME NEW p \in Path, ReadAll(p)
        PROVE  StorageInv'
    <2> DEFINE n == IF p \in DOMAIN files THEN files[p].size ELSE 0
    <2>1. n \in Nat
      BY DEF StorageInv, Orderly, FilesTyped, File
    <2>2. ReadFile(p, n)
      BY <1>5 DEF ReadAll
    <2> HIDE DEF n
    <2> QED BY <2>1, <2>2, ReadStep
  <1>6. ASSUME NEW p \in Path, NEW size \in Size, ReadFile(p, size)
        PROVE  StorageInv'
    BY <1>6, ReadStep, FileSystemAssumption
  <1>7. ASSUME NEW p \in Path, NEW size \in Size, WriteFile(p, size)
        PROVE  StorageInv'
    BY <1>7, WriteStep, FileSystemAssumption
  <1>8. CASE OnDiskAnswer
    BY <1>8, AnswerStep
  <1>9. ASSUME NEW d \in Disk, NEW t \in OpType, DiskStep(d, t)
        PROVE  StorageInv'
    BY <1>9, CompletionStep, ProgressStep DEF DiskStep
  <1>10. CASE UNCHANGED vars
    BY <1>10 DEF vars, fsVars, diskVars, StorageInv
  <1> QED BY <1>1, <1>2, <1>3, <1>4, <1>5, <1>6, <1>7, <1>8, <1>9, <1>10 DEF Next, UserCall

-----------------------------------------------------------------------------

(* Storage stays in order, whatever is called and however long the disks   *)
(* take: the operations of each disk are there once, answered once, each   *)
(* of them a request of a file that is there, and the books of the disks   *)
(* and the files agree (disk.rs, scheduler.rs, fs.rs).                     *)
THEOREM StorageStaysOrderly == Spec => []StorageInv
  BY StorageInit, StorageStep, PTL DEF Spec

(* The scheduler of a disk keeps to its limits, leaves no slot idle, and   *)
(* the one completion event on its way names the operation that its model  *)
(* finishes next (scheduler.rs; no event is cancelled too late).           *)
THEOREM SchedulersKeepToLimits == Spec => []SchedulerConsistent
  <1>1. StorageInv => SchedulerConsistent
    <2> SUFFICES ASSUME StorageInv, NEW d \in Disk
                 PROVE  /\ disks[d].total = Cardinality(Started(disks[d]))
                        /\ disks[d].types =
                             {[id |-> o.id, type |-> o.type] : o \in DiskOps(disks[d])}
                        /\ TotalLimit[d] # NoLimit => disks[d].total <= TotalLimit[d]
                        /\ disks[d].pending # <<>> => disks[d].total = TotalLimit[d]
                        /\ \A t \in OpType :
                             LET m == disks[d].model[t]
                             IN /\ m.count = Cardinality(m.active)
                                /\ OpsLimit[d][t] # NoLimit => m.count <= OpsLimit[d][t]
                                /\ m.waiting # <<>> => m.count = OpsLimit[d][t]
                                /\ m.scheduled = m.event
                                /\ m.event = IF m.active = {} THEN {}
                                             ELSE {NextToFinish(m.active).op.id}
      BY DEF SchedulerConsistent
    <2>1. DiskSound(d, disks[d]) /\ NoSlotIdle(d, disks[d])
      BY InOrder DEF DiskInv
    <2>2. \A t \in OpType : ModelInv(disks[d].model[t], OpsLimit[d][t], t)
      BY <2>1 DEF DiskSound
    <2> QED BY <2>1, <2>2 DEF DiskSound, NoSlotIdle, ModelInv, ModelSound, WithinLimit, Announced
  <1> QED BY <1>1, StorageStaysOrderly, PTL

(* The file system knows the operation of every answer, and its file is    *)
(* there, so that none of its panics is reached; a file counts exactly the *)
(* operations under way on it (fs.rs, requests and cnt_actions).           *)
THEOREM RequestsAreTracked == Spec => []RequestsTracked
  <1>1. StorageInv => RequestsTracked
    <2> SUFFICES ASSUME StorageInv
                 PROVE  RequestsTracked
      OBVIOUS
    <2>1. Tracked(disks, toFs, files, requests)
      BY DEF StorageInv, Orderly
    <2> QED BY <2>1 DEF Tracked, FlightOf, RequestsTracked, InFlight
  <1> QED BY <1>1, StorageStaysOrderly, PTL

(* What the disks have in use is what the files hold and what the writes   *)
(* under way have reserved, and no disk is filled beyond its capacity,     *)
(* also after refused writes, deletions, and disks mounted elsewhere.      *)
THEOREM SpaceIsAccounted == Spec => []SpaceAccounted
  <1>1. StorageInv => SpaceAccounted
    <2> SUFFICES ASSUME StorageInv
                 PROVE  SpaceAccounted
      OBVIOUS
    <2>1. DisksSound(disks) /\ Balanced(disks, toFs, files)
      BY DEF StorageInv, Orderly
    <2> QED BY <2>1 DEF DisksSound, Balanced, UsedOf, SizeOf, ReservedOf, WrittenBy,
                        SpaceAccounted
  <1> QED BY <1>1, StorageStaysOrderly, PTL
===============================================================================
