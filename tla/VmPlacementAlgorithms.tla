------------------------ MODULE VmPlacementAlgorithms ------------------------
(***************************************************************************)
(* The placement algorithms of dslab-iaas (core/vm_placement_algorithms/)  *)
(* and a scheduler that places requests with one of them, while VMs end    *)
(* and hosts report their loads.                                           *)
(*                                                                         *)
(* Hosts are numbers, as in the code, and gone through in this order.      *)
(* Scores are compared exactly, as fractions; square roots by their        *)
(* squares.  Where rounding decides more than a tie (the root of a number  *)
(* that is 0 but for rounding) either outcome is possible.                 *)
(***************************************************************************)
EXTENDS ResourcePool, Folding, FiniteSetsExt

CONSTANTS
    Rack,       \* rack_id of each host
    Threshold   \* of BestFitThreshold: the fraction Threshold[1] / Threshold[2]

\* Option<u32>: hosts are numbered from 1
NoHost == 0

Abs(x) == IF x < 0 THEN -x ELSE x

\* a/b < c/d, by whole parts and then by the inverses of what is left: numbers
\* stay small.
LessThan[a \in Nat, b \in Nat, c \in Nat, d \in Nat] ==
    IF a \div b # c \div d THEN a \div b < c \div d
    ELSE c % d # 0 /\ (a % b = 0 \/ LessThan[d, c % d, b, a % b])

Less(x, y) == LessThan[x[1], x[2], y[1], y[2]]

\* The common loop: the first of the candidates that no other one is better than.
BestOf(candidates, better(_, _)) ==
    IF candidates = {} THEN NoHost
    ELSE CHOOSE h \in candidates :
           \A g \in candidates \ {h} : better(h, g) \/ (h < g /\ ~ better(g, h))

Fitting(pool, v, allowCpuOvercommit) ==
    {h \in Host : CanAllocate(pool[h], {v}, allowCpuOvercommit)}

Available(pool, h, r) == pool[h].available[r]

\* get_allocated_cpu, get_allocated_memory: what is overcommitted is not in it.
AllocatedOn(pool, h, r) == Capacity[h][r] - Available(pool, h, r)

UsedWith(pool, h, v) ==
    [r \in Resource |-> AllocatedOn(pool, h, r) + Usage[r][{v}]]

-----------------------------------------------------------------------------
(* The algorithms for one VM.                                              *)

FirstFit(pool, v) == BestOf(Fitting(pool, v, FALSE), LAMBDA g, h : FALSE)

BestFit(pool, v) ==
    BestOf(Fitting(pool, v, FALSE),
           LAMBDA g, h : Available(pool, g, "cpu") < Available(pool, h, "cpu"))

\* A host without any available CPU is not taken, even for a VM that needs none.
WorstFit(pool, v) ==
    BestOf({h \in Fitting(pool, v, FALSE) : Available(pool, h, "cpu") > 0},
           LAMBDA g, h : Available(pool, g, "cpu") > Available(pool, h, "cpu"))

\* reported[h]: the CPUs in use on h by its last report
BestFitThreshold(pool, reported, v) ==
    LET load(h) == <<reported[h] + Usage["cpu"][{v}], Capacity[h]["cpu"]>>
    IN BestOf({h \in Fitting(pool, v, TRUE) :
                 Less(<<0, 1>>, load(h)) /\ Less(load(h), Threshold)},
              LAMBDA g, h : Less(load(h), load(g)))

\* The sum of two squared or multiplied shares of the capacity, with weights.
WeightedSum(w, h, cpu, memory) ==
    LET c == Capacity[h]["cpu"]
        m == Capacity[h]["memory"]
    IN <<w["cpu"] * cpu * m * m + w["memory"] * memory * c * c, c * c * m * m>>

Product(pool, w, v, h) ==
    WeightedSum(w, h, Available(pool, h, "cpu") * Usage["cpu"][{v}],
                      Available(pool, h, "memory") * Usage["memory"][{v}])

Gcd[x \in Nat, y \in Nat] == IF y = 0 THEN x ELSE Gcd[y, x % y]

\* get_cpu_load and get_memory_load, averaged; only their ratio matters, so they
\* are brought to whole numbers without a common divisor.
Weights(pool) ==
    LET multiple(r) == ProductSet({Capacity[h][r] : h \in Host})
        load(r) == MapThenSumSet(
          LAMBDA h : AllocatedOn(pool, h, r) * (multiple(r) \div Capacity[h][r]), Host)
        reduced(x, y) == Bind(IF x + y = 0 THEN 1 ELSE Gcd[x, y], LAMBDA d :
          [r \in Resource |-> IF r = "cpu" THEN x \div d ELSE y \div d])
    IN reduced(load("cpu") * multiple("memory"), load("memory") * multiple("cpu"))

DotProduct(pool, v) ==
    LET product(h) == Product(pool, [r \in Resource |-> 1], v, h)
    IN BestOf(Fitting(pool, v, FALSE), LAMBDA g, h : Less(product(h), product(g)))

WeightedDotProduct(pool, v) ==
    Bind(Weights(pool), LAMBDA w :
      BestOf(Fitting(pool, v, FALSE),
             LAMBDA g, h : Less(Product(pool, w, v, h), Product(pool, w, v, g))))

L2NormDiff(pool, v) ==
    LET left(h, r) == Available(pool, h, r) - Usage[r][{v}]
        diff(w, h) == WeightedSum(w, h, left(h, "cpu") * left(h, "cpu"),
                                        left(h, "memory") * left(h, "memory"))
    IN Bind(Weights(pool), LAMBDA w :
         BestOf(Fitting(pool, v, FALSE), LAMBDA g, h : Less(diff(w, g), diff(w, h))))

SquaredNorm(u) == u["cpu"] * u["cpu"] + u["memory"] * u["memory"]

\* The squares of the cosines, which are not negative, are compared.
CosineSimilarity(pool, v) ==
    LET used(h) == UsedWith(pool, h, v)
        dot(h) == Capacity[h]["cpu"] * used(h)["cpu"]
                    + Capacity[h]["memory"] * used(h)["memory"]
        cosine(h) == <<dot(h) * dot(h), SquaredNorm(Capacity[h]) * SquaredNorm(used(h))>>
    IN BestOf(Fitting(pool, v, FALSE), LAMBDA g, h : Less(cosine(h), cosine(g)))

\* perp_distance, times the norm of the capacity.
PerpDistance(h, used) ==
    Abs(used["cpu"] * Capacity[h]["memory"] - used["memory"] * Capacity[h]["cpu"])

\* 1 - cos^2 is the root's argument: if the vectors are parallel it may be
\* rounded to a negative number, and then no comparison holds.
MayBeNaN(h, used) == used # [r \in Resource |-> 0] /\ PerpDistance(h, used) = 0

DeltaPerpDistances(pool, v) ==
    LET before(h) == [r \in Resource |-> AllocatedOn(pool, h, r)]
        after(h)  == UsedWith(pool, h, v)
        delta(h)  == PerpDistance(h, before(h)) - PerpDistance(h, after(h))
        square(x) == x * Abs(x)
        better(g, h) == square(delta(g)) * SquaredNorm(Capacity[h])
                          > square(delta(h)) * SquaredNorm(Capacity[g])
        fitting == Fitting(pool, v, FALSE)
        odd == {h \in fitting : MayBeNaN(h, before(h)) \/ MayBeNaN(h, after(h))}
    IN {BestOf(fitting \ skipped, better) : skipped \in SUBSET odd}

Algorithms == {"FirstFit", "BestFit", "WorstFit", "BestFitThreshold", "CosineSimilarity",
               "DotProduct", "WeightedDotProduct", "L2NormDiff", "DeltaPerpDistance",
               "RackAntiAffinity"}

\* placement_algorithm_resolver: what the algorithm may select.
Selected(algorithm, pool, reported, v) ==
    CASE algorithm = "FirstFit"           -> {FirstFit(pool, v)}
      [] algorithm = "BestFit"            -> {BestFit(pool, v)}
      [] algorithm = "WorstFit"           -> {WorstFit(pool, v)}
      [] algorithm = "BestFitThreshold"   -> {BestFitThreshold(pool, reported, v)}
      [] algorithm = "CosineSimilarity"   -> {CosineSimilarity(pool, v)}
      [] algorithm = "DotProduct"         -> {DotProduct(pool, v)}
      [] algorithm = "WeightedDotProduct" -> {WeightedDotProduct(pool, v)}
      [] algorithm = "L2NormDiff"         -> {L2NormDiff(pool, v)}
      [] algorithm = "DeltaPerpDistance"  -> DeltaPerpDistances(pool, v)

-----------------------------------------------------------------------------
(* Requests for several VMs.                                               *)

\* Hosts for the VMs so far; a VM for which there was none ends the search.
Placed(pool, chosen) == [pool |-> pool, chosen |-> chosen]

\* Mutant: each VM is placed by the scheduler's own pool, without those before it.
PlaceAlone(sofar, v, h) == Placed(sofar.pool, Append(sofar.chosen, h))

PlaceOn(sofar, v, h) ==
    Placed(IF h = NoHost THEN sofar.pool
           ELSE [sofar.pool EXCEPT ![h] = Allocate(@, {v})],
           Append(sofar.chosen, h))

Refused(sofar) == \E i \in DOMAIN sofar.chosen : sofar.chosen[i] = NoHost

\* Option<Vec<u32>>: no hosts if one of the VMs was refused
Hosts(sofar) == IF Refused(sofar) THEN <<>> ELSE sofar.chosen

\* One after the other, on a copy of the pool that holds those before.
OneByOne(algorithm, pool, reported, vms) ==
    {Hosts(s) : s \in
       Fold(LAMBDA sofars, v :
              UNION {{PlaceOn(s, v, h) : h \in Selected(algorithm, s.pool, reported, v)} :
                       s \in sofars},
            {Placed(pool, <<>>)}, vms)}

\* Whether a VM fits is asked of the pool without the ones before it.
RackAntiAffinity(pool, vms) ==
    LET racks(s) == {Rack[s.chosen[i]] : i \in {j \in DOMAIN s.chosen : s.chosen[j] # NoHost}}
        first(s, v) == BestOf({h \in Fitting(pool, v, FALSE) : Rack[h] \notin racks(s)},
                              LAMBDA g, h : FALSE)
    IN Hosts(Fold(LAMBDA s, v : PlaceOn(s, v, first(s, v)), Placed(pool, <<>>), vms))

ComputePlacements(algorithm, pool, reported, vms) ==
    IF algorithm = "RackAntiAffinity" THEN {RackAntiAffinity(pool, vms)}
    ELSE OneByOne(algorithm, pool, reported, vms)

-----------------------------------------------------------------------------
(* A scheduler at work.                                                    *)

VARIABLE placing

\* The placement of the i-th VM on the i-th host.
Onto(vms, chosen) == [v \in {vms[i] : i \in DOMAIN vms} |->
                        chosen[CHOOSE i \in DOMAIN vms : vms[i] = v]]

NewPlacing(algorithm, pool, requests) ==
    [algorithm |-> algorithm, pool |-> pool, requests |-> requests,
     reported |-> [h \in Host |-> 0]]

\* A request that is refused stays, to be delivered again.
PlaceVms ==
    \E vms \in placing.requests :
    \E chosen \in ComputePlacements(placing.algorithm, placing.pool, placing.reported, vms) :
      /\ chosen # <<>>
      /\ placing' = [placing EXCEPT
           !.pool = AllocateAll(@, Host, Onto(vms, chosen)),
           !.requests = @ \ {vms}]

VmEnds ==
    \E h \in Host : \E v \in placing.pool[h].allocations :
      placing' = [placing EXCEPT !.pool[h] = Release(@, {v})]

\* Every VM uses what it has asked for; only BestFitThreshold looks at it.
HostReports ==
    \E h \in Host :
      LET used == Usage["cpu"][placing.pool[h].allocations]
      IN /\ placing.algorithm = "BestFitThreshold"
         /\ placing.reported[h] # used
         /\ placing' = [placing EXCEPT !.reported[h] = used]

PlacingStep == PlaceVms \/ VmEnds \/ HostReports

-----------------------------------------------------------------------------

\* The placement that the algorithm computes for a request, if any, is one that
\* the pool has room for: an algorithm checks one VM at a time.
FitsTogether(p) ==
    \A h \in Host :
      CanAllocate(placing.pool[h], PlacedOn(p, h), placing.algorithm = "BestFitThreshold")

ApartOnRacks(p) ==
    \A v, w \in DOMAIN p : v # w => Rack[p[v]] # Rack[p[w]]

\* A single VM waits only if no host can take it - without a load above the
\* threshold, or for the root of a number that is rounded below 0.
WaitsForRoom(v) ==
    LET used(h) == [r \in Resource |-> AllocatedOn(placing.pool, h, r)]
    IN CASE placing.algorithm = "BestFitThreshold" ->
              \A h \in Fitting(placing.pool, v, TRUE) :
                ~ Less(<<placing.reported[h] + Usage["cpu"][{v}], Capacity[h]["cpu"]>>, Threshold)
         [] placing.algorithm = "DeltaPerpDistance" ->
              \A h \in Fitting(placing.pool, v, FALSE) :
                MayBeNaN(h, used(h)) \/ MayBeNaN(h, UsedWith(placing.pool, h, v))
         [] OTHER -> Fitting(placing.pool, v, FALSE) = {}

(* Whatever a scheduler has placed before: the hosts that an algorithm     *)
(* chooses have room for all VMs of a request together, and lie in         *)
(* different racks if they are to; a VM is refused only if there is no     *)
(* room for it; the pool is not overcommitted by the algorithms that look  *)
(* at the available CPU, and accounts for what was placed.                 *)
PlacementsSound ==
    /\ \A vms \in placing.requests :
       \A chosen \in ComputePlacements(placing.algorithm, placing.pool,
                                       placing.reported, vms) :
         IF chosen = <<>> THEN Len(vms) = 1 => WaitsForRoom(vms[1])
         ELSE /\ FitsTogether(Onto(vms, chosen))
              /\ placing.algorithm = "RackAntiAffinity" => ApartOnRacks(Onto(vms, chosen))
    /\ \A h \in Host :
         /\ Balanced(placing.pool[h], h)
         /\ placing.pool[h].overcommit["memory"] = 0
         /\ placing.algorithm # "BestFitThreshold" => placing.pool[h].overcommit["cpu"] = 0
=============================================================================
