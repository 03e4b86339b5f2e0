------------------------------ MODULE Experiments ------------------------------
(***************************************************************************)
(* Experiments: many simulations run by a pool of threads (dslab-iaas      *)
(* experiment.rs with its configuration, dslab-dag experiment.rs,          *)
(* dslab-faas parallel.rs).  The simulation of a run is one step, which    *)
(* may panic; the steps in which the threads and the caller share data     *)
(* (the results, the number of finished runs, the channel) interleave.     *)
(***************************************************************************)
EXTENDS Folding, SequencesExt

VARIABLE experiment

-----------------------------------------------------------------------------
(* dslab-iaas: the configuration of an experiment gives its runs one by one *)

\* A parameter as read from the file: a value, several, or a range.
OneValue(v) == [kind |-> "Value", values |-> <<v>>]
SomeValues(values) == [kind |-> "Values", values |-> values]
ValueRange(from, to, step) == [kind |-> "Range", from |-> from, to |-> to, step |-> step]

\* GenericDynVar: new and from_numeric
NewVariable(raw) ==
    [values |-> IF raw.kind = "Range"
                THEN [k \in 1..((raw.to - raw.from) \div raw.step + 1) |-> raw.from + (k - 1) * raw.step]
                ELSE raw.values,
     current |-> 1]

HasMultipleValues(v) == Len(v.values) > 1

\* next changes the variable only if there is a next value.
HasNext(v) == v.current < Len(v.values)

Reset(v) == [v EXCEPT !.current = 1]

ValueOf(v) == v.values[v.current]

\* from_file: parameters in the order of the file format, an absent one as its default value.
NewConfig(parameters) ==
    LET variables == [i \in DOMAIN parameters |-> NewVariable(parameters[i])]
        multiple(i) == HasMultipleValues(variables[i])
    IN [variables |-> variables,
        dynamic |-> SelectSeq([i \in DOMAIN parameters |-> i], multiple),
        initial |-> TRUE]

\* next: the first variable that has a next value takes it, those before it start again.
Advance(config) ==
    LET n == Len(config.dynamic)
        var(k) == config.variables[config.dynamic[k]]
        stops == {k \in 1..n : HasNext(var(k))}
        first == IF stops = {} THEN n + 1 ELSE CHOOSE k \in stops : \A l \in stops : k <= l
        position(i) == CHOOSE k \in 1..n : config.dynamic[k] = i
    IN [found |-> config.initial \/ stops # {},
        config |->
          IF config.initial THEN [config EXCEPT !.initial = FALSE]
          ELSE [config EXCEPT !.variables = [i \in DOMAIN @ |->
                  IF i \notin Range(config.dynamic) THEN @[i]
                  ELSE CASE position(i) < first -> Reset(@[i])
                         [] position(i) = first -> [@[i] EXCEPT !.current = @ + 1]
                         [] position(i) > first -> @[i]]]]

\* get_next_run: the configuration of a simulation.
RunConfig(config) == [i \in DOMAIN config.variables |-> ValueOf(config.variables[i])]

-----------------------------------------------------------------------------
(* The runs of the other experiments *)

\* dslab-dag, new and load: every (dag, system, scheduler).
DagRuns(dags, systems, schedulers) ==
    LET nd == Len(dags)  ns == Len(systems)  nc == Len(schedulers)
    IN [k \in 1..(nd * ns * nc) |->
          [id |-> k, config |-> <<dags[(k - 1) \div (ns * nc) + 1],
                                  systems[(((k - 1) \div nc) % ns) + 1],
                                  schedulers[((k - 1) % nc) + 1]>>]]

\* dslab-faas: one trace for all or one for each, and seeds likewise.
OneForEach(s, k) == IF Len(s) = 1 THEN s[1] ELSE s[k]

FaasRuns(configs, traces, seeds) ==
    [k \in DOMAIN configs |->
       [id |-> k, config |-> <<configs[k], OneForEach(traces, k), OneForEach(seeds, k)>>]]

-----------------------------------------------------------------------------
(* threads: those of the pool; toSubmit: runs the caller still gives to    *)
(* the pool; queue, running: those in the pool, with the step of the       *)
(* thread; results: those reported, in this order; lost: those whose       *)
(* simulation has panicked; finished: the counter of dslab-dag; shown: the *)
(* progress a thread has read from it.                                     *)

NewExperiment(kind, config, runs, threads) ==
    [kind |-> kind, config |-> config, toSubmit |-> runs, total |-> Len(runs), submitted |-> 0,
     threads |-> threads, queue |-> <<>>, running |-> {}, results |-> <<>>, lost |-> {},
     finished |-> 0, shown |-> {}, at |-> "submitting", answer |-> <<>>]

IaasExperiment(parameters, threads) == NewExperiment("iaas", NewConfig(parameters), <<>>, threads)

DagExperiment(dags, systems, schedulers, threads) ==
    NewExperiment("dag", NewConfig(<<>>), DagRuns(dags, systems, schedulers), threads)

ParallelSimulationNWorkers(configs, traces, seeds, workers) ==
    NewExperiment("faas", NewConfig(<<>>), FaasRuns(configs, traces, seeds), workers)

ParallelSimulation(configs, traces, seeds) ==
    ParallelSimulationNWorkers(configs, traces, seeds, Len(configs))

\* The configuration is resolved by the thread: part of the simulation, which may panic there.
ParallelSimulationRawNWorkers(configs, traces, seeds, workers) ==
    [ParallelSimulationNWorkers(configs, traces, seeds, workers) EXCEPT !.kind = "faas-raw"]

\* The caller, and the pool with no run.
NoExperiment == [NewExperiment("none", NewConfig(<<>>), <<>>, 1) EXCEPT !.at = "returned"]

IsFaas(e) == e.kind \in {"faas", "faas-raw"}

\* pool.execute
Execute(e, run) ==
    [e EXCEPT !.queue = Append(@, run), !.submitted = @ + 1]

\* dslab-iaas, run: the next configuration, if there is one.
SubmitNext(e) ==
    LET next == Advance(e.config)
        advanced == [e EXCEPT !.config = next.config]
    IN IF next.found
       THEN Execute(advanced, [id |-> e.submitted + 1, config |-> RunConfig(next.config)])
       ELSE [advanced EXCEPT !.at = "waiting"]

SubmitGiven(e) ==
    IF e.toSubmit = <<>> THEN [e EXCEPT !.at = "waiting"]
    ELSE Execute([e EXCEPT !.toSubmit = Tail(@)], Head(e.toSubmit))

Submit ==
    /\ experiment.at = "submitting"
    /\ experiment' = IF experiment.kind = "iaas" THEN SubmitNext(experiment)
                                                 ELSE SubmitGiven(experiment)

\* A thread of the pool that is free takes the first run.
TakeRun ==
    /\ experiment.queue # <<>>
    /\ Cardinality(experiment.running) < experiment.threads
    /\ experiment' = [experiment EXCEPT
         !.queue = Tail(@),
         !.running = @ \cup {[run |-> Head(experiment.queue), step |-> "simulate"]}]

Moved(e, job, step) == [e EXCEPT !.running = (@ \ {job}) \cup {[job EXCEPT !.step = step]}]

\* The result of the simulation is ready.
Simulate(job) ==
    /\ job.step = "simulate"
    /\ experiment' = Moved(experiment, job, "report")

\* The run is dropped with its share of the results; the pool starts a new thread.
SimulationPanics(job) ==
    /\ job.step = "simulate"
    /\ experiment' = [experiment EXCEPT !.running = @ \ {job}, !.lost = @ \cup {job.run}]

\* Under the lock, or into the channel; dslab-dag then counts the run.
Report(job) ==
    /\ job.step = "report"
    /\ experiment' = [Moved(experiment, job, IF experiment.kind = "dag" THEN "count" ELSE "end")
                        EXCEPT !.results = Append(@, job.run)]

CountRun(job) ==
    /\ job.step = "count"
    /\ experiment' = [Moved(experiment, job, "show") EXCEPT !.finished = @ + 1]

ShowProgress(job) ==
    /\ job.step = "show"
    /\ experiment' = [Moved(experiment, job, "end") EXCEPT !.shown = @ \cup {experiment.finished}]

\* The closure is dropped, and with it its share of the results; the thread is free.
EndRun(job) ==
    /\ job.step = "end"
    /\ experiment' = [experiment EXCEPT !.running = @ \ {job}]

\* Owners of the results besides the caller (Arc).
Holders(e) == Cardinality(e.running) + Len(e.queue)

ById(results) == SortedBy({results[k] : k \in DOMAIN results}, LAMBDA a, b : a.id < b.id)

\* sort_by_key; in dslab-dag by (dag, system, scheduler): the names are in the order of the runs.
Collected == IF experiment.kind = "iaas" THEN experiment.results ELSE ById(experiment.results)

\* pool.join, and the results when nobody else holds them.
JoinAndReturn ==
    /\ ~ IsFaas(experiment)
    /\ experiment.at = "waiting"
    /\ experiment.queue = <<>> /\ experiment.running = {}
    /\ experiment' = IF Holders(experiment) > 0 THEN [experiment EXCEPT !.at = "panicked"]
                     ELSE [experiment EXCEPT !.at = "returned", !.answer = Collected]

\* dslab-faas waits for as many results as there are runs, not for the threads.
ReceiveAndReturn ==
    /\ IsFaas(experiment)
    /\ experiment.at = "waiting"
    /\ Len(experiment.results) = experiment.total
    /\ experiment' = [experiment EXCEPT !.at = "returned", !.answer = Collected]

CallerStep == Submit \/ JoinAndReturn \/ ReceiveAndReturn

ThreadStep ==
    \/ TakeRun
    \/ \E job \in experiment.running :
         \/ Simulate(job) \/ SimulationPanics(job) \/ Report(job)
         \/ CountRun(job) \/ ShowProgress(job) \/ EndRun(job)

ExperimentStep == CallerStep \/ ThreadStep
=============================================================================
