----------------------------- MODULE FaasPolicies -----------------------------
(***************************************************************************)
(* The decisions of dslab-faas that a configuration chooses: the scheduler *)
(* (scheduler.rs, extra/hermod.rs) that picks the host of an invocation,   *)
(* the deployer (deployer.rs) that picks the host of a prewarmed container *)
(* and the cold start policy (coldstart.rs, extra/hybrid_histogram.rs).    *)
(***************************************************************************)
EXTENDS FaasHost, FiniteSetsExt

\* The first host of the list that satisfies a condition, or 0.
FirstHost(hosts, cond(_)) ==
    LET fit == {x \in DOMAIN hosts : cond(hosts[x])} IN
    IF fit = {} THEN 0 ELSE Min(fit)

BasicHost(hosts, app) ==
    LET ready == FirstHost(hosts, LAMBDA h : CanInvoke(h, app, TRUE))
        roomy == FirstHost(hosts, LAMBDA h : CanAllocate(h, app))
    IN CASE ready # 0 -> ready
         [] ready = 0 /\ roomy # 0 -> roomy
         [] OTHER -> 1

\* The hosts in the order the locality based policies consider them, from that
\* of the application's hash, with the step of the policy.
Circle(hosts, start, step) ==
    LET n == Len(hosts)
        at(k) == ((start + k * step) % n) + 1
        length == Min({k \in 1..n : at(k) = at(0)})
    IN [k \in 1..length |-> at(k - 1)]

\* The first place of the circle where cond holds, or 0.
FirstOf(circle, hosts, cond(_)) ==
    LET fit == {k \in DOMAIN circle : cond(hosts[circle[k]])} IN
    IF fit = {} THEN 0 ELSE circle[Min(fit)]

LocalityHost(hosts, app, s) ==
    LET circle == Circle(hosts, s.hash[app], s.step)
        warm == IF s.warmOnly
                THEN FirstOf(circle, hosts, LAMBDA h : CanInvoke(h, app, FALSE)) ELSE 0
        roomy == FirstOf(circle, hosts, LAMBDA h : CanAllocate(h, app))
    IN CASE warm # 0 -> warm
         [] warm = 0 /\ roomy # 0 -> roomy
         [] OTHER -> circle[1]

LoadOf(h, s) == IF s.useCount THEN TotalInvocationCount(h) ELSE h.cpu.load

\* select_host of LeastLoadedScheduler: the hosts in turn, the best so far.
\* A smaller load is preferred whatever the token of the host is.
LeastLoadedHost(hosts, app, s) ==
    LET token(h) == IF s.avoidQueueing /\ (CanInvoke(h, app, TRUE) \/ CanAllocate(h, app))
                    THEN 1 ELSE 0
        better(best, h) == best.host = 0 \/ token(h) > best.token \/ LoadOf(h, s) < best.load
        warmer(best, h) ==
            /\ token(h) = best.token /\ LoadOf(h, s) = best.load
            /\ s.preferWarm /\ ~ best.warm /\ CanInvoke(h, app, FALSE)
        consider(best, x) ==
            LET h == hosts[x] IN
            CASE better(best, h) ->
                   [host |-> x, token |-> token(h), load |-> LoadOf(h, s),
                    warm |-> IF s.preferWarm THEN CanInvoke(h, app, FALSE) ELSE best.warm]
              [] ~ better(best, h) /\ warmer(best, h) -> [best EXCEPT !.host = x, !.warm = TRUE]
              [] OTHER -> best
    IN Fold(consider, [host |-> 0, token |-> 0, load |-> 0, warm |-> FALSE],
            [x \in DOMAIN hosts |-> x]).host

\* Hermod: hosts with a free core, those with invocations and warm ones first.
HermodPriority(h, app, s) ==
    LET warm == CanInvoke(h, app, FALSE)
        usable == warm \/ ~ s.avoidQueueing \/ CanAllocate(h, app)
    IN IF LoadOf(h, s) < h.cpu.cores /\ usable
       THEN (IF TotalInvocationCount(h) > 0 THEN 2 ELSE 0) + (IF warm THEN 1 ELSE 0)
       ELSE -1

HermodHost(hosts, app, s) ==
    LET priority == [x \in DOMAIN hosts |-> HermodPriority(hosts[x], app, s)]
        best == Max({priority[x] : x \in DOMAIN hosts})
    IN IF best = -1 THEN LeastLoadedHost(hosts, app, s)
       ELSE Min({x \in DOMAIN hosts : priority[x] = best})

\* The hosts the scheduler may select; turn is the index of RoundRobin.
SelectHost(hosts, app, s, turn) ==
    CASE s.name = "Basic"       -> {BasicHost(hosts, app)}
      [] s.name = "RoundRobin"  -> {(turn % Len(hosts)) + 1}
      [] s.name = "Random"      -> DOMAIN hosts
      [] s.name = "Locality"    -> {LocalityHost(hosts, app, s)}
      [] s.name = "LeastLoaded" -> {LeastLoadedHost(hosts, app, s)}
      [] s.name = "Hermod"      -> {HermodHost(hosts, app, s)}

-----------------------------------------------------------------------------

\* deploy of the deployers: a host with room for the container, or 0.
DeployerHost(hosts, app, d) ==
    CASE d.name = "Basic"    -> FirstHost(hosts, LAMBDA h : CanAllocate(h, app))
      [] d.name = "Locality" -> FirstOf(Circle(hosts, d.hash[app], d.step), hosts,
                                        LAMBDA h : CanAllocate(h, app))

-----------------------------------------------------------------------------

\* A decision on an idle container: prewarm says whether a prewarmed container
\* is to replace it, remember whether the policy notes the end of the window.
Replace == [prewarm |-> TRUE, keep |-> "TerminateNow", remember |-> FALSE]

Keep(what, remember) == [prewarm |-> FALSE, keep |-> what, remember |-> remember]

Window(long, remember) == Keep(IF long THEN "NewWindow" ELSE "TerminateNow", remember)

\* A mutant of NotedWindow: the window is trusted when it is over.
TrustOldWindow(h, c) == {Keep("OldWindow", FALSE)}

\* The window noted for the container: over, or not yet, and then the end event
\* is still to come.
NotedWindow(h, c) ==
    {Keep("TerminateNow", FALSE)} \cup
    (IF BagIn(ContainerEnd(c), h.pending) THEN {Keep("OldWindow", FALSE)} ELSE {})

\* keepalive_decision and prewarm_window of FixedTimeColdStartPolicy.
FixedKeepAlive(h, c, p) ==
    IF ~ p.reset /\ h.containers[c].windowSet
    THEN NotedWindow(h, c)
    ELSE {Window(p.keepalive > 0, ~ p.reset)}

\* HybridHistogramPolicy: what the histograms say is arbitrary.  An uncertain
\* pattern keeps the container for a long window, which is noted; others choose
\* the windows.
HistogramKeepAlive(h, c) ==
    IF h.containers[c].windowSet THEN NotedWindow(h, c)
    ELSE {Window(TRUE, TRUE), Window(TRUE, FALSE), Window(FALSE, FALSE)}

KeepAliveDecisions(h, c, p) ==
    CASE p.name = "Fixed"     -> FixedKeepAlive(h, c, p)
      [] p.name = "Histogram" -> HistogramKeepAlive(h, c)

\* What may be decided when the last invocation of a container has ended.
IdleDecisions(h, c, p) ==
    CASE p.name = "Fixed" /\ p.prewarm > 0  -> {Replace}
      [] p.name = "Fixed" /\ p.prewarm <= 0 -> FixedKeepAlive(h, c, p)
      [] p.name = "Histogram"               -> {Replace} \cup HistogramKeepAlive(h, c)
==============================================================================
