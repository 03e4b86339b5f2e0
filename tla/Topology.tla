------------------------------- MODULE Topology -------------------------------
(***************************************************************************)
(* Nodes, links and routes of a network (dslab-network, topology.rs,       *)
(* routing.rs): for each node the links to its neighbours, and the two     *)
(* algorithms that compute the shortest routes by latency.  A table of     *)
(* routes holds for a target and a node the next node on the way there.    *)
(*                                                                         *)
(* Nodes are numbered from 1.                                              *)
(***************************************************************************)
EXTENDS Folding, FiniteSetsExt

NoNode == 0
Infinity == 1000    \* more than the latency of any route of an instance

Link(bandwidth, latency, policy) ==
    [bandwidth |-> bandwidth, latency |-> latency, policy |-> policy]

SharedLink(bandwidth, latency) == Link(bandwidth, latency, "Shared")
NonSharedLink(bandwidth, latency) == Link(bandwidth, latency, "NonShared")

\* nodes: their number.  out: node_links_map, a partial function from pairs of
\* nodes to links; inv_node_links_map holds the same pairs the other way.
NewTopology(nodes) == [nodes |-> nodes, links |-> <<>>, out |-> <<>>]

NodesOf(topology) == 1..topology.nodes

With(f, keys, value) == [k \in keys \cup DOMAIN f |-> IF k \in keys THEN value ELSE f[k]]

\* The new link takes the place of one between the same nodes.
AddLinkInternal(topology, pairs, link) ==
    [topology EXCEPT !.links = Append(@, link),
                     !.out = With(@, pairs, Len(topology.links) + 1)]

AddLink(topology, m, n, link) ==
    AddLinkInternal(topology, {<<m, n>>, <<n, m>>}, link)

AddUnidirectionalLink(topology, m, n, link) ==
    AddLinkInternal(topology, {<<m, n>>}, link)

AddFullDuplexLink(topology, m, n, link) ==
    AddUnidirectionalLink(AddUnidirectionalLink(topology, m, n, link), n, m, link)

\* connection: [from, to, link, form].
Connect(topology, connection) ==
    LET add(op(_, _, _, _)) ==
          op(topology, connection.from, connection.to, connection.link)
    IN CASE connection.form = "bidirectional"  -> add(AddLink)
         [] connection.form = "unidirectional" -> add(AddUnidirectionalLink)
         [] connection.form = "full-duplex"    -> add(AddFullDuplexLink)

\* The topologies of dslab-dag: the last node is that of the master.
Star(nodes, link) ==
    Fold(LAMBDA t, n : AddFullDuplexLink(t, nodes, n, link), NewTopology(nodes),
         InOrder(1..(nodes - 1)))

FullMesh(nodes, link) ==
    Fold(LAMBDA t, p : AddFullDuplexLink(t, p[1], p[2], link), NewTopology(nodes),
         SortedBy({p \in (1..nodes) \X (1..nodes) : p[1] < p[2]},
                  LAMBDA p, q : p[1] < q[1] \/ (p[1] = q[1] /\ p[2] < q[2])))

LatencyOf(topology, m, n) == topology.links[topology.out[<<m, n>>]].latency

-----------------------------------------------------------------------------
(* ShortestPathFloydWarshall *)

\* cost[i][j]: from j to i.  next[i][j]: where to go from j to come to i.
DirectRoutes(topology) ==
    LET N == NodesOf(topology)
    IN [cost |-> [i \in N |-> [j \in N |->
                   IF <<j, i>> \in DOMAIN topology.out THEN LatencyOf(topology, j, i)
                   ELSE IF i = j THEN 0 ELSE Infinity]],
        next |-> [i \in N |-> [j \in N |->
                   IF i = j \/ <<j, i>> \in DOMAIN topology.out THEN i ELSE NoNode]]]

\* From j by way of k to i, if that is shorter.
Relax(t, k, i, j) ==
    IF t.cost[i][k] + t.cost[k][j] >= t.cost[i][j] THEN t
    ELSE [cost |-> [t.cost EXCEPT ![i][j] = t.cost[i][k] + t.cost[k][j]],
          next |-> [t.next EXCEPT ![i][j] = t.next[k][j]]]

FloydWarshall(topology) ==
    LET each(op(_, _), t) == Fold(op, t, InOrder(NodesOf(topology)))
        relaxTo(t, k, i) == each(LAMBDA u, j : Relax(u, k, i, j), t)
        relaxBy(t, k) == each(LAMBDA u, i : relaxTo(u, k, i), t)
    IN each(relaxBy, DirectRoutes(topology)).next

-----------------------------------------------------------------------------
(* ShortestPathDijkstra: the routes to one target. *)

NearestUnvisited(N, s) ==
    CHOOSE n \in N \ s.visited : \A m \in N \ s.visited :
      s.cost[n] < s.cost[m] \/ (s.cost[n] = s.cost[m] /\ n <= m)

\* From the neighbours of the nearest node by way of it, if that is shorter.
VisitNearest(topology, s) ==
    LET N == NodesOf(topology)
        n == NearestUnvisited(N, s)
        shorter == {m \in N : /\ <<m, n>> \in DOMAIN topology.out
                              /\ s.cost[n] + LatencyOf(topology, m, n) < s.cost[m]}
    IN IF s.cost[n] = Infinity THEN s
       ELSE [cost |-> [m \in N |-> IF m \in shorter
                                   THEN s.cost[n] + LatencyOf(topology, m, n) ELSE s.cost[m]],
             next |-> [m \in N |-> IF m \in shorter THEN n ELSE s.next[m]],
             visited |-> s.visited \cup {n}]

DijkstraForNode(topology, target) ==
    LET N == NodesOf(topology)
    IN Fold(LAMBDA s, k : VisitNearest(topology, s),
            [cost |-> [n \in N |-> IF n = target THEN 0 ELSE Infinity],
             next |-> [n \in N |-> NoNode], visited |-> {}],
            InOrder(N)).next

Dijkstra(topology) ==
    [target \in NodesOf(topology) |-> DijkstraForNode(topology, target)]

-----------------------------------------------------------------------------

RoutingTable(algorithm, topology) ==
    IF algorithm = "FloydWarshall" THEN FloydWarshall(topology) ELSE Dijkstra(topology)

\* The nodes on the way, in at most as many steps as there are nodes.
Way(topology, table, src, dst) ==
    Fold(LAMBDA way, k : IF way[Len(way)] \in {dst, NoNode} THEN way
                         ELSE Append(way, table[dst][way[Len(way)]]),
         <<src>>, InOrder(NodesOf(topology)))

\* get_path_iter: the links on the way from src to another node.
PathBetween(topology, table, src, dst) ==
    LET links(way) == [k \in 1..(Len(way) - 1) |-> topology.out[<<way[k], way[k + 1]>>]]
    IN Bind(Way(topology, table, src, dst), links)

HasPath(table, src, dst) == table[dst][src] # NoNode

PathLatency(topology, path) ==
    Fold(LAMBDA sum, l : sum + topology.links[l].latency, 0, path)

-----------------------------------------------------------------------------
(***************************************************************************)
(* The topology-aware network model (dslab-network, topology_aware.rs):    *)
(* the bandwidth of every link is shared among the transfers through it,   *)
(* and computed again when a transfer starts or ends, for all transfers or *)
(* (full-mesh optimization) for those the change can affect.               *)
(*                                                                         *)
(* Sizes are any: which of the current transfers ends next is open after   *)
(* every change.                                                           *)
(***************************************************************************)

\* transfers: [id, path, throughput].  next: next_event_index, the transfer
\* whose end was announced last.  announced: what the pending events name.
NewTopologyAware(topology, algorithm, optimized) ==
    [kind |-> "topology", topology |-> topology, algorithm |-> algorithm,
     table |-> RoutingTable(algorithm, topology), optimized |-> optimized,
     transfers |-> {}, next |-> {}, announced |-> {}]

Through(transfers, l) == {t \in transfers : l \in Range(t.path)}

LinksOf(transfers) == UNION {Range(t.path) : t \in transfers}

-----------------------------------------------------------------------------

\* Mutant: only the transfers that share a link with the updated one itself.
SharingALink(m, t) ==
    {u \in m.transfers : Range(u.path) \cap Range(t.path) # {}}

(* get_affected_transfers: those that share a link with an affected one,   *)
(* but for the ones slower than the updated transfer.                      *)
AffectedTransfers(m, t) ==
    LET reached == {u \in m.transfers : u.throughput >= t.throughput}
        grow(S, k) == S \cup {u \in reached : Range(u.path) \cap LinksOf(S) # {}}
    IN Fold(grow, {t}, InOrder(1..Cardinality(m.transfers)))

\* What a link has left for each of its transfers without a throughput yet.
PathShare(use) == IF use.policy = "Shared" THEN use.left \div use.count ELSE use.left

\* Mutant: what the other transfers keep is not taken from the links.
LinkUsageOfAffected(m, affected) ==
    [l \in LinksOf(affected) |->
       [policy |-> m.topology.links[l].policy,
        count |-> Cardinality(Through(affected, l)),
        left |-> m.topology.links[l].bandwidth]]

(* The use of the affected links; the other transfers keep their           *)
(* throughput, which is taken from a link whatever its policy.             *)
LinkUsage(m, affected) ==
    [l \in LinksOf(affected) |->
       [policy |-> m.topology.links[l].policy,
        count |-> Cardinality(Through(affected, l)),
        left |-> m.topology.links[l].bandwidth
                   - MapThenSumSet(LAMBDA t : t.throughput,
                                   Through(m.transfers \ affected, l))]]

(* The link with the least to give: its transfers get their throughput,    *)
(* which the other links on their paths have less to give.                 *)
Tightest(usage, links) ==
    CHOOSE l \in links : \A k \in links :
      \/ PathShare(usage[l]) < PathShare(usage[k])
      \/ PathShare(usage[l]) = PathShare(usage[k]) /\ l <= k

AssignTightest(s, affected) ==
    LET open == {l \in DOMAIN s.usage : s.usage[l].count > 0}
        l == Tightest(s.usage, open)
        share == Max({PathShare(s.usage[l]), s.last})
        given == {t \in Through(affected, l) : t.id \notin DOMAIN s.throughput}
    IN IF open = {} THEN s
       ELSE [throughput |-> With(s.throughput, {t.id : t \in given}, share),
             last |-> share,
             usage |-> [k \in DOMAIN s.usage |->
                LET gone == Cardinality(Through(given, k))
                IN [s.usage[k] EXCEPT !.count = @ - gone,
                                      !.left = IF s.usage[k].policy = "Shared"
                                               THEN @ - gone * share ELSE @]]]

\* calc: the event announced before is cancelled, when anything is computed.
Calc(m, affected) ==
    LET assigned == Fold(LAMBDA s, k : AssignTightest(s, affected),
                         [throughput |-> <<>>, last |-> 0,
                          usage |-> LinkUsage(m, affected)],
                         InOrder(LinksOf(affected)))
        given(s) == [m EXCEPT !.announced = @ \ m.next,
                              !.transfers = {IF t \in affected
                                             THEN [t EXCEPT !.throughput = s.throughput[t.id]]
                                             ELSE t : t \in @}]
    IN IF affected = {} THEN m ELSE Bind(assigned, given)

CalcAll(m) ==
    IF m.transfers = {} THEN [m EXCEPT !.announced = @ \ m.next]
    ELSE Calc(m, m.transfers)

\* update_next_event: the results, one for each transfer that may end next.
WithNextEvent(m) ==
    IF m.transfers = {} THEN {[m EXCEPT !.next = {}]}
    ELSE {[m EXCEPT !.next = {t.id}, !.announced = @ \cup {t.id}] : t \in m.transfers}

-----------------------------------------------------------------------------

StartOnPath(m, id, src, dst) ==
    LET t == [id |-> id, path |-> PathBetween(m.topology, m.table, src, dst),
              throughput |-> 0]
        started == [m EXCEPT !.transfers = @ \cup {t}]
    IN WithNextEvent(IF m.optimized THEN Calc(started, AffectedTransfers(started, t))
                                    ELSE CalcAll(started))

\* The transfer that ends is the one announced last, whatever the event names.
CompleteAnnounced(m) ==
    LET ended == CHOOSE t \in m.transfers : t.id \in m.next
        rest == [m EXCEPT !.transfers = @ \ {ended}, !.next = {}]
    IN WithNextEvent(IF m.optimized THEN Calc(rest, AffectedTransfers(m, ended) \ {ended})
                                    ELSE CalcAll(rest))

\* Running transfers stay on their paths.
OnTopologyChange(m, topology) ==
    WithNextEvent(CalcAll([m EXCEPT !.topology = topology,
                                    !.table = RoutingTable(m.algorithm, topology)]))
=============================================================================
