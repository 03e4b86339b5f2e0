-------------------------------- MODULE Network --------------------------------
(***************************************************************************)
(* The network (dslab-network, network.rs): data transfers between nodes,  *)
(* or within one, each by the model of the network or of the node.  A      *)
(* transfer starts after the latency, and its end is announced by an event *)
(* that a model may cancel and send again.                                 *)
(*                                                                         *)
(* The models: the constant one, in which transfers do not disturb each    *)
(* other (constant.rs), the one that shares a bandwidth among all          *)
(* (shared.rs), and TopologyAware.  Latencies and sizes are any: events    *)
(* come in any order, and a transfer that starts may end before or after   *)
(* any other.                                                              *)
(***************************************************************************)
EXTENDS Topology, Sequences

\* The model of the network; node n has the model n.
Outside == 0

\* transfers of the shared model are in the order they will end.
NewConstant == [kind |-> "constant", transfers |-> {}, announced |-> {}]
NewShared == [kind |-> "shared", transfers |-> <<>>, next |-> {}, announced |-> {}]

\* flows: transfers under way, with the component to notify; starting: those of them whose latency is not over;
\* arrived: DataTransferCompleted on its way to who asked to be notified.
NewNetwork(model, locals) ==
    [models |-> [n \in {Outside} \cup DOMAIN locals |->
                   IF n = Outside THEN model ELSE locals[n]],
     flows |-> {}, starting |-> {}, arrived |-> {}, nextId |-> 1]

\* NetworkConfig of dslab-dag, for the resources and, the last node, the runner.
MakeModel(config, nodes, link) ==
    CASE config = "ConstantBandwidth" -> NewConstant
      [] config = "SharedBandwidth" -> NewShared
      [] config = "Star" -> NewTopologyAware(Star(nodes, link), "FloydWarshall", FALSE)
      [] config = "FullMesh" -> NewTopologyAware(FullMesh(nodes, link), "FloydWarshall", FALSE)

InitNetwork(config, nodes, link) ==
    NewNetwork(MakeModel(config, nodes, link), [n \in 1..nodes |-> NewConstant])

FlowOf(net, id) == CHOOSE f \in net.flows : f.id = id

ModelFor(f) == IF f.src = f.dst THEN f.src ELSE Outside

Reachable(net, src, dst) ==
    (src # dst /\ net.models[Outside].kind = "topology") =>
      HasPath(net.models[Outside].table, src, dst)

\* transfer_data; the caller gets nextId.
TransferData(net, src, dst, notify) ==
    [net EXCEPT !.flows = @ \cup {[id |-> net.nextId, src |-> src, dst |-> dst,
                                   notify |-> notify]},
                !.starting = @ \cup {net.nextId},
                !.nextId = @ + 1]

-----------------------------------------------------------------------------

StartConstant(m, id) ==
    [m EXCEPT !.transfers = @ \cup {id}, !.announced = @ \cup {id}]

CompleteConstant(m, id) ==
    [m EXCEPT !.transfers = @ \ {id}, !.announced = @ \ {id}]

\* The end of the transfer that ends first.
AnnounceFirst(m) ==
    IF m.transfers = <<>> THEN m
    ELSE [m EXCEPT !.next = {Head(m.transfers)}, !.announced = @ \cup {Head(m.transfers)}]

InsertedAt(s, k, e) == SubSeq(s, 1, k - 1) \o <<e>> \o SubSeq(s, k, Len(s))

StartShared(m, id) ==
    {AnnounceFirst([m EXCEPT !.transfers = InsertedAt(@, k, id),
                             !.announced = @ \ m.next]) :
       k \in 1..(Len(m.transfers) + 1)}

\* Mutant: the end of the next transfer is not announced.
CompleteSharedQuietly(m, id) ==
    [m EXCEPT !.transfers = Tail(@), !.next = {}, !.announced = @ \ {id}]

\* The transfer removed is the first of the model, whatever the event names.
CompleteShared(m, id) ==
    AnnounceFirst([m EXCEPT !.transfers = Tail(@), !.announced = @ \ {id}])

\* start_transfer: the results.
StartTransfer(m, f) ==
    CASE m.kind = "constant" -> {StartConstant(m, f.id)}
      [] m.kind = "shared"   -> StartShared(m, f.id)
      [] m.kind = "topology" -> StartOnPath(m, f.id, f.src, f.dst)

\* on_transfer_completion: the results.
CompleteTransfer(m, f) ==
    CASE m.kind = "constant" -> {CompleteConstant(m, f.id)}
      [] m.kind = "shared"   -> {CompleteShared(m, f.id)}
      [] m.kind = "topology" -> CompleteAnnounced([m EXCEPT !.announced = @ \ {f.id}])

-----------------------------------------------------------------------------
(* The handlers of Network, as the sets of their results. *)

OnStartDataTransfer(net, id) ==
    LET f == FlowOf(net, id)
    IN {[net EXCEPT !.starting = @ \ {id}, !.models[ModelFor(f)] = m] :
          m \in StartTransfer(net.models[ModelFor(f)], f)}

OnTransferEnded(net, id) ==
    LET f == FlowOf(net, id)
    IN {[net EXCEPT !.flows = @ \ {f}, !.models[ModelFor(f)] = m,
                    !.arrived = @ \cup {f}] :
          m \in CompleteTransfer(net.models[ModelFor(f)], f)}

Announced(net) == UNION {net.models[n].announced : n \in DOMAIN net.models}

NetworkResults(net) ==
    UNION {OnStartDataTransfer(net, id) : id \in net.starting}
      \cup UNION {OnTransferEnded(net, id) : id \in Announced(net)}

\* add_link, add_unidirectional_link, add_full_duplex_link, after init_topology.
AddLinkToNetwork(net, connection) ==
    LET model == net.models[Outside]
    IN {[net EXCEPT !.models[Outside] = r] :
          r \in OnTopologyChange(model, Connect(model.topology, connection))}

-----------------------------------------------------------------------------
(* Clients and servers on the nodes (examples/network-topology): a server  *)
(* answers the data that it gets with a transfer back, a client does not.  *)
(* Links may be added while transfers run.                                 *)

VARIABLES
    network,
    toSend,         \* transfers the clients still start: [from, to, notify]
    toAdd           \* bound: links still to add, in order: [from, to, link, form]

clientVars == <<toSend, toAdd>>

SendData(d) ==
    /\ Reachable(network, d.from, d.to)
    /\ d.notify = "Server" => Reachable(network, d.to, d.from)
    /\ network' = TransferData(network, d.from, d.to, d.notify)
    /\ toSend' = toSend \ {d}
    /\ UNCHANGED toAdd

OnDataReceived(f) ==
    /\ f \in network.arrived
    /\ \E rest \in {[network EXCEPT !.arrived = @ \ {f}]} :
         network' = IF f.notify = "Server" THEN TransferData(rest, f.dst, f.src, "Client")
                                           ELSE rest
    /\ UNCHANGED clientVars

AddNextLink ==
    /\ toAdd # <<>>
    /\ network' \in AddLinkToNetwork(network, Head(toAdd))
    /\ toAdd' = Tail(toAdd)
    /\ UNCHANGED toSend

NetworkDelivers ==
    /\ network' \in NetworkResults(network)
    /\ UNCHANGED clientVars

ClientStep == (\E d \in toSend : SendData(d)) \/ AddNextLink

ReceiverStep == \E f \in network.arrived : OnDataReceived(f)
=============================================================================
