------------------------------ MODULE Streams ------------------------------
(***************************************************************************)
(* The registry of connected Envoys that the xDS server keeps: Callbacks is*)
(* told of streams and requests, and writes what it learns into Registry,  *)
(* which /debug/connected-clients lists.                                   *)
(*                                                                         *)
(* The server of go-control-plane (external) is two servers, one for       *)
(* state-of-the-world and one for delta streams.  Each numbers its streams *)
(* 1, 2, ... by itself, calls the callbacks of one stream one after the    *)
(* other, and of several streams concurrently.  The registry has one key   *)
(* space for both, and its lock is held for the whole of Set, Update,      *)
(* Delete and List, so that each callback writes it in one step.           *)
(***************************************************************************)
EXTENDS Naturals, Functions, Absent

CONSTANTS
    NodeId,     \* node ids
    MaxStreams  \* bound on the streams of one protocol

Protocol == {"sotw", "delta"}

Other(p) == IF p = "sotw" THEN "delta" ELSE "sotw"

VARIABLES
    count,      \* streams opened so far, by protocol
    node,       \* the open streams, <<protocol, id>>, and the node of the last
                \* request of each
    registry    \* the registry: Info by id

streamsVars == <<count, node, registry>>

Streams == Protocol \X (1..MaxStreams)

Info(n, address) == [node |-> n, address |-> address]

Put(f, k, v) == [x \in DOMAIN f \cup {k} |-> IF x = k THEN v ELSE f[x]]

Drop(f, k) == Restrict(f, DOMAIN f \ {k})

-----------------------------------------------------------------------------
SetEntry(id, info) == registry' = Put(registry, id, info)

(* What the stream was opened with stays.                                  *)
Update(id, info) ==
    registry' = IF id \in DOMAIN registry
                THEN [registry EXCEPT ![id].node = info.node]
                ELSE Put(registry, id, info)

(* Faulty variant: only what a request has filled in is deleted.           *)
DeleteNamed(id) ==
    registry' = IF id \in DOMAIN registry /\ registry[id].node # NONE
                THEN Drop(registry, id) ELSE registry

Delete(id) == registry' = Drop(registry, id)

List == {[id |-> i, node |-> registry[i].node, address |-> registry[i].address] : i \in DOMAIN registry}

-----------------------------------------------------------------------------
Open(p) ==
    /\ count[p] < MaxStreams
    /\ count' = [count EXCEPT ![p] = @ + 1]
    /\ node' = Put(node, <<p, count[p] + 1>>, NONE)

OnStreamOpen == Open("sotw") /\ UNCHANGED registry

OnDeltaStreamOpen ==
    /\ Open("delta")
    /\ SetEntry(count["delta"] + 1, Info(NONE, <<"delta", count["delta"] + 1>>))

(* The node of a stream does not change: the server keeps that of its first*)
(* request.                                                                *)
Request(p, id, n) ==
    /\ <<p, id>> \in DOMAIN node
    /\ node[<<p, id>>] \in {NONE, n}
    /\ node' = [node EXCEPT ![<<p, id>>] = n]
    /\ UNCHANGED count

OnStreamRequest(id, n) == Request("sotw", id, n) /\ Update(id, Info(n, NONE))

OnStreamDeltaRequest(id, n) == Request("delta", id, n) /\ Update(id, Info(n, NONE))

Close(p, id) ==
    /\ <<p, id>> \in DOMAIN node
    /\ node' = Drop(node, <<p, id>>)
    /\ UNCHANGED count

OnStreamClosed(id) == Close("sotw", id) /\ Delete(id)

OnDeltaStreamClosed(id) == Close("delta", id) /\ Delete(id)

NewRegistry == registry = [i \in {} |-> NONE]

StreamsInit ==
    /\ count = [p \in Protocol |-> 0]
    /\ node = [s \in {} |-> NONE]
    /\ NewRegistry

StreamsNext ==
    \/ OnStreamOpen
    \/ OnDeltaStreamOpen
    \/ \E id \in 1..MaxStreams :
          \/ \E n \in NodeId : OnStreamRequest(id, n) \/ OnStreamDeltaRequest(id, n)
          \/ OnStreamClosed(id)
          \/ OnDeltaStreamClosed(id)

StreamsSpec == StreamsInit /\ [][StreamsNext]_streamsVars

-----------------------------------------------------------------------------
(* Delete on every close: no client is listed whose stream is closed,      *)
(* although a stream of the other protocol may have written the entry.     *)
NoGhosts == \A c \in List : \E p \in Protocol : <<p, c.id>> \in DOMAIN node

(* Set and Update: as long as no stream of the other protocol has taken its*)
(* number, a delta stream is listed from its opening on with its address,  *)
(* any stream from its first request on, and both with the node of their   *)
(* own requests.                                                           *)
ListedAsConnected ==
    \A s \in DOMAIN node :
        s[2] > count[Other(s[1])] /\ (s[1] = "delta" \/ node[s] # NONE) =>
            [id      |-> s[2],
             node    |-> node[s],
             address |-> IF s[1] = "delta" THEN s ELSE NONE] \in List

(* Callbacks and Registry together: what /debug/connected-clients lists    *)
(* are open streams, each as it connected.                                 *)
RegistryFollowsStreams == NoGhosts /\ ListedAsConnected

=============================================================================
